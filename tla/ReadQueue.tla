------------------------------ MODULE ReadQueue ------------------------------
(***************************************************************************)
(* What the read buffer of the SDRAM controller promises: the words leave  *)
(* in the order in which they came, none is lost unless the buffer is      *)
(* cleared, and at most Capacity wait.                                     *)
(***************************************************************************)
EXTENDS Naturals, Sequences

CONSTANTS Items, Capacity

VARIABLES
    waiting,    \* the words in the buffer, oldest first
    shown       \* the word at the output

rqVars == <<waiting, shown>>

\* The output follows the oldest word, one clock later.
Show == waiting # <<>> => shown' = Head(waiting)

RqInit == waiting = <<>> /\ shown \in Items

Hold == waiting' = waiting
Put  == Len(waiting) < Capacity /\ \E item \in Items : waiting' = Append(waiting, item)
Take == waiting # <<>> /\ waiting' = Tail(waiting)
Pass ==
    /\ waiting # <<>> /\ Len(waiting) < Capacity
    /\ \E item \in Items : waiting' = Append(Tail(waiting), item)
Drop == waiting' = <<>>

RqNext == Show /\ (Hold \/ Put \/ Take \/ Pass \/ Drop)

RqSpec == RqInit /\ [][RqNext]_rqVars
=============================================================================
