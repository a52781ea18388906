------------------------------ MODULE SdramFifo ------------------------------
(***************************************************************************)
(* The read buffer of the SDRAM controller (sdramFifo.v), at the level of  *)
(* its registers: a dual-port memory, two pointers and two flags.          *)
(***************************************************************************)
EXTENDS Integers, Sequences

CONSTANTS
    Words,      \* what the buffer holds
    Depth       \* its number of entries (512 in the code)

ASSUME DepthAssumption == Depth \in Nat \ {0, 1}

VARIABLES
    rfPush,     \* s_readPushAddressReg
    rfPop,      \* s_readPopAddressReg
    rfFull,     \* s_readFullReg
    rfEmpty,    \* s_readEmptyReg
    rfMemory,   \* the memory
    rfOut       \* readDataOut

rfVars == <<rfPush, rfPop, rfFull, rfEmpty, rfMemory, rfOut>>

Entries == 0 .. Depth - 1

RfTypeOK ==
    /\ rfPush \in Entries /\ rfPop \in Entries
    /\ rfFull \in BOOLEAN /\ rfEmpty \in BOOLEAN
    /\ rfMemory \in [Entries -> Words] /\ rfOut \in Words

RfAfter(pointer) == IF pointer = Depth - 1 THEN 0 ELSE pointer + 1

\* Mutant: a full buffer takes words.
RfDoPushFull(push) == push

RfDoPush(push) == push /\ ~rfFull
RfDoPop(pop)   == pop /\ ~rfEmpty

RfFlags(clear, push, pop) ==
    LET in == RfDoPush(push)  out == RfDoPop(pop) IN
    /\ rfEmpty' = IF clear \/ (~in /\ out /\ RfAfter(rfPop) = rfPush) THEN TRUE
                  ELSE IF in /\ ~out THEN FALSE ELSE rfEmpty
    /\ rfFull' = IF clear \/ (~in /\ out) THEN FALSE
                 ELSE IF in /\ ~out /\ RfAfter(rfPush) = rfPop THEN TRUE ELSE rfFull

RfPointers(clear, push, pop) ==
    /\ rfPush' = IF clear THEN 0 ELSE IF RfDoPush(push) THEN RfAfter(rfPush) ELSE rfPush
    /\ rfPop'  = IF clear THEN 0 ELSE IF RfDoPop(pop) THEN RfAfter(rfPop) ELSE rfPop

\* The memory is read between two clocks, after the write of the last one.
RfData(push, word) ==
    /\ rfMemory' = IF RfDoPush(push) THEN [rfMemory EXCEPT ![rfPush] = word] ELSE rfMemory
    /\ rfOut' = rfMemory[rfPop]

RfClock(clear, push, pop, word) ==
    RfFlags(clear, push, pop) /\ RfPointers(clear, push, pop) /\ RfData(push, word)

\* After reset; the memory and its output hold anything.
RfInit ==
    /\ rfPush = 0 /\ rfPop = 0 /\ rfFull = FALSE /\ rfEmpty = TRUE
    /\ rfMemory \in [Entries -> Words] /\ rfOut \in Words

\* Any use of it; the reset is the clear.
RfNext ==
    \E clear, push, pop \in BOOLEAN, word \in Words : RfClock(clear, push, pop, word)

RfSpec == RfInit /\ [][RfNext]_rfVars

-----------------------------------------------------------------------------
(* Correctness.                                                            *)

\* The number of words between the pointers, and the n-th of them.
RfCount == IF rfFull THEN Depth
           ELSE IF rfPush >= rfPop THEN rfPush - rfPop ELSE rfPush - rfPop + Depth
RfSlot(n) == IF rfPop + n - 1 >= Depth THEN rfPop + n - 1 - Depth ELSE rfPop + n - 1
RfContents == [n \in 1 .. RfCount |-> rfMemory[RfSlot(n)]]

\* The flags tell the truth about the pointers: equal pointers mean full or
\* empty, never both.
FlagsAgree == (rfPush = rfPop <=> rfFull \/ rfEmpty) /\ ~(rfFull /\ rfEmpty)

\* The registers implement the bounded queue: no word is lost, doubled or
\* overtaken when pushes and pops meet at the empty and the full buffer.
RQ == INSTANCE ReadQueue WITH Items <- Words, Capacity <- Depth,
                              waiting <- RfContents, shown <- rfOut
ImplementsQueue == RQ!RqSpec
=============================================================================
