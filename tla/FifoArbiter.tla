---------------------------- MODULE FifoArbiter ----------------------------
(***************************************************************************)
(* What the bus arbiter promises its masters: requests are served in the   *)
(* order in which they were accepted, one master at a time, nobody is in   *)
(* the queue twice, and no request leaves the queue before its master has  *)
(* been given the bus.                                                     *)
(***************************************************************************)
EXTENDS Naturals, Sequences

CONSTANT Masters

VARIABLES
    queue,    \* the accepted requests, oldest first
    holder,   \* {} or the singleton of the master that has the bus
    grants    \* the grant pulse

fifoVars == <<queue, holder, grants>>

Waiting == {queue[i] : i \in 1 .. Len(queue)}

\* In one clock the arbiter may also accept one request that is not waiting.
Accept(rest) ==
    \/ queue' = rest
    \/ \E m \in Masters \ Waiting : queue' = Append(rest, m)

FifoInit == queue = <<>> /\ holder = {} /\ grants = {}

\* Nobody gets or loses the bus.
Stay == Accept(queue) /\ grants' = {} /\ UNCHANGED holder

\* The oldest request gets the bus.
Give ==
    /\ queue # <<>> /\ holder = {}
    /\ holder' = {Head(queue)} /\ grants' = {Head(queue)}
    /\ Accept(queue)

\* The holder is done, or never began: its request leaves the queue.
Finish ==
    /\ queue # <<>> /\ holder = {Head(queue)}
    /\ holder' = {} /\ grants' = {}
    /\ Accept(Tail(queue))

\* The holder loses the bus after an error; its request is not removed.
Abort ==
    /\ holder # {} /\ holder' = {} /\ grants' = {}
    /\ Accept(queue)

Restart == queue' = <<>> /\ holder' = {} /\ grants' = {}

FifoNext == Stay \/ Give \/ Finish \/ Abort \/ Restart

FifoSpec == FifoInit /\ [][FifoNext]_fifoVars
=============================================================================
