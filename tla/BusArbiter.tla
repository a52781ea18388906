----------------------------- MODULE BusArbiter -----------------------------
(***************************************************************************)
(* The arbiter of the system bus (modules/bus_arbiter/verilog/busArbiter.v *)
(* and queueMemory.v), one step per clock edge.                            *)
(*                                                                         *)
(* Request lines that are not yet queued are written one per clock into a  *)
(* circular memory, highest index first; the state machine serves the     *)
(* memory from its other end.  A mask of 32 lines is the set of its lines. *)
(* The memory answers a read one clock late (grantMask).                   *)
(***************************************************************************)
EXTENDS Integers, FiniteSets

CONSTANTS
    N,             \* request lines, and entries of the queue (32 in the code)
    Timeout,       \* clocks until s_timeOutReg[15] falls (32768 in the code)
    PowerUpMasks   \* the words the queue memory may hold before it is written

Masters == 0 .. N - 1
Slots   == 0 .. N - 1

ASSUME NAssumption       == N \in Nat \ {0}
ASSUME TimeoutAssumption == Timeout \in Nat \ {0}
ASSUME PowerUpAssumption == PowerUpMasks \subseteq SUBSET Masters

States == {"IDLE", "GRANT", "WAIT_BEGIN", "SERVICING", "INIT_BUS_ERROR",
           "BUS_ERROR", "END_TRANSACTION", "REMOVE"}

VARIABLES
    state,              \* s_stateReg
    removePointer,      \* s_queueRemovePointerReg
    insertPointer,      \* s_queueInsertPointerReg
    queuedRequests,     \* s_queuedRequests: the masters that have an entry
    memory,             \* queueMemory.s_memory
    grantMask,          \* queueMemory.dataReadPort
    activeTransaction,  \* s_activeTransactionReg
    timeOut,            \* s_timeOutReg, counted from Timeout down to 0
    busGrants,          \* output: the grant pulse
    busErrorOut,        \* output
    endTransactionOut,  \* output
    busIdle             \* output

queueVars == <<removePointer, insertPointer, queuedRequests, memory, grantMask>>
vars == <<state, activeTransaction, timeOut, busGrants, busErrorOut,
          endTransactionOut, busIdle, queueVars>>

-----------------------------------------------------------------------------
(* The request queue. *)

\* Mutant: the pointers do not wrap.
IncrementUnbounded(pointer) == pointer + 1

Increment(pointer) == IF pointer = N - 1 THEN 0 ELSE pointer + 1

Outstanding(requests) == requests \ queuedRequests

\* The priority encoder: the outstanding line with the highest index.
ToBeQueued(outstanding) ==
    {m \in outstanding : \A k \in outstanding : k <= m}

\* The write port of the queue memory, which reset does not disable.
WriteEntry(requests) ==
    /\ memory' = IF Outstanding(requests) = {}
                 THEN memory
                 ELSE [memory EXCEPT ![insertPointer] =
                           ToBeQueued(Outstanding(requests))]
    /\ grantMask' = memory[removePointer]

\* Queue at most one request; `removed' is the mask REMOVE takes out.
Enqueue(requests, removed) ==
    /\ WriteEntry(requests)
    /\ queuedRequests' =
           (queuedRequests \cup ToBeQueued(Outstanding(requests))) \ removed
    /\ insertPointer' = IF Outstanding(requests) = {}
                        THEN insertPointer ELSE Increment(insertPointer)

QueueKeeps(requests) ==
    /\ Enqueue(requests, {})
    /\ UNCHANGED removePointer

QueueRemoves(requests) ==
    /\ Enqueue(requests, grantMask)
    /\ removePointer' = Increment(removePointer)

-----------------------------------------------------------------------------
(* The state machine. *)

Expired == timeOut = 0

CountDown == timeOut' = IF Expired THEN timeOut ELSE timeOut - 1
Reload    == timeOut' = Timeout

\* Outputs that are registered from the present state.
RegisteredOutputs(end) ==
    /\ busErrorOut' = (~end /\ state \in {"INIT_BUS_ERROR", "BUS_ERROR"})
    /\ endTransactionOut' = (state = "END_TRANSACTION")
    /\ busIdle' = ~activeTransaction

NoGrant == busGrants' = {}

Idle(requests, begin, end) ==
    /\ state = "IDLE"
    /\ state' = IF begin THEN "INIT_BUS_ERROR"
                ELSE IF queuedRequests # {} THEN "GRANT" ELSE "IDLE"
    /\ activeTransaction' = FALSE
    /\ CountDown /\ NoGrant
    /\ QueueKeeps(requests) /\ RegisteredOutputs(end)

\* Mutant: the granted master gets what is left of the last time-out.
GrantNoReload(requests, begin, end) ==
    /\ state = "GRANT"
    /\ state' = IF begin THEN "INIT_BUS_ERROR" ELSE "WAIT_BEGIN"
    /\ busGrants' = IF begin THEN {} ELSE grantMask
    /\ CountDown
    /\ UNCHANGED activeTransaction
    /\ QueueKeeps(requests) /\ RegisteredOutputs(end)

Grant(requests, begin, end) ==
    /\ state = "GRANT"
    /\ state' = IF begin THEN "INIT_BUS_ERROR" ELSE "WAIT_BEGIN"
    /\ busGrants' = IF begin THEN {} ELSE grantMask
    /\ Reload
    /\ UNCHANGED activeTransaction
    /\ QueueKeeps(requests) /\ RegisteredOutputs(end)

\* Mutant: a master that did not begin is granted again.
WaitBeginRetries(requests, begin, end) ==
    /\ state = "WAIT_BEGIN"
    /\ state' = IF begin THEN "SERVICING" ELSE IF Expired THEN "GRANT" ELSE "WAIT_BEGIN"
    /\ activeTransaction' = (activeTransaction \/ begin)
    /\ IF begin THEN Reload ELSE CountDown
    /\ NoGrant
    /\ QueueKeeps(requests) /\ RegisteredOutputs(end)

WaitBegin(requests, begin, end) ==
    /\ state = "WAIT_BEGIN"
    /\ \/ /\ begin
          /\ state' = "SERVICING"
          /\ activeTransaction' = TRUE
          /\ Reload
       \/ /\ ~begin
          /\ state' = IF Expired THEN "REMOVE" ELSE "WAIT_BEGIN"
          /\ UNCHANGED activeTransaction
          /\ CountDown
    /\ NoGrant
    /\ QueueKeeps(requests) /\ RegisteredOutputs(end)

\* Mutant: a slave that does not answer is waited for.
ServicingPatient(requests, begin, end, dataValid) ==
    /\ state = "SERVICING"
    /\ state' = IF begin THEN "INIT_BUS_ERROR" ELSE IF end THEN "REMOVE" ELSE "SERVICING"
    /\ activeTransaction' = (activeTransaction /\ ~end)
    /\ IF dataValid THEN Reload ELSE CountDown
    /\ NoGrant
    /\ QueueKeeps(requests) /\ RegisteredOutputs(end)

Servicing(requests, begin, end, dataValid) ==
    /\ state = "SERVICING"
    /\ state' = IF begin \/ Expired THEN "INIT_BUS_ERROR"
                ELSE IF end THEN "REMOVE" ELSE "SERVICING"
    /\ activeTransaction' = (activeTransaction /\ ~end)
    /\ IF dataValid THEN Reload ELSE CountDown
    /\ NoGrant
    /\ QueueKeeps(requests) /\ RegisteredOutputs(end)

InitBusError(requests, end) ==
    /\ state = "INIT_BUS_ERROR"
    /\ state' = IF end THEN "IDLE" ELSE "BUS_ERROR"
    /\ Reload /\ NoGrant
    /\ UNCHANGED activeTransaction
    /\ QueueKeeps(requests) /\ RegisteredOutputs(end)

\* Mutant: an entry is removed even if its master did not have the bus.
BusErrorAlwaysRemoves(requests, end) ==
    /\ state = "BUS_ERROR"
    /\ state' = IF Expired THEN "END_TRANSACTION" ELSE IF end THEN "REMOVE" ELSE "BUS_ERROR"
    /\ CountDown /\ NoGrant
    /\ UNCHANGED activeTransaction
    /\ QueueKeeps(requests) /\ RegisteredOutputs(end)

BusError(requests, end) ==
    /\ state = "BUS_ERROR"
    /\ \/ Expired /\ state' = "END_TRANSACTION"
       \/ ~Expired /\ end /\ state' = IF activeTransaction THEN "REMOVE" ELSE "IDLE"
       \/ ~Expired /\ ~end /\ state' = "BUS_ERROR"
    /\ CountDown /\ NoGrant
    /\ UNCHANGED activeTransaction
    /\ QueueKeeps(requests) /\ RegisteredOutputs(end)

\* The default branch of the case: the entry of the failed master stays queued.
EndTransaction(requests, end) ==
    /\ state = "END_TRANSACTION"
    /\ state' = "IDLE"
    /\ CountDown /\ NoGrant
    /\ UNCHANGED activeTransaction
    /\ QueueKeeps(requests) /\ RegisteredOutputs(end)

\* Mutant: the next grant follows the removal at once.
RemoveThenGrant(requests, end) ==
    /\ state = "REMOVE"
    /\ state' = IF queuedRequests = {} THEN "IDLE" ELSE "GRANT"
    /\ CountDown /\ NoGrant
    /\ UNCHANGED activeTransaction
    /\ QueueRemoves(requests) /\ RegisteredOutputs(end)

Remove(requests, end) ==
    /\ state = "REMOVE"
    /\ state' = "IDLE"
    /\ CountDown /\ NoGrant
    /\ UNCHANGED activeTransaction
    /\ QueueRemoves(requests) /\ RegisteredOutputs(end)

\* A clock edge with reset high: all registers but the memory and its output.
Reset(requests) ==
    /\ state' = "IDLE"
    /\ removePointer' = 0 /\ insertPointer' = 0
    /\ queuedRequests' = {}
    /\ WriteEntry(requests)
    /\ activeTransaction' = FALSE
    /\ Reload /\ NoGrant
    /\ busErrorOut' = FALSE /\ endTransactionOut' = FALSE /\ busIdle' = TRUE

\* One clock edge, given the wires of the bus.
Clock(requests, begin, end, dataValid) ==
    \/ Idle(requests, begin, end)
    \/ Grant(requests, begin, end)
    \/ WaitBegin(requests, begin, end)
    \/ Servicing(requests, begin, end, dataValid)
    \/ InitBusError(requests, end)
    \/ BusError(requests, end)
    \/ EndTransaction(requests, end)
    \/ Remove(requests, end)

\* The state after power-up and the first edge with reset high.
Init ==
    /\ state = "IDLE"
    /\ removePointer = 0 /\ insertPointer = 0
    /\ queuedRequests = {}
    /\ memory \in [Slots -> PowerUpMasks]
    /\ grantMask \in PowerUpMasks
    /\ activeTransaction = FALSE
    /\ timeOut = Timeout
    /\ busGrants = {}
    /\ busErrorOut = FALSE /\ endTransactionOut = FALSE /\ busIdle = TRUE

\* Whatever the wires do.
Next ==
    \E requests \in SUBSET Masters, begin, end, dataValid \in BOOLEAN :
        Clock(requests, begin, end, dataValid) \/ Reset(requests)

Spec == Init /\ [][Next]_vars

-----------------------------------------------------------------------------
(* Correctness. *)

TypeOK ==
    /\ state \in States
    /\ removePointer \in Slots /\ insertPointer \in Slots
    /\ queuedRequests \in SUBSET Masters
    /\ memory \in [Slots -> SUBSET Masters]
    /\ grantMask \in SUBSET Masters
    /\ activeTransaction \in BOOLEAN
    /\ timeOut \in 0 .. Timeout
    /\ busGrants \in SUBSET Masters
    /\ busErrorOut \in BOOLEAN /\ endTransactionOut \in BOOLEAN /\ busIdle \in BOOLEAN

\* The slots from the remove pointer up to the insert pointer; when the two
\* pointers meet, the queue is empty or full.
Occupied ==
    IF removePointer = insertPointer
    THEN IF queuedRequests = {} THEN {} ELSE Slots
    ELSE {i \in Slots :
             IF removePointer < insertPointer
             THEN removePointer <= i /\ i < insertPointer
             ELSE removePointer <= i \/ i < insertPointer}

\* The entries between the pointers are exactly the queued requests, each of
\* them once: the circular memory never overflows, and neither a stale word
\* left by a reset nor a write that meets a removal confuses the queue.
QueueConsistent ==
    /\ \A i \in Occupied : \E m \in queuedRequests : memory[i] = {m}
    /\ \A m \in queuedRequests : \E i \in Occupied : memory[i] = {m}
    /\ \A i, j \in Occupied : memory[i] = memory[j] => i = j

\* The master at the head of the queue has been given the bus and has not
\* lost it again.
Tenured ==
    \/ state \in {"WAIT_BEGIN", "SERVICING", "REMOVE"}
    \/ state \in {"INIT_BUS_ERROR", "BUS_ERROR"} /\ activeTransaction

\* A grant pulse goes to exactly one master, the oldest one that is queued,
\* although the mask it comes from was read one clock before.
GrantsOldest ==
    busGrants # {} =>
        /\ removePointer \in Occupied
        /\ busGrants = memory[removePointer]

\* While a master has or gets the bus, its entry is still queued and the
\* registered read port shows it.
ServesHead ==
    state = "GRANT" \/ Tenured =>
        queuedRequests # {} /\ grantMask = memory[removePointer]

\* The queue of the arbiter is in order, through resets, removals and new
\* requests in the same clock: its entries are the queued requests, grants go to
\* the oldest one, and the registered read port shows it as long as it has the
\* bus.  The invariant is inductive.
IInv == TypeOK /\ QueueConsistent /\ ServesHead /\ GrantsOldest

\* The arbiter comes back to IDLE over and over, whatever the masters and
\* slaves do (begin without end, no begin, no data), except in a transaction
\* in which data keeps arriving before the time-out.
NeverStuck ==
    []<>(state = "IDLE") \/ []<>(state = "SERVICING" /\ timeOut = Timeout)

FairSpec == Spec /\ WF_vars(Next)
=============================================================================
