------------------------------ MODULE Barrier ------------------------------
(***************************************************************************)
(* The barrier of the multi-core programs (barriers.c, barriers.h): each   *)
(* processor has one bit, toggles it when it arrives, and waits until the  *)
(* bits of all are the same as its own.                                    *)
(***************************************************************************)
EXTENDS Integers

CONSTANTS
    Cores,          \* the processors that have a bit in SPR 0x5002
    MaxRounds       \* bound: how often each passes the barrier

ASSUME RoundsAssumption == MaxRounds \in Nat

VARIABLES
    brBit,      \* bits 15..8 of SPR 0x5002, one per processor
    brAt,       \* "program", "mask" or "wait"
    brMask,     \* the bit the waiting processor compares with
    brArrived,  \* history: how often each has entered the barrier
    brPatient   \* do the programs enter again only after all have left?

brVars == <<brBit, brAt, brMask, brArrived, brPatient>>

BrTypeOK ==
    /\ brBit \in [Cores -> {0, 1}]
    /\ brAt \in [Cores -> {"program", "mask", "wait"}]
    /\ brMask \in [Cores -> {0, 1}]
    /\ brArrived \in [Cores -> 0 .. MaxRounds]
    /\ brPatient \in BOOLEAN

BrInit ==
    /\ brBit = [c \in Cores |-> 0]
    /\ brAt = [c \in Cores |-> "program"]
    /\ brMask = [c \in Cores |-> 0]
    /\ brArrived = [c \in Cores |-> 0]
    /\ brPatient \in BOOLEAN

\* toggle_barrier(); only the processor itself writes its bit.
BrEnter(c) ==
    /\ brAt[c] = "program" /\ brArrived[c] < MaxRounds
    /\ brPatient => \A d \in Cores : brAt[d] # "program" => brArrived[d] > brArrived[c]
    /\ brBit' = [brBit EXCEPT ![c] = 1 - @]
    /\ brAt' = [brAt EXCEPT ![c] = "mask"]
    /\ brArrived' = [brArrived EXCEPT ![c] = @ + 1]
    /\ UNCHANGED <<brMask, brPatient>>

\* Mutant: the mask is what the bit was before.
BrReadMaskBefore(c) ==
    /\ brAt[c] = "mask"
    /\ brMask' = [brMask EXCEPT ![c] = 1 - brBit[c]]
    /\ brAt' = [brAt EXCEPT ![c] = "wait"]
    /\ UNCHANGED <<brBit, brArrived, brPatient>>

\* mask = SPR_READ(0x5002) & 1, the bit just toggled.
BrReadMask(c) ==
    /\ brAt[c] = "mask"
    /\ brMask' = [brMask EXCEPT ![c] = brBit[c]]
    /\ brAt' = [brAt EXCEPT ![c] = "wait"]
    /\ UNCHANGED <<brBit, brArrived, brPatient>>

\* Mutant: one other bit is enough.
AllAsMineOne(c) == \E d \in Cores \ {c} : brBit[d] = brMask[c]

\* reg ^ mask == 0
AllAsMine(c) == \A d \in Cores : brBit[d] = brMask[c]

\* The spinning processor reads all bits at once; it goes round when they differ.
BrLeave(c) ==
    /\ brAt[c] = "wait" /\ AllAsMine(c)
    /\ brAt' = [brAt EXCEPT ![c] = "program"]
    /\ UNCHANGED <<brBit, brMask, brArrived, brPatient>>

BrNext == \E c \in Cores : BrEnter(c) \/ BrReadMask(c) \/ BrLeave(c)

BrSpec == BrInit /\ [][BrNext]_brVars
\* A processor in the barrier keeps executing; its program need not enter it.
BrStep(c) == BrReadMask(c) \/ BrLeave(c)
BrFairness == \A c \in Cores : WF_brVars(BrStep(c))

-----------------------------------------------------------------------------
(* Correctness.                                                            *)

\* No processor leaves a round of the barrier before all have arrived at it,
\* also when a fast one is already in the next round.
NobodyLeavesEarly ==
    \A c, d \in Cores : brAt[c] = "program" => brArrived[d] >= brArrived[c]

\* When all have arrived, all leave. It needs programs that do not enter again
\* before everybody has left: one that does toggles its bit under the eyes of
\* a slower one, and then both wait forever (brPatient = FALSE).
BarrierOpens ==
    \A c \in Cores :
        (brPatient /\ brAt[c] # "program" /\ \A d \in Cores : brArrived[d] = brArrived[c])
            ~> brAt[c] = "program"
=============================================================================
