------------------------------- MODULE Locks -------------------------------
(***************************************************************************)
(* The spin locks of the multi-core programs (locks.c, locks.h): one byte  *)
(* per lock in the shared SSRAM, 0 or the number of the processor that has *)
(* it, taken with the compare-and-swap instruction.                        *)
(***************************************************************************)
EXTENDS Integers, FiniteSets

CONSTANTS
    CPUs,           \* the processors that use the locks
    NR_OF_LOCKS     \* 256 in the code

ASSUME CpusAssumption == CPUs \subseteq 1 .. 15
ASSUME LocksAssumption == NR_OF_LOCKS \in Nat \ {0}

VARIABLES
    lkByte,     \* the lock area
    lkReady,    \* init_locks has cleared the locks below this one
    lkAt,       \* what each processor is doing
    lkHolds     \* history: the locks each processor has been given and not given back

lkVars == <<lkByte, lkReady, lkAt, lkHolds>>

LockIds == 0 .. NR_OF_LOCKS - 1
Outside == [do |-> "program", lock |-> 0]
LkWork == [do : {"program", "cas", "check", "clear"}, lock : LockIds]

LkTypeOK ==
    /\ lkByte \in [LockIds -> 0 .. 15]
    /\ lkReady \in 0 .. NR_OF_LOCKS
    /\ lkAt \in [CPUs -> LkWork]
    /\ lkHolds \in [CPUs -> SUBSET LockIds]

\* SPR_READ(9) & 0xF: a processor knows itself by its number.
CpuId(c) == c % 16

\* l.cas stores the number of the processor in a byte that is 0.
Cas(l, c) == IF lkByte[l] = 0 THEN CpuId(c) ELSE lkByte[l]

\* Mutant: anybody may clear a lock.
MayClearAny(l, c) == TRUE

MayClear(l, c) == lkByte[l] = CpuId(c)

\* The SSRAM holds anything before init_locks.
LkInit ==
    /\ lkByte \in [LockIds -> {0} \cup CPUs]
    /\ lkReady = 0
    /\ lkAt = [c \in CPUs |-> Outside]
    /\ lkHolds = [c \in CPUs |-> {}]

\* init_locks, called once and before the other processors are started.
LkClearNext ==
    /\ lkReady < NR_OF_LOCKS
    /\ lkByte' = [lkByte EXCEPT ![lkReady] = 0]
    /\ lkReady' = lkReady + 1
    /\ UNCHANGED <<lkAt, lkHolds>>

\* A call of get_lock or of release_lock; for a number out of range both
\* return -1 and nothing else happens.
LkCall(c, l, work) ==
    /\ lkReady = NR_OF_LOCKS
    /\ lkAt[c] = Outside /\ l < NR_OF_LOCKS
    /\ lkAt' = [lkAt EXCEPT ![c] = [do |-> work, lock |-> l]]
    /\ UNCHANGED <<lkByte, lkReady, lkHolds>>

\* One compare-and-swap. Whether the instruction returns the byte before or
\* after it is not known: before, a second round finds the lock already taken
\* by the processor itself.
LkCas(c) ==
    /\ lkAt[c].do = "cas"
    /\ LET l == lkAt[c].lock IN
       /\ lkByte' = [lkByte EXCEPT ![l] = Cas(l, c)]
       /\ \E res \in {lkByte[l], Cas(l, c)} :
            IF res = CpuId(c)
            THEN /\ lkAt' = [lkAt EXCEPT ![c] = Outside]
                 /\ lkHolds' = [lkHolds EXCEPT ![c] = @ \cup {l}]
            ELSE UNCHANGED <<lkAt, lkHolds>>
    /\ UNCHANGED lkReady

\* release_lock reads the byte first: somebody else's lock is refused (-1).
LkCheck(c) ==
    /\ lkAt[c].do = "check"
    /\ lkAt' = [lkAt EXCEPT ![c] = IF MayClear(lkAt[c].lock, c)
                                   THEN [@ EXCEPT !.do = "clear"] ELSE Outside]
    /\ UNCHANGED <<lkByte, lkReady, lkHolds>>

LkClear(c) ==
    /\ lkAt[c].do = "clear"
    /\ lkByte' = [lkByte EXCEPT ![lkAt[c].lock] = 0]
    /\ lkHolds' = [lkHolds EXCEPT ![c] = @ \ {lkAt[c].lock}]
    /\ lkAt' = [lkAt EXCEPT ![c] = Outside]
    /\ UNCHANGED lkReady

LkStep(c) == LkCas(c) \/ LkCheck(c) \/ LkClear(c)

LkNext ==
    \/ LkClearNext
    \/ \E c \in CPUs :
        \/ \E l \in 0 .. NR_OF_LOCKS, work \in {"cas", "check"} : LkCall(c, l, work)
        \/ LkStep(c)

LkSpec == LkInit /\ [][LkNext]_lkVars
\* Each processor keeps executing what it is in.
LkFairness == \A c \in CPUs : WF_lkVars(LkStep(c))

-----------------------------------------------------------------------------
(* Correctness.                                                            *)

\* A lock that get_lock has given to one processor and that was not released
\* is given to no other, whatever they call meanwhile, release_lock of a lock
\* they do not have included.
MutualExclusion ==
    \A c, d \in CPUs : c # d => lkHolds[c] \cap lkHolds[d] = {}

\* A processor that has a lock finds its own number in it, so that it can give
\* it back; the invariant that makes the locks exclusive.
HeldIsMarked ==
    \A c \in CPUs :
        /\ \A l \in lkHolds[c] : lkByte[l] = c
        /\ lkAt[c].do = "clear" => lkByte[lkAt[c].lock] = c

\* A free lock that somebody asks for does not stay free.
FreeLockTaken ==
    \A l \in LockIds :
        (lkByte[l] = 0 /\ \E c \in CPUs : lkAt[c] = [do |-> "cas", lock |-> l])
            ~> lkByte[l] # 0
=============================================================================
