------------------------------- MODULE MemCopy -------------------------------
(***************************************************************************)
(* memcpy of the support library (string.c), which is memmove and bcopy    *)
(* too: whole words where both areas have the same alignment, bytes before *)
(* and after, forwards or backwards so that overlapping areas are right.   *)
(***************************************************************************)
EXTENDS Integers

CONSTANTS
    WordSize,   \* wsize, 4 in the code
    Area        \* bytes of the memory

ASSUME CopyAssumption == WordSize \in Nat \ {0} /\ Area \in Nat

VARIABLES
    cpMem,      \* the memory
    cpJob,      \* the pointers, the direction, and the rounds left of the three loops
    cpCall      \* history: the call

cpVars == <<cpMem, cpJob, cpCall>>

Bytes == 0 .. Area - 1
Before == [b \in Bytes |-> b]       \* every byte another value
Fill == -1                          \* the value of memset
NoCall == [name |-> "none", dst |-> 0, src |-> 0, length |-> 0]
Idle == [dst |-> 0, src |-> 0, back |-> FALSE, first |-> 0, words |-> 0, last |-> 0]

CpInit == cpMem = Before /\ cpJob = Idle /\ cpCall = NoCall

Aligned(a, b) == a % WordSize = 0 /\ b % WordSize = 0
SameAlignment(a, b) == a % WordSize = b % WordSize

\* Mutant: always forwards.
BackwardsNever(dst, src) == FALSE

\* The end of the destination may lie in the source: the last byte goes first.
Backwards(dst, src) == dst >= src

\* How many bytes are copied one by one before the first whole word.
FirstBytes(dst, src, length, back) ==
    IF Aligned(dst, src) THEN 0
    ELSE IF ~SameAlignment(dst, src) \/ length < WordSize \/ (back /\ length = WordSize)
         THEN length
    ELSE IF back THEN src % WordSize ELSE WordSize - (src % WordSize)

\* memcpy; memmove and bcopy only call it.
CpMemcpy(dst, src, length) ==
    LET back  == Backwards(dst, src)
        end   == IF back THEN length ELSE 0
        first == FirstBytes(dst + end, src + end, length, back)
    IN  /\ cpCall = NoCall
        /\ cpCall' = [name |-> "memcpy", dst |-> dst, src |-> src, length |-> length]
        /\ cpJob' = IF length = 0 \/ dst = src THEN Idle
                    ELSE [dst |-> dst + end, src |-> src + end, back |-> back, first |-> first,
                          words |-> (length - first) \div WordSize,
                          last |-> (length - first) % WordSize]
        /\ UNCHANGED cpMem

\* One round of one of the loops: size bytes at the pointers, or before them.
CpRound(loop, size) ==
    LET dst  == IF cpJob.back THEN cpJob.dst - size ELSE cpJob.dst
        src  == IF cpJob.back THEN cpJob.src - size ELSE cpJob.src
        step == IF cpJob.back THEN -size ELSE size
    IN  /\ cpJob[loop] > 0
        /\ cpMem' = [b \in Bytes |-> IF b \in dst .. dst + size - 1
                                     THEN cpMem[src + b - dst] ELSE cpMem[b]]
        /\ cpJob' = [cpJob EXCEPT !.dst = @ + step, !.src = @ + step, ![loop] = @ - 1]
        /\ UNCHANGED cpCall

CpFirst == CpRound("first", 1)
CpWords == cpJob.first = 0 /\ CpRound("words", WordSize)
CpLast  == cpJob.first = 0 /\ cpJob.words = 0 /\ CpRound("last", 1)

\* memset.
CpMemset(dst, length) ==
    /\ cpCall = NoCall
    /\ cpMem' = [b \in Bytes |-> IF b \in dst .. dst + length - 1 THEN Fill ELSE cpMem[b]]
    /\ cpCall' = [name |-> "memset", dst |-> dst, src |-> 0, length |-> length]
    /\ UNCHANGED cpJob

CpNext ==
    \/ \E dst, src \in Bytes, length \in 0 .. Area :
        /\ dst + length <= Area /\ src + length <= Area
        /\ CpMemcpy(dst, src, length) \/ CpMemset(dst, length)
    \/ CpFirst \/ CpWords \/ CpLast

CpSpec == CpInit /\ [][CpNext]_cpVars

-----------------------------------------------------------------------------
(* Correctness.                                                            *)

Copied(b) == b \in cpCall.dst .. cpCall.dst + cpCall.length - 1
Wanted(b) == IF cpCall.name = "memset" THEN Fill ELSE Before[cpCall.src + b - cpCall.dst]

\* A call ends with the old bytes of the source in the destination and every
\* other byte as it was, however the areas overlap and are aligned.
CopiedExactly ==
    cpCall # NoCall /\ cpJob.first = 0 /\ cpJob.words = 0 /\ cpJob.last = 0
        => cpMem = [b \in Bytes |-> IF Copied(b) THEN Wanted(b) ELSE Before[b]]

\* Words are only accessed at their alignment: another access is an alignment
\* exception of this processor.
WordsAligned == cpJob.first = 0 /\ cpJob.words > 0 => Aligned(cpJob.dst, cpJob.src)
=============================================================================
