---------------------------- MODULE LibraryProofs ----------------------------
(***************************************************************************)
(* Proofs about the library and the kernels: memcpy, for every word size,  *)
(* memory and overlap; the random generator, for every width of the table  *)
(* and every start value; error diffusion, for pictures of any size and    *)
(* content; the registers, for every frequency and every duration; the     *)
(* serial routines and the UART behind them, for queues of any depth, any  *)
(* texts and any frames.                                                   *)
(*                                                                         *)
(* The sender shows its byte at the head of the queue until it is          *)
(* acknowledged, and the receiver keeps the byte that was read for one     *)
(* clock more; with that in the invariant both queues are the part of a    *)
(* sequence that has not left them.                                        *)
(***************************************************************************)
EXTENDS MemCopy, Lfsr, Images, Registers, SerialDriver, FiniteSetTheorems, SequenceTheorems, TLAPS

-----------------------------------------------------------------------------
(* memcpy.                                                                 *)

\* The bytes that the loops have yet to copy, and those they have copied.
Remaining == cpJob.first + cpJob.words * WordSize + cpJob.last
Done(b) ==
    IF cpJob.back THEN b \in cpJob.dst .. cpCall.dst + cpCall.length - 1
                  ELSE b \in cpCall.dst .. cpJob.dst - 1

Jobs == [dst : Int, src : Int, back : BOOLEAN, first : Nat, words : Nat, last : Nat]

CpShape ==
    /\ cpCall \in [name : {"none", "memcpy", "memset"}, dst : Nat, src : Nat, length : Nat]
    /\ cpJob \in Jobs
    /\ cpCall.name = "none" => cpCall = NoCall
    /\ cpCall.dst + cpCall.length <= Area /\ cpCall.src + cpCall.length <= Area

\* The call under way: both pointers are as far from their ends as bytes
\* remain, the side that is copied first is the one that is overwritten last,
\* and every byte holds the old value of the place it stands for now.
CopyUnderWay ==
    cpCall.name = "memcpy" /\ cpCall.length # 0 /\ cpCall.dst # cpCall.src =>
        /\ cpJob.back <=> cpCall.dst >= cpCall.src
        /\ Remaining <= cpCall.length
        /\ cpJob.dst = IF cpJob.back THEN cpCall.dst + Remaining
                       ELSE cpCall.dst + cpCall.length - Remaining
        /\ cpJob.src - cpJob.dst = cpCall.src - cpCall.dst
        /\ cpMem = [b \in Bytes |-> IF Done(b) THEN Before[cpCall.src + b - cpCall.dst]
                                    ELSE Before[b]]

\* Outside of such a call no loop has anything to do.
NothingToDo ==
    ~(cpCall.name = "memcpy" /\ cpCall.length # 0 /\ cpCall.dst # cpCall.src) =>
        /\ cpJob.first = 0 /\ cpJob.words = 0 /\ cpJob.last = 0
        /\ cpMem = [b \in Bytes |-> IF cpCall.name = "memset" /\ Copied(b) THEN Fill ELSE Before[b]]

CpInv == CpShape /\ CopyUnderWay /\ NothingToDo

-----------------------------------------------------------------------------
(* Whole words and the bytes behind them are all there is.                 *)
LEMMA WordsAndRest ==
    ASSUME NEW n \in Nat
    PROVE  /\ n \div WordSize \in Nat /\ n % WordSize \in 0 .. WordSize - 1
           /\ (n \div WordSize) * WordSize + (n % WordSize) = n
<1>1. n \div WordSize \in Nat
  BY CopyAssumption
<1>2. n % WordSize \in 0 .. WordSize - 1
  BY CopyAssumption
<1>3. PICK q \in Nat : q = n \div WordSize
  BY <1>1
<1>4. PICK r \in 0 .. WordSize - 1 : r = n % WordSize
  BY <1>2
<1>5. n = q * WordSize + r
  BY <1>3, <1>4, CopyAssumption, Z3
<1> QED BY <1>1, <1>2, <1>3, <1>4, <1>5

(* memcpy never copies more bytes one by one than it was asked to copy.    *)
LEMMA FirstBytesFit ==
    ASSUME NEW dst \in Nat, NEW src \in Nat, NEW length \in Nat, NEW back \in BOOLEAN
    PROVE  FirstBytes(dst, src, length, back) \in 0 .. length
<1>1. src % WordSize \in 0 .. WordSize - 1
  BY WordsAndRest
<1> QED BY <1>1, CopyAssumption DEF FirstBytes

(* The call of memcpy sets up loops for all its bytes, from the right end. *)
LEMMA CallStep ==
    ASSUME CpInv, NEW dst \in Bytes, NEW src \in Bytes, NEW length \in 0 .. Area,
           dst + length <= Area, src + length <= Area, CpMemcpy(dst, src, length)
    PROVE  CpInv'
<1> DEFINE back == Backwards(dst, src)
           end == IF back THEN length ELSE 0
           first == FirstBytes(dst + end, src + end, length, back)
<1>1. /\ dst \in Nat /\ src \in Nat /\ length \in Nat /\ end \in Nat
      /\ back \in BOOLEAN /\ (back <=> dst >= src)
  <2>1. dst \in Nat /\ src \in Nat /\ length \in Nat
    BY CopyAssumption DEF Bytes
  <2>2. back \in BOOLEAN /\ (back <=> dst >= src)
    BY <2>1 DEF Backwards
  <2>3. end \in Nat
    BY <2>1
  <2> QED BY <2>1, <2>2, <2>3
<1>2. first \in 0 .. length
  <2> HIDE DEF back, end
  <2>1. dst + end \in Nat /\ src + end \in Nat
    BY <1>1
  <2> QED BY <1>1, <2>1, FirstBytesFit
<1>3. /\ cpCall = NoCall /\ cpMem' = cpMem
      /\ cpCall' = [name |-> "memcpy", dst |-> dst, src |-> src, length |-> length]
      /\ cpJob' = IF length = 0 \/ dst = src THEN Idle
                  ELSE [dst |-> dst + end, src |-> src + end, back |-> back, first |-> first,
                        words |-> (length - first) \div WordSize,
                        last |-> (length - first) % WordSize]
  BY DEF CpMemcpy
<1>4. cpMem = [b \in Bytes |-> Before[b]]
  BY <1>3 DEF CpInv, NothingToDo, NoCall
<1>5. CASE length = 0 \/ dst = src
  <2>1. cpJob' = Idle
    BY <1>3, <1>5
  <2>2. CpShape'
    BY <1>1, <1>3, <2>1 DEF CpShape, Jobs, Idle, CpInv
  <2>3. NothingToDo'
    BY <1>3, <1>4, <2>1 DEF NothingToDo, Idle
  <2>4. CopyUnderWay'
    BY <1>3, <1>5 DEF CopyUnderWay
  <2> QED BY <2>2, <2>3, <2>4 DEF CpInv
<1>6. CASE length # 0 /\ dst # src
  <2> DEFINE words == (length - first) \div WordSize
             last == (length - first) % WordSize
  <2>1. words \in Nat /\ last \in Nat /\ first + words * WordSize + last = length
    <3> HIDE DEF first
    <3>1. PICK n \in Nat : n = length - first
      BY <1>1, <1>2
    <3>2. words = n \div WordSize /\ last = n % WordSize
      BY <3>1
    <3>3. words \in Nat /\ last \in 0 .. WordSize - 1 /\ words * WordSize + last = n
      BY <3>2, WordsAndRest
    <3> QED BY <1>1, <1>2, <3>1, <3>3, CopyAssumption
  <2>2. cpJob' = [dst |-> dst + end, src |-> src + end, back |-> back, first |-> first,
                  words |-> words, last |-> last]
    BY <1>3, <1>6
  <2> HIDE DEF first, words, last
  <2>3. Remaining' = length
    BY <2>1, <2>2 DEF Remaining
  <2>4. CpShape'
    BY <1>1, <1>2, <1>3, <2>1, <2>2 DEF CpShape, Jobs
  <2>5. NothingToDo'
    BY <1>3, <1>6 DEF NothingToDo
  <2>6. cpMem' = [b \in Bytes |-> IF Done(b)' THEN Before[src + b - dst] ELSE Before[b]]
    <3>1. ASSUME NEW b \in Bytes PROVE ~Done(b)'
      BY <1>1, <1>3, <2>2 DEF Done, Bytes
    <3> QED BY <1>3, <1>4, <3>1
  <2>7. CopyUnderWay'
    BY <1>1, <1>3, <2>2, <2>3, <2>6 DEF CopyUnderWay
  <2> QED BY <2>4, <2>5, <2>7 DEF CpInv
<1> QED BY <1>5, <1>6

(* What a round does to the pointers and to the rounds left: it copies as  *)
(* many bytes as it takes off those that remain.                           *)
LEMMA RoundMoves ==
    ASSUME CpInv, NEW loop \in {"first", "words", "last"},
           NEW size, size = IF loop = "words" THEN WordSize ELSE 1,
           CpRound(loop, size)
    PROVE  /\ cpJob' \in Jobs /\ cpJob'.back = cpJob.back
           /\ cpJob'.dst = IF cpJob.back THEN cpJob.dst - size ELSE cpJob.dst + size
           /\ cpJob'.src = IF cpJob.back THEN cpJob.src - size ELSE cpJob.src + size
           /\ Remaining' = Remaining - size /\ Remaining \in Nat /\ Remaining >= size
<1>1. /\ cpJob \in Jobs /\ cpJob.dst \in Int /\ cpJob.src \in Int /\ cpJob.back \in BOOLEAN
      /\ cpJob.first \in Nat /\ cpJob.words \in Nat /\ cpJob.last \in Nat
      /\ WordSize \in Nat \ {0} /\ size \in Nat \ {0}
  BY CopyAssumption DEF CpInv, CpShape, Jobs
<1>2. PICK step \in Int : step = IF cpJob.back THEN -size ELSE size
  BY <1>1
<1>3. /\ cpJob[loop] > 0
      /\ cpJob' = [cpJob EXCEPT !.dst = @ + step, !.src = @ + step, ![loop] = @ - 1]
  BY <1>2, Zenon DEF CpRound
<1>4. cpJob.words * WordSize \in Nat /\ Remaining \in Nat
  BY <1>1 DEF Remaining
<1>5. CASE loop = "first"
  <2>1. cpJob.first > 0 /\ size = 1
    BY <1>3, <1>5
  <2>2. cpJob' = [cpJob EXCEPT !.dst = @ + step, !.src = @ + step, !.first = @ - 1]
    BY <1>3, <1>5
  <2>3. /\ cpJob'.dst = cpJob.dst + step /\ cpJob'.src = cpJob.src + step
        /\ cpJob'.back = cpJob.back /\ cpJob'.first = cpJob.first - 1
        /\ cpJob'.words = cpJob.words /\ cpJob'.last = cpJob.last
    BY <1>1, <2>2 DEF Jobs
  <2>4. cpJob' \in Jobs
    <3>1. cpJob.dst + step \in Int /\ cpJob.src + step \in Int /\ cpJob.first - 1 \in Nat
      BY <1>1, <1>2, <2>1
    <3> QED BY <1>1, <2>2, <3>1, Zenon DEF Jobs
  <2>5. Remaining' = Remaining - size /\ Remaining >= size
    BY <1>1, <1>4, <2>1, <2>3 DEF Remaining
  <2> QED BY <1>1, <1>2, <1>4, <2>3, <2>4, <2>5
<1>6. CASE loop = "words"
  <2>1. cpJob.words > 0 /\ size = WordSize
    BY <1>3, <1>6
  <2>2. cpJob' = [cpJob EXCEPT !.dst = @ + step, !.src = @ + step, !.words = @ - 1]
    BY <1>3, <1>6
  <2>3. /\ cpJob'.dst = cpJob.dst + step /\ cpJob'.src = cpJob.src + step
        /\ cpJob'.back = cpJob.back /\ cpJob'.first = cpJob.first
        /\ cpJob'.words = cpJob.words - 1 /\ cpJob'.last = cpJob.last
    BY <1>1, <2>2 DEF Jobs
  <2>4. cpJob' \in Jobs
    <3>1. cpJob.dst + step \in Int /\ cpJob.src + step \in Int /\ cpJob.words - 1 \in Nat
      BY <1>1, <1>2, <2>1
    <3> QED BY <1>1, <2>2, <3>1, Zenon DEF Jobs
  <2>5. Remaining' = Remaining - size /\ Remaining >= size
    <3>1. PICK left \in Nat : left = cpJob.words - 1
      BY <1>1, <2>1
    <3>2. cpJob.words = left + 1 /\ cpJob'.words = left
      BY <1>1, <2>3, <3>1
    <3>3. (left + 1) * WordSize = left * WordSize + WordSize /\ left * WordSize \in Nat
      BY <1>1
    <3> QED BY <1>1, <2>1, <2>3, <3>2, <3>3 DEF Remaining
  <2> QED BY <1>1, <1>2, <1>4, <2>3, <2>4, <2>5
<1>7. CASE loop = "last"
  <2>1. cpJob.last > 0 /\ size = 1
    BY <1>3, <1>7
  <2>2. cpJob' = [cpJob EXCEPT !.dst = @ + step, !.src = @ + step, !.last = @ - 1]
    BY <1>3, <1>7
  <2>3. /\ cpJob'.dst = cpJob.dst + step /\ cpJob'.src = cpJob.src + step
        /\ cpJob'.back = cpJob.back /\ cpJob'.first = cpJob.first
        /\ cpJob'.words = cpJob.words /\ cpJob'.last = cpJob.last - 1
    BY <1>1, <2>2 DEF Jobs
  <2>4. cpJob' \in Jobs
    <3>1. cpJob.dst + step \in Int /\ cpJob.src + step \in Int /\ cpJob.last - 1 \in Nat
      BY <1>1, <1>2, <2>1
    <3> QED BY <1>1, <2>2, <3>1, Zenon DEF Jobs
  <2>5. Remaining' = Remaining - size /\ Remaining >= size
    BY <1>1, <1>4, <2>1, <2>3 DEF Remaining
  <2> QED BY <1>1, <1>2, <1>4, <2>3, <2>4, <2>5
<1> QED BY <1>5, <1>6, <1>7

(* A round of a loop moves both pointers past the bytes it copies; the     *)
(* bytes that it reads have not been overwritten.                          *)
LEMMA RoundStep ==
    ASSUME CpInv, NEW loop \in {"first", "words", "last"},
           NEW size, size = IF loop = "words" THEN WordSize ELSE 1,
           CpRound(loop, size)
    PROVE  CpInv'
<1> DEFINE to == cpCall.dst
           from == cpCall.src
           length == cpCall.length
           back == cpJob.back
           rest == Remaining
           dst == IF back THEN cpJob.dst - size ELSE cpJob.dst
           src == IF back THEN cpJob.src - size ELSE cpJob.src
<1>1. /\ to \in Nat /\ from \in Nat /\ length \in Nat /\ back \in BOOLEAN
      /\ to + length <= Area /\ from + length <= Area
      /\ cpJob.dst \in Int /\ cpJob.src \in Int
      /\ size \in Nat \ {0} /\ Area \in Nat
  BY CopyAssumption DEF CpInv, CpShape, Jobs
<1>2. /\ cpJob[loop] > 0 /\ cpCall' = cpCall
      /\ cpMem' = [b \in Bytes |-> IF b \in dst .. dst + size - 1
                                   THEN cpMem[src + b - dst] ELSE cpMem[b]]
  BY DEF CpRound
<1>3. cpCall.name = "memcpy" /\ length # 0 /\ to # from
  BY <1>2 DEF CpInv, NothingToDo
<1>4. /\ back <=> to >= from
      /\ rest <= length
      /\ cpJob.dst = IF back THEN to + rest ELSE to + length - rest
      /\ cpJob.src - cpJob.dst = from - to
      /\ cpMem = [b \in Bytes |-> IF Done(b) THEN Before[from + b - to] ELSE Before[b]]
  BY <1>3 DEF CpInv, CopyUnderWay
<1>5. /\ cpJob' \in Jobs /\ cpJob'.back = back
      /\ cpJob'.dst = IF back THEN cpJob.dst - size ELSE cpJob.dst + size
      /\ cpJob'.src = IF back THEN cpJob.src - size ELSE cpJob.src + size
      /\ Remaining' = rest - size /\ rest \in Nat /\ rest >= size
  BY RoundMoves
<1> HIDE DEF rest
<1>6. /\ dst \in Int /\ src \in Int /\ src - dst = from - to
      /\ to <= dst /\ dst + size <= to + length
      /\ dst = IF back THEN to + rest - size ELSE to + length - rest
  BY <1>1, <1>4, <1>5
<1>7. ASSUME NEW b \in Bytes
      PROVE  /\ Done(b) <=> b >= to /\ b < to + length
                             /\ IF back THEN b >= to + rest ELSE b < to + length - rest
             /\ Done(b)' <=> b >= to /\ b < to + length
                             /\ IF back THEN b >= to + rest - size
                                ELSE b < to + length - rest + size
  <2>1. b \in Int
    BY DEF Bytes
  <2>2. CASE back
    BY <1>1, <1>2, <1>4, <1>5, <2>1, <2>2 DEF Done
  <2>3. CASE ~back
    BY <1>1, <1>2, <1>4, <1>5, <2>1, <2>3 DEF Done
  <2> QED BY <2>2, <2>3
<1>8. ASSUME NEW b \in Bytes
      PROVE  cpMem'[b] = IF Done(b)' THEN Before[from + b - to] ELSE Before[b]
  <2> HIDE DEF dst, src
  <2>1. b \in Nat /\ b < Area
    BY <1>1 DEF Bytes
  <2>2. CASE b \in dst .. dst + size - 1
    <3>1. PICK place \in Int : place = src + b - dst
      BY <1>6, <2>1
    <3>2. place = from + b - to /\ place \in Bytes
      <4>1. b >= to /\ b < to + length
        BY <1>1, <1>6, <2>1, <2>2
      <4>2. place = from + b - to
        BY <1>1, <1>6, <2>1, <3>1
      <4>3. place >= 0 /\ place < Area
        BY <1>1, <2>1, <4>1, <4>2
      <4> QED BY <1>1, <4>2, <4>3 DEF Bytes
    <3>3. ~Done(place)
      BY <1>1, <1>3, <1>4, <1>5, <1>6, <1>7, <2>1, <2>2, <3>2
    <3>4. Done(b)'
      BY <1>1, <1>4, <1>5, <1>6, <1>7, <2>1, <2>2
    <3>5. cpMem'[b] = cpMem[place]
      BY <1>2, <2>2, <3>1
    <3> QED BY <1>4, <3>2, <3>3, <3>4, <3>5
  <2>3. CASE b \notin dst .. dst + size - 1
    <3>1. Done(b)' <=> Done(b)
      BY <1>1, <1>4, <1>5, <1>6, <1>7, <2>1, <2>3
    <3>2. cpMem'[b] = cpMem[b]
      BY <1>2, <2>3
    <3> QED BY <1>4, <3>1, <3>2
  <2> QED BY <2>2, <2>3
<1>9. CopyUnderWay'
  <2>1. cpMem' = [b \in Bytes |-> IF Done(b)' THEN Before[from + b - to] ELSE Before[b]]
    BY <1>2, <1>8
  <2>2. /\ Remaining' <= length
        /\ cpJob'.dst = IF back THEN to + Remaining' ELSE to + length - Remaining'
        /\ cpJob'.src - cpJob'.dst = from - to
    BY <1>1, <1>4, <1>5
  <2> QED BY <1>2, <1>4, <1>5, <2>1, <2>2 DEF CopyUnderWay
<1>10. NothingToDo'
  BY <1>2, <1>3 DEF NothingToDo
<1>11. CpShape'
  BY <1>2, <1>5 DEF CpInv, CpShape
<1> QED BY <1>9, <1>10, <1>11 DEF CpInv

(* memcpy ends with the old bytes of the source in the destination, for    *)
(* every word size, alignment, length and overlap (string.c); so do        *)
(* memmove and bcopy, and memset fills exactly what it is asked to.        *)
THEOREM CopyCorrect == CpSpec => []CopiedExactly
<1>1. CpInit => CpInv
  BY CopyAssumption
     DEF CpInit, CpInv, CpShape, Jobs, CopyUnderWay, NothingToDo, NoCall, Idle, Before
<1>2. CpInv /\ [CpNext]_cpVars => CpInv'
  <2> SUFFICES ASSUME CpInv, [CpNext]_cpVars PROVE CpInv'
    OBVIOUS
  <2>1. CASE UNCHANGED cpVars
    BY <2>1 DEF cpVars, CpInv, CpShape, CopyUnderWay, NothingToDo, Remaining, Done, Copied
  <2>2. ASSUME NEW dst \in Bytes, NEW length \in 0 .. Area, dst + length <= Area,
               CpMemset(dst, length)
        PROVE  CpInv'
    <3>1. /\ cpCall = NoCall /\ cpJob' = cpJob
          /\ cpCall' = [name |-> "memset", dst |-> dst, src |-> 0, length |-> length]
          /\ cpMem' = [b \in Bytes |-> IF b \in dst .. dst + length - 1 THEN Fill ELSE cpMem[b]]
      BY <2>2 DEF CpMemset
    <3>2. cpMem = [b \in Bytes |-> Before[b]]
      BY <3>1 DEF CpInv, NothingToDo, NoCall
    <3>3. NothingToDo'
      BY <3>1, <3>2 DEF CpInv, NothingToDo, NoCall, Copied
    <3>4. CpShape' /\ CopyUnderWay'
      BY <2>2, <3>1, CopyAssumption DEF CpInv, CpShape, CopyUnderWay, Bytes
    <3> QED BY <3>3, <3>4 DEF CpInv
  <2>3. CASE CpFirst \/ CpWords \/ CpLast
    BY <2>3, RoundStep DEF CpFirst, CpWords, CpLast
  <2> QED BY <2>1, <2>2, <2>3, CallStep DEF CpNext
<1>3. CpInv => CopiedExactly
  <2> SUFFICES ASSUME CpInv, cpCall # NoCall,
                      cpJob.first = 0, cpJob.words = 0, cpJob.last = 0
               PROVE  cpMem = [b \in Bytes |-> IF Copied(b) THEN Wanted(b) ELSE Before[b]]
    BY DEF CopiedExactly
  <2>1. Remaining = 0
    BY CopyAssumption DEF Remaining
  <2>2. cpCall.dst \in Nat /\ cpCall.src \in Nat /\ cpCall.length \in Nat
        /\ cpCall.name \in {"memcpy", "memset"}
    BY DEF CpInv, CpShape
  <2>3. CASE cpCall.name = "memcpy" /\ cpCall.length # 0 /\ cpCall.dst # cpCall.src
    <3>1. ASSUME NEW b \in Bytes PROVE Done(b) <=> Copied(b)
      BY <2>1, <2>2, <2>3 DEF CpInv, CopyUnderWay, Done, Copied
    <3> QED BY <2>3, <3>1 DEF CpInv, CopyUnderWay, Wanted
  <2>4. CASE cpCall.name = "memset"
    BY <2>4 DEF CpInv, NothingToDo, Wanted
  <2>5. CASE cpCall.name = "memcpy" /\ (cpCall.length = 0 \/ cpCall.dst = cpCall.src)
    <3>1. cpMem = [b \in Bytes |-> Before[b]]
      BY <2>5 DEF CpInv, NothingToDo
    <3>2. ASSUME NEW b \in Bytes, Copied(b) PROVE Wanted(b) = Before[b]
      BY <2>2, <2>5, <3>2 DEF Copied, Wanted, Bytes
    <3> QED BY <3>1, <3>2
  <2> QED BY <2>2, <2>3, <2>4, <2>5
<1> QED BY <1>1, <1>2, <1>3, PTL DEF CpSpec

-----------------------------------------------------------------------------
(* The random generator.                                                   *)

\* The registers of a generator of the given width.
Positions(width) == 0 .. width - 1

\* What lfsr_fibonacci_init leaves in the structure for a width below 64.
SetUpFor(width) ==
    /\ lfMask = Positions(width)
    /\ lfTaps = LfFeedbacks[width - 3]
    /\ lfXnor \in BOOLEAN
    /\ lfXnor => Parity(lfTaps) = 0

\* The invariant that the steps preserve.
LfInv ==
    /\ lfWidth \in 4 .. 63 => SetUpFor(lfWidth)
    /\ WellSetUp => lfState \subseteq lfMask /\ Proper(lfState, lfMask, lfXnor)

(* Every feedback of the table taps the highest bit of its width and none  *)
(* above it.                                                               *)
LEMMA TapsFit ==
    ASSUME NEW width \in 4 .. 63
    PROVE  /\ width - 1 \in LfFeedbacks[width - 3]
           /\ LfFeedbacks[width - 3] \subseteq Positions(width)
<1>1. \A i \in 1 .. 60 : i + 2 \in LfFeedbacks[i] /\ LfFeedbacks[i] \subseteq 0 .. i + 2
  BY SMTT(60) DEF LfFeedbacks
<1>2. width - 3 \in 1 .. 60
  OBVIOUS
<1> QED BY <1>1, <1>2 DEF Positions

(* The parity of the bits of a register is a number, and it is 1 for a     *)
(* single bit.                                                             *)
LEMMA ParityFacts ==
    ASSUME NEW width \in 4 .. 63, NEW bits, bits \subseteq Positions(width)
    PROVE  /\ IsFiniteSet(bits) /\ Cardinality(bits) \in Nat
           /\ Parity({width - 1}) = 1
<1>1. IsFiniteSet(Positions(width))
  BY FS_Interval DEF Positions
<1>2. IsFiniteSet(bits)
  BY <1>1, FS_Subset
<1>3. Cardinality({width - 1}) = 1
  BY FS_Singleton
<1> QED BY <1>2, <1>3, FS_CardinalityType DEF Parity

(* With the parity fed back, a register that holds a one holds one after   *)
(* the shift: the last one to fall out at the top is tapped alone.         *)
LEMMA XorKeepsAOne ==
    ASSUME NEW width \in 4 .. 63, NEW bits, bits \subseteq Positions(width), bits # {},
           NEW taps, taps = LfFeedbacks[width - 3]
    PROVE  NextBits(bits, Positions(width), FALSE, taps) # {}
<1>1. CASE \E i \in bits : i + 1 \in Positions(width)
  BY <1>1 DEF NextBits
<1>2. CASE ~ \E i \in bits : i + 1 \in Positions(width)
  <2>1. bits = {width - 1}
    <3>1. ASSUME NEW i \in bits PROVE i = width - 1
      BY <1>2 DEF Positions
    <3> QED BY <3>1
  <2>2. bits \cap taps = {width - 1}
    BY <2>1, TapsFit
  <2>3. Parity(bits \cap taps) = 1
    BY <2>2, ParityFacts
  <2>4. 0 \in Positions(width)
    BY DEF Positions
  <2>5. 0 \in NextBits(bits, Positions(width), FALSE, taps)
    BY <2>3, <2>4 DEF NextBits
  <2> QED BY <2>5
<1> QED BY <1>1, <1>2

(* With the inverted parity of an even number of taps fed back, a register *)
(* that holds a zero holds one after the shift.                            *)
LEMMA XnorKeepsAZero ==
    ASSUME NEW width \in 4 .. 63, NEW bits, bits \subseteq Positions(width),
           bits # Positions(width),
           NEW taps, taps = LfFeedbacks[width - 3], Parity(taps) = 0
    PROVE  NextBits(bits, Positions(width), TRUE, taps) # Positions(width)
<1> SUFFICES ASSUME NextBits(bits, Positions(width), TRUE, taps) = Positions(width)
             PROVE  FALSE
  OBVIOUS
<1>1. Parity(bits \cap taps) # 1
  <2>1. 0 \in Positions(width)
    BY DEF Positions
  <2>2. ~ \E i \in bits : i + 1 = 0
    BY DEF Positions
  <2> SUFFICES ASSUME Parity(bits \cap taps) = 1 PROVE FALSE
    OBVIOUS
  <2>3. NextBits(bits, Positions(width), TRUE, taps) \subseteq {i + 1 : i \in bits}
    BY DEF NextBits
  <2> QED BY <2>1, <2>2, <2>3
<1>2. \A i \in 0 .. width - 2 : i \in bits
  <2> SUFFICES ASSUME NEW i \in 0 .. width - 2 PROVE i \in bits
    OBVIOUS
  <2>1. i + 1 \in Positions(width) /\ i + 1 # 0
    BY DEF Positions
  <2>2. PICK j \in bits : j + 1 = i + 1
    BY <2>1 DEF NextBits
  <2>3. j \in Int
    BY <2>2 DEF Positions
  <2> QED BY <2>2, <2>3
<1>3. width - 1 \notin bits
  <2> SUFFICES ASSUME width - 1 \in bits PROVE FALSE
    OBVIOUS
  <2>1. ASSUME NEW i \in Positions(width) PROVE i \in bits
    <3>1. i = width - 1 \/ i \in 0 .. width - 2
      BY DEF Positions
    <3> QED BY <1>2, <3>1
  <2> QED BY <2>1
<1>4. taps \subseteq Positions(width) /\ width - 1 \in taps
  BY TapsFit
<1>5. bits \cap taps = taps \ {width - 1}
  BY <1>2, <1>3, <1>4 DEF Positions
<1>6. IsFiniteSet(taps) /\ Cardinality(taps) \in Nat
  BY <1>4, ParityFacts
<1>7. Cardinality(bits \cap taps) = Cardinality(taps) - 1
  <2>1. Cardinality(taps \ {width - 1}) = Cardinality(taps) - 1
    <3>1. \A x \in taps : Cardinality(taps \ {x}) = Cardinality(taps) - 1
      BY <1>6, FS_RemoveElement
    <3> QED BY <1>4, <3>1
  <2> QED BY <1>5, <2>1
<1>8. Cardinality(taps) % 2 = 0
  BY DEF Parity
<1>9. (Cardinality(taps) - 1) % 2 = 1
  BY <1>6, <1>8
<1> QED BY <1>1, <1>7, <1>9 DEF Parity

(* One number drawn with lfsr_fibonacci_next.                              *)
LEMMA DrawStep ==
    ASSUME LfInv, LfDraw
    PROVE  LfInv'
<1>1. /\ lfWidth' = lfWidth /\ lfMask' = lfMask /\ lfXnor' = lfXnor
      /\ lfTaps' = lfTaps /\ lfStart' = lfStart
  BY DEF LfDraw
<1>2. lfWidth' \in 4 .. 63 => SetUpFor(lfWidth)'
  BY <1>1 DEF LfInv, SetUpFor
<1>3. ASSUME WellSetUp
      PROVE  lfState' \subseteq lfMask /\ Proper(lfState', lfMask, lfXnor)
  <2>1. /\ lfWidth \in 4 .. 63 /\ lfMask = Positions(lfWidth)
        /\ lfTaps = LfFeedbacks[lfWidth - 3] /\ lfXnor \in BOOLEAN
        /\ lfXnor => Parity(lfTaps) = 0
        /\ lfState \subseteq lfMask /\ Proper(lfState, lfMask, lfXnor)
    BY <1>3 DEF LfInv, WellSetUp, SetUpFor
  <2>2. lfState' = NextBits(lfState, lfMask, lfXnor, lfTaps)
    BY DEF LfDraw
  <2>3. lfState' \subseteq lfMask
    BY <2>2 DEF NextBits
  <2>4. CASE lfXnor = FALSE
    <3>1. lfState # {}
      BY <2>1, <2>4 DEF Proper
    <3>2. lfState' # {}
      BY <2>1, <2>2, <2>4, <3>1, XorKeepsAOne
    <3> QED BY <2>3, <2>4, <3>2 DEF Proper
  <2>5. CASE lfXnor = TRUE
    <3>1. lfState # lfMask
      BY <2>1, <2>5 DEF Proper
    <3>2. lfState' # lfMask
      BY <2>1, <2>2, <2>5, <3>1, XnorKeepsAZero
    <3> QED BY <2>3, <2>5, <3>2 DEF Proper
  <2> QED BY <2>1, <2>4, <2>5
<1>4. WellSetUp' <=> WellSetUp
  BY <1>1 DEF WellSetUp, Proper
<1> QED BY <1>1, <1>2, <1>3, <1>4 DEF LfInv, Proper

(* The initialisation of a generator.                                      *)
LEMMA SetupStep ==
    ASSUME LfInv, NEW width \in Widths, NEW start \in Starts, NEW xnor \in BOOLEAN,
           LfSetup(width, start, xnor)
    PROVE  LfInv'
<1>1. /\ lfWidth' = width /\ lfMask' \in Masks(width) /\ lfXnor' = xnor
      /\ lfTaps' = LfFeedbacks[width - 3] /\ lfState' = lfStart'
      /\ xnor => Parity(LfFeedbacks[width - 3]) = 0
  BY DEF LfSetup, Accepted
<1>2. lfWidth' \in 4 .. 63 => lfMask' = Positions(width)
  BY <1>1 DEF Masks, Positions
<1>3. lfWidth' \in 4 .. 63 => SetUpFor(lfWidth)'
  BY <1>1, <1>2 DEF SetUpFor
<1>4. WellSetUp' => (lfState \subseteq lfMask /\ Proper(lfState, lfMask, lfXnor))'
  BY <1>1 DEF WellSetUp, Proper
<1> QED BY <1>3, <1>4 DEF LfInv

(* A generator that is set up as lfsr.h asks never reaches the state it    *)
(* cannot leave, for every width below 64, every start value and both      *)
(* kinds of feedback (lfsr_fibonacci_next).                                *)
THEOREM GeneratorNeverFrozen == LfSpec => []NeverFrozen
<1>1. LfInit => LfInv
  BY DEF LfInit, LfInv, WellSetUp
<1>2. LfInv /\ [LfNext]_lfVars => LfInv'
  <2> SUFFICES ASSUME LfInv, [LfNext]_lfVars PROVE LfInv'
    OBVIOUS
  <2>1. CASE UNCHANGED lfVars
    BY <2>1 DEF lfVars, LfInv, SetUpFor, WellSetUp, Proper
  <2> QED BY <2>1, SetupStep, DrawStep DEF LfNext
<1>3. LfInv => NeverFrozen
  BY DEF LfInv, NeverFrozen
<1> QED BY <1>1, <1>2, <1>3, PTL DEF LfSpec

-----------------------------------------------------------------------------
(* Error diffusion.                                                        *)

\* The errors that a cell may hold.
Errors == -127 .. 128

\* The invariant that the steps preserve. The sum of a grey value and sixteen
\* sixteenths of errors is far inside an int16_t.
DtInv ==
    /\ dtX \in Columns /\ dtY \in Lines
    /\ dtErrors \in [Cells -> Errors]
    /\ dtSum \in -2032 .. 6128

(* Cell() stays inside the static array from the column before the first   *)
(* to the one after the last, in every line (floyd_steinberg.c).           *)
LEMMA CellInside ==
    ASSUME NEW column \in -1 .. Width, NEW line \in Nat
    PROVE  Cell(column, line) \in Cells
<1>1. line % 2 = 0 \/ line % 2 = 1
  OBVIOUS
<1>2. CASE line % 2 = 0
  BY <1>2, ImagesAssumption DEF Cell, Cells
<1>3. CASE line % 2 = 1
  BY <1>3, ImagesAssumption DEF Cell, Cells
<1> QED BY <1>1, <1>2, <1>3

(* Whatever sum threshold() is given, the error it leaves is in the bounds *)
(* that made the sum: the shift rounds down, also below zero.              *)
LEMMA ErrorStays ==
    ASSUME NEW error \in -2032 .. 6128
    PROVE  ErrorOf(error) \in Errors
<1>1. CASE error > 2048
  BY <1>1 DEF ErrorOf, Errors
<1>2. CASE error <= 2048
  BY <1>2 DEF ErrorOf, Errors
<1> QED BY <1>1, <1>2

(* The four weights add up to sixteen.                                     *)
LEMMA SumStays ==
    ASSUME DtInv, NEW value \in Greys
    PROVE  ErrorSum(value) \in -2032 .. 6128
<1>1. dtX \in 0 .. Width - 1 /\ dtY \in Nat /\ dtY + 1 \in Nat
  BY ImagesAssumption DEF DtInv, Columns, Lines
<1>2. /\ dtX - 1 \in -1 .. Width /\ dtX \in -1 .. Width /\ dtX + 1 \in -1 .. Width
  BY <1>1, ImagesAssumption
<1>3. UpLeft \in Cells /\ Up \in Cells /\ UpRight \in Cells /\ Left \in Cells
  BY <1>1, <1>2, CellInside DEF UpLeft, Up, UpRight, Left
<1>4. /\ dtErrors[UpLeft] \in Errors /\ dtErrors[Up] \in Errors
      /\ dtErrors[UpRight] \in Errors /\ dtErrors[Left] \in Errors
  BY <1>3 DEF DtInv
<1>5. value \in 0 .. 255
  BY ImagesAssumption
<1> DEFINE a == dtErrors[UpLeft]
           b == dtErrors[Up]
           c == dtErrors[UpRight]
           d == dtErrors[Left]
<1>6. ErrorSum(value) = 16 * value + a + 5 * b + 3 * c + 7 * d
  BY DEF ErrorSum
<1>7. a \in -127 .. 128 /\ b \in -127 .. 128 /\ c \in -127 .. 128 /\ d \in -127 .. 128
  BY <1>4 DEF Errors
<1> HIDE DEF a, b, c, d
<1>8. 16 * value + a + 5 * b + 3 * c + 7 * d \in -2032 .. 6128
  BY <1>5, <1>7
<1> QED BY <1>6, <1>8

(* One pixel, whatever its grey value.                                     *)
LEMMA PixelStep ==
    ASSUME DtInv, NEW value \in Greys, DtPixel(value)
    PROVE  DtInv'
<1>1. dtSum' \in -2032 .. 6128
  BY SumStays DEF DtPixel, threshold
<1>2. dtErrors' \in [Cells -> Errors]
  <2>1. OwnCell \in Cells
    <3>1. dtX \in -1 .. Width /\ dtY + 1 \in Nat
      BY ImagesAssumption DEF DtInv, Columns, Lines
    <3> QED BY <3>1, CellInside DEF OwnCell
  <2>2. PICK error \in -2032 .. 6128 : error = ErrorSum(value)
    BY SumStays
  <2> DEFINE rest == ErrorOf(error)
  <2>3. rest \in Errors
    BY ErrorStays DEF ErrorOf
  <2>4. dtErrors' = [dtErrors EXCEPT ![OwnCell] = rest]
    BY <2>2 DEF DtPixel, threshold, ErrorOf
  <2> HIDE DEF rest
  <2> QED BY <2>1, <2>3, <2>4 DEF DtInv
<1>3. dtX' \in Columns
  <2>1. dtX + 1 \in Nat /\ Width \in Nat \ {0}
    BY ImagesAssumption DEF DtInv, Columns
  <2>2. (dtX + 1) % Width \in 0 .. Width - 1
    BY <2>1
  <2> QED BY <2>2 DEF DtPixel, Advance, Columns
<1>4. dtY' \in Lines
  <2>1. dtY + 1 \in Nat /\ Height \in Nat \ {0}
    BY ImagesAssumption DEF DtInv, Lines
  <2>2. (dtY + 1) % Height \in 0 .. Height - 1
    BY <2>1
  <2> QED BY <2>2 DEF DtInv, DtPixel, Advance, Lines
<1> QED BY <1>1, <1>2, <1>3, <1>4 DEF DtInv

(* The errors of the dithering stay between -127 and 128, and its sums fit *)
(* into the int16_t of threshold(), for pictures of every size and content *)
(* and however many are dithered with the same array (floyd_steinberg.c).  *)
THEOREM DitheringBounded == DtSpec => []ErrorsBounded
<1>1. DtInit => DtInv
  BY ImagesAssumption DEF DtInit, DtInv, Columns, Lines, Errors
<1>2. DtInv /\ [DtNext]_dtVars => DtInv'
  <2> SUFFICES ASSUME DtInv, [DtNext]_dtVars PROVE DtInv'
    OBVIOUS
  <2>1. CASE UNCHANGED dtVars
    BY <2>1 DEF dtVars, DtInv
  <2>2. CASE DtNext
    BY <2>2, PixelStep DEF DtNext
  <2> QED BY <2>1, <2>2
<1>3. DtInv => ErrorsBounded
  BY DEF DtInv, ErrorsBounded, Errors
<1> QED BY <1>1, <1>2, <1>3, PTL DEF DtSpec
-----------------------------------------------------------------------------
(* Registers and counters.                                                 *)

\* What the proof needs of the types.
RgAskedSet == [icache : BOOLEAN, dcache : BOOLEAN, tick : BOOLEAN, off : BOOLEAN]
RgReadSet ==
    [at : {"none", "high", "done"}, low : Int, value : Int, first : Nat, last : Nat]
RgShape ==
    /\ rgAsked \in RgAskedSet
    /\ rgInfo \in [low : 0 .. 255, khz : Nat] /\ rgStarted \in BOOLEAN /\ cpu_freq \in Nat
    /\ rgTime \in [ready : BOOLEAN, cycles : Nat, khz : Nat, h : Int, m : Int, s : Int, ms : Int]
    /\ rgCounter \in [value : Nat, runs : BOOLEAN]
    /\ rgRead \in RgReadSet

\* The clock is measured before a program starts, and it is never lost again.
ClockMeasured == rgStarted => rgInfo.khz # 0

\* Between the two halves of a read the counter is where it was at the first half
\* or further.
ReadUnderWay ==
    rgRead.at = "high" => rgRead.first <= rgCounter.value /\ rgRead.low = rgRead.first % Half

RgInv == RgShape /\ ClockMeasured /\ ReadUnderWay /\ RegistersAsAsked

(* Each half of the counter is a digit: what it is made of, and that the    *)
(* upper half never decreases.                                              *)
LEMMA Halves ==
    ASSUME NEW n \in Nat
    PROVE  /\ n \div Half \in Nat /\ n % Half \in 0 .. Half - 1
           /\ (n % Half) + (n \div Half) * Half = n
<1>1. n \div Half \in Nat /\ n % Half \in 0 .. Half - 1
  BY RegistersAssumption
<1>2. PICK q \in Nat : q = n \div Half
  BY <1>1
<1>3. PICK r \in 0 .. Half - 1 : r = n % Half
  BY <1>1
<1>4. n = q * Half + r
  BY <1>2, <1>3, RegistersAssumption, Z3
<1> QED BY <1>1, <1>2, <1>3, <1>4, RegistersAssumption

LEMMA UpperHalfGrows ==
    ASSUME NEW n \in Nat, NEW k \in Nat, n <= k
    PROVE  n \div Half <= k \div Half
<1> DEFINE q == n \div Half
           p == k \div Half
<1>1. /\ q \in Nat /\ p \in Nat /\ Half \in Nat \ {0}
      /\ n % Half \in 0 .. Half - 1 /\ (n % Half) + q * Half = n
      /\ k % Half \in 0 .. Half - 1 /\ (k % Half) + p * Half = k
  BY Halves, RegistersAssumption
<1> HIDE DEF q, p
<1>2. SUFFICES ASSUME q >= p + 1 PROVE FALSE
  BY <1>1 DEF q, p
<1>3. q * Half >= (p + 1) * Half
  BY <1>1, <1>2
<1>4. (p + 1) * Half = p * Half + Half
  BY <1>1
<1> QED BY <1>1, <1>3, <1>4

(* Hours, minutes and seconds add up, also where sixty is not carried.     *)
LEMMA SplitExact ==
    ASSUME NEW seconds \in Nat, NEW minutes \in Nat,
           minutes = IF seconds > 60 THEN seconds \div 60 ELSE 0
    PROVE  LET split == Split(seconds, minutes) IN
           /\ split.h \in Int /\ split.m \in Int /\ split.s \in Int
           /\ split.m <= 60 /\ split.s <= 60
           /\ (split.h * 60 + split.m) * 60 + split.s = seconds
  BY DEF Split

LEMMA TimeStep ==
    ASSUME RgInv, NEW cycles \in Durations, perf_cycles_to_time(cycles)
    PROVE  RgInv'
<1>1. cycles \in Nat /\ cpu_freq \in Nat \ {0}
  BY RegistersAssumption DEF perf_cycles_to_time, RgInv, RgShape
<1> DEFINE runtime == cycles \div cpu_freq
           seconds == runtime \div 1000
           minutes == IF seconds > 60 THEN seconds \div 60 ELSE 0
           split == Split(seconds, minutes)
<1>2. runtime \in Nat
  BY <1>1
<1>3. rgTime' = [ready |-> rgTime.ready, cycles |-> cycles, khz |-> cpu_freq,
                 h |-> split.h, m |-> split.m, s |-> split.s, ms |-> runtime % 1000]
  BY DEF perf_cycles_to_time
<1> HIDE DEF runtime
<1>4. seconds \in Nat /\ minutes \in Nat /\ runtime % 1000 \in 0 .. 999
      /\ seconds * 1000 + (runtime % 1000) = runtime
  BY <1>2
<1>5. /\ split.h \in Int /\ split.m \in Int /\ split.s \in Int
      /\ split.m <= 60 /\ split.s <= 60
      /\ (split.h * 60 + split.m) * 60 + split.s = seconds
  <2> HIDE DEF seconds
  <2> QED BY <1>4, SplitExact
<1> HIDE DEF split, seconds, minutes
<1>6. UNCHANGED <<rgSupervisor, rgAsked, rgInfo, rgStarted, cpu_freq, rgCounter, rgRead>>
  BY DEF perf_cycles_to_time
<1>7. TimeExact'
  BY <1>3, <1>4, <1>5, <1>6 DEF TimeExact, runtime
<1>8. RgShape'
  BY <1>1, <1>3, <1>4, <1>5, <1>6 DEF RgInv, RgShape
<1>9. ClockKnown'
  BY <1>1, <1>6 DEF ClockKnown
<1> QED
  BY <1>6, <1>7, <1>8, <1>9
  DEF RgInv, RegistersAsAsked, ControlAsAsked, ReadBounded, ClockMeasured, ReadUnderWay

(* The bits of the supervision register do not disturb one another, except *)
(* that bit 0 goes with the tick interrupt.                                *)
LEMMA ControlStep ==
    ASSUME RgInv, RgControl
    PROVE  RgInv'
<1>1. PICK enable \in BOOLEAN :
          icache_enable(enable) \/ dcache_enable(enable) \/ enableTickTimerIrq(enable)
  BY DEF RgControl
<1>2. UNCHANGED <<rgInfo, rgStarted, cpu_freq, rgTime, rgCounter, rgRead>>
  BY DEF RgControl
<1>3. ControlAsAsked /\ rgAsked \in RgAskedSet
  BY DEF RgInv, RgShape, RegistersAsAsked
<1>4. ControlAsAsked' /\ rgAsked' \in RgAskedSet
  <2> USE <1>3
      DEF ControlAsAsked, RgAskedSet, Set, SupervisorBit, IcacheBit, DcacheBit, TickBit
  <2>1. CASE icache_enable(enable)
    BY <2>1 DEF icache_enable
  <2>2. CASE dcache_enable(enable)
    BY <2>2 DEF dcache_enable
  <2>3. CASE enableTickTimerIrq(enable)
    <3>1. /\ rgAsked'.icache = rgAsked.icache /\ rgAsked'.dcache = rgAsked.dcache
          /\ rgAsked'.tick = enable /\ rgAsked'.off = (rgAsked.off \/ ~enable)
          /\ rgAsked' \in RgAskedSet
      BY <2>3 DEF enableTickTimerIrq
    <3>2. CASE enable
      BY <2>3, <3>1, <3>2 DEF enableTickTimerIrq
    <3>3. CASE ~enable
      <4>1. rgSupervisor' = WithoutTick(rgSupervisor)
        BY <2>3, <3>3 DEF enableTickTimerIrq
      <4>2. rgAsked'.off /\ ~rgAsked'.tick
        BY <3>1, <3>3
      <4> QED BY <3>1, <4>1, <4>2 DEF WithoutTick
    <3> QED BY <3>2, <3>3
  <2> QED BY <1>1, <2>1, <2>2, <2>3
<1> QED
  BY <1>2, <1>4 DEF RgInv, RgShape, ClockMeasured, ReadUnderWay, RegistersAsAsked, TimeExact,
                    ClockKnown, ReadBounded

(* What a read returns, wherever the counter was at its two halves: the     *)
(* upper word may have grown meanwhile.                                     *)
LEMMA TornRead ==
    ASSUME NEW first \in Nat, NEW last \in Nat, first <= last
    PROVE  LET value == (first % Half) + (last \div Half) * Half IN
           /\ value \in Int /\ first <= value /\ value < last + Half
           /\ last \div Half = first \div Half => value = first
<1> DEFINE q == first \div Half
           p == last \div Half
           low == first % Half
<1>1. /\ q \in Nat /\ p \in Nat /\ Half \in Nat \ {0} /\ q <= p
      /\ low \in 0 .. Half - 1 /\ low + q * Half = first
      /\ last % Half \in 0 .. Half - 1 /\ (last % Half) + p * Half = last
  BY Halves, UpperHalfGrows, RegistersAssumption
<1>2. SUFFICES /\ low + p * Half \in Int
               /\ first <= low + p * Half /\ low + p * Half < last + Half
               /\ p = q => low + p * Half = first
  BY DEF q, p, low
<1> HIDE DEF q, p, low
<1>3. q * Half <= p * Half
  BY <1>1
<1>4. p * Half \in Int /\ q * Half \in Int
  BY <1>1
<1> QED BY <1>1, <1>3, <1>4

(* A counter that runs between the two halves of a read and after it.      *)
LEMMA CountersStep ==
    ASSUME RgInv, RgCounters
    PROVE  RgInv'
<1>1. UNCHANGED <<rgSupervisor, rgAsked, rgInfo, rgStarted, cpu_freq, rgTime>>
  BY DEF RgCounters
<1>2. /\ rgCounter \in [value : Nat, runs : BOOLEAN] /\ rgRead \in RgReadSet
      /\ ReadUnderWay /\ ReadBounded /\ Half \in Nat \ {0}
  BY RegistersAssumption DEF RgInv, RgShape, RegistersAsAsked
<1>3. /\ rgCounter' \in [value : Nat, runs : BOOLEAN] /\ rgRead' \in RgReadSet
      /\ ReadUnderWay' /\ ReadBounded'
  <2>1. CASE perf_start \/ perf_stop
    BY <1>2, <2>1 DEF perf_start, perf_stop, ReadUnderWay, ReadBounded
  <2>2. CASE RgCount
    BY <1>2, <2>2 DEF RgCount, ReadUnderWay, ReadBounded, RgReadSet
  <2>3. CASE RgReadLow
    <3>1. rgCounter.value % Half \in Int
      BY <1>2, Halves
    <3> QED BY <1>2, <2>3, <3>1 DEF RgReadLow, ReadUnderWay, ReadBounded, RgReadSet
  <2>4. CASE RgReadHigh
    <3> DEFINE value == rgRead.low + High * Half
    <3>1. /\ value \in Int /\ rgRead.first <= value /\ value < rgCounter.value + Half
          /\ rgCounter.value \div Half = rgRead.first \div Half => value = rgRead.first
      <4>1. /\ rgRead.first \in Nat /\ rgCounter.value \in Nat
            /\ rgRead.first <= rgCounter.value /\ rgRead.low = rgRead.first % Half
        BY <1>2, <2>4 DEF RgReadHigh, ReadUnderWay, RgReadSet
      <4> QED BY <4>1, TornRead DEF High
    <3> HIDE DEF value
    <3>2. /\ rgRead' = [rgRead EXCEPT !.at = "done", !.value = value, !.last = rgCounter.value]
          /\ rgCounter' = rgCounter
      BY <2>4 DEF RgReadHigh, value
    <3>3. rgRead' \in RgReadSet /\ rgRead'.at = "done" /\ rgRead'.value = value
          /\ rgRead'.first = rgRead.first /\ rgRead'.last = rgCounter.value
      BY <1>2, <3>1, <3>2 DEF RgReadSet
    <3>4. ReadBounded'
      BY <3>1, <3>3 DEF ReadBounded
    <3>5. ReadUnderWay'
      BY <3>3 DEF ReadUnderWay
    <3> QED BY <1>2, <3>2, <3>3, <3>4, <3>5
  <2> QED BY <2>1, <2>2, <2>3, <2>4 DEF RgCounters
<1> QED
  BY <1>1, <1>3 DEF RgInv, RgShape, ClockMeasured, RegistersAsAsked, ControlAsAsked, TimeExact,
                    ClockKnown

(* Every bit of the supervision register is as the program asked last, bit  *)
(* 0 being lost with the tick interrupt; times add up to the cycles at the  *)
(* clock they are converted with, which perf_init knows because the monitor *)
(* waited for it; and the torn read of a counter is off by less than one    *)
(* lower word and wrong only when the upper word moved. For every clock,    *)
(* every duration and every width of a word (cache.h, tickTimer.h, perf.c,  *)
(* perf.h, bios.c).                                                         *)
THEOREM RegistersCorrect == RgSpec => []RegistersAsAsked
<1>1. RgInit => RgInv
  <2> SUFFICES ASSUME RgInit PROVE RgInv
    OBVIOUS
  <2>1. RgShape
    <3>1. rgInfo \in [low : 0 .. 255, khz : Nat]
      <4>1. PICK n \in Identities : rgInfo = [low |-> n, khz |-> 0]
        BY DEF RgInit
      <4>2. n \in 0 .. 255
        BY RegistersAssumption
      <4> QED BY <4>1, <4>2
    <3>2. rgAsked \in RgAskedSet
      BY DEF RgInit, RgAskedSet
    <3>3. rgTime \in [ready : BOOLEAN, cycles : Nat, khz : Nat, h : Int, m : Int, s : Int, ms : Int]
      BY DEF RgInit, NoTime
    <3>4. rgRead \in RgReadSet
      BY DEF RgInit, RgReadSet, NotRead
    <3>5. rgCounter \in [value : Nat, runs : BOOLEAN]
      BY DEF RgInit
    <3> QED BY <3>1, <3>2, <3>3, <3>4, <3>5 DEF RgInit, RgShape
  <2>2. ControlAsAsked
    BY DEF RgInit, ControlAsAsked
  <2>3. ClockMeasured /\ TimeExact /\ ClockKnown /\ ReadUnderWay /\ ReadBounded
    BY DEF RgInit, ClockMeasured, TimeExact, ClockKnown, ReadUnderWay, ReadBounded, NoTime, NotRead
  <2> QED BY <2>1, <2>2, <2>3 DEF RgInv, RegistersAsAsked
<1>2. RgInv /\ [RgNext]_rgVars => RgInv'
  <2> SUFFICES ASSUME RgInv, [RgNext]_rgVars PROVE RgInv'
    OBVIOUS
  <2> USE DEF RgInv, RgShape, ClockMeasured, ReadUnderWay, RegistersAsAsked, ControlAsAsked,
              TimeExact, ClockKnown, ReadBounded
  <2>1. CASE RgMeasured
    BY <2>1, RegistersAssumption DEF RgMeasured
  <2>2. CASE RgProgramStarts
    BY <2>2 DEF RgProgramStarts
  <2>3. CASE perf_init
    <3>1. cpu_freq' = rgInfo.khz /\ rgInfo.khz \in Nat \ {0}
      BY <2>3 DEF perf_init
    <3>2. /\ rgTime' \in [ready : BOOLEAN, cycles : Nat, khz : Nat, h : Int, m : Int, s : Int,
                          ms : Int]
          /\ rgTime'.cycles = rgTime.cycles /\ rgTime'.khz = rgTime.khz /\ rgTime'.h = rgTime.h
          /\ rgTime'.m = rgTime.m /\ rgTime'.s = rgTime.s /\ rgTime'.ms = rgTime.ms
      BY <2>3 DEF perf_init
    <3>3. UNCHANGED <<rgSupervisor, rgAsked, rgInfo, rgStarted, rgCounter, rgRead>>
      BY <2>3 DEF perf_init
    <3>4. TimeExact'
      BY <3>2 DEF TimeExact
    <3>5. ClockKnown'
      BY <3>1 DEF ClockKnown
    <3> QED BY <3>1, <3>2, <3>3, <3>4, <3>5
  <2>4. CASE UNCHANGED rgVars
    BY <2>4 DEF rgVars
  <2> QED BY <2>1, <2>2, <2>3, <2>4, ControlStep, TimeStep, CountersStep DEF RgNext
<1>3. RgInv => RegistersAsAsked
  BY DEF RgInv
<1> QED BY <1>1, <1>2, <1>3, PTL DEF RgSpec

-----------------------------------------------------------------------------
(* Queues: places around a memory, what enters and what leaves.            *)

(* Numbers up to one round away from the places of a queue.                 *)
LEMMA OnceAround ==
    ASSUME NEW x \in -UfDepth .. 2 * UfDepth - 1
    PROVE  /\ x % UfDepth \in UfPlaces
           /\ x % UfDepth = IF x < 0 THEN x + UfDepth ELSE IF x < UfDepth THEN x ELSE x - UfDepth
<1> DEFINE q == x \div UfDepth
           r == x % UfDepth
<1>1. UfDepth \in Nat /\ UfDepth >= 2 /\ x \in Int /\ -UfDepth <= x /\ x < 2 * UfDepth
  BY UfDepthAssumption
<1>2. q \in Int /\ r \in 0 .. UfDepth - 1 /\ x = q * UfDepth + r
  <2>1. q \in Int /\ r \in 0 .. UfDepth - 1
    BY <1>1
  <2>2. PICK a \in Int : a = q
    BY <2>1
  <2>3. PICK b \in 0 .. UfDepth - 1 : b = r
    BY <2>1
  <2>4. x = a * UfDepth + b
    BY <1>1, <2>2, <2>3, Z3
  <2> QED BY <2>1, <2>2, <2>3, <2>4
<1> HIDE DEF q, r
<1>3. q \in {-1, 0, 1}
  <2>1. q * UfDepth \in Int
    BY <1>1, <1>2
  <2>2. ~(q >= 2)
    <3> SUFFICES ASSUME q >= 2 PROVE FALSE
      OBVIOUS
    <3>1. q * UfDepth >= 2 * UfDepth
      BY <1>1, <1>2
    <3> QED BY <1>1, <1>2, <2>1, <3>1
  <2>3. ~(q <= -2)
    <3> SUFFICES ASSUME q <= -2 PROVE FALSE
      OBVIOUS
    <3>1. q * UfDepth <= (-2) * UfDepth
      BY <1>1, <1>2
    <3> QED BY <1>1, <1>2, <2>1, <3>1
  <2> QED BY <1>2, <2>2, <2>3
<1>4. r \in UfPlaces /\ r = IF x < 0 THEN x + UfDepth ELSE IF x < UfDepth THEN x ELSE x - UfDepth
  <2>1. CASE q = -1
    <3>1. q * UfDepth = -UfDepth
      BY <1>1, <2>1
    <3> QED BY <1>1, <1>2, <3>1 DEF UfPlaces
  <2>2. CASE q = 0
    <3>1. q * UfDepth = 0
      BY <1>1, <2>2
    <3> QED BY <1>1, <1>2, <3>1 DEF UfPlaces
  <2>3. CASE q = 1
    <3>1. q * UfDepth = UfDepth
      BY <1>1, <2>3
    <3> QED BY <1>1, <1>2, <3>1 DEF UfPlaces
  <2> QED BY <1>3, <2>1, <2>2, <2>3
<1> QED BY <1>4 DEF r

\* A queue whose flags tell which of the two cases equal pointers stand for.
QueueSound(q) ==
    /\ q.write \in UfPlaces /\ q.read \in UfPlaces
    /\ q.full \in BOOLEAN /\ q.empty \in BOOLEAN
    /\ ~(q.full /\ q.empty)
    /\ q.write = q.read <=> q.full \/ q.empty
    /\ q.bytes = [p \in UfPlaces |-> q.bytes[p]]

UfPlace(q, j) == (q.read + j) % UfDepth

\* What the queue holds are the last ones of the bytes b of a history, of
\* which the first n have left it.
Waits(q, n, b) ==
    /\ Len(b) = n + UfLength(q)
    /\ \A j \in 0 .. UfLength(q) - 1 : b[n + j + 1] = q.bytes[UfPlace(q, j)]

LEMMA LengthOf ==
    ASSUME NEW q, QueueSound(q)
    PROVE  /\ UfLength(q) \in 0 .. UfDepth
           /\ UfLength(q) = 0 <=> q.empty
           /\ UfLength(q) = UfDepth <=> q.full
           /\ ~q.full /\ q.write >= q.read => UfLength(q) = q.write - q.read
           /\ ~q.full /\ q.write < q.read => UfLength(q) = q.write - q.read + UfDepth
<1>1. q.write \in 0 .. UfDepth - 1 /\ q.read \in 0 .. UfDepth - 1 /\ UfDepth \in Nat /\ UfDepth >= 2
  BY UfDepthAssumption DEF QueueSound, UfPlaces
<1>2. q.write - q.read \in -UfDepth .. 2 * UfDepth - 1
  BY <1>1
<1>3. (q.write - q.read) % UfDepth =
        IF q.write - q.read < 0 THEN q.write - q.read + UfDepth ELSE q.write - q.read
  BY <1>1, <1>2, OnceAround
<1>4. CASE q.full
  BY <1>1, <1>4 DEF QueueSound, UfLength
<1>5. CASE ~q.full
  <2>1. UfLength(q) = (q.write - q.read) % UfDepth
    BY <1>5 DEF UfLength
  <2> QED BY <1>1, <1>3, <1>5, <2>1 DEF QueueSound
<1> QED BY <1>4, <1>5

LEMMA NextPlace ==
    ASSUME NEW p \in UfPlaces
    PROVE  UfSucc(p) \in UfPlaces /\ UfSucc(p) = IF p = UfDepth - 1 THEN 0 ELSE p + 1
<1>1. p \in 0 .. UfDepth - 1 /\ UfDepth \in Nat /\ UfDepth >= 2
  BY UfDepthAssumption DEF UfPlaces
<1>2. p + 1 \in -UfDepth .. 2 * UfDepth - 1
  BY <1>1
<1> QED BY <1>1, <1>2, OnceAround DEF UfSucc

LEMMA PlaceOf ==
    ASSUME NEW q, QueueSound(q), NEW j \in 0 .. UfDepth - 1
    PROVE  /\ UfPlace(q, j) \in UfPlaces
           /\ UfPlace(q, j) = IF q.read + j < UfDepth THEN q.read + j ELSE q.read + j - UfDepth
<1>1. q.read \in 0 .. UfDepth - 1 /\ UfDepth \in Nat /\ UfDepth >= 2
  BY UfDepthAssumption DEF QueueSound, UfPlaces
<1>2. q.read + j \in -UfDepth .. 2 * UfDepth - 1
  BY <1>1
<1> QED BY <1>1, <1>2, OnceAround DEF UfPlace

LEMMA PlacesApart ==
    ASSUME NEW q, QueueSound(q), NEW i \in 0 .. UfDepth - 1, NEW j \in 0 .. UfDepth - 1, i # j
    PROVE  UfPlace(q, i) # UfPlace(q, j)
<1>1. PICK p \in Int : p = q.read /\ 0 <= p /\ p < UfDepth
  BY UfDepthAssumption DEF QueueSound, UfPlaces
<1>2. PICK d \in Int : d = UfDepth
  BY UfDepthAssumption
<1>3. i \in Int /\ 0 <= i /\ i < d /\ j \in Int /\ 0 <= j /\ j < d
  BY <1>2
<1>4. UfPlace(q, i) = IF p + i < d THEN p + i ELSE p + i - d
  BY <1>1, <1>2, PlaceOf
<1>5. UfPlace(q, j) = IF p + j < d THEN p + j ELSE p + j - d
  BY <1>1, <1>2, PlaceOf
<1> QED BY <1>1, <1>2, <1>3, <1>4, <1>5

LEMMA LastPlace ==
    ASSUME NEW q, QueueSound(q), ~q.full
    PROVE  UfLength(q) \in 0 .. UfDepth - 1 /\ UfPlace(q, UfLength(q)) = q.write
<1>1. PICK p \in Int, w \in Int :
          p = q.read /\ w = q.write /\ 0 <= p /\ p < UfDepth /\ 0 <= w /\ w < UfDepth
  BY UfDepthAssumption DEF QueueSound, UfPlaces
<1>2. PICK d \in Int : d = UfDepth
  BY UfDepthAssumption
<1>3. PICK l \in Int : l = UfLength(q) /\ 0 <= l /\ l < UfDepth
  <2>1. UfLength(q) \in 0 .. UfDepth /\ UfLength(q) # UfDepth
    BY LengthOf
  <2> QED BY <2>1, UfDepthAssumption
<1>4. (w >= p => l = w - p) /\ (w < p => l = w - p + d)
  BY <1>1, <1>2, <1>3, LengthOf
<1>5. l \in 0 .. UfDepth - 1
  BY <1>3, UfDepthAssumption
<1>6. UfPlace(q, l) = IF p + l < d THEN p + l ELSE p + l - d
  BY <1>1, <1>2, <1>5, PlaceOf
<1>7. UfPlace(q, l) = w
  BY <1>1, <1>2, <1>4, <1>6
<1> QED BY <1>1, <1>3, <1>5, <1>7

LEMMA PlaceShift ==
    ASSUME NEW q, QueueSound(q), NEW r, QueueSound(r), r.read = UfSucc(q.read),
           NEW j \in 0 .. UfDepth - 2
    PROVE  UfPlace(r, j) = UfPlace(q, j + 1)
<1>1. PICK p \in Int, o \in Int :
          p = q.read /\ o = r.read /\ 0 <= p /\ p < UfDepth /\ 0 <= o /\ o < UfDepth
  BY UfDepthAssumption DEF QueueSound, UfPlaces
<1>2. PICK d \in Int : d = UfDepth /\ d >= 2
  BY UfDepthAssumption
<1>3. o = IF p = d - 1 THEN 0 ELSE p + 1
  BY <1>1, <1>2, NextPlace DEF QueueSound
<1>4. j \in 0 .. UfDepth - 1 /\ j + 1 \in 0 .. UfDepth - 1 /\ j \in Int /\ 0 <= j /\ j < d - 1
  BY <1>2
<1>5. UfPlace(r, j) = IF o + j < d THEN o + j ELSE o + j - d
  BY <1>1, <1>2, <1>4, PlaceOf
<1>6. UfPlace(q, j + 1) = IF p + (j + 1) < d THEN p + (j + 1) ELSE p + (j + 1) - d
  BY <1>1, <1>2, <1>4, PlaceOf
<1> QED BY <1>1, <1>2, <1>3, <1>4, <1>5, <1>6

(* Nothing happens, a byte enters, a byte leaves.                           *)
LEMMA Keeps ==
    ASSUME NEW q, NEW n \in Nat, NEW b, NEW c, NEW m
    PROVE  QueueSound(q) /\ Waits(q, n, b) =>
               LET r == UfAfter(q, FALSE, FALSE, c, m) IN
               QueueSound(r) /\ Waits(r, n, b) /\ (r.empty <=> q.empty) /\ (r.full <=> q.full)
<1> DEFINE after == UfAfter(q, FALSE, FALSE, c, m)
<1> SUFFICES ASSUME QueueSound(q), Waits(q, n, b)
             PROVE  /\ QueueSound(after) /\ Waits(after, n, b)
                    /\ after.empty <=> q.empty
                    /\ after.full <=> q.full
  OBVIOUS
<1>1. after.write = q.write /\ after.read = q.read /\ after.bytes = q.bytes
  BY DEF UfAfter, UfWrites, UfReads
<1>2. /\ (after.full <=> q.full) /\ (after.empty <=> q.empty)
      /\ after.full \in BOOLEAN /\ after.empty \in BOOLEAN
  BY DEF UfAfter, UfFull, UfEmpty, QueueSound
<1> HIDE DEF after
<1>3. UfLength(after) = UfLength(q) /\ \A j : UfPlace(after, j) = UfPlace(q, j)
  BY <1>1, <1>2 DEF UfLength, UfPlace
<1> QED BY <1>1, <1>2, <1>3 DEF QueueSound, Waits

LEMMA Refuses ==
    ASSUME NEW q, NEW n \in Nat, NEW b, NEW c, NEW m
    PROVE  QueueSound(q) /\ Waits(q, n, b) /\ q.full =>
               LET r == UfAfter(q, FALSE, TRUE, c, m) IN
               QueueSound(r) /\ Waits(r, n, b) /\ (r.empty <=> q.empty) /\ (r.full <=> q.full)
<1> DEFINE after == UfAfter(q, FALSE, TRUE, c, m)
<1> SUFFICES ASSUME QueueSound(q), Waits(q, n, b), q.full
             PROVE  /\ QueueSound(after) /\ Waits(after, n, b)
                    /\ after.empty <=> q.empty
                    /\ after.full <=> q.full
  OBVIOUS
<1>1. after.write = q.write /\ after.read = q.read /\ after.bytes = q.bytes
  BY DEF UfAfter, UfWrites, UfReads
<1>2. /\ (after.full <=> q.full) /\ (after.empty <=> q.empty)
      /\ after.full \in BOOLEAN /\ after.empty \in BOOLEAN
  BY DEF UfAfter, UfFull, UfEmpty, QueueSound
<1> HIDE DEF after
<1>3. UfLength(after) = UfLength(q) /\ \A j : UfPlace(after, j) = UfPlace(q, j)
  BY <1>1, <1>2 DEF UfLength, UfPlace
<1> QED BY <1>1, <1>2, <1>3 DEF QueueSound, Waits

LEMMA Enters ==
    ASSUME NEW q, NEW n \in Nat, NEW S, NEW b \in Seq(S), NEW c \in S, NEW m
    PROVE  QueueSound(q) /\ ~q.full /\ Waits(q, n, b) =>
               LET r == UfAfter(q, FALSE, TRUE, c, m) IN
               QueueSound(r) /\ Waits(r, n, Append(b, c)) /\ ~r.empty
<1> DEFINE after == UfAfter(q, FALSE, TRUE, c, m)
<1> SUFFICES ASSUME QueueSound(q), ~q.full, Waits(q, n, b)
             PROVE  QueueSound(after) /\ Waits(after, n, Append(b, c)) /\ ~after.empty
  OBVIOUS
<1>1. /\ after.write = UfSucc(q.write) /\ after.read = q.read
      /\ after.bytes = [q.bytes EXCEPT ![q.write] = c]
  BY DEF UfAfter, UfWrites, UfReads
<1>2. /\ after.full <=> UfSucc(q.write) = q.read
      /\ ~after.empty /\ after.full \in BOOLEAN /\ after.empty \in BOOLEAN
  BY DEF UfAfter, UfFull, UfEmpty, QueueSound
<1> HIDE DEF after
<1>3. QueueSound(after)
  <2>1. after.write \in UfPlaces /\ after.read \in UfPlaces
    BY <1>1, NextPlace DEF QueueSound
  <2>2. after.bytes = [p \in UfPlaces |-> after.bytes[p]]
    BY <1>1 DEF QueueSound
  <2>3. after.write = after.read <=> after.full \/ after.empty
    BY <1>1, <1>2
  <2> QED BY <1>2, <2>1, <2>2, <2>3 DEF QueueSound
<1> PICK l \in Int : l = UfLength(q) /\ 0 <= l /\ l <= UfDepth
  BY LengthOf, UfDepthAssumption
<1> PICK k \in Int : k = UfLength(after) /\ 0 <= k /\ k <= UfDepth
  BY <1>3, LengthOf, UfDepthAssumption
<1>4. k = l + 1 /\ l < UfDepth
  <2>1. PICK w \in Int, p \in Int, v \in Int :
            /\ w = q.write /\ p = q.read /\ v = after.write
            /\ 0 <= w /\ w < UfDepth /\ 0 <= p /\ p < UfDepth /\ 0 <= v /\ v < UfDepth
    BY <1>3, UfDepthAssumption DEF QueueSound, UfPlaces
  <2>2. v = (IF w = UfDepth - 1 THEN 0 ELSE w + 1) /\ UfDepth \in Nat /\ UfDepth >= 2
    BY <1>1, <2>1, NextPlace, UfDepthAssumption DEF QueueSound
  <2>3. (w >= p => l = w - p) /\ (w < p => l = w - p + UfDepth)
    BY <2>1, LengthOf
  <2>7. l # UfDepth
    BY LengthOf
  <2>4. after.read = p /\ (after.full <=> v = p)
    BY <1>1, <1>2, <2>1
  <2>5. CASE after.full
    <3>1. k = UfDepth
      BY <1>3, <2>5, LengthOf
    <3>2. v = p
      BY <2>4, <2>5
    <3>3. CASE w = UfDepth - 1
      BY <2>1, <2>2, <2>3, <3>1, <3>2, <3>3
    <3>4. CASE w # UfDepth - 1
      BY <2>1, <2>2, <2>3, <3>1, <3>2, <3>4
    <3> QED BY <3>3, <3>4
  <2>6. CASE ~after.full
    <3>1. v >= p => k = v - p
      BY <1>3, <2>1, <2>4, <2>6, LengthOf
    <3>2. v < p => k = v - p + UfDepth
      BY <1>3, <2>1, <2>4, <2>6, LengthOf
    <3>3. v # p
      BY <2>4, <2>6
    <3>4. CASE w = UfDepth - 1
      BY <2>1, <2>2, <2>3, <2>7, <3>1, <3>2, <3>3, <3>4
    <3>5. CASE w # UfDepth - 1
      <4>1. v = w + 1
        BY <2>2, <3>5
      <4>2. CASE v > p
        <5>1. w >= p
          BY <2>1, <4>1, <4>2
        <5>2. l = w - p /\ k = v - p
          BY <2>1, <2>3, <3>1, <4>2, <5>1
        <5> QED BY <2>1, <2>2, <4>1, <5>2
      <4>3. CASE v < p
        <5>1. w < p
          BY <2>1, <4>1, <4>3
        <5>2. l = w - p + UfDepth /\ k = v - p + UfDepth
          BY <2>1, <2>3, <3>2, <4>3, <5>1
        <5>3. PICK d \in Int : d = UfDepth
          BY UfDepthAssumption
        <5>4. l = w - p + d /\ k = v - p + d
          BY <5>2, <5>3
        <5>5. k = l + 1
          BY <4>1, <5>4
        <5>6. l < d
          BY <5>1, <5>4
        <5> QED BY <5>3, <5>5, <5>6
      <4> QED BY <2>1, <3>3, <4>2, <4>3
    <3> QED BY <3>4, <3>5
  <2> QED BY <2>5, <2>6
<1>5. l \in 0 .. UfDepth - 1 /\ UfDepth \in Nat /\ UfDepth >= 2
  BY <1>4, UfDepthAssumption
<1>6. UfPlace(q, l) = q.write
  BY LastPlace
<1>7. ASSUME NEW j \in 0 .. l - 1
      PROVE  UfPlace(q, j) \in UfPlaces /\ UfPlace(q, j) # q.write
  <2>1. j \in 0 .. UfDepth - 1 /\ l \in 0 .. UfDepth - 1 /\ j # l
    BY <1>5
  <2> QED BY <1>6, <2>1, PlaceOf, PlacesApart
<1>8. /\ Len(Append(b, c)) = Len(b) + 1 /\ Append(b, c)[Len(b) + 1] = c
      /\ \A i \in 1 .. Len(b) : Append(b, c)[i] = b[i]
  BY AppendProperties
<1>9. Len(b) = n + l /\ \A j \in 0 .. l - 1 : b[n + j + 1] = q.bytes[UfPlace(q, j)]
  BY DEF Waits
<1>10. ASSUME NEW j \in 0 .. k - 1
       PROVE  Append(b, c)[n + j + 1] = after.bytes[UfPlace(after, j)]
  <2>1. UfPlace(after, j) = UfPlace(q, j)
    BY <1>1 DEF UfPlace
  <2>2. CASE j = l
    <3>1. n + j + 1 = Len(b) + 1
      BY <1>5, <1>9, <2>2
    <3>2. after.bytes[UfPlace(after, j)] = c
      BY <1>1, <1>6, <2>1, <2>2 DEF QueueSound
    <3> QED BY <1>8, <3>1, <3>2
  <2>3. CASE j # l
    <3>1. j \in 0 .. l - 1
      BY <1>4, <1>5, <2>3
    <3>2. n + j + 1 \in 1 .. Len(b)
      BY <1>5, <1>9, <3>1
    <3>3. after.bytes[UfPlace(after, j)] = q.bytes[UfPlace(q, j)]
      BY <1>1, <1>7, <2>1, <3>1 DEF QueueSound
    <3> QED BY <1>8, <1>9, <3>1, <3>2, <3>3
  <2> QED BY <2>2, <2>3
<1>11. Len(Append(b, c)) = n + k
  BY <1>4, <1>5, <1>8, <1>9
<1> QED BY <1>2, <1>3, <1>10, <1>11 DEF Waits

LEMMA Leaves ==
    ASSUME NEW q, NEW n \in Nat, NEW b, NEW c, NEW m
    PROVE  QueueSound(q) /\ ~q.empty /\ Waits(q, n, b) =>
               LET r == UfAfter(q, TRUE, FALSE, c, m) IN
               /\ QueueSound(r) /\ Waits(r, n + 1, b) /\ ~r.full
               /\ n + 1 \in 1 .. Len(b) /\ b[n + 1] = q.bytes[q.read]
<1> DEFINE after == UfAfter(q, TRUE, FALSE, c, m)
<1> SUFFICES ASSUME QueueSound(q), ~q.empty, Waits(q, n, b)
             PROVE  /\ QueueSound(after) /\ Waits(after, n + 1, b) /\ ~after.full
                    /\ n + 1 \in 1 .. Len(b) /\ b[n + 1] = q.bytes[q.read]
  OBVIOUS
<1>1. after.write = q.write /\ after.read = UfSucc(q.read) /\ after.bytes = q.bytes
  BY DEF UfAfter, UfWrites, UfReads
<1>2. /\ ~after.full /\ (after.empty <=> UfSucc(q.read) = q.write)
      /\ after.full \in BOOLEAN /\ after.empty \in BOOLEAN
  BY DEF UfAfter, UfFull, UfEmpty, QueueSound
<1> HIDE DEF after
<1>3. QueueSound(after)
  <2>1. after.write \in UfPlaces /\ after.read \in UfPlaces
    BY <1>1, NextPlace DEF QueueSound
  <2> QED BY <1>1, <1>2, <2>1 DEF QueueSound
<1> PICK l \in Int : l = UfLength(q) /\ 0 <= l /\ l <= UfDepth
  BY LengthOf, UfDepthAssumption
<1> PICK k \in Int : k = UfLength(after) /\ 0 <= k /\ k <= UfDepth
  BY <1>3, LengthOf, UfDepthAssumption
<1> PICK w \in Int, p \in Int, o \in Int :
        /\ w = q.write /\ p = q.read /\ o = after.read
        /\ 0 <= w /\ w < UfDepth /\ 0 <= p /\ p < UfDepth /\ 0 <= o /\ o < UfDepth
  BY <1>3, UfDepthAssumption DEF QueueSound, UfPlaces
<1>4. UfDepth \in Nat /\ UfDepth >= 2
  BY UfDepthAssumption
<1>5. o = IF p = UfDepth - 1 THEN 0 ELSE p + 1
  BY <1>1, NextPlace DEF QueueSound
<1>6. l \in 1 .. UfDepth /\ k = l - 1
  <2>1. w = p <=> q.full
    BY DEF QueueSound
  <2>2. /\ l # 0
        /\ l = UfDepth <=> q.full
        /\ ~q.full /\ w >= p => l = w - p
        /\ ~q.full /\ w < p => l = w - p + UfDepth
    BY LengthOf
  <2>3. w >= o => k = w - o
    BY <1>1, <1>2, <1>3, LengthOf
  <2>4. w < o => k = w - o + UfDepth
    BY <1>1, <1>2, <1>3, LengthOf
  <2>5. CASE q.full
    BY <1>4, <1>5, <2>1, <2>2, <2>3, <2>4, <2>5
  <2>6. CASE ~q.full
    BY <1>4, <1>5, <2>1, <2>2, <2>3, <2>4, <2>6
  <2> QED BY <2>5, <2>6
<1>7. ASSUME NEW j \in 0 .. UfDepth - 2
      PROVE  UfPlace(after, j) = UfPlace(q, j + 1)
  BY <1>1, <1>3, PlaceShift
<1>8. UfPlace(q, 0) = q.read
  BY <1>4, PlaceOf
<1>9. Len(b) = n + l /\ \A j \in 0 .. l - 1 : b[n + j + 1] = q.bytes[UfPlace(q, j)]
  BY DEF Waits
<1>10. n + 1 \in 1 .. Len(b) /\ b[n + 1] = q.bytes[q.read]
  <2>1. 0 \in 0 .. l - 1
    BY <1>4, <1>6
  <2>2. b[n + 0 + 1] = q.bytes[UfPlace(q, 0)]
    BY <1>9, <2>1
  <2>3. n + 0 + 1 = n + 1
    OBVIOUS
  <2> QED BY <1>4, <1>6, <1>8, <1>9, <2>2, <2>3
<1>11. ASSUME NEW j \in 0 .. k - 1
       PROVE  b[(n + 1) + j + 1] = after.bytes[UfPlace(after, j)]
  <2>1. j + 1 \in 0 .. l - 1 /\ j \in 0 .. UfDepth - 2
    BY <1>4, <1>6
  <2>2. b[n + (j + 1) + 1] = q.bytes[UfPlace(q, j + 1)]
    BY <1>9, <2>1
  <2>3. n + (j + 1) + 1 = (n + 1) + j + 1
    BY <2>1
  <2> QED BY <1>1, <1>7, <2>1, <2>2, <2>3
<1>12. Len(b) = (n + 1) + k
  BY <1>4, <1>6, <1>9
<1> QED BY <1>2, <1>3, <1>10, <1>11, <1>12 DEF Waits

(* A byte leaves and another one enters, also a full queue.                 *)
LEMMA Passes ==
    ASSUME NEW q, QueueSound(q), ~q.empty, NEW n \in Nat, NEW S, NEW b \in Seq(S), Waits(q, n, b),
           NEW c \in S, NEW m, NEW r, r = UfAfter(q, TRUE, TRUE, c, m)
    PROVE  QueueSound(r) /\ Waits(r, n + 1, Append(b, c)) /\ ~r.empty
<1> DEFINE p == UfAfter(q, TRUE, FALSE, c, m)
           s == UfAfter(p, FALSE, TRUE, c, m)
<1>1. QueueSound(p) /\ Waits(p, n + 1, b) /\ ~p.full
  BY Leaves
<1>2. QueueSound(s) /\ Waits(s, n + 1, Append(b, c)) /\ ~s.empty
  <2>1. n + 1 \in Nat
    OBVIOUS
  <2> HIDE DEF p
  <2> QED BY <1>1, <2>1, Enters
<1>3. /\ p.write = q.write /\ p.read = UfSucc(q.read) /\ p.bytes = q.bytes
      /\ ~p.full
  BY DEF UfAfter, UfWrites, UfReads, UfFull
<1>4. /\ s.write = UfSucc(p.write) /\ s.read = p.read /\ s.bytes = [p.bytes EXCEPT ![p.write] = c]
      /\ s.full <=> UfSucc(p.write) = p.read
  <2> HIDE DEF p
  <2> QED BY <1>3 DEF UfAfter, UfWrites, UfReads, UfFull
<1>5. /\ r.write = UfSucc(q.write) /\ r.read = UfSucc(q.read)
      /\ r.bytes = [q.bytes EXCEPT ![q.write] = c]
      /\ (r.full <=> q.full) /\ ~r.empty /\ r.full \in BOOLEAN /\ r.empty \in BOOLEAN
  BY DEF UfAfter, UfWrites, UfReads, UfFull, UfEmpty, QueueSound
<1>6. q.full <=> UfSucc(q.write) = UfSucc(q.read)
  <2>1. q.full <=> q.write = q.read
    BY DEF QueueSound
  <2>2. q.write \in 0 .. UfDepth - 1 /\ q.read \in 0 .. UfDepth - 1 /\ UfDepth \in Nat
    BY UfDepthAssumption DEF QueueSound, UfPlaces
  <2>3. /\ UfSucc(q.write) = IF q.write = UfDepth - 1 THEN 0 ELSE q.write + 1
        /\ UfSucc(q.read) = IF q.read = UfDepth - 1 THEN 0 ELSE q.read + 1
    BY NextPlace DEF QueueSound
  <2> QED BY <2>1, <2>2, <2>3
<1> HIDE DEF p, s
<1>7. r.write = s.write /\ r.read = s.read /\ r.bytes = s.bytes /\ (r.full <=> s.full)
  BY <1>3, <1>4, <1>5, <1>6
<1>8. UfLength(r) = UfLength(s) /\ \A j : UfPlace(r, j) = UfPlace(s, j)
  BY <1>7 DEF UfLength, UfPlace
<1>9. QueueSound(r)
  BY <1>2, <1>5, <1>7 DEF QueueSound
<1> QED BY <1>2, <1>5, <1>7, <1>8, <1>9 DEF Waits

-----------------------------------------------------------------------------
(* The sending half.                                                       *)

\* What programs send is any character but the mark of a place never written.
Characters == STRING \ {NoByte}

OutOfQueue == Len(utSent) - (IF utAck THEN 1 ELSE 0)

\* The byte that was loaded is the head of the queue until it is acknowledged,
\* which it is long before the shifter is done with it.
UtInv ==
    /\ QueueSound(utQueue) /\ utState \in {"IDLE", "LOAD", "SHIFT"} /\ utAck \in BOOLEAN
    /\ utCount \in 0 .. HalfBits
    /\ utAccepted \in Seq(Characters) /\ utSent \in Seq(Characters) /\ utOut \in Nat
    /\ OutOfQueue \in Nat /\ Waits(utQueue, OutOfQueue, utAccepted)
    /\ Len(utSent) <= Len(utAccepted) /\ \A i \in 1 .. Len(utSent) : utSent[i] = utAccepted[i]
    /\ utAck => utState = "SHIFT" /\ utCount = HalfBits /\ ~utQueue.empty
    /\ utState = "LOAD" => ~utQueue.empty
    /\ utState = "SHIFT" => utCount >= 1
    /\ utOut = Len(utSent) - (IF utState = "SHIFT" THEN 1 ELSE 0)

LEMMA NewQueue == QueueSound(UfNew) /\ UfNew.empty /\ UfLength(UfNew) = 0
<1>1. /\ UfNew.write = 0 /\ UfNew.read = 0 /\ UfNew.full = FALSE /\ UfNew.empty = TRUE
      /\ UfNew.bytes = [p \in UfPlaces |-> NoByte]
  BY DEF UfNew, UfReset
<1>2. 0 \in UfPlaces
  BY UfDepthAssumption DEF UfPlaces
<1>3. QueueSound(UfNew)
  BY <1>1, <1>2 DEF QueueSound
<1> QED BY <1>1, <1>3, LengthOf

LEMMA SendingInit == UtInit => UtInv
<1> SUFFICES ASSUME UtInit PROVE UtInv
  OBVIOUS
<1>1. /\ utState = "IDLE" /\ utAck = FALSE /\ utCount = 0 /\ utAccepted = <<>> /\ utSent = <<>>
      /\ utOut = 0 /\ utQueue = UfNew
  BY DEF UtInit
<1>2. Len(utSent) = 0 /\ Len(utAccepted) = 0 /\ utSent \in Seq(Characters)
      /\ utAccepted \in Seq(Characters)
  BY <1>1
<1>3. OutOfQueue = 0
  BY <1>1, <1>2 DEF OutOfQueue
<1>4. QueueSound(utQueue) /\ Waits(utQueue, OutOfQueue, utAccepted)
  BY <1>1, <1>2, <1>3, NewQueue DEF Waits
<1>5. utCount \in 0 .. HalfBits
  BY <1>1, HalfBitsAssumption
<1>6. Len(utSent) <= Len(utAccepted) /\ \A i \in 1 .. Len(utSent) : utSent[i] = utAccepted[i]
  BY <1>1, <1>2
<1>7. utOut = Len(utSent) - (IF utState = "SHIFT" THEN 1 ELSE 0)
  BY <1>1, <1>2
<1>8. OutOfQueue \in Nat /\ utOut \in Nat
  BY <1>1, <1>3
<1>9. /\ utAck => utState = "SHIFT" /\ utCount = HalfBits /\ ~utQueue.empty
      /\ utState = "LOAD" => ~utQueue.empty
      /\ utState = "SHIFT" => utCount >= 1
      /\ utState \in {"IDLE", "LOAD", "SHIFT"} /\ utAck \in BOOLEAN
  BY <1>1
<1> QED BY <1>2, <1>4, <1>5, <1>6, <1>7, <1>8, <1>9 DEF UtInv

(* The queue in a clock: what has been loaded is out of it one clock later. *)
LEMMA SendingQueue ==
    ASSUME UtInv, NEW tick, NEW byte \in Characters \cup {NoByte}, UtClock(tick, byte)
    PROVE  /\ QueueSound(utQueue') /\ Waits(utQueue', Len(utSent), utAccepted')
           /\ utAccepted' \in Seq(Characters) /\ Len(utAccepted) <= Len(utAccepted')
           /\ \A i \in 1 .. Len(utAccepted) : utAccepted'[i] = utAccepted[i]
           /\ ~utAck /\ ~utQueue.empty => ~utQueue'.empty
           /\ ~utAck /\ utQueue.empty /\ byte = NoByte => utQueue'.empty
<1> DEFINE we == byte # NoByte /\ ~utQueue.full
           out == OutOfQueue
           ack == utAck
<1>1. /\ utQueue' = UfAfter(utQueue, ack, we, byte, {})
      /\ utAccepted' = IF we THEN Append(utAccepted, byte) ELSE utAccepted
  BY DEF UtClock
<1>2. /\ QueueSound(utQueue) /\ utAccepted \in Seq(Characters) /\ utSent \in Seq(Characters)
      /\ out \in Nat /\ Waits(utQueue, out, utAccepted) /\ ack \in BOOLEAN
  BY DEF UtInv
<1>3. we \in BOOLEAN /\ (we => byte \in Characters /\ ~utQueue.full) /\ (byte = NoByte => ~we)
  OBVIOUS
<1>4. Len(utSent) = out + (IF ack THEN 1 ELSE 0)
  <2>1. Len(utSent) \in Nat
    BY <1>2
  <2> QED BY <1>2, <2>1 DEF OutOfQueue
<1>5. ack => ~utQueue.empty
  BY DEF UtInv
<1> HIDE DEF we, out, ack
<1>6. /\ utAccepted' \in Seq(Characters) /\ Len(utAccepted) <= Len(utAccepted')
      /\ \A i \in 1 .. Len(utAccepted) : utAccepted'[i] = utAccepted[i]
  <2>1. CASE we
    <3>1. utAccepted' = Append(utAccepted, byte) /\ byte \in Characters
      BY <1>1, <1>3, <2>1
    <3> QED BY <1>2, <3>1, AppendProperties
  <2>2. CASE ~we
    BY <1>1, <1>2, <2>2
  <2> QED BY <2>1, <2>2
<1>7. CASE ~ack /\ ~we
  <2>1. utQueue' = UfAfter(utQueue, FALSE, FALSE, byte, {}) /\ utAccepted' = utAccepted
    BY <1>1, <1>2, <1>3, <1>7
  <2>2. Len(utSent) = out
    BY <1>2, <1>4, <1>7
  <2>3. /\ QueueSound(utQueue') /\ Waits(utQueue', out, utAccepted')
        /\ utQueue'.empty <=> utQueue.empty
    BY <1>2, <2>1, Keeps
  <2> QED BY <1>6, <1>7, <2>2, <2>3
<1>8. CASE ~ack /\ we
  <2>1. utQueue' = UfAfter(utQueue, FALSE, TRUE, byte, {}) /\ utAccepted' = Append(utAccepted, byte)
    BY <1>1, <1>2, <1>3, <1>8
  <2>2. Len(utSent) = out
    BY <1>2, <1>4, <1>8
  <2> QED BY <1>2, <1>3, <1>6, <1>8, <2>1, <2>2, Enters
<1>9. CASE ack /\ ~we
  <2>1. utQueue' = UfAfter(utQueue, TRUE, FALSE, byte, {}) /\ utAccepted' = utAccepted
    BY <1>1, <1>2, <1>3, <1>9
  <2>2. Len(utSent) = out + 1
    BY <1>2, <1>4, <1>9
  <2> QED BY <1>2, <1>5, <1>6, <1>9, <2>1, <2>2, Leaves DEF ack
<1>10. CASE ack /\ we
  <2>1. utQueue' = UfAfter(utQueue, TRUE, TRUE, byte, {}) /\ utAccepted' = Append(utAccepted, byte)
    BY <1>1, <1>2, <1>3, <1>10
  <2>2. Len(utSent) = out + 1
    BY <1>2, <1>4, <1>10
  <2> QED BY <1>2, <1>3, <1>5, <1>6, <1>10, <2>1, <2>2, Passes DEF ack
<1> QED BY <1>7, <1>8, <1>9, <1>10

(* The head of a queue is the first byte of the history that still waits.   *)
LEMMA HeadOf ==
    ASSUME NEW q, NEW n \in Nat, NEW b
    PROVE  QueueSound(q) /\ ~q.empty /\ Waits(q, n, b) =>
               n + 1 \in 1 .. Len(b) /\ b[n + 1] = q.bytes[q.read]
BY Leaves

LEMMA SendingStep ==
    ASSUME UtInv, NEW tick \in BOOLEAN, NEW byte \in Characters \cup {NoByte}, UtClock(tick, byte)
    PROVE  UtInv'
<1> DEFINE loads == UtLoads(tick)
<1>1. /\ QueueSound(utQueue') /\ Waits(utQueue', Len(utSent), utAccepted')
      /\ utAccepted' \in Seq(Characters) /\ Len(utAccepted) <= Len(utAccepted')
      /\ \A i \in 1 .. Len(utAccepted) : utAccepted'[i] = utAccepted[i]
      /\ ~utAck /\ ~utQueue.empty => ~utQueue'.empty
  BY SendingQueue
<1>2. /\ QueueSound(utQueue) /\ utAccepted \in Seq(Characters) /\ utSent \in Seq(Characters)
      /\ OutOfQueue \in Nat /\ Waits(utQueue, OutOfQueue, utAccepted)
      /\ Len(utSent) <= Len(utAccepted) /\ \A i \in 1 .. Len(utSent) : utSent[i] = utAccepted[i]
      /\ Len(utSent) \in Nat /\ Len(utAccepted) \in Nat /\ Len(utAccepted') \in Nat
  BY <1>1 DEF UtInv
<1>3. CASE loads
  <2>1. /\ utState = "LOAD" /\ tick /\ utState' = "SHIFT" /\ utAck' = TRUE /\ utCount' = HalfBits
        /\ utOut' = utOut /\ utSent' = Append(utSent, utQueue.bytes[utQueue.read])
    BY <1>3 DEF UtLoads, UtClock, UtMachine, UtAckNext, UtCountNext, UtLastHalfBit
  <2>2. /\ utAck = FALSE /\ ~utQueue.empty /\ utOut = Len(utSent) /\ OutOfQueue = Len(utSent)
    BY <1>2, <2>1 DEF UtInv, OutOfQueue
  <2>3. /\ Len(utSent) + 1 \in 1 .. Len(utAccepted)
        /\ utAccepted[Len(utSent) + 1] = utQueue.bytes[utQueue.read]
    BY <1>2, <2>2, HeadOf
  <2>4. utAccepted[Len(utSent) + 1] \in Characters
    BY <1>2, <2>3
  <2>5. /\ utSent' \in Seq(Characters) /\ Len(utSent') = Len(utSent) + 1
        /\ utSent'[Len(utSent) + 1] = utAccepted[Len(utSent) + 1]
        /\ \A i \in 1 .. Len(utSent) : utSent'[i] = utSent[i]
    BY <1>2, <2>1, <2>3, <2>4, AppendProperties
  <2>6. /\ Len(utSent') <= Len(utAccepted')
        /\ \A i \in 1 .. Len(utSent') : utSent'[i] = utAccepted'[i]
    <3>1. Len(utSent') <= Len(utAccepted')
      BY <1>1, <1>2, <2>3, <2>5
    <3>2. ASSUME NEW i \in 1 .. Len(utSent')
          PROVE  utSent'[i] = utAccepted'[i]
      <4>1. CASE i = Len(utSent) + 1
        BY <1>1, <2>3, <2>5, <4>1
      <4>2. CASE i # Len(utSent) + 1
        <5>1. i \in 1 .. Len(utSent) /\ i \in 1 .. Len(utAccepted)
          BY <1>2, <2>5, <4>2
        <5> QED BY <1>1, <1>2, <2>5, <5>1
      <4> QED BY <4>1, <4>2
    <3> QED BY <3>1, <3>2
  <2>7. OutOfQueue' = Len(utSent)
    BY <1>2, <2>1, <2>5 DEF OutOfQueue
  <2>8. utOut' \in Nat /\ utOut' = Len(utSent') - (IF utState' = "SHIFT" THEN 1 ELSE 0)
    BY <1>2, <2>1, <2>2, <2>5
  <2>9. ~utQueue'.empty /\ utCount' \in 0 .. HalfBits /\ utCount' >= 1
    BY <1>1, <2>1, <2>2, HalfBitsAssumption
  <2> QED BY <1>1, <1>2, <2>1, <2>5, <2>6, <2>7, <2>8, <2>9 DEF UtInv
<1>4. CASE ~loads
  <2>1. /\ utAck' = FALSE /\ utSent' = utSent
        /\ utCount' = (IF utCount = 0 \/ ~tick THEN utCount ELSE utCount - 1)
        /\ utOut' = (IF UtLastHalfBit THEN utOut + 1 ELSE utOut)
    BY <1>4 DEF UtClock, UtAckNext, UtCountNext
  <2>2. OutOfQueue' = Len(utSent)
    BY <1>2, <2>1 DEF OutOfQueue
  <2>3. /\ Len(utSent') <= Len(utAccepted') /\ utSent' \in Seq(Characters)
        /\ \A i \in 1 .. Len(utSent') : utSent'[i] = utAccepted'[i]
    BY <1>1, <1>2, <2>1
  <2>4. utCount \in 0 .. HalfBits /\ utCount' \in 0 .. HalfBits
    <3>1. utCount \in 0 .. HalfBits
      BY DEF UtInv
    <3> QED BY <2>1, <3>1, HalfBitsAssumption
  <2>5. /\ utState' \in {"IDLE", "LOAD", "SHIFT"}
        /\ utState' = "LOAD" => ~utQueue'.empty
        /\ utState' = "SHIFT" => utCount' >= 1
        /\ utOut' \in Nat /\ utOut' = Len(utSent) - (IF utState' = "SHIFT" THEN 1 ELSE 0)
    <3>0. /\ utState' = CASE utState = "IDLE"  -> IF utQueue.empty THEN "IDLE" ELSE "LOAD"
                 [] utState = "LOAD"  -> IF tick THEN "SHIFT" ELSE "LOAD"
                 [] utState = "SHIFT" -> IF ~UtLastHalfBit THEN "SHIFT"
                                         ELSE IF utQueue.empty THEN "IDLE" ELSE "LOAD"
          /\ utOut \in Nat /\ utOut = Len(utSent) - (IF utState = "SHIFT" THEN 1 ELSE 0)
      BY DEF UtClock, UtMachine, UtInv
    <3>1. CASE utState = "IDLE"
      <4>1. utAck = FALSE /\ ~UtLastHalfBit
        BY <3>1 DEF UtInv, UtLastHalfBit
      <4> QED BY <1>1, <1>2, <2>1, <3>0, <3>1, <4>1
    <3>2. CASE utState = "LOAD"
      <4>1. utAck = FALSE /\ ~UtLastHalfBit /\ ~utQueue.empty /\ ~tick
        BY <1>4, <3>2 DEF UtInv, UtLastHalfBit, UtLoads
      <4> QED BY <1>1, <1>2, <2>1, <3>0, <3>2, <4>1
    <3>3. CASE utState = "SHIFT" /\ utCount = 1
      <4>1. utAck = FALSE /\ UtLastHalfBit
        BY <3>3, HalfBitsAssumption DEF UtInv, UtLastHalfBit
      <4> QED BY <1>1, <1>2, <2>1, <3>0, <3>3, <4>1
    <3>4. CASE utState = "SHIFT" /\ utCount # 1
      <4>1. ~UtLastHalfBit /\ utCount >= 1
        BY <3>4 DEF UtInv, UtLastHalfBit
      <4>2. utState' = "SHIFT"
        BY <3>0, <3>4, <4>1
      <4>3. utCount' >= 1
        BY <2>1, <2>4, <3>4, <4>1, HalfBitsAssumption
      <4> QED BY <2>1, <3>0, <3>4, <4>1, <4>2, <4>3
    <3> QED BY <3>1, <3>2, <3>3, <3>4 DEF UtInv
  <2> QED BY <1>1, <1>2, <2>1, <2>2, <2>3, <2>4, <2>5 DEF UtInv
<1> QED BY <1>3, <1>4

(* What has left a queue and what it holds make up its history.             *)
LEMMA ContentOf ==
    ASSUME NEW q, NEW S, NEW b \in Seq(S), NEW s \in Seq(S),
           \A i \in 1 .. Len(s) : s[i] = b[i]
    PROVE  QueueSound(q) /\ Waits(q, Len(s), b) => s \o UfContent(q) = b
<1> SUFFICES ASSUME QueueSound(q), Waits(q, Len(s), b) PROVE s \o UfContent(q) = b
  OBVIOUS
<1> PICK l \in Nat : l = UfLength(q) /\ l <= UfDepth
  BY LengthOf, UfDepthAssumption
<1>1. Len(s) \in Nat /\ Len(b) \in Nat /\ Len(b) = Len(s) + l
  BY DEF Waits
<1>2. ASSUME NEW i \in 1 .. l
      PROVE  /\ UfContent(q)[i] = b[Len(s) + i] /\ b[Len(s) + i] \in S
  <2>1. i - 1 \in 0 .. l - 1 /\ Len(s) + (i - 1) + 1 = Len(s) + i
    BY <1>1
  <2>2. b[Len(s) + (i - 1) + 1] = q.bytes[UfPlace(q, i - 1)]
    BY <2>1 DEF Waits
  <2>3. UfPlace(q, i - 1) = (q.read + i - 1) % UfDepth
    <3>1. q.read + (i - 1) = q.read + i - 1
      <4>1. q.read \in Int
        BY UfDepthAssumption DEF QueueSound, UfPlaces
      <4> QED BY <4>1
    <3> QED BY <3>1 DEF UfPlace
  <2>4. UfContent(q)[i] = q.bytes[(q.read + i - 1) % UfDepth]
    BY DEF UfContent
  <2>5. Len(s) + i \in 1 .. Len(b)
    BY <1>1
  <2> QED BY <2>1, <2>2, <2>3, <2>4, <2>5
<1>3. UfContent(q) \in Seq(S) /\ Len(UfContent(q)) = l
  <2>1. UfContent(q) = [i \in 1 .. l |-> UfContent(q)[i]]
    BY DEF UfContent
  <2>2. \A i \in 1 .. l : UfContent(q)[i] \in S
    BY <1>2
  <2>3. UfContent(q) \in [1 .. l -> S]
    BY <2>1, <2>2
  <2> QED BY <2>3
<1> DEFINE c == UfContent(q)
<1> HIDE DEF c
<1>4. c \in Seq(S) /\ Len(c) = l /\ \A i \in 1 .. l : c[i] = b[Len(s) + i]
  BY <1>2, <1>3 DEF c
<1>5. /\ s \o c \in Seq(S) /\ Len(s \o c) = Len(s) + l
      /\ \A i \in 1 .. Len(s) + l : (s \o c)[i] = IF i <= Len(s) THEN s[i] ELSE c[i - Len(s)]
  <2>1. /\ s \o c \in Seq(S) /\ Len(s \o c) = Len(s) + Len(c)
        /\ \A i \in 1 .. Len(s) + Len(c) :
               (s \o c)[i] = IF i <= Len(s) THEN s[i] ELSE c[i - Len(s)]
    BY <1>4, ConcatProperties
  <2> QED BY <1>1, <1>4, <2>1
<1>6. ASSUME NEW i \in 1 .. Len(s \o c)
      PROVE  (s \o c)[i] = b[i]
  <2>1. CASE i <= Len(s)
    BY <1>1, <1>5, <2>1
  <2>2. CASE i > Len(s)
    <3>1. i - Len(s) \in 1 .. l /\ Len(s) + (i - Len(s)) = i
      BY <1>1, <1>5, <2>2
    <3>2. (s \o c)[i] = c[i - Len(s)]
      BY <1>1, <1>5, <2>2
    <3> QED BY <1>4, <3>1, <3>2
  <2> QED BY <1>1, <1>5, <2>1, <2>2
<1>7. s \o c = b
  BY <1>1, <1>5, <1>6, SeqEqual
<1> QED BY <1>7 DEF c

LEMMA SendingShown == UtInv => SentInOrder /\ AllSentTruthful
<1> SUFFICES ASSUME UtInv PROVE SentInOrder /\ AllSentTruthful
  OBVIOUS
<1>1. /\ QueueSound(utQueue) /\ utAccepted \in Seq(Characters) /\ utSent \in Seq(Characters)
      /\ OutOfQueue \in Nat /\ Waits(utQueue, OutOfQueue, utAccepted) /\ utAck \in BOOLEAN
      /\ \A i \in 1 .. Len(utSent) : utSent[i] = utAccepted[i]
      /\ utAck => ~utQueue.empty
  BY DEF UtInv
<1> DEFINE queue == IF utAck THEN UfAfter(utQueue, TRUE, FALSE, NoByte, {}) ELSE utQueue
<1>2. QueueSound(queue) /\ Waits(queue, Len(utSent), utAccepted)
  <2>1. CASE utAck
    <3>1. Len(utSent) = OutOfQueue + 1
      BY <1>1, <2>1 DEF OutOfQueue
    <3> QED BY <1>1, <2>1, <3>1, Leaves
  <2>2. CASE ~utAck
    <3>1. Len(utSent) = OutOfQueue
      BY <1>1, <2>2 DEF OutOfQueue
    <3> QED BY <1>1, <2>2, <3>1
  <2> QED BY <2>1, <2>2
<1>3. SentInOrder
  BY <1>1, <1>2, ContentOf DEF SentInOrder
<1>4. ASSUME UtAllSent
      PROVE  utOut = Len(utAccepted)
  <2>1. utQueue.empty /\ utState = "IDLE"
    BY <1>4 DEF UtAllSent
  <2>2. utAck = FALSE /\ utOut = Len(utSent) /\ OutOfQueue = Len(utSent)
    BY <1>1, <2>1 DEF UtInv, OutOfQueue
  <2>3. UfLength(utQueue) = 0
    BY <1>1, <2>1, LengthOf
  <2> QED BY <1>1, <2>2, <2>3 DEF Waits
<1> QED BY <1>3, <1>4 DEF AllSentTruthful

-----------------------------------------------------------------------------
(* The receiving half.                                                     *)

UxFrames == Frames \cup {CHOOSE f \in Frames : TRUE}
UxBytes == {f.byte : f \in UxFrames}
UxEntries == [frame : UxFrames, full : BOOLEAN]

\* The bytes of the frames that were stored.
StoredBytes == [i \in 1 .. Len(uxStored) |-> uxStored[i].frame.byte]

UxOut == Len(uxTaken) - (IF uxPop THEN 1 ELSE 0)

\* The byte that was read stays the head of the queue for one clock more.
UxInv ==
    /\ QueueSound(uxQueue) /\ uxPop \in BOOLEAN /\ uxFrame \in UxFrames
    /\ uxStored \in Seq(UxEntries) /\ uxTaken \in Seq(UxBytes)
    /\ UxOut \in Nat /\ Waits(uxQueue, UxOut, StoredBytes)
    /\ Len(uxTaken) <= Len(uxStored) /\ \A i \in 1 .. Len(uxTaken) : uxTaken[i] = StoredBytes[i]
    /\ uxPop => ~uxQueue.empty

\* A frame that is not refused finds room two clocks later, and a loss is reported.
UxLossInv ==
    /\ uxStage \in {"IDLE", "WRITE", "delay", "we"}
    /\ uxRefused \in BOOLEAN /\ uxOverrun \in BOOLEAN /\ uxClear \in BOOLEAN /\ uxMissed \in Nat
    /\ uxStage \in {"delay", "we"} /\ ~uxRefused /\ uxFrame.kind # "break" => ~uxQueue.full
    /\ LossReported

\* The marks beside the bytes that wait are those of their frames.
UxMarksInv ==
    ~uxClear => \A j \in 0 .. UfLength(uxQueue) - 1 :
        ~uxStored[UxOut + j + 1].full =>
            uxQueue.marks[UfPlace(uxQueue, j)] = UxMarksOf(uxStored[UxOut + j + 1].frame)

LEMMA ReceivingInit == UxInit => UxInv /\ UxLossInv /\ UxMarksInv
<1> SUFFICES ASSUME UxInit PROVE UxInv /\ UxLossInv /\ UxMarksInv
  OBVIOUS
<1>1. /\ uxQueue = UfNew /\ uxStage = "IDLE" /\ uxFrame = (CHOOSE f \in Frames : TRUE)
      /\ uxRefused = FALSE /\ uxPop = FALSE /\ uxOverrun = FALSE /\ uxClear \in BOOLEAN
      /\ uxStored = <<>> /\ uxTaken = <<>> /\ uxMissed = 0
  BY DEF UxInit
<1>2. /\ Len(uxStored) = 0 /\ Len(uxTaken) = 0 /\ uxStored \in Seq(UxEntries)
      /\ uxTaken \in Seq(UxBytes)
  BY <1>1
<1>3. UxOut = 0
  BY <1>1, <1>2 DEF UxOut
<1>4. StoredBytes = <<>> /\ Len(StoredBytes) = 0
  BY <1>2 DEF StoredBytes
<1>5. QueueSound(uxQueue) /\ Waits(uxQueue, UxOut, StoredBytes)
  BY <1>1, <1>3, <1>4, NewQueue DEF Waits
<1>6. UxInv
  <2>1. uxFrame \in UxFrames
    BY <1>1 DEF UxFrames
  <2>2. /\ UxOut \in Nat /\ Len(uxTaken) <= Len(uxStored)
        /\ \A i \in 1 .. Len(uxTaken) : uxTaken[i] = StoredBytes[i]
    BY <1>2, <1>3
  <2>3. uxPop \in BOOLEAN /\ (uxPop => ~uxQueue.empty)
    BY <1>1
  <2> QED BY <1>2, <1>5, <2>1, <2>2, <2>3 DEF UxInv
<1>7. UxLossInv
  <2>1. LossReported
    BY <1>1 DEF LossReported
  <2>2. uxStage \in {"IDLE", "WRITE", "delay", "we"} /\ uxStage \notin {"delay", "we"}
    BY <1>1
  <2>3. uxRefused \in BOOLEAN /\ uxOverrun \in BOOLEAN /\ uxClear \in BOOLEAN /\ uxMissed \in Nat
    BY <1>1
  <2> QED BY <2>1, <2>2, <2>3 DEF UxLossInv
<1>8. UxMarksInv
  <2>1. UfLength(uxQueue) = 0
    BY <1>1, NewQueue
  <2> QED BY <2>1 DEF UxMarksInv
<1> QED BY <1>6, <1>7, <1>8

(* A frame is stored behind those that were stored before.                  *)
LEMMA StoredGrows ==
    ASSUME uxStored \in Seq(UxEntries), NEW e \in UxEntries, uxStored' = Append(uxStored, e)
    PROVE  /\ uxStored' \in Seq(UxEntries) /\ Len(uxStored') = Len(uxStored) + 1
           /\ uxStored'[Len(uxStored) + 1] = e
           /\ \A i \in 1 .. Len(uxStored) : uxStored'[i] = uxStored[i]
           /\ StoredBytes \in Seq(UxBytes) /\ StoredBytes' = Append(StoredBytes, e.frame.byte)
<1>1. /\ uxStored' \in Seq(UxEntries) /\ Len(uxStored') = Len(uxStored) + 1
      /\ uxStored'[Len(uxStored) + 1] = e
      /\ \A i \in 1 .. Len(uxStored) : uxStored'[i] = uxStored[i]
  BY AppendProperties
<1>2. StoredBytes \in Seq(UxBytes) /\ Len(StoredBytes) = Len(uxStored)
  <2>1. \A i \in 1 .. Len(uxStored) : uxStored[i].frame.byte \in UxBytes
    <3>1. \A i \in 1 .. Len(uxStored) : uxStored[i] \in UxEntries
      OBVIOUS
    <3> QED BY <3>1 DEF UxEntries, UxBytes
  <2>2. StoredBytes \in [1 .. Len(uxStored) -> UxBytes]
    BY <2>1 DEF StoredBytes
  <2> QED BY <2>2
<1>3. e.frame.byte \in UxBytes
  BY DEF UxEntries, UxBytes
<1>4. /\ Append(StoredBytes, e.frame.byte) \in Seq(UxBytes)
      /\ Len(Append(StoredBytes, e.frame.byte)) = Len(uxStored) + 1
      /\ Append(StoredBytes, e.frame.byte)[Len(uxStored) + 1] = e.frame.byte
      /\ \A i \in 1 .. Len(uxStored) : Append(StoredBytes, e.frame.byte)[i] = StoredBytes[i]
  BY <1>2, <1>3, AppendProperties
<1>5. /\ StoredBytes' = [i \in 1 .. Len(uxStored) + 1 |-> uxStored'[i].frame.byte]
      /\ Len(uxStored) \in Nat
  BY <1>1 DEF StoredBytes
<1>6. \A i \in 1 .. Len(uxStored) + 1 : StoredBytes'[i] \in UxBytes
  <2>1. \A i \in 1 .. Len(uxStored) + 1 : uxStored'[i] \in UxEntries
    BY <1>1
  <2> QED BY <1>5, <2>1 DEF UxEntries, UxBytes
<1>7. StoredBytes' \in Seq(UxBytes) /\ Len(StoredBytes') = Len(uxStored) + 1
  <2>1. StoredBytes' \in [1 .. Len(uxStored) + 1 -> UxBytes]
    BY <1>5, <1>6
  <2> QED BY <1>5, <2>1
<1>8. ASSUME NEW i \in 1 .. Len(uxStored) + 1
      PROVE  StoredBytes'[i] = Append(StoredBytes, e.frame.byte)[i]
  <2>1. CASE i = Len(uxStored) + 1
    BY <1>1, <1>4, <1>5, <2>1
  <2>2. CASE i # Len(uxStored) + 1
    <3>1. i \in 1 .. Len(uxStored)
      BY <1>5, <2>2
    <3> QED BY <1>1, <1>4, <1>5, <3>1 DEF StoredBytes
  <2> QED BY <2>1, <2>2
<1>9. StoredBytes' = Append(StoredBytes, e.frame.byte)
  BY <1>4, <1>7, <1>8, SeqEqual
<1> QED BY <1>1, <1>2, <1>9

\* The queue of the receiver in a clock, before the clearing of the marks.
UxAfter == UfAfter(uxQueue, uxPop, UxWrite, uxFrame.byte, UxMarksOf(uxFrame))
UxStores == UfWrites(uxQueue, uxPop, UxWrite)

LEMMA ReceivingQueue ==
    ASSUME UxInv, NEW reads, UxClock(reads)
    PROVE  /\ QueueSound(uxQueue') /\ Waits(uxQueue', Len(uxTaken), StoredBytes')
           /\ uxStored' \in Seq(UxEntries) /\ Len(uxStored) <= Len(uxStored')
           /\ \A i \in 1 .. Len(uxStored) : /\ uxStored'[i] = uxStored[i]
                                            /\ StoredBytes'[i] = StoredBytes[i]
           /\ ~uxPop /\ ~uxQueue.empty => ~uxQueue'.empty
           /\ ~UxWrite /\ uxQueue'.full => uxQueue.full
<1> DEFINE out == UxOut
           pop == uxPop
           we == UxWrite
           c == uxFrame.byte
           m == UxMarksOf(uxFrame)
           after == UxAfter
<1>1. /\ uxQueue' = IF uxClear THEN [after EXCEPT !.marks[uxQueue.read] = {}] ELSE after
      /\ uxStored' = IF UxStores THEN Append(uxStored, [frame |-> uxFrame, full |-> uxQueue.full])
                     ELSE uxStored
  BY DEF UxClock, UxAfter, UxStores
<1>2. /\ QueueSound(uxQueue) /\ uxStored \in Seq(UxEntries) /\ uxTaken \in Seq(UxBytes)
      /\ out \in Nat /\ Waits(uxQueue, out, StoredBytes) /\ pop \in BOOLEAN /\ uxFrame \in UxFrames
      /\ pop => ~uxQueue.empty
  BY DEF UxInv
<1>3. /\ uxQueue'.write = after.write /\ uxQueue'.read = after.read
      /\ uxQueue'.full = after.full /\ uxQueue'.empty = after.empty
      /\ uxQueue'.bytes = after.bytes
  BY <1>1 DEF UxAfter, UfAfter
<1>4. after = UfAfter(uxQueue, pop, we, c, m)
  BY DEF UxAfter
<1>5. we \in BOOLEAN /\ c \in UxBytes
  BY <1>2 DEF UxWrite, UxBytes
<1>6. Len(uxTaken) = out + (IF pop THEN 1 ELSE 0)
  BY <1>2 DEF UxOut
<1>7. UxStores <=> we /\ (pop \/ ~uxQueue.full)
  BY DEF UxStores, UfWrites
<1>8. [frame |-> uxFrame, full |-> uxQueue.full] \in UxEntries
  BY <1>2 DEF UxEntries, QueueSound
<1>9. StoredBytes \in Seq(UxBytes)
  <2>1. \A i \in 1 .. Len(uxStored) : uxStored[i].frame.byte \in UxBytes
    <3>1. \A i \in 1 .. Len(uxStored) : uxStored[i] \in UxEntries
      BY <1>2
    <3> QED BY <3>1 DEF UxEntries, UxBytes
  <2>2. StoredBytes \in [1 .. Len(uxStored) -> UxBytes] /\ Len(uxStored) \in Nat
    BY <1>2, <2>1 DEF StoredBytes
  <2> QED BY <2>2
<1>10. ASSUME UxStores
       PROVE  /\ uxStored' \in Seq(UxEntries) /\ Len(uxStored') = Len(uxStored) + 1
              /\ \A i \in 1 .. Len(uxStored) : uxStored'[i] = uxStored[i]
              /\ StoredBytes' = Append(StoredBytes, c)
  <2>1. uxStored' = Append(uxStored, [frame |-> uxFrame, full |-> uxQueue.full])
    BY <1>1, <1>10
  <2> QED BY <1>2, <1>8, <2>1, StoredGrows
<1>11. ASSUME ~UxStores
       PROVE  uxStored' = uxStored /\ StoredBytes' = StoredBytes
  BY <1>1, <1>11 DEF StoredBytes
<1>12. /\ uxStored' \in Seq(UxEntries) /\ Len(uxStored) <= Len(uxStored')
       /\ \A i \in 1 .. Len(uxStored) : uxStored'[i] = uxStored[i]
  <2>1. Len(uxStored) \in Nat
    BY <1>2
  <2> QED BY <1>2, <1>10, <1>11, <2>1
<1>13. \A i \in 1 .. Len(uxStored) : StoredBytes'[i] = StoredBytes[i]
  <2>1. ASSUME NEW i \in 1 .. Len(uxStored)
        PROVE  StoredBytes'[i] = StoredBytes[i]
    <3>1. i \in 1 .. Len(uxStored') /\ uxStored'[i] = uxStored[i]
      <4>1. Len(uxStored) \in Nat /\ Len(uxStored') \in Nat
        BY <1>2, <1>12
      <4> QED BY <1>12, <4>1
    <3> QED BY <3>1 DEF StoredBytes
  <2> QED BY <2>1
<1> HIDE DEF we, pop, out, c, m, after
<1>14. /\ QueueSound(after) /\ Waits(after, Len(uxTaken), StoredBytes')
       /\ ~pop /\ ~uxQueue.empty => ~after.empty
       /\ ~we /\ after.full => uxQueue.full
  <2>1. CASE ~pop /\ ~we
    <3>1. after = UfAfter(uxQueue, FALSE, FALSE, c, m)
      BY <1>2, <1>4, <1>5, <2>1
    <3>2. Len(uxTaken) = out /\ StoredBytes' = StoredBytes
      BY <1>2, <1>6, <1>7, <1>11, <2>1
    <3> QED BY <1>2, <3>1, <3>2, Keeps
  <2>2. CASE ~pop /\ we /\ ~uxQueue.full
    <3>1. after = UfAfter(uxQueue, FALSE, TRUE, c, m)
      BY <1>2, <1>4, <1>5, <2>2
    <3>2. Len(uxTaken) = out /\ StoredBytes' = Append(StoredBytes, c)
      BY <1>2, <1>6, <1>7, <1>10, <2>2
    <3> QED BY <1>2, <1>5, <1>9, <2>2, <3>1, <3>2, Enters
  <2>3. CASE ~pop /\ we /\ uxQueue.full
    <3>1. after = UfAfter(uxQueue, FALSE, TRUE, c, m)
      BY <1>2, <1>4, <1>5, <2>3
    <3>2. Len(uxTaken) = out /\ StoredBytes' = StoredBytes
      BY <1>2, <1>6, <1>7, <1>11, <2>3
    <3> QED BY <1>2, <2>3, <3>1, <3>2, Refuses
  <2>4. CASE pop /\ ~we
    <3>1. after = UfAfter(uxQueue, TRUE, FALSE, c, m)
      BY <1>2, <1>4, <1>5, <2>4
    <3>2. Len(uxTaken) = out + 1 /\ StoredBytes' = StoredBytes
      BY <1>2, <1>6, <1>7, <1>11, <2>4
    <3> QED BY <1>2, <2>4, <3>1, <3>2, Leaves
  <2>5. CASE pop /\ we
    <3>1. after = UfAfter(uxQueue, TRUE, TRUE, c, m)
      BY <1>2, <1>4, <1>5, <2>5
    <3>2. Len(uxTaken) = out + 1 /\ StoredBytes' = Append(StoredBytes, c)
      BY <1>2, <1>6, <1>7, <1>10, <2>5
    <3> QED BY <1>2, <1>5, <1>9, <2>5, <3>1, <3>2, Passes
  <2> QED BY <2>1, <2>2, <2>3, <2>4, <2>5
<1>15. QueueSound(uxQueue') /\ Waits(uxQueue', Len(uxTaken), StoredBytes')
  <2>1. UfLength(uxQueue') = UfLength(after) /\ \A j : UfPlace(uxQueue', j) = UfPlace(after, j)
    BY <1>3 DEF UfLength, UfPlace
  <2> QED BY <1>3, <1>14, <2>1 DEF QueueSound, Waits
<1> QED BY <1>3, <1>12, <1>13, <1>14, <1>15 DEF pop, we

LEMMA ReceivingStep ==
    ASSUME UxInv, NEW reads \in BOOLEAN, reads => ~uxPop, UxClock(reads)
    PROVE  UxInv' /\ UxOut' = Len(uxTaken)
<1>1. /\ QueueSound(uxQueue') /\ Waits(uxQueue', Len(uxTaken), StoredBytes')
      /\ uxStored' \in Seq(UxEntries) /\ Len(uxStored) <= Len(uxStored')
      /\ \A i \in 1 .. Len(uxStored) : StoredBytes'[i] = StoredBytes[i]
      /\ ~uxPop /\ ~uxQueue.empty => ~uxQueue'.empty
  BY ReceivingQueue
<1>2. /\ QueueSound(uxQueue) /\ uxPop \in BOOLEAN /\ uxFrame \in UxFrames
      /\ uxStored \in Seq(UxEntries) /\ uxTaken \in Seq(UxBytes)
      /\ UxOut \in Nat /\ Waits(uxQueue, UxOut, StoredBytes)
      /\ Len(uxTaken) <= Len(uxStored) /\ \A i \in 1 .. Len(uxTaken) : uxTaken[i] = StoredBytes[i]
      /\ Len(uxTaken) \in Nat /\ Len(uxStored) \in Nat /\ Len(uxStored') \in Nat
  BY <1>1 DEF UxInv
<1>3. uxFrame' \in UxFrames
  BY <1>2 DEF UxClock, UxArrives, UxStages, UxFrames
<1>4. /\ uxPop' = (reads /\ ~uxQueue.empty)
      /\ uxTaken' = IF reads /\ ~uxQueue.empty THEN Append(uxTaken, UxByte) ELSE uxTaken
  BY DEF UxClock
<1>5. CASE reads /\ ~uxQueue.empty
  <2>1. uxPop = FALSE /\ UxOut = Len(uxTaken)
    BY <1>2, <1>5 DEF UxOut
  <2>2. /\ Len(uxTaken) + 1 \in 1 .. Len(StoredBytes)
        /\ StoredBytes[Len(uxTaken) + 1] = UxByte
    BY <1>2, <1>5, <2>1, HeadOf DEF UxByte
  <2>3. Len(uxTaken) + 1 \in 1 .. Len(uxStored)
    BY <1>2, <2>2 DEF StoredBytes
  <2>4. UxByte \in UxBytes
    <3>1. uxStored[Len(uxTaken) + 1] \in UxEntries
      BY <1>2, <2>3
    <3>2. StoredBytes[Len(uxTaken) + 1] = uxStored[Len(uxTaken) + 1].frame.byte
      BY <2>3 DEF StoredBytes
    <3> QED BY <2>2, <3>1, <3>2 DEF UxEntries, UxBytes
  <2>5. uxPop' = TRUE /\ uxTaken' = Append(uxTaken, UxByte)
    BY <1>4, <1>5
  <2>6. /\ uxTaken' \in Seq(UxBytes) /\ Len(uxTaken') = Len(uxTaken) + 1
        /\ uxTaken'[Len(uxTaken) + 1] = UxByte
        /\ \A i \in 1 .. Len(uxTaken) : uxTaken'[i] = uxTaken[i]
    BY <1>2, <2>4, <2>5, AppendProperties
  <2>7. UxOut' = Len(uxTaken)
    BY <1>2, <2>5, <2>6 DEF UxOut
  <2>8. ASSUME NEW i \in 1 .. Len(uxTaken')
        PROVE  uxTaken'[i] = StoredBytes'[i]
    <3>1. i \in 1 .. Len(uxStored)
      BY <1>2, <2>3, <2>6
    <3>2. CASE i = Len(uxTaken) + 1
      BY <1>1, <2>2, <2>6, <3>1, <3>2
    <3>3. CASE i # Len(uxTaken) + 1
      <4>1. i \in 1 .. Len(uxTaken)
        BY <1>2, <2>6, <3>3
      <4> QED BY <1>1, <1>2, <2>6, <3>1, <4>1
    <3> QED BY <3>2, <3>3
  <2>9. Len(uxTaken') <= Len(uxStored')
    BY <1>1, <1>2, <2>3, <2>6
  <2>10. uxPop' \in BOOLEAN /\ ~uxQueue'.empty
    BY <1>1, <1>5, <2>1, <2>5
  <2> QED BY <1>1, <1>2, <1>3, <2>6, <2>7, <2>8, <2>9, <2>10 DEF UxInv
<1>6. CASE ~(reads /\ ~uxQueue.empty)
  <2>1. uxPop' = FALSE /\ uxTaken' = uxTaken
    BY <1>4, <1>6
  <2>2. UxOut' = Len(uxTaken)
    BY <1>2, <2>1 DEF UxOut
  <2>3. \A i \in 1 .. Len(uxTaken') : uxTaken'[i] = StoredBytes'[i]
    BY <1>1, <1>2, <2>1
  <2>4. Len(uxTaken') <= Len(uxStored')
    BY <1>1, <1>2, <2>1
  <2>5. uxPop' \in BOOLEAN /\ ~uxPop'
    BY <2>1
  <2> QED BY <1>1, <1>2, <1>3, <2>1, <2>2, <2>3, <2>4, <2>5 DEF UxInv
<1> QED BY <1>5, <1>6

LEMMA LossStep ==
    ASSUME UxInv, UxLossInv, NEW reads, UxClock(reads)
    PROVE  UxLossInv'
<1>1. ~UxWrite /\ uxQueue'.full => uxQueue.full
  BY ReceivingQueue
<1>2. /\ uxStage \in {"IDLE", "WRITE", "delay", "we"}
      /\ uxRefused \in BOOLEAN /\ uxOverrun \in BOOLEAN /\ uxClear \in BOOLEAN /\ uxMissed \in Nat
      /\ uxStage \in {"delay", "we"} /\ ~uxRefused /\ uxFrame.kind # "break" => ~uxQueue.full
      /\ uxMissed > 0 /\ ~uxClear => uxOverrun
      /\ uxQueue.full \in BOOLEAN
  BY DEF UxLossInv, LossReported, UxInv, QueueSound
<1>3. /\ uxRefused' = IF uxStage = "WRITE" THEN UxRefusedNext ELSE uxRefused
      /\ uxOverrun' = (~uxClear /\ (uxOverrun \/ uxRefused))
      /\ uxClear' = uxClear
      /\ uxMissed' = IF /\ uxStage = "we" /\ ~UfWrites(uxQueue, uxPop, UxWrite)
                        /\ uxFrame.kind # "break"
                     THEN uxMissed + 1 ELSE uxMissed
  BY DEF UxClock
<1>4. \/ uxStage \in {"IDLE", "we"} /\ uxStage' \in {"IDLE", "WRITE"}
      \/ uxStage = "WRITE" /\ uxStage' = "delay" /\ uxFrame' = uxFrame
      \/ uxStage = "delay" /\ uxStage' = "we" /\ uxFrame' = uxFrame
  BY <1>2 DEF UxClock, UxArrives, UxStages
<1>5. uxStage' \in {"IDLE", "WRITE", "delay", "we"} /\ uxMissed' \in Nat
  BY <1>2, <1>3, <1>4
<1>6. uxRefused' \in BOOLEAN /\ uxOverrun' \in BOOLEAN /\ uxClear' \in BOOLEAN
  BY <1>2, <1>3 DEF UxRefusedNext
<1>7. ASSUME uxStage' \in {"delay", "we"}, ~uxRefused', uxFrame'.kind # "break"
      PROVE  ~uxQueue'.full
  <2>1. uxStage # "we" /\ uxFrame' = uxFrame
    BY <1>4, <1>7
  <2>2. uxQueue'.full => uxQueue.full
    BY <1>1, <2>1 DEF UxWrite
  <2>3. CASE uxStage = "WRITE"
    BY <1>3, <1>7, <2>1, <2>2, <2>3 DEF UxRefusedNext
  <2>4. CASE uxStage = "delay"
    BY <1>2, <1>3, <1>7, <2>1, <2>2, <2>4
  <2> QED BY <1>4, <1>7, <2>3, <2>4
<1>8. ASSUME uxMissed' > 0, ~uxClear'
      PROVE  uxOverrun'
  <2>1. CASE uxMissed > 0
    BY <1>2, <1>3, <1>8, <2>1
  <2>2. CASE uxMissed = 0
    <3>1. /\ uxStage = "we" /\ ~UfWrites(uxQueue, uxPop, UxWrite)
          /\ uxFrame.kind # "break"
      BY <1>3, <1>8, <2>2
    <3>2. uxRefused
      BY <1>2, <3>1 DEF UfWrites, UxWrite
    <3> QED BY <1>3, <1>8, <3>2
  <2> QED BY <1>2, <2>1, <2>2
<1> QED BY <1>5, <1>6, <1>7, <1>8 DEF UxLossInv, LossReported

(* The marks of what stays in a queue stay, and those of what enters a      *)
(* queue with room are put beside it.                                       *)
LEMMA MarksAfter ==
    ASSUME NEW q, QueueSound(q), NEW re \in BOOLEAN, NEW we \in BOOLEAN, NEW c, NEW m, re => ~q.empty
    PROVE  LET r == UfAfter(q, re, we, c, m) IN
           /\ \A k \in (IF re THEN 1 ELSE 0) .. UfLength(q) - 1 :
                  r.marks[UfPlace(q, k)] = q.marks[UfPlace(q, k)]
           /\ we /\ ~q.full => r.marks[UfPlace(q, UfLength(q))] = m
           /\ UfPlace(q, 0) = q.read
           /\ r.read = IF re THEN UfSucc(q.read) ELSE q.read
<1> DEFINE r == UfAfter(q, re, we, c, m)
<1>1. r.read = IF re THEN UfSucc(q.read) ELSE q.read
  BY DEF UfAfter, UfReads
<1>2. \A p \in UfPlaces :
          r.marks[p] = IF p = q.read /\ re /\ (~we \/ q.write # p) THEN {}
                       ELSE IF p = q.write /\ we /\ ~q.full THEN m ELSE q.marks[p]
  BY DEF UfAfter, UfMarks
<1> HIDE DEF r
<1> PICK l \in Int : l = UfLength(q) /\ 0 <= l /\ l <= UfDepth
  BY LengthOf, UfDepthAssumption
<1>3. UfPlace(q, 0) = q.read /\ 0 \in 0 .. UfDepth - 1
  <2>1. 0 \in 0 .. UfDepth - 1
    BY UfDepthAssumption
  <2>2. UfPlace(q, 0) = IF q.read + 0 < UfDepth THEN q.read + 0 ELSE q.read + 0 - UfDepth
    BY <2>1, PlaceOf
  <2>3. q.read \in 0 .. UfDepth - 1
    BY DEF QueueSound, UfPlaces
  <2> QED BY <2>1, <2>2, <2>3, UfDepthAssumption
<1>4. ASSUME NEW k \in (IF re THEN 1 ELSE 0) .. l - 1
      PROVE  r.marks[UfPlace(q, k)] = q.marks[UfPlace(q, k)]
  <2>1. k \in 0 .. UfDepth - 1 /\ k < l /\ (re => k # 0)
    BY UfDepthAssumption
  <2>2. UfPlace(q, k) \in UfPlaces
    BY <2>1, PlaceOf
  <2>3. re => UfPlace(q, k) # q.read
    BY <1>3, <2>1, PlacesApart
  <2>4. ~q.full => UfPlace(q, k) # q.write
    <3>1. SUFFICES ASSUME ~q.full PROVE UfPlace(q, k) # q.write
      OBVIOUS
    <3>2. l \in 0 .. UfDepth - 1 /\ UfPlace(q, l) = q.write
      BY <3>1, LastPlace
    <3>3. k # l
      BY <2>1
    <3> QED BY <2>1, <3>2, <3>3, PlacesApart
  <2> QED BY <1>2, <2>2, <2>3, <2>4
<1>5. ASSUME we, ~q.full
      PROVE  r.marks[UfPlace(q, l)] = m
  <2>1. UfPlace(q, l) = q.write /\ q.write \in UfPlaces
    BY <1>5, LastPlace DEF QueueSound
  <2> QED BY <1>2, <1>5, <2>1
<1> QED BY <1>1, <1>3, <1>4, <1>5 DEF r

LEMMA MarksStep ==
    ASSUME UxInv, UxMarksInv, NEW reads \in BOOLEAN, reads => ~uxPop, UxClock(reads)
    PROVE  UxMarksInv'
<1> SUFFICES ASSUME ~uxClear', NEW j \in (0 .. UfLength(uxQueue) - 1)',
                    ~uxStored'[UxOut' + j + 1].full
             PROVE  uxQueue'.marks[UfPlace(uxQueue', j)] = UxMarksOf(uxStored'[UxOut' + j + 1].frame)
  BY DEF UxMarksInv
<1>1. /\ QueueSound(uxQueue') /\ Waits(uxQueue', Len(uxTaken), StoredBytes')
      /\ uxStored' \in Seq(UxEntries)
      /\ \A i \in 1 .. Len(uxStored) : uxStored'[i] = uxStored[i]
  BY ReceivingQueue
<1>2. /\ QueueSound(uxQueue) /\ uxPop \in BOOLEAN
      /\ uxStored \in Seq(UxEntries) /\ uxTaken \in Seq(UxBytes)
      /\ UxOut \in Nat /\ Waits(uxQueue, UxOut, StoredBytes) /\ (uxPop => ~uxQueue.empty)
  BY DEF UxInv
<1>3. UxOut' = Len(uxTaken)
  BY ReceivingStep
<1>4. /\ uxQueue' = UfAfter(uxQueue, uxPop, UxWrite, uxFrame.byte, UxMarksOf(uxFrame))
      /\ ~uxClear
      /\ uxStored' = IF UfWrites(uxQueue, uxPop, UxWrite)
                     THEN Append(uxStored, [frame |-> uxFrame, full |-> uxQueue.full])
                     ELSE uxStored
  BY DEF UxClock
<1>5. UxWrite \in BOOLEAN
  BY DEF UxWrite
<1>6. /\ \A k \in (IF uxPop THEN 1 ELSE 0) .. UfLength(uxQueue) - 1 :
             uxQueue'.marks[UfPlace(uxQueue, k)] = uxQueue.marks[UfPlace(uxQueue, k)]
      /\ UxWrite /\ ~uxQueue.full =>
             uxQueue'.marks[UfPlace(uxQueue, UfLength(uxQueue))] = UxMarksOf(uxFrame)
      /\ uxQueue'.read = IF uxPop THEN UfSucc(uxQueue.read) ELSE uxQueue.read
  BY <1>2, <1>4, <1>5, MarksAfter
<1>7. PICK l \in Nat : l = UfLength(uxQueue) /\ l <= UfDepth
  BY <1>2, LengthOf, UfDepthAssumption
<1>8. PICK t \in Nat : t = UfLength(uxQueue') /\ t <= UfDepth
  BY <1>1, LengthOf, UfDepthAssumption
<1>9. PICK n \in Nat, s \in Nat, z \in Nat :
          n = UxOut /\ s = Len(uxStored) /\ z = Len(uxStored')
  BY <1>1, <1>2
<1> DEFINE shift == IF uxPop THEN 1 ELSE 0
           k == j + shift
<1>10. Len(uxTaken) = n + shift /\ shift \in {0, 1}
  <2>1. Len(uxTaken) \in Nat
    BY <1>2
  <2> QED BY <1>2, <1>9, <2>1 DEF UxOut
<1>11. s = n + l /\ z = n + shift + t
  <2>1. Len(StoredBytes) = s /\ Len(StoredBytes') = z
    BY <1>9 DEF StoredBytes
  <2>2. Len(StoredBytes) = n + l
    BY <1>2, <1>7, <1>9 DEF Waits
  <2>3. Len(StoredBytes') = Len(uxTaken) + t
    BY <1>1, <1>8 DEF Waits
  <2> QED BY <1>10, <2>1, <2>2, <2>3
<1>12. j \in Nat /\ j < t /\ k \in Nat /\ k = j + shift
  BY <1>8, <1>10
<1>13. UxOut' + j + 1 = n + k + 1
  BY <1>3, <1>10, <1>12
<1>14. ASSUME k < UfDepth
       PROVE  UfPlace(uxQueue', j) = UfPlace(uxQueue, k)
  <2>1. CASE uxPop
    <3>1. uxQueue'.read = UfSucc(uxQueue.read) /\ k = j + 1 /\ j \in 0 .. UfDepth - 2
      BY <1>6, <1>12, <1>14, <2>1, UfDepthAssumption
    <3> HIDE DEF k
    <3> QED BY <1>1, <1>2, <3>1, PlaceShift
  <2>2. CASE ~uxPop
    <3>1. uxQueue'.read = uxQueue.read /\ k = j
      BY <1>6, <1>12, <2>2
    <3> QED BY <3>1 DEF UfPlace
  <2> QED BY <1>2, <2>1, <2>2
<1> HIDE DEF k
<1>15. CASE k < l
  <2>1. k \in shift .. l - 1 /\ k \in 0 .. l - 1 /\ k < UfDepth /\ n + k + 1 \in 1 .. s
    BY <1>7, <1>10, <1>11, <1>12, <1>15, UfDepthAssumption
  <2>2. uxStored'[n + k + 1] = uxStored[n + k + 1]
    BY <1>1, <1>9, <2>1
  <2>3. uxQueue.marks[UfPlace(uxQueue, k)] = UxMarksOf(uxStored[n + k + 1].frame)
    BY <1>4, <1>7, <1>9, <1>13, <2>1, <2>2 DEF UxMarksInv
  <2>4. uxQueue'.marks[UfPlace(uxQueue, k)] = uxQueue.marks[UfPlace(uxQueue, k)]
    BY <1>6, <1>7, <2>1
  <2> QED BY <1>13, <1>14, <2>1, <2>2, <2>3, <2>4
<1>16. CASE k >= l
  <2>1. CASE UfWrites(uxQueue, uxPop, UxWrite)
    <3>1. uxStored' = Append(uxStored, [frame |-> uxFrame, full |-> uxQueue.full])
      BY <1>4, <2>1
    <3>2. z = s + 1 /\ uxStored'[s + 1] = [frame |-> uxFrame, full |-> uxQueue.full]
      <4>1. [frame |-> uxFrame, full |-> uxQueue.full] \in UxEntries
        BY DEF UxInv, UxEntries, QueueSound
      <4> QED BY <1>2, <1>9, <3>1, <4>1, AppendProperties
    <3>3. k = l /\ n + k + 1 = s + 1
      BY <1>10, <1>11, <1>12, <1>16, <3>2
    <3>4. ~uxQueue.full
      BY <1>13, <3>2, <3>3
    <3>5. UxWrite /\ l < UfDepth
      <4>1. UfLength(uxQueue) \in 0 .. UfDepth - 1
        BY <1>2, <3>4, LastPlace
      <4> QED BY <1>7, <2>1, <4>1, UfDepthAssumption DEF UfWrites
    <3>6. uxQueue'.marks[UfPlace(uxQueue, k)] = UxMarksOf(uxFrame)
      BY <1>6, <1>7, <3>3, <3>4, <3>5
    <3> QED BY <1>13, <1>14, <3>2, <3>3, <3>5, <3>6
  <2>2. CASE ~UfWrites(uxQueue, uxPop, UxWrite)
    <3>1. z = s
      BY <1>4, <1>9, <2>2
    <3> QED BY <1>10, <1>11, <1>12, <1>16, <3>1
  <2> QED BY <2>1, <2>2
<1> QED BY <1>7, <1>12, <1>15, <1>16

LEMMA ReceivingShown ==
    UxInv /\ UxLossInv /\ UxMarksInv => TakenInOrder /\ LossReported /\ MarksFollowByte
<1> SUFFICES ASSUME UxInv, UxLossInv, UxMarksInv
             PROVE  TakenInOrder /\ LossReported /\ MarksFollowByte
  OBVIOUS
<1>1. /\ QueueSound(uxQueue) /\ uxPop \in BOOLEAN
      /\ uxStored \in Seq(UxEntries) /\ uxTaken \in Seq(UxBytes)
      /\ UxOut \in Nat /\ Waits(uxQueue, UxOut, StoredBytes) /\ (uxPop => ~uxQueue.empty)
      /\ \A i \in 1 .. Len(uxTaken) : uxTaken[i] = StoredBytes[i]
      /\ Len(uxTaken) \in Nat /\ Len(uxStored) \in Nat
  BY DEF UxInv
<1>2. StoredBytes \in Seq(UxBytes)
  <2>1. \A i \in 1 .. Len(uxStored) : uxStored[i].frame.byte \in UxBytes
    <3>1. \A i \in 1 .. Len(uxStored) : uxStored[i] \in UxEntries
      BY <1>1
    <3> QED BY <3>1 DEF UxEntries, UxBytes
  <2>2. StoredBytes \in [1 .. Len(uxStored) -> UxBytes]
    BY <2>1 DEF StoredBytes
  <2> QED BY <1>1, <2>2
<1> DEFINE queue == IF uxPop THEN UfAfter(uxQueue, TRUE, FALSE, NoByte, {}) ELSE uxQueue
<1>3. QueueSound(queue) /\ Waits(queue, Len(uxTaken), StoredBytes)
  <2>1. CASE uxPop
    <3>1. Len(uxTaken) = UxOut + 1
      BY <1>1, <2>1 DEF UxOut
    <3> QED BY <1>1, <2>1, <3>1, Leaves
  <2>2. CASE ~uxPop
    <3>1. Len(uxTaken) = UxOut
      BY <1>1, <2>2 DEF UxOut
    <3> QED BY <1>1, <2>2, <3>1
  <2> QED BY <2>1, <2>2
<1>4. uxTaken \o UfContent(queue) = StoredBytes
  <2> HIDE DEF queue
  <2> QED BY <1>1, <1>2, <1>3, ContentOf
<1>5. TakenInOrder
  <2>1. Len(StoredBytes) = Len(uxStored)
    BY <1>1 DEF StoredBytes
  <2>2. \A i \in 1 .. Len(StoredBytes) : StoredBytes[i] = uxStored[i].frame.byte
    BY <2>1 DEF StoredBytes
  <2> QED BY <1>4, <2>1, <2>2 DEF TakenInOrder
<1>6. MarksFollowByte
  <2> SUFFICES ASSUME ~uxPop, UxAvailable, ~uxClear, ~uxStored[Len(uxTaken) + 1].full
               PROVE  UxMarks = UxMarksOf(uxStored[Len(uxTaken) + 1].frame)
    BY DEF MarksFollowByte
  <2>1. UxOut = Len(uxTaken) /\ UxOut + 0 + 1 = Len(uxTaken) + 1
    BY <1>1 DEF UxOut
  <2>2. 0 \in 0 .. UfLength(uxQueue) - 1
    <3>1. UfLength(uxQueue) \in 0 .. UfDepth /\ UfLength(uxQueue) # 0
      BY <1>1, LengthOf DEF UxAvailable
    <3> QED BY <3>1, UfDepthAssumption
  <2>3. UfPlace(uxQueue, 0) = uxQueue.read
    BY <1>1, MarksAfter
  <2>4. uxQueue.marks[UfPlace(uxQueue, 0)] = UxMarksOf(uxStored[UxOut + 0 + 1].frame)
    BY <2>1, <2>2 DEF UxMarksInv
  <2> QED BY <2>1, <2>3, <2>4 DEF UxMarks
<1> QED BY <1>5, <1>6 DEF UxLossInv

-----------------------------------------------------------------------------
(* The programs, with any of the two libraries.                            *)

\* The first halves of the divisor are set, those that the first k - 1 writes of the
\* initialisation reach.
Divisor(k) ==
    srDivisor = [i \in 1 .. 2 |-> IF k > i + 1 THEN IF i = 1 THEN "low" ELSE "high" ELSE "zero"]

\* How far the initialisation is: the writes that are left, and what those that
\* were done have left in the registers.
SetUpAt(k) ==
    /\ srLeft = SubSeq(SrSetupOf(srLibrary), k, 4) /\ srAsked = <<>> /\ srLatch \in BOOLEAN
    /\ srLatch <=> srLibrary = "monitor" /\ k > 1
    /\ srLibrary = "monitor" => Divisor(k)
    /\ srLibrary = "support" => Divisor(4)
    /\ utAccepted = IF srLibrary = "support" /\ k > 2 THEN <<"low">> ELSE <<>>

Stray == IF srLibrary = "support" THEN <<"low">> ELSE <<>>

\* A program only stores a byte once the line is idle, and does not read register 0
\* in two clocks running.
SrInv ==
    /\ UtInv /\ UxInv /\ UxLossInv /\ UxMarksInv
    /\ srLibrary \in {"monitor", "support"} /\ srAt \in SrPlaces /\ srAsked \in Seq(Characters)
    /\ srAt = "init" => \E k \in 1 .. 4 : SetUpAt(k)
    /\ srAt # "init" => srLatch = FALSE /\ Divisor(4) /\ utAccepted = Stray \o srAsked
    /\ srAt = "write" => UtAllSent
    /\ srAt \in {"wait tx", "write"} => srLeft \in Seq(Characters) /\ srLeft # <<>>
    /\ uxPop => srAt \notin {"read", "read digit"}

LEMMA SetupSequence ==
    ASSUME NEW library \in {"monitor", "support"}, NEW k \in 1 .. 4
    PROVE  LET setup == SrSetupOf(library)
               rest == SubSeq(setup, k, 4) IN
           /\ Len(rest) = 5 - k /\ Head(rest) = setup[k]
           /\ k < 4 => Tail(rest) = SubSeq(setup, k + 1, 4)
           /\ setup = SubSeq(setup, 1, 4)
<1> DEFINE Writes == [reg : 0 .. 5, value : {"latch", "low", "high", "8N1"}]
           setup == SrSetupOf(library)
<1>1. setup \in Seq(Writes) /\ Len(setup) = 4
  BY DEF SrSetupOf
<1> HIDE DEF setup
<1>2. SubSeq(setup, k, 4) \in Seq(Writes) /\ Len(SubSeq(setup, k, 4)) = 5 - k
  <2>1. ASSUME NEW i \in k .. 4 PROVE setup[i] \in Writes
    <3>1. i \in 1 .. Len(setup)
      BY <1>1
    <3> HIDE DEF Writes
    <3> QED BY <1>1, <3>1, ElementOfSeq
  <2> QED BY <1>1, <2>1, SubSeqProperties
<1>3. Head(SubSeq(setup, k, 4)) = setup[k]
  BY <1>1, HeadTailOfSubSeq
<1>4. k < 4 => Tail(SubSeq(setup, k, 4)) = SubSeq(setup, k + 1, 4)
  BY <1>1, HeadTailOfSubSeq
<1>5. setup = SubSeq(setup, 1, 4)
  BY <1>1, SubSeqFull
<1> QED BY <1>2, <1>3, <1>4, <1>5 DEF setup

LEMMA DriverInit == SrInit => SrInv
<1> SUFFICES ASSUME SrInit PROVE SrInv
  OBVIOUS
<1>1. UtInv /\ UxInv /\ UxLossInv /\ UxMarksInv
  BY SendingInit, ReceivingInit DEF SrInit
<1>2. /\ srLibrary \in {"monitor", "support"} /\ srAt = "init"
      /\ srLeft = SrSetupOf(srLibrary) /\ srLatch = FALSE
      /\ srDivisor = IF srLibrary = "monitor" THEN <<"zero", "zero">> ELSE <<"low", "high">>
      /\ srAsked = <<>> /\ utAccepted = <<>> /\ uxPop = FALSE
  BY DEF SrInit, UtInit, UxInit
<1>3. SetUpAt(1)
  <2>1. srLeft = SubSeq(SrSetupOf(srLibrary), 1, 4)
    BY <1>2, SetupSequence
  <2>2. srLatch \in BOOLEAN /\ (srLatch <=> srLibrary = "monitor" /\ 1 > 1)
    <3>1. srLatch = FALSE /\ ~(1 > 1)
      BY <1>2
    <3> QED BY <3>1, Zenon
  <2>3. srLibrary = "monitor" => Divisor(1)
    BY <1>2 DEF Divisor
  <2>4. srLibrary = "support" => Divisor(4)
    BY <1>2 DEF Divisor
  <2>5. utAccepted = IF srLibrary = "support" /\ 1 > 2 THEN <<"low">> ELSE <<>>
    BY <1>2
  <2> QED BY <1>2, <2>1, <2>2, <2>3, <2>4, <2>5, Zenon DEF SetUpAt
<1>4. srAsked \in Seq(Characters) /\ srAt \in SrPlaces
  BY <1>2 DEF SrPlaces
<1>5. uxPop => srAt \notin {"read", "read digit"}
  BY <1>2
<1> QED BY <1>1, <1>2, <1>3, <1>4, <1>5 DEF SrInv

(* A line that is idle stays so until a byte is stored.                     *)
LEMMA IdleLine ==
    ASSUME UtInv, UtAllSent, NEW tick, UtClock(tick, NoByte)
    PROVE  UtAllSent'
<1>1. utState = "IDLE" /\ utQueue.empty /\ ~utAck
  BY DEF UtInv, UtAllSent
<1>2. utState' = "IDLE"
  BY <1>1 DEF UtClock, UtMachine
<1>3. utQueue'.empty
  BY <1>1, SendingQueue
<1> QED BY <1>2, <1>3 DEF UtAllSent

(* An idle line takes the byte that is stored, one that is busy may drop it.*)
LEMMA Accepts ==
    ASSUME UtInv, NEW tick, NEW byte \in Characters \cup {NoByte}, UtClock(tick, byte)
    PROVE  /\ byte = NoByte => utAccepted' = utAccepted
           /\ byte # NoByte /\ utQueue.empty => utAccepted' = Append(utAccepted, byte)
<1>1. utQueue.empty => ~utQueue.full
  BY DEF UtInv, QueueSound
<1> QED BY <1>1 DEF UtClock

\* Both halves of the UART in one clock.
HalvesInv == UtInv /\ UxInv /\ UxLossInv /\ UxMarksInv

LEMMA HalvesStep ==
    ASSUME HalvesInv, NEW tick \in BOOLEAN, NEW byte \in Characters \cup {NoByte},
           NEW reads \in BOOLEAN, reads => ~uxPop, UtClock(tick, byte), UxClock(reads)
    PROVE  HalvesInv'
<1>1. UtInv'
  BY SendingStep DEF HalvesInv
<1>2. UxInv'
  BY ReceivingStep DEF HalvesInv
<1>3. UxLossInv'
  BY LossStep DEF HalvesInv
<1>4. UxMarksInv'
  BY MarksStep DEF HalvesInv
<1> QED BY <1>1, <1>2, <1>3, <1>4 DEF HalvesInv

LEMMA LowSent == "low" \in Characters
BY TextsAssumption DEF Characters

(* What the writes of the two initialisations do.                           *)
LEMMA SetupWrite ==
    ASSUME NEW library \in {"monitor", "support"}
    PROVE  LET setup == SrSetupOf(library) IN
           /\ library = "monitor" => setup[1].reg = 3
           /\ library = "support" => setup[1].reg = 5
           /\ setup[1].value = "latch"
           /\ setup[2].reg = 0 /\ setup[2].value = "low"
           /\ setup[3].reg = 1 /\ setup[3].value = "high"
           /\ setup[4].reg = 3 /\ setup[4].value = "8N1"
BY DEF SrSetupOf

LEMMA LatchAfter ==
    ASSUME NEW reg \in 0 .. 5, NEW value, SrStore(reg, value)
    PROVE  /\ reg # 3 => srLatch' = srLatch
           /\ reg = 3 /\ value = "latch" => srLatch' = TRUE
           /\ reg = 3 /\ value # "latch" => srLatch' = FALSE
<1>1. CASE reg = 3
  <2>1. srLatch' = (value = "latch")
    BY <1>1 DEF SrStore
  <2> QED BY <1>1, <2>1
<1>2. CASE reg # 3
  BY <1>2 DEF SrStore
<1> QED BY <1>1, <1>2

LEMMA DivisorAfter ==
    ASSUME NEW reg \in 0 .. 5, NEW value, SrStore(reg, value), NEW k \in 1 .. 4, Divisor(k)
    PROVE  /\ ~srLatch \/ reg \notin {0, 1} => Divisor(k)'
           /\ srLatch /\ reg = 0 /\ value = "low" /\ k = 2 => Divisor(3)'
           /\ srLatch /\ reg = 1 /\ value = "high" /\ k = 3 => Divisor(4)'
<1>1. srDivisor' = [i \in 1 .. 2 |-> IF srLatch /\ reg = i - 1 THEN value ELSE srDivisor[i]]
  BY DEF SrStore
<1>2. /\ srDivisor = [i \in 1 .. 2 |-> srDivisor[i]]
      /\ srDivisor[1] = IF k > 2 THEN "low" ELSE "zero"
      /\ srDivisor[2] = IF k > 3 THEN "high" ELSE "zero"
  BY DEF Divisor
<1>3. ASSUME ~srLatch \/ reg \notin {0, 1}
      PROVE  Divisor(k)'
  <2>1. srDivisor' = srDivisor
    BY <1>1, <1>2, <1>3
  <2> QED BY <2>1 DEF Divisor
<1>4. ASSUME srLatch, reg = 0, value = "low", k = 2
      PROVE  Divisor(3)'
  BY <1>1, <1>2, <1>4 DEF Divisor
<1>5. ASSUME srLatch, reg = 1, value = "high", k = 3
      PROVE  Divisor(4)'
  BY <1>1, <1>2, <1>5 DEF Divisor
<1> QED BY <1>3, <1>4, <1>5

(* One write of the initialisation.                                         *)
LEMMA SerialSetupStep ==
    ASSUME SrInv, NEW tick \in BOOLEAN, SrInitStep(tick), UNCHANGED srLibrary
    PROVE  SrInv'
<1>1. HalvesInv /\ UtInv /\ srLibrary \in {"monitor", "support"}
  BY DEF SrInv, HalvesInv
<1>2. PICK k \in 1 .. 4 : SetUpAt(k)
  BY DEF SrInv, SrInitStep
<1> DEFINE w == SrSetupOf(srLibrary)[k]
<1>3. Head(srLeft) = w /\ Len(srLeft) = 5 - k /\ (k < 4 => Tail(srLeft) = SubSeq(SrSetupOf(srLibrary), k + 1, 4))
  BY <1>1, <1>2, SetupSequence DEF SetUpAt
<1>4. /\ SrStore(w.reg, w.value) /\ UtClock(tick, SrToTransmitter(w.reg, w.value)) /\ UxClock(FALSE)
      /\ srLeft' = Tail(srLeft) /\ srAsked' = srAsked
      /\ srAt' = IF Len(srLeft) = 1 THEN "program" ELSE "init"
  BY <1>3 DEF SrInitStep
<1>5. /\ k = 1 => w.reg \in {3, 5} /\ (srLibrary = "monitor" <=> w.reg = 3) /\ w.value = "latch"
      /\ k = 2 => w.reg = 0 /\ w.value = "low"
      /\ k = 3 => w.reg = 1 /\ w.value = "high"
      /\ k = 4 => w.reg = 3 /\ w.value = "8N1"
  BY <1>1, SetupWrite
<1>6. w.reg \in 0 .. 5
  BY <1>5
<1> HIDE DEF w
<1>7. /\ srAsked = <<>> /\ srLatch \in BOOLEAN /\ (srLatch <=> srLibrary = "monitor" /\ k > 1)
      /\ srLibrary = "monitor" => Divisor(k)
      /\ srLibrary = "support" => Divisor(4)
      /\ utAccepted = IF srLibrary = "support" /\ k > 2 THEN <<"low">> ELSE <<>>
  BY <1>2 DEF SetUpAt
<1> DEFINE byte == SrToTransmitter(w.reg, w.value)
<1>8. /\ byte = IF k = 2 /\ srLibrary = "support" THEN "low" ELSE NoByte
      /\ "low" \in Characters
  <2>1. w.reg = 0 <=> k = 2
    BY <1>5
  <2>2. k = 2 => (srLatch <=> srLibrary = "monitor")
    BY <1>7
  <2>3. k # 2 => byte = NoByte
    BY <2>1 DEF SrToTransmitter
  <2>4. k = 2 => byte = IF srLatch THEN NoByte ELSE "low"
    BY <1>5, <1>7 DEF SrToTransmitter
  <2> QED BY <1>1, <1>7, <2>2, <2>3, <2>4, LowSent
<1>9. HalvesInv'
  BY <1>1, <1>4, <1>8, HalvesStep
<1>10. utAccepted' = IF srLibrary = "support" /\ k + 1 > 2 THEN <<"low">> ELSE <<>>
  <2>1. CASE k = 2 /\ srLibrary = "support"
    <3>1. utAccepted = <<>> /\ byte = "low" /\ byte # NoByte
      BY <1>7, <1>8, <2>1 DEF Characters
    <3>2. utQueue.empty
      <4>1. UfLength(utQueue) \in Nat /\ OutOfQueue \in Nat /\ QueueSound(utQueue)
            /\ Len(utAccepted) = OutOfQueue + UfLength(utQueue)
        BY <1>1, LengthOf, UfDepthAssumption DEF UtInv, Waits
      <4>2. Len(utAccepted) = 0
        BY <3>1
      <4> QED BY <4>1, <4>2, LengthOf
    <3>3. utAccepted' = Append(utAccepted, byte)
      BY <1>1, <1>4, <1>8, <3>1, <3>2, Accepts
    <3> QED BY <2>1, <3>1, <3>3
  <2>2. CASE ~(k = 2 /\ srLibrary = "support")
    <3>1. utAccepted' = utAccepted
      BY <1>1, <1>4, <1>8, <2>2, Accepts
    <3> QED BY <1>7, <2>2, <3>1
  <2> QED BY <2>1, <2>2
<1>11. ~uxPop'
  BY <1>4 DEF UxClock
<1>12. srLibrary = "support" => Divisor(4)'
  <2>1. srLibrary = "support" => ~srLatch
    BY <1>7
  <2>2. 4 \in 1 .. 4
    OBVIOUS
  <2> QED BY <1>4, <1>6, <1>7, <2>1, <2>2, DivisorAfter
<1>13. srLibrary = "monitor" => IF k < 4 THEN Divisor(k + 1)' ELSE Divisor(4)'
  <2> SUFFICES ASSUME srLibrary = "monitor"
               PROVE  IF k < 4 THEN Divisor(k + 1)' ELSE Divisor(4)'
    OBVIOUS
  <2>1. CASE k = 1
    <3>1. Divisor(1)'
      BY <1>4, <1>5, <1>6, <1>7, <2>1, DivisorAfter
    <3> QED BY <2>1, <3>1 DEF Divisor
  <2>2. CASE k = 2
    <3>1. srLatch /\ w.reg = 0 /\ w.value = "low"
      BY <1>5, <1>7, <2>2
    <3> QED BY <1>4, <1>6, <1>7, <2>2, <3>1, DivisorAfter
  <2>3. CASE k = 3
    <3>1. srLatch /\ w.reg = 1 /\ w.value = "high"
      BY <1>5, <1>7, <2>3
    <3> QED BY <1>4, <1>6, <1>7, <2>3, <3>1, DivisorAfter
  <2>4. CASE k = 4
    <3>1. w.reg \notin {0, 1}
      BY <1>5, <2>4
    <3> QED BY <1>4, <1>6, <1>7, <2>4, <3>1, DivisorAfter
  <2> QED BY <2>1, <2>2, <2>3, <2>4
<1>14. CASE k < 4
  <2>1. srLatch' \in BOOLEAN /\ (srLatch' <=> srLibrary = "monitor" /\ k + 1 > 1)
    <3>1. k + 1 > 1
      OBVIOUS
    <3>2. CASE k = 1
      <4>1. CASE srLibrary = "monitor"
        <5>1. srLatch' = TRUE
          BY <1>4, <1>5, <1>6, <3>2, <4>1, LatchAfter
        <5> QED BY <3>1, <4>1, <5>1
      <4>2. CASE srLibrary # "monitor"
        <5>1. srLatch' = srLatch
          BY <1>1, <1>4, <1>5, <1>6, <3>2, <4>2, LatchAfter
        <5> QED BY <1>7, <4>2, <5>1
      <4> QED BY <4>1, <4>2
    <3>3. CASE k # 1
      <4>1. srLatch' = srLatch
        BY <1>4, <1>5, <1>6, <1>14, <3>3, LatchAfter
      <4>2. k > 1
        BY <3>3
      <4> QED BY <1>7, <3>1, <4>1, <4>2
    <3> QED BY <3>2, <3>3
  <2>2. srLeft' = SubSeq(SrSetupOf(srLibrary'), k + 1, 4)
    BY <1>3, <1>4, <1>14
  <2>3. k + 1 \in 1 .. 4 /\ SetUpAt(k + 1)'
    <3>1. k + 1 \in 1 .. 4
      BY <1>14
    <3>2. srLibrary' = srLibrary /\ srAsked' = <<>>
      BY <1>4, <1>7
    <3> QED BY <1>10, <1>12, <1>13, <1>14, <2>1, <2>2, <3>1, <3>2 DEF SetUpAt
  <2>4. srAt' = "init" /\ srAsked' = <<>>
    BY <1>3, <1>4, <1>7, <1>14
  <2>5. srAsked' \in Seq(Characters) /\ srAt' \in SrPlaces
    BY <2>4 DEF SrPlaces
  <2> QED BY <1>1, <1>9, <1>11, <2>3, <2>4, <2>5 DEF SrInv, HalvesInv
<1>15. CASE k = 4
  <2>1. srLatch' = FALSE
    BY <1>4, <1>5, <1>6, <1>15, LatchAfter
  <2>2. Divisor(4)'
    BY <1>1, <1>12, <1>13, <1>15
  <2>3. srAt' = "program" /\ srAsked' = <<>>
    BY <1>3, <1>4, <1>7, <1>15
  <2>4. utAccepted' = Stray' \o srAsked'
    <3>1. Stray' \in Seq(Characters) /\ utAccepted' = Stray'
      BY <1>10, <1>15, LowSent DEF Stray
    <3> QED BY <2>3, <3>1, ConcatEmptySeq
  <2>5. srAsked' \in Seq(Characters) /\ srAt' \in SrPlaces
    BY <2>3 DEF SrPlaces
  <2> QED BY <1>1, <1>9, <1>11, <2>1, <2>2, <2>3, <2>4, <2>5 DEF SrInv, HalvesInv
<1> QED BY <1>14, <1>15

LEMMA DriverStep == SrInv /\ [SrNext]_srVars => SrInv'
<1> SUFFICES ASSUME SrInv, [SrNext]_srVars PROVE SrInv'
  OBVIOUS
<1>1. /\ HalvesInv /\ UtInv
      /\ srLibrary \in {"monitor", "support"} /\ srAt \in SrPlaces /\ srAsked \in Seq(Characters)
      /\ srAt = "init" => \E k \in 1 .. 4 : SetUpAt(k)
      /\ srAt # "init" => srLatch = FALSE /\ Divisor(4) /\ utAccepted = Stray \o srAsked
      /\ srAt = "write" => UtAllSent
      /\ srAt \in {"wait tx", "write"} => srLeft \in Seq(Characters) /\ srLeft # <<>>
      /\ uxPop => srAt \notin {"read", "read digit"}
  BY DEF SrInv, HalvesInv
\* A clock that stores nothing into the UART.
<1>2. ASSUME NEW tick \in BOOLEAN, NEW reads \in BOOLEAN, reads => ~uxPop,
             UtClock(tick, NoByte), UxClock(reads), SrNoStore
      PROVE  /\ HalvesInv' /\ UNCHANGED <<srLatch, srDivisor>> /\ utAccepted' = utAccepted
             /\ UtAllSent => UtAllSent'
             /\ uxPop' => reads
  <2>1. HalvesInv'
    BY <1>1, <1>2, HalvesStep
  <2>2. utAccepted' = utAccepted
    BY <1>1, <1>2, Accepts
  <2>3. UtAllSent => UtAllSent'
    BY <1>1, <1>2, IdleLine
  <2> QED BY <1>2, <2>1, <2>2, <2>3 DEF SrNoStore, UxClock
\* Such a clock leaves the rest as it is, or lets the program go on.
<1>3. ASSUME HalvesInv', UNCHANGED <<srLatch, srDivisor, srAsked, srLibrary>>,
             utAccepted' = utAccepted, srAt # "init", srAt' \in SrPlaces, srAt' # "init",
             srAt' = "write" => UtAllSent',
             srAt' \in {"wait tx", "write"} => srLeft' \in Seq(Characters) /\ srLeft' # <<>>,
             uxPop' => srAt' \notin {"read", "read digit"}
      PROVE  SrInv'
  <2>1. srLatch' = FALSE /\ Divisor(4)' /\ utAccepted' = Stray' \o srAsked'
    BY <1>1, <1>3 DEF Divisor, Stray
  <2> QED BY <1>1, <1>3, <2>1 DEF SrInv, HalvesInv
<1>4. ASSUME UNCHANGED srVars
      PROVE  SrInv'
  <2>1. UNCHANGED <<utVars, uxVars, srLibrary, srAt, srLeft, srLatch, srDivisor, srAsked>>
    BY <1>4 DEF srVars
  <2>2. HalvesInv'
    BY <1>1, <2>1 DEF utVars, uxVars, HalvesInv, UtInv, UxInv, UxLossInv, UxMarksInv, OutOfQueue, UxOut,
          StoredBytes, LossReported
  <2> QED BY <1>1, <2>1, <2>2 DEF utVars, uxVars, SrInv, HalvesInv, SetUpAt, Divisor, Stray, UtAllSent
<1>5. ASSUME NEW tick \in BOOLEAN, SrIdle(tick)
      PROVE  SrInv'
  <2>1. /\ UtClock(tick, NoByte) /\ UxClock(FALSE) /\ SrNoStore
        /\ UNCHANGED <<srLibrary, srAt, srLeft, srLatch, srDivisor, srAsked>>
    BY <1>5 DEF SrIdle, SrNoStore
  <2>2. /\ HalvesInv' /\ utAccepted' = utAccepted /\ (UtAllSent => UtAllSent')
        /\ ~uxPop'
    BY <1>2, <2>1
  <2>3. CASE srAt = "init"
    <3>1. PICK k \in 1 .. 4 : SetUpAt(k)
      BY <1>1, <2>3
    <3>2. SetUpAt(k)'
      BY <2>1, <2>2, <3>1 DEF SetUpAt, Divisor
    <3> QED BY <1>1, <2>1, <2>2, <2>3, <3>2 DEF SrInv, HalvesInv
  <2>4. CASE srAt # "init"
    BY <1>1, <1>3, <2>1, <2>2, <2>4
  <2> QED BY <2>3, <2>4
<1>6. ASSUME NEW tick \in BOOLEAN, SrInitStep(tick), UNCHANGED srLibrary
      PROVE  SrInv'
  BY <1>6, SerialSetupStep
<1>7. ASSUME NEW tick \in BOOLEAN, SrWrite(tick), UNCHANGED srLibrary
      PROVE  SrInv'
  <2>1. /\ srAt = "write" /\ SrStore(0, Head(srLeft))
        /\ UtClock(tick, SrToTransmitter(0, Head(srLeft))) /\ UxClock(FALSE)
        /\ srAsked' = Append(srAsked, Head(srLeft)) /\ srLeft' = Tail(srLeft)
        /\ srAt' = IF Len(srLeft) = 1 THEN "program" ELSE "wait tx"
    BY <1>7 DEF SrWrite
  <2>2. /\ srLatch = FALSE /\ Divisor(4) /\ utAccepted = Stray \o srAsked /\ UtAllSent
        /\ srLeft \in Seq(Characters) /\ srLeft # <<>>
    BY <1>1, <2>1
  <2>3. Head(srLeft) \in Characters /\ SrToTransmitter(0, Head(srLeft)) = Head(srLeft)
    BY <2>2 DEF SrToTransmitter
  <2>4. Head(srLeft) # NoByte
    BY <2>3 DEF Characters
  <2>5. HalvesInv' /\ utAccepted' = Append(utAccepted, Head(srLeft))
    BY <1>1, <2>1, <2>2, <2>3, <2>4, HalvesStep, Accepts DEF UtAllSent
  <2>6. srLatch' = FALSE /\ Divisor(4)'
    <3>1. 0 \in 0 .. 5 /\ 4 \in 1 .. 4 /\ 0 # 3
      OBVIOUS
    <3> QED BY <2>1, <2>2, <3>1, LatchAfter, DivisorAfter
  <2>7. srAsked' \in Seq(Characters) /\ utAccepted' = Stray' \o srAsked'
    <3>1. Stray' = Stray /\ Stray \in Seq(Characters)
      BY <1>7, LowSent DEF Stray
    <3>2. Append(Stray \o srAsked, Head(srLeft)) = Stray \o Append(srAsked, Head(srLeft))
      <4>1. ASSUME NEW e \in Characters, NEW a \in Seq(Characters), NEW b \in Seq(Characters)
            PROVE  Append(a \o b, e) = a \o Append(b, e)
        <5>1. <<e>> \in Seq(Characters) /\ a \o b \in Seq(Characters)
          BY ConcatProperties
        <5>2. Append(a \o b, e) = (a \o b) \o <<e>> /\ Append(b, e) = b \o <<e>>
          BY <5>1, AppendIsConcat
        <5> QED BY <5>1, <5>2, ConcatAssociative
      <4> QED BY <1>1, <2>3, <3>1, <4>1
    <3>3. srAsked' \in Seq(Characters)
      BY <1>1, <2>1, <2>3, AppendProperties
    <3>4. utAccepted' = Stray' \o srAsked'
      BY <2>1, <2>2, <2>5, <3>1, <3>2
    <3> QED BY <3>3, <3>4
  <2>8. ~uxPop'
    BY <2>1 DEF UxClock
  <2>9. /\ srAt' \in {"program", "wait tx"}
        /\ srAt' = "wait tx" => srLeft' \in Seq(Characters) /\ srLeft' # <<>>
    <3>1. Len(srLeft) # 1 => Tail(srLeft) \in Seq(Characters) /\ Tail(srLeft) # <<>>
      <4>1. Tail(srLeft) \in Seq(Characters) /\ Len(Tail(srLeft)) = Len(srLeft) - 1
        BY <2>2, HeadTailProperties
      <4>2. Len(srLeft) # 1 => Len(Tail(srLeft)) # 0
        BY <2>2, <4>1
      <4> QED BY <4>1, <4>2
    <3> QED BY <2>1, <3>1
  <2>10. srAt' \in SrPlaces /\ srAt' # "init" /\ srAt' # "write"
    BY <2>9 DEF SrPlaces
  <2> QED BY <1>1, <1>7, <2>5, <2>6, <2>7, <2>8, <2>9, <2>10 DEF SrInv, HalvesInv
<1>8. ASSUME NEW tick \in BOOLEAN, SrWaitTx(tick), UNCHANGED srLibrary
      PROVE  SrInv'
  <2>1. /\ UtClock(tick, NoByte) /\ UxClock(FALSE) /\ SrNoStore /\ srAt = "wait tx"
        /\ srAt' = IF UtAllSent THEN "write" ELSE "wait tx"
        /\ UNCHANGED <<srLeft, srAsked>>
    BY <1>8 DEF SrWaitTx, SrReadyToSend
  <2>2. /\ HalvesInv' /\ UNCHANGED <<srLatch, srDivisor>> /\ utAccepted' = utAccepted
        /\ UtAllSent => UtAllSent'
        /\ ~uxPop'
    BY <1>2, <2>1
  <2>3. srAt' \in SrPlaces /\ srAt' # "init" /\ (srAt' = "write" => UtAllSent')
    BY <2>1, <2>2 DEF SrPlaces
  <2>4. srLeft' \in Seq(Characters) /\ srLeft' # <<>>
    BY <1>1, <2>1
  <2> QED BY <1>3, <1>8, <2>1, <2>2, <2>3, <2>4
<1>9. ASSUME NEW tick \in BOOLEAN, SrWaitRx(tick), UNCHANGED srLibrary
      PROVE  SrInv'
  <2>1. /\ UtClock(tick, NoByte) /\ UxClock(FALSE) /\ SrNoStore
        /\ srAt # "init" /\ srAt' \in {"wait rx", "wait digit", "read", "read digit"}
        /\ UNCHANGED <<srLeft, srAsked>>
    BY <1>9 DEF SrWaitRx
  <2>2. /\ HalvesInv' /\ UNCHANGED <<srLatch, srDivisor>> /\ utAccepted' = utAccepted /\ ~uxPop'
    BY <1>2, <2>1
  <2>3. srAt' \in SrPlaces /\ srAt' \notin {"init", "write", "wait tx"}
    BY <2>1 DEF SrPlaces
  <2> QED BY <1>3, <1>9, <2>1, <2>2, <2>3
<1>10. ASSUME NEW tick \in BOOLEAN, SrRead(tick) \/ SrReadDigit(tick), UNCHANGED srLibrary
       PROVE  SrInv'
  <2>1. /\ UtClock(tick, NoByte) /\ UxClock(TRUE) /\ SrNoStore
        /\ srAt \in {"read", "read digit"} /\ srAt' \in {"program", "wait digit"}
        /\ UNCHANGED <<srLeft, srAsked>>
    BY <1>10 DEF SrRead, SrReadDigit
  <2>2. ~uxPop
    BY <1>1, <2>1
  <2>3. HalvesInv' /\ UNCHANGED <<srLatch, srDivisor>> /\ utAccepted' = utAccepted
    BY <1>2, <2>1, <2>2
  <2>4. /\ srAt # "init" /\ srAt' \in SrPlaces
        /\ srAt' \notin {"init", "write", "wait tx", "read", "read digit"}
    BY <2>1 DEF SrPlaces
  <2> QED BY <1>3, <1>10, <2>1, <2>3, <2>4
<1>11. ASSUME NEW tick \in BOOLEAN, SrCall(tick), UNCHANGED srLibrary
       PROVE  SrInv'
  <2>1. /\ UtClock(tick, NoByte) /\ UxClock(FALSE) /\ SrNoStore
        /\ srAt = "program" /\ UNCHANGED srAsked
        /\ \/ \E text \in Texts : srLeft' = text /\ srAt' = "wait tx"
           \/ srAt' \in {"wait rx", "wait digit"}
    BY <1>11 DEF SrCall
  <2>2. /\ HalvesInv' /\ UNCHANGED <<srLatch, srDivisor>> /\ utAccepted' = utAccepted /\ ~uxPop'
    BY <1>2, <2>1
  <2>3. /\ srAt # "init" /\ srAt' \in SrPlaces /\ srAt' \notin {"init", "write"}
        /\ srAt' = "wait tx" => srLeft' \in Seq(Characters) /\ srLeft' # <<>>
    BY <2>1, TextsAssumption DEF SrPlaces, Characters
  <2> QED BY <1>3, <1>11, <2>1, <2>2, <2>3
<1> QED
  <2>1. CASE UNCHANGED srVars
    BY <1>4, <2>1
  <2>2. CASE SrNext
    BY <1>5, <1>6, <1>7, <1>8, <1>9, <1>10, <1>11, <2>2 DEF SrNext, SrAccess
  <2> QED BY <2>1, <2>2

LEMMA DriverInvariance == SrSpec => []SrInv
<1>1. SrInit => SrInv
  BY DriverInit
<1>2. SrInv /\ [SrNext]_srVars => SrInv'
  BY DriverStep
<1> QED BY <1>1, <1>2, PTL DEF SrSpec

LEMMA SetUpShown == SrInv => LineSetUp /\ NothingDropped
<1> SUFFICES ASSUME SrInv PROVE LineSetUp /\ NothingDropped
  OBVIOUS
<1>1. LineSetUp
  <2> SUFFICES ASSUME srAt # "init" PROVE ~srLatch /\ srDivisor = <<"low", "high">>
    BY DEF LineSetUp
  <2>1. srLatch = FALSE /\ Divisor(4)
    BY DEF SrInv
  <2> QED BY <2>1 DEF Divisor
<1>2. NothingDropped
  <2>1. CASE srAt = "init"
    <3>1. PICK k \in 1 .. 4 : SetUpAt(k)
      BY <2>1 DEF SrInv
    <3>2. Len(srLeft) = 5 - k /\ (Len(srLeft) < 3 <=> k > 2)
      <4>1. srLibrary \in {"monitor", "support"}
        BY DEF SrInv
      <4>2. Len(srLeft) = 5 - k
        BY <3>1, <4>1, SetupSequence DEF SetUpAt
      <4> QED BY <4>2
    <3>3. /\ srAsked = <<>>
          /\ utAccepted = IF srLibrary = "support" /\ k > 2 THEN <<"low">> ELSE <<>>
      BY <3>1 DEF SetUpAt
    <3> DEFINE stray == IF srLibrary = "support" /\ (srAt # "init" \/ Len(srLeft) < 3)
                        THEN <<"low">> ELSE <<>>
    <3>4. utAccepted = stray
      BY <2>1, <3>2, <3>3
    <3>5. stray \in Seq(Characters)
      BY LowSent
    <3>6. stray \o <<>> = stray
      BY <3>5, ConcatEmptySeq
    <3> QED BY <3>3, <3>4, <3>6 DEF NothingDropped
  <2>2. CASE srAt # "init"
    BY <2>2 DEF SrInv, Stray, NothingDropped
  <2> QED BY <2>1, <2>2
<1> QED BY <1>1, <1>2

(* What programs of either library send goes out: set up, accepted, in order,*)
(* and all of it when the line status says so.                              *)
THEOREM SendingHolds == SrSpec => []SendingCorrect
<1>1. SrInv => SendingCorrect
  BY SetUpShown, SendingShown DEF SrInv, SendingCorrect
<1> QED BY <1>1, DriverInvariance, PTL

(* Every byte that arrives and is stored is read once and in order, with the*)
(* marks of its own frame, and a frame that is lost is reported.            *)
THEOREM ReceivingHolds == SrSpec => []ReceivingCorrect
<1>1. SrInv => ReceivingCorrect
  BY ReceivingShown DEF SrInv, ReceivingCorrect
<1> QED BY <1>1, DriverInvariance, PTL
=============================================================================
