--------------------------- MODULE MultiCoreProofs ---------------------------
(***************************************************************************)
(* Proofs about the software that runs beside something else: the spin     *)
(* locks for any number of locks and for any of the processors 1 to 15,    *)
(* the barrier for any set of processors and any number of rounds, the     *)
(* exceptions of several processors for any number of registers, sizes of   *)
(* memories, programs and handlers, and distances of the stacks, the       *)
(* camera driver for any frame buffers, and the setup of the camera chip   *)
(* for any number of setups.                                               *)
(***************************************************************************)
EXTENDS Locks, Barrier, MultiCpu, CameraDriver, SequenceTheorems, TLAPS

-----------------------------------------------------------------------------
(* The spin locks.                                                         *)

\* Before init_locks has come to its end no processor uses a lock.
NobodyBeforeInit ==
    lkReady < NR_OF_LOCKS => \A c \in CPUs : lkAt[c].do = "program" /\ lkHolds[c] = {}

\* The invariant that the steps preserve.
LkInv == LkTypeOK /\ NobodyBeforeInit /\ HeldIsMarked

(* What the compare-and-swap leaves in a byte: the number of a processor   *)
(* is itself, not 0, and only a free byte changes.                         *)
LEMMA CasFacts ==
    ASSUME NEW c \in CPUs, NEW l, lkByte[l] \in 0 .. 15
    PROVE  /\ c \in 1 .. 15 /\ CpuId(c) = c
           /\ Cas(l, c) \in 0 .. 15
           /\ lkByte[l] # 0 => Cas(l, c) = lkByte[l]
BY CpusAssumption DEF CpuId, Cas

(* One step of the loop of get_lock keeps the invariant: it changes a byte *)
(* only if nobody has the lock, and gives it only with the own number in it. *)
LEMMA CasStep ==
    ASSUME LkInv, NEW c \in CPUs, LkCas(c)
    PROVE  LkInv'
<1> DEFINE l == lkAt[c].lock
<1>1. /\ l \in LockIds /\ lkByte[l] \in 0 .. 15
      /\ lkAt[c].do = "cas" /\ lkAt[c] \in LkWork
  BY DEF LkInv, LkTypeOK, LkCas, LkWork
<1>2. /\ lkByte' = [lkByte EXCEPT ![l] = Cas(l, c)] /\ lkReady' = lkReady
      /\ \/ /\ \E res \in {lkByte[l], Cas(l, c)} : res = c
            /\ lkAt' = [lkAt EXCEPT ![c] = Outside]
            /\ lkHolds' = [lkHolds EXCEPT ![c] = @ \cup {l}]
         \/ lkAt' = lkAt /\ lkHolds' = lkHolds
  BY <1>1, CasFacts DEF LkCas
<1>3. /\ c \in 1 .. 15 /\ Cas(l, c) \in 0 .. 15
      /\ lkByte[l] # 0 => Cas(l, c) = lkByte[l]
  BY <1>1, CasFacts
<1>4. LkTypeOK'
  <2>1. Outside \in LkWork
    BY LocksAssumption DEF Outside, LkWork, LockIds
  <2> QED BY <1>1, <1>2, <1>3, <2>1 DEF LkInv, LkTypeOK
<1>5. NobodyBeforeInit'
  BY <1>1, <1>2 DEF LkInv, LkTypeOK, NobodyBeforeInit, Outside
<1>6. HeldIsMarked'
  <2> SUFFICES ASSUME NEW d \in CPUs
               PROVE  /\ \A k \in lkHolds'[d] : lkByte'[k] = d
                      /\ lkAt'[d].do = "clear" => lkByte'[lkAt'[d].lock] = d
    BY DEF HeldIsMarked
  <2>1. d \in 1 .. 15 /\ lkHolds[d] \subseteq LockIds /\ lkAt[d] \in LkWork
    BY CpusAssumption DEF LkInv, LkTypeOK
  <2>2. \A k \in LockIds : lkByte[k] = d => lkByte'[k] = d
    BY <1>1, <1>2, <1>3, <2>1 DEF LkInv, LkTypeOK
  <2>3. \A k \in lkHolds[d] : lkByte'[k] = d
    BY <2>1, <2>2 DEF LkInv, HeldIsMarked
  <2>4. lkAt[d].do = "clear" => lkByte'[lkAt[d].lock] = d
    BY <2>1, <2>2 DEF LkInv, HeldIsMarked, LkWork
  <2>5. CASE lkAt' = lkAt /\ lkHolds' = lkHolds
    BY <2>3, <2>4, <2>5
  <2>6. CASE /\ \E res \in {lkByte[l], Cas(l, c)} : res = c
             /\ lkAt' = [lkAt EXCEPT ![c] = Outside]
             /\ lkHolds' = [lkHolds EXCEPT ![c] = @ \cup {l}]
    <3>1. lkByte'[l] = c
      BY <1>1, <1>2, <1>3, <2>6 DEF LkInv, LkTypeOK
    <3> QED BY <2>3, <2>4, <2>6, <3>1 DEF LkInv, LkTypeOK, Outside
  <2> QED BY <1>2, <2>5, <2>6
<1> QED BY <1>4, <1>5, <1>6 DEF LkInv

(* The write of release_lock clears a byte with the number of the          *)
(* processor itself, which is in no other processor's lock.                *)
LEMMA ClearStep ==
    ASSUME LkInv, NEW c \in CPUs, LkClear(c)
    PROVE  LkInv'
<1> DEFINE l == lkAt[c].lock
<1>1. /\ l \in LockIds /\ lkByte[l] = c /\ c \in 1 .. 15 /\ lkAt[c].do = "clear"
      /\ Outside \in LkWork
  BY LocksAssumption, CpusAssumption
     DEF LkInv, LkTypeOK, HeldIsMarked, LkClear, LkWork, Outside, LockIds
<1>2. LkTypeOK' /\ NobodyBeforeInit'
  BY <1>1 DEF LkInv, LkTypeOK, NobodyBeforeInit, LkClear, Outside
<1>3. HeldIsMarked'
  <2> SUFFICES ASSUME NEW d \in CPUs
               PROVE  /\ \A k \in lkHolds'[d] : lkByte'[k] = d
                      /\ lkAt'[d].do = "clear" => lkByte'[lkAt'[d].lock] = d
    BY DEF HeldIsMarked
  <2>1. lkHolds[d] \subseteq LockIds /\ lkAt[d] \in LkWork
    BY DEF LkInv, LkTypeOK
  <2>2. CASE d = c
    BY <1>1, <2>1, <2>2 DEF LkClear, LkInv, LkTypeOK, HeldIsMarked, Outside
  <2>3. CASE d # c
    BY <1>1, <2>1, <2>3 DEF LkClear, LkInv, LkTypeOK, HeldIsMarked, LkWork
  <2> QED BY <2>2, <2>3
<1> QED BY <1>2, <1>3 DEF LkInv

(* The steps that change no byte which somebody has: init_locks, a call,   *)
(* and the check of release_lock.                                          *)
LEMMA OtherSteps ==
    ASSUME LkInv,
           \/ LkClearNext
           \/ \E c \in CPUs :
                \/ \E l \in 0 .. NR_OF_LOCKS, work \in {"cas", "check"} : LkCall(c, l, work)
                \/ LkCheck(c)
    PROVE  LkInv'
<1>1. CASE LkClearNext
  <2>1. lkReady \in LockIds /\ lkReady + 1 \in 0 .. NR_OF_LOCKS
    BY <1>1, LocksAssumption DEF LkInv, LkTypeOK, LkClearNext, LockIds
  <2>2. LkTypeOK' /\ NobodyBeforeInit'
    BY <1>1, <2>1, LocksAssumption DEF LkInv, LkTypeOK, NobodyBeforeInit, LkClearNext
  <2>3. HeldIsMarked'
    BY <1>1 DEF LkInv, NobodyBeforeInit, HeldIsMarked, LkClearNext
  <2> QED BY <2>2, <2>3 DEF LkInv
<1>2. ASSUME NEW c \in CPUs, NEW l \in 0 .. NR_OF_LOCKS, NEW work \in {"cas", "check"},
             LkCall(c, l, work)
      PROVE  LkInv'
  <2>1. [do |-> work, lock |-> l] \in LkWork
    BY <1>2, LocksAssumption DEF LkCall, LkWork, LockIds
  <2>2. LkTypeOK' /\ NobodyBeforeInit'
    BY <1>2, <2>1 DEF LkInv, LkTypeOK, NobodyBeforeInit, LkCall
  <2>3. HeldIsMarked'
    BY <1>2 DEF LkInv, LkTypeOK, HeldIsMarked, LkCall
  <2> QED BY <2>2, <2>3 DEF LkInv
<1>3. ASSUME NEW c \in CPUs, LkCheck(c)
      PROVE  LkInv'
  <2> c \in 1 .. 15
    BY CpusAssumption
  <2> CpuId(c) = c
    BY DEF CpuId
  <2> Outside \in LkWork
    BY LocksAssumption DEF LkWork, Outside, LockIds
  <2>1. lkAt[c] \in LkWork /\ lkAt[c].do = "check"
    BY <1>3 DEF LkInv, LkTypeOK, LkCheck
  <2>2. /\ lkByte' = lkByte /\ lkReady' = lkReady /\ lkHolds' = lkHolds
        /\ \/ lkByte[lkAt[c].lock] = c /\ lkAt' = [lkAt EXCEPT ![c] = [@ EXCEPT !.do = "clear"]]
           \/ lkAt' = [lkAt EXCEPT ![c] = Outside]
    BY <1>3, <2>1 DEF LkCheck, MayClear
  <2>3. [lkAt[c] EXCEPT !.do = "clear"] \in LkWork
    BY <2>1 DEF LkWork
  <2>4. LkTypeOK'
    BY <2>1, <2>2, <2>3 DEF LkInv, LkTypeOK
  <2>5. NobodyBeforeInit'
    BY <2>1, <2>2 DEF LkInv, LkTypeOK, NobodyBeforeInit, Outside
  <2>6. HeldIsMarked'
    BY <2>1, <2>2, <2>3 DEF LkInv, LkTypeOK, HeldIsMarked, Outside, LkWork
  <2> QED BY <2>4, <2>5, <2>6 DEF LkInv
<1> QED BY <1>1, <1>2, <1>3

(* The invariant holds always: get_lock and release_lock keep the number   *)
(* of a processor in every lock it has (locks.c).                          *)
THEOREM LocksInvariant == LkSpec => []LkInv
<1>1. LkInit => LkInv
  <2> SUFFICES ASSUME LkInit PROVE LkInv
    OBVIOUS
  <2>1. Outside \in LkWork /\ 0 \in 0 .. NR_OF_LOCKS /\ {0} \cup CPUs \subseteq 0 .. 15
    BY LocksAssumption, CpusAssumption DEF Outside, LkWork, LockIds
  <2> QED BY <2>1 DEF LkInit, LkInv, LkTypeOK, NobodyBeforeInit, HeldIsMarked, Outside
<1>2. LkInv /\ [LkNext]_lkVars => LkInv'
  <2> SUFFICES ASSUME LkInv, [LkNext]_lkVars PROVE LkInv'
    OBVIOUS
  <2>1. CASE UNCHANGED lkVars
    BY <2>1 DEF lkVars, LkInv, LkTypeOK, NobodyBeforeInit, HeldIsMarked
  <2>2. CASE LkNext
    BY <2>2, CasStep, ClearStep, OtherSteps DEF LkNext, LkStep
  <2> QED BY <2>1, <2>2
<1> QED BY <1>1, <1>2, PTL DEF LkSpec

(* Two processors never have the same lock, for any number of locks: the   *)
(* byte of a lock is the number of whoever has it (locks.c).               *)
THEOREM LocksExclude == LkSpec => [](MutualExclusion /\ HeldIsMarked)
<1>1. LkInv => MutualExclusion /\ HeldIsMarked
  BY DEF LkInv, HeldIsMarked, MutualExclusion
<1> QED BY <1>1, LocksInvariant, PTL

-----------------------------------------------------------------------------
(* The barrier.                                                            *)

\* A bit is the parity of the rounds of its processor, and a waiting processor
\* compares with its own bit.
BitsCount ==
    \A c \in Cores :
        /\ brBit[c] = brArrived[c] % 2
        /\ brAt[c] = "wait" => brMask[c] = brBit[c]

\* Nobody is more than one round ahead of another.
OneRoundAhead == \A c, d \in Cores : brArrived[c] <= brArrived[d] + 1

\* The invariant that the steps preserve.
BrInv == BrTypeOK /\ BitsCount /\ OneRoundAhead /\ NobodyLeavesEarly

(* Two numbers that are at most one apart and have the same parity are in  *)
(* the right order: what the comparison of the bits decides.               *)
LEMMA ParityDecides ==
    ASSUME NEW a \in Nat, NEW b \in Nat, a <= b + 1, a % 2 = b % 2
    PROVE  a <= b
OBVIOUS

(* toggle_barrier() keeps the invariant: who enters has seen all others    *)
(* arrive at the round it leaves behind.                                   *)
LEMMA EnterStep ==
    ASSUME BrInv, NEW c \in Cores, BrEnter(c)
    PROVE  BrInv'
<1>1. /\ brArrived[c] \in Nat /\ brArrived[c] + 1 \in 0 .. MaxRounds
      /\ brBit[c] \in {0, 1} /\ brAt[c] = "program"
      /\ (brArrived[c] + 1) % 2 = 1 - (brArrived[c] % 2)
  BY RoundsAssumption DEF BrInv, BrTypeOK, BrEnter
<1>2. BrTypeOK'
  BY <1>1 DEF BrInv, BrTypeOK, BrEnter
<1>3. BitsCount'
  <2> SUFFICES ASSUME NEW d \in Cores
               PROVE  /\ brBit'[d] = brArrived'[d] % 2
                      /\ brAt'[d] = "wait" => brMask'[d] = brBit'[d]
    BY DEF BitsCount
  <2>1. CASE d = c
    <3>1. /\ brBit'[c] = 1 - brBit[c] /\ brArrived'[c] = brArrived[c] + 1
          /\ brAt'[c] = "mask"
      BY DEF BrInv, BrTypeOK, BrEnter
    <3>2. brBit[c] = brArrived[c] % 2
      BY DEF BrInv, BitsCount
    <3>3. brBit'[c] = brArrived'[c] % 2
      BY <1>1, <3>1, <3>2
    <3> QED BY <2>1, <3>1, <3>3
  <2>2. CASE d # c
    BY <2>2 DEF BrInv, BrTypeOK, BitsCount, BrEnter
  <2> QED BY <2>1, <2>2
<1>4. OneRoundAhead' /\ NobodyLeavesEarly'
  <2> SUFFICES ASSUME NEW a \in Cores, NEW b \in Cores
               PROVE  /\ brArrived'[a] <= brArrived'[b] + 1
                      /\ brAt'[a] = "program" => brArrived'[b] >= brArrived'[a]
    BY DEF OneRoundAhead, NobodyLeavesEarly
  <2>1. /\ brArrived[a] \in Nat /\ brArrived[b] \in Nat
        /\ brArrived[c] <= brArrived[b] /\ brArrived[a] <= brArrived[b] + 1
        /\ brAt[a] = "program" => brArrived[b] >= brArrived[a]
    BY <1>1, RoundsAssumption DEF BrInv, BrTypeOK, OneRoundAhead, NobodyLeavesEarly
  <2> QED BY <1>1, <2>1 DEF BrEnter, BrInv, BrTypeOK
<1> QED BY <1>2, <1>3, <1>4 DEF BrInv

(* The end of the wait keeps the invariant: equal bits mean that all have  *)
(* arrived, whatever round they are in.                                    *)
LEMMA LeaveStep ==
    ASSUME BrInv, NEW c \in Cores, BrLeave(c)
    PROVE  BrInv'
<1>1. \A d \in Cores : brArrived[d] >= brArrived[c]
  <2> SUFFICES ASSUME NEW d \in Cores PROVE brArrived[d] >= brArrived[c]
    OBVIOUS
  <2>1. brArrived[c] \in Nat /\ brArrived[d] \in Nat /\ brArrived[c] <= brArrived[d] + 1
    BY RoundsAssumption DEF BrInv, BrTypeOK, OneRoundAhead
  <2>2. brArrived[c] % 2 = brArrived[d] % 2
    BY DEF BrInv, BitsCount, BrLeave, AllAsMine
  <2> QED BY <2>1, <2>2, ParityDecides
<1>2. BrTypeOK' /\ BitsCount' /\ OneRoundAhead'
  BY DEF BrInv, BrTypeOK, BitsCount, OneRoundAhead, BrLeave
<1>3. NobodyLeavesEarly'
  BY <1>1 DEF BrInv, BrTypeOK, NobodyLeavesEarly, BrLeave
<1> QED BY <1>2, <1>3 DEF BrInv

(* No processor leaves a round of the barrier before all have arrived at   *)
(* it, for any number of processors (wait_for_barrier).                    *)
THEOREM BarrierHolds == BrSpec => []NobodyLeavesEarly
<1>1. BrInit => BrInv
  BY RoundsAssumption
     DEF BrInit, BrInv, BrTypeOK, BitsCount, OneRoundAhead, NobodyLeavesEarly
<1>2. BrInv /\ [BrNext]_brVars => BrInv'
  <2> SUFFICES ASSUME BrInv, [BrNext]_brVars PROVE BrInv'
    OBVIOUS
  <2>1. CASE UNCHANGED brVars
    BY <2>1 DEF brVars, BrInv, BrTypeOK, BitsCount, OneRoundAhead, NobodyLeavesEarly
  <2>2. ASSUME NEW c \in Cores, BrReadMask(c) PROVE BrInv'
    BY <2>2 DEF BrReadMask, BrInv, BrTypeOK, BitsCount, OneRoundAhead, NobodyLeavesEarly
  <2> QED BY <2>1, <2>2, EnterStep, LeaveStep DEF BrNext
<1>3. BrInv => NobodyLeavesEarly
  BY DEF BrInv
<1> QED BY <1>1, <1>2, <1>3, PTL DEF BrSpec

-----------------------------------------------------------------------------
(* The exceptions of the processors.                                       *)

\* A processor whose stack pointer is one: its program runs, or an exception.
On(c) == exAt[c] \in {"main", "frame", "handler"}

\* The words of a program's stack, and what an exception has put below them.
Used(c) == exBase[c].word - exSp[c].word
Level(c) ==
    IF exAt[c] = "main" THEN 0
    ELSE IF exAt[c] = "frame" THEN FrameWords ELSE FrameWords + HandlerWords

\* The handlers from which no program is continued.
Lost == {"trap", Beyond}

ExTyped ==
    /\ exStack \in [Numbers -> Places] /\ exBase \in [Numbers -> Places]
    /\ exSp \in [Numbers -> Places]
    /\ exAt \in [Numbers -> {"bios", "main", "frame", "handler"} \cup Astray]
    /\ exHandler = [c \in Numbers |-> exHandler[c]]
    /\ exMem = [p \in Places |-> exMem[p]]
    /\ exAsked \in [second : Places \cup {NoPlace}, third : BOOLEAN]

\* No stack is in the scratchpad of another processor.
OwnMemories ==
    \A c \in Numbers :
        /\ exStack[c].memory \in {0, c} /\ exBase[c].memory \in {0, c}
        /\ exSp[c].memory = exBase[c].memory

\* How deep a stack is; deeper by a frame and a handler only when the program is
\* not continued.
StackDeep(c) ==
    /\ exAt[c] \in {"bios", "main"} => exHandler[c] \notin Lost
    /\ exAt[c] = "handler" => exHandler[c] # Beyond
    /\ On(c) =>
        /\ Level(c) <= Used(c)
        /\ \/ Used(c) <= ProgramWords + Level(c)
           \/ exHandler[c] \in Lost /\ Used(c) <= ProgramWords + Level(c) + FrameWords + HandlerWords

\* A stack on which every word is where its processor put it.
Kept(c) ==
    /\ \A p \in Places :
        p.memory = exBase[c].memory /\ exSp[c].word + Level(c) <= p.word
              /\ p.word < exBase[c].word
            => exMem[p] = ProgramWord(c)
    /\ exAt[c] = "frame" => \A k \in Saved : exMem[Slot(exSp[c], k)] = RegisterWord(c, k)
    /\ exAt[c] = "handler" => FrameIntact(c)

StackIntact(c) == On(c) /\ exHandler[c] \notin Lost /\ Undisturbed(c) => Kept(c)

\* The register holds what was asked until the second processor starts with it.
AskedKept ==
    exAsked.second # NoPlace =>
        /\ ~exAsked.third
        /\ IF exAt[2] = "bios" THEN exStack[2] = exAsked.second ELSE exBase[2] = exAsked.second

\* The invariant that the steps preserve.
ExInv ==
    /\ ExTyped /\ OwnMemories /\ AskedKept /\ ProgramsKept
    /\ \A c \in Numbers : StackDeep(c) /\ StackIntact(c)

\* The words a processor may use below its stack.
Mine(c) ==
    {p \in Places : p.memory = exBase[c].memory /\ exBase[c].word - p.word \in 1 .. Room}

\* What a step of a processor leaves to the others: their state, and all words but
\* its own; once astray it stays so.
Local(c) ==
    /\ exStack' = exStack /\ exBase' = exBase /\ exAsked' = exAsked
    /\ \A d \in Numbers \ {c} :
        exAt'[d] = exAt[d] /\ exHandler'[d] = exHandler[d] /\ exSp'[d] = exSp[d]
    /\ exAt[c] # "bios" /\ exAt'[c] # "bios" /\ (exAt[c] \in Astray => exAt'[c] \in Astray)
    /\ \A p \in Places :
        \/ exMem'[p] = exMem[p] \/ exMem[p][1] = c
        \/ exAt[c] \in Astray /\ p.memory \in {0, c}
        \/ On(c) /\ p \in Mine(c)

\* What the step has to keep of its own.
Good(c) ==
    ExTyped /\ exSp[c].memory = exBase[c].memory /\ StackDeep(c)
      /\ (Undisturbed(c) => exAt[c] # "corrupt") /\ StackIntact(c)

LEMMA Sizes ==
    /\ FrameWords \in Nat /\ FrameWords >= 2 /\ HandlerWords \in Nat /\ ProgramWords \in Nat
    /\ StackTop \in Nat /\ Saved = 2 .. FrameWords
    /\ Room = ProgramWords + 2 * FrameWords + 2 * HandlerWords /\ Room \in Nat
  BY StackAssumption DEF FrameWords, Saved, Room

LEMMA PlaceTyped ==
    ASSUME NEW p \in Places
    PROVE  /\ p.memory \in {0} \cup Numbers /\ p.word \in 0 .. StackTop /\ p.word \in Int
           /\ \A w \in 0 .. StackTop : [memory |-> p.memory, word |-> w] \in Places
<1>1. p \in [memory : {0} \cup Numbers, word : 0 .. StackTop] /\ StackTop \in Nat
  BY StackAssumption DEF Places
<1> QED BY <1>1 DEF Places

LEMMA PlaceMoved ==
    ASSUME NEW p \in Places, NEW n \in Int
    PROVE  /\ Down(p, n) = [memory |-> p.memory, word |-> p.word - n]
           /\ Up(p, n) = [memory |-> p.memory, word |-> p.word + n]
           /\ Slot(p, n) = [memory |-> p.memory, word |-> p.word + n - 2]
           /\ p.word - n \in 0 .. StackTop => Down(p, n) \in Places
           /\ p.word + n \in 0 .. StackTop => Up(p, n) \in Places
           /\ p.word + n - 2 \in 0 .. StackTop => Slot(p, n) \in Places
<1>1. p \in [memory : {0} \cup Numbers, word : 0 .. StackTop] /\ StackTop \in Nat
  BY StackAssumption DEF Places
<1>2. /\ Down(p, n) = [memory |-> p.memory, word |-> p.word - n]
      /\ Up(p, n) = [memory |-> p.memory, word |-> p.word + n]
      /\ Slot(p, n) = [memory |-> p.memory, word |-> p.word + n - 2]
  BY <1>1 DEF Down, Up, Slot
<1> QED BY <1>2, PlaceTyped

LEMMA PlaceReached ==
    ASSUME NEW p \in Places, NEW q, NEW w \in 0 .. StackTop,
           q = [memory |-> p.memory, word |-> w]
    PROVE  q \in Places /\ q.memory = p.memory /\ q.word = w
<1>1. q.memory = p.memory /\ q.word = w
  OBVIOUS
<1> QED BY <1>1, PlaceTyped

LEMMA SamePlace ==
    ASSUME NEW p \in Places, NEW q \in Places, p.memory = q.memory, p.word = q.word
    PROVE  p = q
  BY DEF Places

\* Whether a stack is undisturbed does not change by a step of a processor on
\* behalf of which nothing starts; nobody comes back from where it went astray.
LEMMA CalmBefore ==
    ASSUME ExInv, NEW c \in Numbers, Local(c), NEW d \in Numbers, Undisturbed(d)'
    PROVE  Undisturbed(d)
<1>1. exBase' = exBase
  BY DEF Local
<1>2. \A e \in Numbers : (exAt[e] \in Astray => exAt'[e] \in Astray) /\ (Running(e) => Running(e)')
  BY DEF Local, Running
<1> QED BY <1>1, <1>2 DEF Undisturbed

\* The words of two processors that run undisturbed are apart.
LEMMA WordsApart ==
    ASSUME ExInv, NEW c \in Numbers, NEW d \in Numbers, c # d, On(c), Undisturbed(d),
           NEW p \in Mine(c)
    PROVE  p \notin Mine(d)
<1> SUFFICES ASSUME p \in Mine(d) PROVE FALSE
  OBVIOUS
<1>1. /\ p \in Places /\ exBase[c] \in Places /\ exBase[d] \in Places
      /\ p.memory = exBase[c].memory /\ p.memory = exBase[d].memory
      /\ exBase[c].word - p.word \in 1 .. Room /\ exBase[d].word - p.word \in 1 .. Room
  BY DEF Mine, ExInv, ExTyped
<1>2. exBase[c].memory = 0 /\ exBase[d].memory = 0
  BY <1>1 DEF ExInv, OwnMemories, Numbers
<1>3. exBase[d].word - exBase[c].word \notin 1 - Room .. Room - 1
  BY <1>2 DEF Undisturbed, On, Running, Numbers
<1>4. exBase[c].word \in Int /\ exBase[d].word \in Int /\ p.word \in Int /\ Room \in Nat
  BY <1>1, PlaceTyped, Sizes
<1> QED BY <1>1, <1>3, <1>4

\* A step of another processor leaves the words of an undisturbed stack.
LEMMA KeepsWord ==
    ASSUME ExInv, NEW c \in Numbers, NEW d \in Numbers, c # d, Local(c), Undisturbed(d),
           NEW p \in Mine(d), exMem[p][1] = d
    PROVE  exMem'[p] = exMem[p]
<1>1. p \in Places /\ p.memory = exBase[d].memory /\ exBase[d].memory \in {0, d}
  BY DEF Mine, ExInv, OwnMemories
<1>2. ~(exAt[c] \in Astray /\ p.memory \in {0, c})
  BY <1>1 DEF Undisturbed, Numbers
<1>3. ~(On(c) /\ p \in Mine(c))
  BY WordsApart
<1> QED BY <1>1, <1>2, <1>3 DEF Local

\* The places on a stack that is kept.
LEMMA PlacesOnStack ==
    ASSUME ExInv, NEW d \in Numbers, On(d), exHandler[d] \notin Lost
    PROVE  /\ \A p \in Places :
                p.memory = exBase[d].memory /\ exSp[d].word <= p.word /\ p.word < exBase[d].word
                    => p \in Mine(d)
           /\ \A k \in Saved : exAt[d] = "frame" => Slot(exSp[d], k) \in Mine(d)
           /\ \A k \in Saved :
                exAt[d] = "handler" => Slot(Up(exSp[d], HandlerWords), k) \in Mine(d)
           /\ exAt[d] = "handler" =>
                exSp[d].word + HandlerWords \in 0 .. StackTop
<1>1. /\ exBase[d] \in Places /\ exSp[d] \in Places /\ exSp[d].memory = exBase[d].memory
      /\ exBase[d].word \in 0 .. StackTop /\ exSp[d].word \in 0 .. StackTop
  BY PlaceTyped DEF ExInv, ExTyped, OwnMemories
<1>2. /\ Level(d) <= Used(d) /\ Used(d) <= ProgramWords + Level(d)
      /\ Used(d) = exBase[d].word - exSp[d].word
      /\ Level(d) \in Nat /\ Level(d) <= FrameWords + HandlerWords
      /\ exAt[d] = "frame" => Level(d) = FrameWords
      /\ exAt[d] = "handler" => Level(d) = FrameWords + HandlerWords
  BY Sizes DEF ExInv, StackDeep, Level, Used
<1> HIDE DEF Used, Level
<1>3. ASSUME NEW p \in Places, p.memory = exBase[d].memory, exSp[d].word <= p.word,
             p.word < exBase[d].word
      PROVE  p \in Mine(d)
  <2>1. exBase[d].word - p.word \in 1 .. Room
    BY <1>1, <1>2, <1>3, PlaceTyped, Sizes
  <2> QED BY <1>3, <2>1 DEF Mine
<1>4. ASSUME NEW k \in Saved, exAt[d] = "frame" PROVE Slot(exSp[d], k) \in Mine(d)
  <2>1. k \in 2 .. FrameWords
    BY Sizes
  <2>2. exSp[d].word + k - 2 \in 0 .. StackTop /\ exSp[d].word + k - 2 < exBase[d].word
    <3>1. /\ exSp[d].word \in Int /\ exSp[d].word >= 0 /\ exBase[d].word \in Int
          /\ exBase[d].word <= StackTop /\ StackTop \in Int /\ FrameWords \in Int
      BY <1>1, Sizes
    <3>2. FrameWords <= exBase[d].word - exSp[d].word
      BY <1>2, <1>4
    <3> QED BY <2>1, <3>1, <3>2
  <2>3. Slot(exSp[d], k) \in Places /\ Slot(exSp[d], k).word = exSp[d].word + k - 2
        /\ Slot(exSp[d], k).memory = exSp[d].memory
    <3>1. k \in Int
      BY <2>1
    <3>2. Slot(exSp[d], k) = [memory |-> exSp[d].memory, word |-> exSp[d].word + k - 2]
      BY <1>1, <3>1, PlaceMoved
    <3> QED BY <1>1, <2>2, <3>2, PlaceReached
  <2> QED BY <1>1, <1>3, <2>1, <2>2, <2>3, Sizes
<1>5. ASSUME exAt[d] = "handler" PROVE exSp[d].word + HandlerWords \in 0 .. StackTop
  <2>1. /\ exSp[d].word \in Int /\ exSp[d].word >= 0 /\ exBase[d].word \in Int
        /\ exBase[d].word <= StackTop /\ StackTop \in Int /\ FrameWords \in Nat
        /\ HandlerWords \in Nat
    BY <1>1, Sizes
  <2>2. FrameWords + HandlerWords <= exBase[d].word - exSp[d].word
    BY <1>2, <1>5
  <2> QED BY <2>1, <2>2
<1>6. ASSUME NEW k \in Saved, exAt[d] = "handler"
      PROVE  Slot(Up(exSp[d], HandlerWords), k) \in Mine(d)
  <2> DEFINE up == Up(exSp[d], HandlerWords)
  <2>1. k \in 2 .. FrameWords /\ HandlerWords \in Nat
    BY Sizes
  <2>2. up \in Places /\ up.word = exSp[d].word + HandlerWords /\ up.memory = exSp[d].memory
    <3>1. HandlerWords \in Int /\ exSp[d].word + HandlerWords \in 0 .. StackTop
      BY <1>5, <1>6, <2>1
    <3>2. up = [memory |-> exSp[d].memory, word |-> exSp[d].word + HandlerWords]
      BY <1>1, <3>1, PlaceMoved
    <3> HIDE DEF up
    <3> QED BY <1>1, <3>1, <3>2, PlaceReached
  <2> HIDE DEF up
  <2>3. up.word + k - 2 \in 0 .. StackTop /\ up.word + k - 2 < exBase[d].word
        /\ exSp[d].word <= up.word + k - 2
    <3>1. /\ exSp[d].word \in Int /\ exSp[d].word >= 0 /\ exBase[d].word \in Int
          /\ exBase[d].word <= StackTop /\ StackTop \in Int /\ FrameWords \in Int
      BY <1>1, Sizes
    <3>2. FrameWords + HandlerWords <= exBase[d].word - exSp[d].word
      BY <1>2, <1>6
    <3> QED BY <2>1, <2>2, <3>1, <3>2
  <2>4. Slot(up, k) \in Places /\ Slot(up, k).word = up.word + k - 2
        /\ Slot(up, k).memory = up.memory
    <3>1. k \in Int
      BY <2>1
    <3>2. Slot(up, k) = [memory |-> up.memory, word |-> up.word + k - 2]
      BY <2>2, <3>1, PlaceMoved
    <3> QED BY <2>2, <2>3, <3>2, PlaceReached
  <2> QED BY <1>1, <1>3, <2>1, <2>2, <2>3, <2>4 DEF up
<1> QED BY <1>3, <1>4, <1>5, <1>6

\* Nor does it change what is kept there.
LEMMA OthersKept ==
    ASSUME ExInv, NEW c \in Numbers, NEW d \in Numbers, c # d, Local(c)
    PROVE  StackDeep(d)' /\ StackIntact(d)' /\ (Undisturbed(d)' => exAt'[d] # "corrupt")
<1>1. /\ exAt'[d] = exAt[d] /\ exHandler'[d] = exHandler[d] /\ exSp'[d] = exSp[d]
      /\ exBase'[d] = exBase[d]
  BY DEF Local
<1>2. StackDeep(d)'
  BY <1>1 DEF ExInv, StackDeep, On, Level, Used
<1>3. Undisturbed(d)' => exAt'[d] # "corrupt"
  BY <1>1, CalmBefore DEF ExInv, ProgramsKept, Running
<1>4. ASSUME On(d), exHandler[d] \notin Lost, Undisturbed(d)' PROVE Kept(d)'
  <2>1. Undisturbed(d) /\ Kept(d)
    BY <1>4, CalmBefore DEF ExInv, StackIntact
  <2>2. ASSUME NEW p \in Mine(d), exMem[p][1] = d PROVE exMem'[p] = exMem[p]
    BY <2>1, <2>2, KeepsWord
  <2>3. /\ ProgramWord(d)[1] = d /\ HandlerWord(d)[1] = d
        /\ \A k \in Saved : RegisterWord(d, k)[1] = d
    BY DEF ProgramWord, HandlerWord, RegisterWord
  <2>4. ASSUME NEW p \in Places, p.memory = exBase[d].memory, exSp[d].word + Level(d) <= p.word,
               p.word < exBase[d].word
        PROVE  exMem'[p] = ProgramWord(d)
    <3>1. exMem[p] = ProgramWord(d)
      BY <2>1, <2>4 DEF Kept
    <3>2. exSp[d].word <= p.word
      <4>1. Level(d) \in Nat
        BY Sizes DEF Level
      <4> QED BY <2>4, <4>1, PlaceTyped DEF ExInv, ExTyped
    <3> QED BY <1>4, <2>2, <2>3, <2>4, <3>1, <3>2, PlacesOnStack
  <2>5. ASSUME exAt[d] = "frame", NEW k \in Saved
        PROVE  exMem'[Slot(exSp[d], k)] = RegisterWord(d, k)
    <3>1. exMem[Slot(exSp[d], k)] = RegisterWord(d, k) /\ Slot(exSp[d], k) \in Mine(d)
      BY <1>4, <2>1, <2>5, PlacesOnStack DEF Kept
    <3> QED BY <2>2, <2>3, <3>1
  <2>6. ASSUME exAt[d] = "handler" PROVE FrameIntact(d)'
    <3>1. FrameIntact(d)
      BY <2>1, <2>6 DEF Kept
    <3>2. ASSUME NEW p \in Places, p.memory = exSp[d].memory,
                 p.word - exSp[d].word \in 0 .. HandlerWords - 1
          PROVE  exMem'[p] = HandlerWord(d)
      <4>1. exMem[p] = HandlerWord(d)
        BY <3>1, <3>2 DEF FrameIntact
      <4>2. p.memory = exBase[d].memory /\ exSp[d].word <= p.word /\ p.word < exBase[d].word
        <5>1. exSp[d] \in Places /\ exBase[d] \in Places /\ p.memory = exBase[d].memory
          BY <3>2 DEF ExInv, ExTyped, OwnMemories
        <5>2. exSp[d].word \in Int /\ exBase[d].word \in Int /\ p.word \in Int
          BY <5>1, PlaceTyped
        <5>3. FrameWords + HandlerWords <= exBase[d].word - exSp[d].word
          BY <1>4, <2>6 DEF ExInv, StackDeep, Level, Used
        <5> QED BY <3>2, <5>1, <5>2, <5>3, Sizes
      <4> QED BY <1>4, <2>2, <2>3, <4>1, <4>2, PlacesOnStack
    <3>3. ASSUME NEW k \in Saved
          PROVE  exMem'[Slot(Up(exSp[d], HandlerWords), k)] = RegisterWord(d, k)
      <4>1. /\ exMem[Slot(Up(exSp[d], HandlerWords), k)] = RegisterWord(d, k)
            /\ Slot(Up(exSp[d], HandlerWords), k) \in Mine(d)
        BY <1>4, <2>6, <3>1, PlacesOnStack DEF FrameIntact
      <4> QED BY <2>2, <2>3, <4>1
    <3> QED BY <1>1, <3>2, <3>3 DEF FrameIntact
  <2>7. Level(d)' = Level(d)
    BY <1>1 DEF Level
  <2> QED BY <1>1, <2>4, <2>5, <2>6, <2>7 DEF Kept
<1> QED BY <1>1, <1>2, <1>3, <1>4 DEF StackIntact, On

\* So a step that is good for its own stack preserves the invariant.
LEMMA LocalStep ==
    ASSUME ExInv, NEW c \in Numbers, Local(c), Good(c)'
    PROVE  ExInv'
<1>1. ExTyped'
  BY DEF Good
<1>2. OwnMemories'
  BY DEF Good, Local, ExInv, OwnMemories
<1>3. AskedKept'
  <2>1. exAt'[2] = "bios" <=> exAt[2] = "bios"
    BY DEF Local, Numbers
  <2> QED BY <2>1 DEF Local, ExInv, AskedKept
<1>4. ProgramsKept'
  BY OthersKept DEF ProgramsKept, Good
<1>5. \A d \in Numbers : (StackDeep(d) /\ StackIntact(d))'
  BY OthersKept DEF Good
<1> QED BY <1>1, <1>2, <1>3, <1>4, <1>5 DEF ExInv

\* What is known of the stack of a processor with a stack pointer.
LEMMA OnStack ==
    ASSUME ExInv, NEW c \in Numbers, On(c)
    PROVE  /\ exBase[c] \in Places /\ exSp[c] \in Places /\ exSp[c].memory = exBase[c].memory
           /\ exBase[c].word \in Int /\ exSp[c].word \in Int
           /\ exSp[c].word \in 0 .. StackTop /\ exBase[c].word <= StackTop
           /\ exSp[c].word <= exBase[c].word
           /\ exAt[c] = "main" =>
                exHandler[c] \notin Lost /\ exBase[c].word - exSp[c].word <= ProgramWords
           /\ exAt[c] = "frame" =>
                /\ FrameWords <= exBase[c].word - exSp[c].word
                /\ exBase[c].word - exSp[c].word <= ProgramWords + 2 * FrameWords + HandlerWords
                /\ exHandler[c] \notin Lost =>
                     exBase[c].word - exSp[c].word <= ProgramWords + FrameWords
           /\ exAt[c] = "handler" =>
                /\ FrameWords + HandlerWords <= exBase[c].word - exSp[c].word
                /\ exBase[c].word - exSp[c].word <= Room
                /\ exHandler[c] # Beyond
                /\ exHandler[c] \notin Lost =>
                     exBase[c].word - exSp[c].word <= ProgramWords + FrameWords + HandlerWords
<1>1. exBase[c] \in Places /\ exSp[c] \in Places /\ exSp[c].memory = exBase[c].memory
  BY DEF ExInv, ExTyped, OwnMemories
<1>2. /\ exBase[c].word \in 0 .. StackTop /\ exSp[c].word \in 0 .. StackTop
      /\ exBase[c].word \in Int /\ exSp[c].word \in Int
  BY <1>1, PlaceTyped
<1>3. StackDeep(c) /\ exAt[c] \in {"main", "frame", "handler"}
  BY DEF ExInv, On
<1> QED BY <1>1, <1>2, <1>3, Sizes DEF StackDeep, On, Level, Used

\* A word below the stack, within its room, is the processor's.
LEMMA BelowStack ==
    ASSUME ExInv, NEW c \in Numbers, On(c), NEW p \in Places, p.memory = exSp[c].memory,
           p.word < exBase[c].word, exBase[c].word - p.word <= Room
    PROVE  p \in Mine(c)
<1>1. exBase[c].word \in Int /\ p.word \in Int /\ Room \in Nat
  BY OnStack, PlaceTyped, Sizes
<1>2. exBase[c].word - p.word \in 1 .. Room
  BY <1>1
<1> QED BY <1>2, OnStack DEF Mine

(* The program puts a word on its stack.                                   *)
LEMMA PushStep ==
    ASSUME ExInv, NEW c \in Numbers, ExPush(c)
    PROVE  ExInv'
<1> DEFINE new == Down(exSp[c], 1)
<1>1. On(c) /\ exAt[c] = "main" /\ Level(c) = 0
  BY DEF ExPush, On, Level
<1>2. /\ exBase[c].word - exSp[c].word < ProgramWords /\ exSp[c].word > 0
      /\ exBase[c].word \in Int /\ exSp[c].word \in 0 .. StackTop
      /\ exSp[c].word <= exBase[c].word /\ exSp[c] \in Places
  BY <1>1, OnStack DEF ExPush
<1>3. new \in Places /\ new.memory = exSp[c].memory /\ new.word = exSp[c].word - 1
  <2>1. new = [memory |-> exSp[c].memory, word |-> exSp[c].word - 1]
    <3>1. 1 \in Int
      OBVIOUS
    <3> QED BY <1>2, <3>1, PlaceMoved
  <2>2. exSp[c].word - 1 \in 0 .. StackTop
    BY <1>2, Sizes
  <2> HIDE DEF new
  <2> QED BY <1>2, <2>1, <2>2, PlaceReached
<1> HIDE DEF new
<1>4. /\ exSp' = [exSp EXCEPT ![c] = new] /\ exMem' = [exMem EXCEPT ![new] = ProgramWord(c)]
      /\ UNCHANGED <<exStack, exAt, exHandler, exBase, exAsked>>
  BY DEF ExPush, new
<1>5. ExTyped /\ ExTyped' /\ exSp'[c] = new
  BY <1>3, <1>4 DEF ExInv, ExTyped
<1>6. \A p \in Places : exMem'[p] = IF p = new THEN ProgramWord(c) ELSE exMem[p]
  BY <1>4, <1>5 DEF ExTyped
<1>7. new \in Mine(c)
  BY <1>1, <1>2, <1>3, BelowStack, Sizes
<1>8. Local(c)
  BY <1>1, <1>4, <1>5, <1>6, <1>7 DEF Local, Astray, ExTyped
<1>9. StackDeep(c)'
  BY <1>1, <1>2, <1>3, <1>4, <1>5, OnStack, Sizes DEF StackDeep, On, Level, Used
<1>10. ASSUME Undisturbed(c)' PROVE Kept(c)'
  <2>1. Kept(c)
    BY <1>1, <1>8, <1>10, CalmBefore, OnStack DEF ExInv, StackIntact
  <2>2. Level(c)' = 0 /\ exAt'[c] = "main" /\ exBase'[c] = exBase[c]
    BY <1>1, <1>4 DEF Level
  <2>3. ASSUME NEW p \in Places, p.memory = exBase[c].memory, new.word <= p.word,
               p.word < exBase[c].word
        PROVE  exMem'[p] = ProgramWord(c)
    <3>1. p = new \/ exSp[c].word <= p.word
      <4>1. p.word \in Int
        BY PlaceTyped
      <4>2. p.word = new.word \/ exSp[c].word <= p.word
        BY <1>2, <1>3, <2>3, <4>1
      <4> QED BY <1>1, <1>3, <2>3, <4>2, SamePlace, OnStack
    <3>2. exSp[c].word <= p.word => exMem[p] = ProgramWord(c)
      BY <1>1, <1>2, <2>1, <2>3 DEF Kept
    <3> QED BY <1>6, <3>1, <3>2
  <2>4. new.word + Level(c)' = new.word
    BY <1>2, <1>3, <2>2
  <2> QED BY <1>5, <2>2, <2>3, <2>4 DEF Kept
<1>11. Good(c)'
  BY <1>1, <1>3, <1>4, <1>5, <1>9, <1>10, OnStack DEF Good, StackIntact
<1> QED BY <1>8, <1>11, LocalStep

(* A processor goes astray, which it does undisturbed only by a jump.       *)
LEMMA AstrayStep ==
    ASSUME ExInv, NEW c \in Numbers, NEW how \in Astray, On(c), GoAstray(c, how),
           how = "corrupt" => ~Undisturbed(c),
           exHandler' = [exHandler EXCEPT ![c] = exHandler'[c]],
           UNCHANGED <<exStack, exBase, exAsked>>
    PROVE  ExInv'
<1>1. /\ exAt' = [exAt EXCEPT ![c] = how] /\ exSp' = [exSp EXCEPT ![c] = exBase[c]]
      /\ exMem' = [p \in Places |-> IF exMem[p][1] = c THEN Rubbish ELSE exMem[p]]
      /\ ExTyped
  BY DEF GoAstray, ExInv
<1>2. ExTyped'
  BY <1>1 DEF ExTyped
<1>3. exAt'[c] = how /\ exAt'[c] \in Astray /\ exSp'[c] = exBase[c]
  BY <1>1 DEF ExTyped
<1>4. Local(c)
  BY <1>1, <1>3 DEF Local, On, Astray, ExTyped
<1>5. Undisturbed(c)' => exAt'[c] # "corrupt"
  BY <1>3, <1>4, CalmBefore
<1>6. StackDeep(c)' /\ StackIntact(c)'
  BY <1>3 DEF StackDeep, StackIntact, On, Astray
<1>7. Good(c)'
  BY <1>2, <1>3, <1>5, <1>6 DEF Good
<1> QED BY <1>4, <1>7, LocalStep

(* The program takes a word back.                                          *)
LEMMA PopStep ==
    ASSUME ExInv, NEW c \in Numbers, ExPop(c)
    PROVE  ExInv'
<1>1. On(c) /\ exAt[c] = "main" /\ Level(c) = 0 /\ exSp[c] # exBase[c]
  BY DEF ExPop, On, Level
<1>2. /\ exSp[c].word < exBase[c].word /\ exBase[c].word <= StackTop /\ exBase[c].word \in Int
      /\ exSp[c].word \in 0 .. StackTop /\ exSp[c] \in Places
      /\ exSp[c].memory = exBase[c].memory /\ exHandler[c] \notin Lost
  BY <1>1, OnStack, SamePlace
<1>3. ASSUME Undisturbed(c) PROVE Kept(c) /\ exMem[exSp[c]] = ProgramWord(c)
  <2>1. Kept(c)
    BY <1>1, <1>2, <1>3 DEF ExInv, StackIntact
  <2> QED BY <1>1, <1>2, <2>1 DEF Kept
<1>4. CASE exMem[exSp[c]] # ProgramWord(c)
  BY <1>1, <1>3, <1>4, AstrayStep DEF ExPop, Astray, ExInv, ExTyped
<1>5. CASE exMem[exSp[c]] = ProgramWord(c)
  <2> DEFINE new == Up(exSp[c], 1)
  <2>1. new \in Places /\ new.memory = exSp[c].memory /\ new.word = exSp[c].word + 1
    <3>1. new = [memory |-> exSp[c].memory, word |-> exSp[c].word + 1]
      <4>1. 1 \in Int
        OBVIOUS
      <4> QED BY <1>2, <4>1, PlaceMoved
    <3>2. exSp[c].word + 1 \in 0 .. StackTop
      BY <1>2, Sizes
    <3> HIDE DEF new
    <3> QED BY <1>2, <3>1, <3>2, PlaceReached
  <2> HIDE DEF new
  <2>2. /\ exSp' = [exSp EXCEPT ![c] = new] /\ exMem' = Freed(c, 1)
        /\ UNCHANGED <<exStack, exAt, exHandler, exBase, exAsked>>
    BY <1>5 DEF ExPop, new
  <2>3. ExTyped /\ ExTyped' /\ exSp'[c] = new
    BY <2>1, <2>2 DEF ExInv, ExTyped, Freed
  <2>4. Local(c)
    BY <1>1, <2>2, <2>3 DEF Local, Astray, ExTyped, Freed
  <2>5. StackDeep(c)'
    BY <1>1, <1>2, <2>1, <2>2, <2>3, OnStack, Sizes DEF StackDeep, On, Level, Used
  <2>6. ASSUME Undisturbed(c)' PROVE Kept(c)'
    <3>1. Kept(c)
      BY <1>3, <2>4, <2>6, CalmBefore
    <3>2. Level(c)' = 0 /\ exAt'[c] = "main" /\ exBase'[c] = exBase[c]
      BY <1>1, <2>2 DEF Level
    <3>3. ASSUME NEW p \in Places, p.memory = exBase[c].memory, new.word <= p.word,
                 p.word < exBase[c].word
          PROVE  exMem'[p] = ProgramWord(c)
      <4>1. p.word - exSp[c].word \notin 0 .. 0 /\ exSp[c].word <= p.word
        BY <1>2, <2>1, <3>3, PlaceTyped
      <4>2. exMem'[p] = exMem[p]
        BY <2>2, <4>1 DEF Freed
      <4> QED BY <1>1, <1>2, <3>1, <3>3, <4>1, <4>2 DEF Kept
    <3>4. new.word + Level(c)' = new.word
      BY <1>2, <2>1, <3>2
    <3> QED BY <2>3, <3>2, <3>3, <3>4 DEF Kept
  <2>7. Good(c)'
    BY <1>1, <1>2, <2>1, <2>2, <2>3, <2>5, <2>6 DEF Good, StackIntact
  <2> QED BY <2>4, <2>7, LocalStep
<1> QED BY <1>4, <1>5

(* A processor astray overwrites what it reaches; or it goes there.         *)
LEMMA OverwriteStep ==
    ASSUME ExInv, NEW c \in Numbers, ExOverwrite(c)
    PROVE  ExInv'
<1>1. PICK m \in {0, c} : exMem' = [p \in Places |-> IF p.memory = m THEN Rubbish ELSE exMem[p]]
  BY DEF ExOverwrite
<1>2. /\ exAt[c] \in Astray /\ ExTyped
      /\ UNCHANGED <<exStack, exAt, exHandler, exBase, exSp, exAsked>>
  BY DEF ExOverwrite, ExInv
<1>3. ExTyped' /\ Local(c)
  BY <1>1, <1>2 DEF ExTyped, Local, Astray
<1>4. Undisturbed(c)' => exAt'[c] # "corrupt"
  BY <1>2, <1>3, CalmBefore DEF ExInv, ProgramsKept, Running, Astray
<1>5. StackDeep(c)' /\ StackIntact(c)' /\ exSp'[c].memory = exBase'[c].memory
  BY <1>2 DEF StackDeep, StackIntact, On, Astray, ExInv, OwnMemories
<1> QED BY <1>3, <1>4, <1>5, LocalStep DEF Good

LEMMA JumpStep ==
    ASSUME ExInv, NEW c \in Numbers, ExJumpAnywhere(c)
    PROVE  ExInv'
<1>1. On(c) /\ "beyond" \in Astray /\ "beyond" # "corrupt"
  BY DEF ExJumpAnywhere, On, Astray
<1> QED BY <1>1, AstrayStep DEF ExJumpAnywhere, ExInv, ExTyped

(* An exception puts a frame below the stack: every register has a word of *)
(* its own. When it is the trap of a handler, nothing is continued.         *)
LEMMA TrapIsLost ==
    ASSUME NEW c \in Numbers
    PROVE  HandlerFor(c, TrapNumber) \in Lost
<1>1. CASE c = 1
  BY <1>1 DEF HandlerFor, TableOf, Vectors1, ExceptionName, TrapNumber, Lost
<1>2. CASE c = 2
  BY <1>2 DEF HandlerFor, TableOf, Vectors2, TrapNumber, Lost
<1>3. CASE c = 3
  BY <1>3 DEF HandlerFor, TableOf, Vectors2, Vectors3, TrapNumber, Lost
<1> QED BY <1>1, <1>2, <1>3 DEF Numbers

LEMMA FrameStep ==
    ASSUME ExInv, NEW c \in Numbers, NEW number, SaveFrame(c, number),
           \/ exAt[c] = "main"
           \/ /\ exAt[c] = "handler" /\ exHandler[c] = "allignment_exception"
              /\ number = TrapNumber
    PROVE  ExInv'
<1> DEFINE new == Down(exSp[c], FrameWords)
<1>1. On(c) /\ FrameWords \in Int /\ exSp[c].word >= FrameWords
  BY Sizes DEF On, SaveFrame
<1>2. /\ exBase[c].word \in Int /\ exSp[c].word \in 0 .. StackTop /\ exSp[c] \in Places
      /\ exSp[c].word <= exBase[c].word /\ exSp[c].memory = exBase[c].memory
      /\ exBase[c].word - exSp[c].word <= ProgramWords + FrameWords + HandlerWords
      /\ exAt[c] = "main" => exBase[c].word - exSp[c].word <= ProgramWords
  <2>1. exAt[c] = "handler" => exHandler[c] \notin Lost
    BY DEF Lost, Beyond
  <2> QED BY <1>1, <2>1, OnStack, Sizes
<1>3. new \in Places /\ new.memory = exSp[c].memory /\ new.word = exSp[c].word - FrameWords
  <2>1. new = [memory |-> exSp[c].memory, word |-> exSp[c].word - FrameWords]
    BY <1>1, <1>2, PlaceMoved
  <2>2. exSp[c].word - FrameWords \in 0 .. StackTop
    BY <1>1, <1>2, Sizes
  <2> HIDE DEF new
  <2> QED BY <1>2, <2>1, <2>2, PlaceReached
<1> HIDE DEF new
<1>4. /\ exSp' = [exSp EXCEPT ![c] = new]
      /\ exMem' = [p \in Places |-> IF \E k \in Saved : Slot(new, k) = p
                      THEN RegisterWord(c, CHOOSE k \in Saved : Slot(new, k) = p) ELSE exMem[p]]
      /\ exHandler' = [exHandler EXCEPT ![c] = HandlerFor(c, number)]
      /\ exAt' = [exAt EXCEPT ![c] = "frame"]
      /\ UNCHANGED <<exStack, exBase, exAsked>>
  BY DEF SaveFrame, new
<1>5. /\ ExTyped /\ ExTyped' /\ exSp'[c] = new /\ exAt'[c] = "frame"
      /\ exHandler'[c] = HandlerFor(c, number) /\ exBase'[c] = exBase[c]
  BY <1>3, <1>4 DEF ExInv, ExTyped
<1>6. ASSUME NEW k \in Saved
      PROVE  /\ Slot(new, k) \in Places /\ Slot(new, k).memory = exSp[c].memory
             /\ Slot(new, k).word = new.word + k - 2 /\ Slot(new, k).word < exSp[c].word
             /\ k \in Int
  <2>1. k \in Int /\ k >= 2 /\ k <= FrameWords
    BY Sizes
  <2>2. Slot(new, k) = [memory |-> new.memory, word |-> new.word + k - 2]
    BY <1>3, <2>1, PlaceMoved
  <2>3. new.word + k - 2 \in 0 .. StackTop /\ new.word + k - 2 < exSp[c].word
    <3>1. exSp[c].word \in Int /\ exSp[c].word <= StackTop /\ exSp[c].word >= FrameWords
      BY <1>1, <1>2, Sizes
    <3> QED BY <1>1, <1>3, <2>1, <3>1, Sizes
  <2> QED BY <1>3, <2>1, <2>2, <2>3, PlaceReached
<1>7. ASSUME NEW p \in Places
      PROVE  exMem'[p] = exMem[p] \/ (p \in Mine(c) /\ p.word < exSp[c].word)
  <2> SUFFICES ASSUME NEW k \in Saved, Slot(new, k) = p
               PROVE  p \in Mine(c) /\ p.word < exSp[c].word
    BY <1>4
  <2>1. p.memory = exSp[c].memory /\ p.word < exSp[c].word /\ p.word = new.word + k - 2
        /\ k \in Int /\ k >= 2
    BY <1>6, Sizes
  <2>2. p.word < exBase[c].word /\ exBase[c].word - p.word <= Room
    BY <1>1, <1>2, <1>3, <2>1, Sizes
  <2> QED BY <1>1, <2>1, <2>2, BelowStack
<1>8. Local(c)
  <2>1. \A p \in Places : exMem'[p] = exMem[p] \/ p \in Mine(c)
    BY <1>7
  <2> QED BY <1>1, <1>4, <1>5, <2>1 DEF Local, Astray, On, ExTyped
<1>9. StackDeep(c)'
  <2>1. exBase[c].word - new.word = exBase[c].word - exSp[c].word + FrameWords
    BY <1>1, <1>2, <1>3
  <2>2. exAt[c] = "main" \/ exHandler'[c] \in Lost
    BY <1>5, TrapIsLost
  <2> QED BY <1>1, <1>2, <1>5, <2>1, <2>2, Sizes DEF StackDeep, Level, Used
<1>10. ASSUME Undisturbed(c)', exHandler'[c] \notin Lost PROVE Kept(c)'
  <2>1. exAt[c] = "main" /\ Level(c) = 0 /\ Level(c)' = FrameWords
    BY <1>5, <1>10, TrapIsLost DEF Level
  <2>2. Kept(c)
    BY <1>1, <1>8, <1>10, <2>1, CalmBefore, OnStack DEF ExInv, StackIntact
  <2>3. ASSUME NEW p \in Places, p.memory = exBase[c].memory, new.word + FrameWords <= p.word,
               p.word < exBase[c].word
        PROVE  exMem'[p] = ProgramWord(c)
    <3>1. exSp[c].word <= p.word
      BY <1>1, <1>2, <1>3, <2>3
    <3>2. exMem[p] = ProgramWord(c)
      BY <1>2, <2>1, <2>2, <2>3, <3>1 DEF Kept
    <3>3. ~(p.word < exSp[c].word)
      BY <1>2, <3>1, PlaceTyped
    <3> QED BY <1>7, <3>2, <3>3
  <2>4. ASSUME NEW k \in Saved PROVE exMem'[Slot(new, k)] = RegisterWord(c, k)
    <3>1. ASSUME NEW i \in Saved, Slot(new, i) = Slot(new, k) PROVE i = k
      BY <1>3, <1>6, <3>1, PlaceTyped
    <3>2. (CHOOSE i \in Saved : Slot(new, i) = Slot(new, k)) = k
      BY <3>1
    <3> QED BY <1>4, <1>6, <3>2, Zenon
  <2> QED BY <1>5, <2>1, <2>3, <2>4 DEF Kept
<1>11. Good(c)'
  BY <1>2, <1>3, <1>5, <1>9, <1>10 DEF Good, StackIntact
<1> QED BY <1>8, <1>11, LocalStep

(* The handler uses the stack below the frame.                             *)
LEMMA HandlerStep ==
    ASSUME ExInv, NEW c \in Numbers, ExHandler(c)
    PROVE  ExInv'
<1> DEFINE new == Down(exSp[c], HandlerWords)
<1>1. /\ On(c) /\ exAt[c] = "frame" /\ Level(c) = FrameWords /\ HandlerWords \in Int
      /\ exSp[c].word >= HandlerWords /\ exHandler[c] # Beyond
  BY Sizes DEF On, ExHandler, Level
<1>2. /\ exBase[c].word \in Int /\ exSp[c].word \in 0 .. StackTop /\ exSp[c] \in Places
      /\ exSp[c].memory = exBase[c].memory
      /\ FrameWords <= exBase[c].word - exSp[c].word
      /\ exBase[c].word - exSp[c].word <= ProgramWords + 2 * FrameWords + HandlerWords
      /\ exHandler[c] \notin Lost => exBase[c].word - exSp[c].word <= ProgramWords + FrameWords
  BY <1>1, OnStack
<1>3. new \in Places /\ new.memory = exSp[c].memory /\ new.word = exSp[c].word - HandlerWords
  <2>1. new = [memory |-> exSp[c].memory, word |-> exSp[c].word - HandlerWords]
    BY <1>1, <1>2, PlaceMoved
  <2>2. exSp[c].word - HandlerWords \in 0 .. StackTop
    BY <1>1, <1>2, Sizes
  <2> HIDE DEF new
  <2> QED BY <1>2, <2>1, <2>2, PlaceReached
<1>4. Up(new, HandlerWords) = exSp[c]
  <2>1. Up(new, HandlerWords) = [memory |-> new.memory, word |-> new.word + HandlerWords]
    BY <1>1, <1>3, PlaceMoved
  <2>2. new.word + HandlerWords = exSp[c].word
    BY <1>1, <1>2, <1>3
  <2>3. exSp[c] = [memory |-> exSp[c].memory, word |-> exSp[c].word]
    BY <1>2 DEF Places
  <2> QED BY <1>3, <2>1, <2>2, <2>3
<1> HIDE DEF new
<1>5. /\ exSp' = [exSp EXCEPT ![c] = new] /\ exAt' = [exAt EXCEPT ![c] = "handler"]
      /\ exMem' = [p \in Places |->
                      IF p.memory = exSp[c].memory /\ exSp[c].word - p.word \in 1 .. HandlerWords
                      THEN HandlerWord(c) ELSE exMem[p]]
      /\ UNCHANGED <<exStack, exHandler, exBase, exAsked>>
  BY DEF ExHandler, new
<1>6. /\ ExTyped /\ ExTyped' /\ exSp'[c] = new /\ exAt'[c] = "handler"
      /\ exHandler' = exHandler /\ exBase' = exBase
  BY <1>3, <1>5 DEF ExInv, ExTyped
<1>7. ASSUME NEW p \in Places
      PROVE  exMem'[p] = exMem[p] \/ (p \in Mine(c) /\ p.word < exSp[c].word)
  <2> SUFFICES ASSUME p.memory = exSp[c].memory, exSp[c].word - p.word \in 1 .. HandlerWords
               PROVE  p \in Mine(c) /\ p.word < exSp[c].word
    BY <1>5
  <2>1. p.word < exSp[c].word /\ p.word < exBase[c].word /\ exBase[c].word - p.word <= Room
    BY <1>1, <1>2, PlaceTyped, Sizes
  <2> QED BY <1>1, <2>1, BelowStack
<1>8. Local(c)
  <2>1. \A p \in Places : exMem'[p] = exMem[p] \/ p \in Mine(c)
    BY <1>7
  <2> QED BY <1>1, <1>5, <1>6, <2>1 DEF Local, Astray, On, ExTyped
<1>9. StackDeep(c)'
  <2>1. exBase[c].word - new.word = exBase[c].word - exSp[c].word + HandlerWords
    BY <1>1, <1>2, <1>3
  <2> QED BY <1>1, <1>2, <1>6, <2>1, Sizes DEF StackDeep, Level, Used
<1>10. ASSUME Undisturbed(c)', exHandler[c] \notin Lost PROVE Kept(c)'
  <2>1. Kept(c) /\ Level(c)' = FrameWords + HandlerWords
    BY <1>1, <1>6, <1>8, <1>10, CalmBefore DEF ExInv, StackIntact, Level
  <2>2. ASSUME NEW p \in Places, p.memory = exBase[c].memory,
               new.word + (FrameWords + HandlerWords) <= p.word, p.word < exBase[c].word
        PROVE  exMem'[p] = ProgramWord(c)
    <3>1. exSp[c].word + FrameWords <= p.word
      BY <1>1, <1>2, <1>3, <2>2, PlaceTyped, Sizes
    <3>2. exMem[p] = ProgramWord(c)
      BY <1>1, <2>1, <2>2, <3>1 DEF Kept
    <3>3. ~(p.word < exSp[c].word)
      BY <1>2, <3>1, PlaceTyped, Sizes
    <3> QED BY <1>7, <3>2, <3>3
  <2>3. ASSUME NEW p \in Places, p.memory = new.memory,
               p.word - new.word \in 0 .. HandlerWords - 1
        PROVE  exMem'[p] = HandlerWord(c)
    <3>1. exSp[c].word - p.word \in 1 .. HandlerWords
      <4>1. p.word \in Int /\ exSp[c].word \in Int
        BY <1>2, PlaceTyped
      <4> QED BY <1>1, <1>3, <2>3, <4>1
    <3> QED BY <1>3, <1>5, <2>3, <3>1
  <2>4. ASSUME NEW k \in Saved
        PROVE  exMem'[Slot(Up(new, HandlerWords), k)] = RegisterWord(c, k)
    <3> DEFINE slot == Slot(exSp[c], k)
    <3>1. k \in Int /\ k >= 2 /\ k <= FrameWords
      BY Sizes
    <3>2. slot = [memory |-> exSp[c].memory, word |-> exSp[c].word + k - 2]
      BY <1>2, <3>1, PlaceMoved
    <3>3. exSp[c].word + k - 2 \in 0 .. StackTop
      BY <1>1, <1>2, <3>1, OnStack, Sizes
    <3>4. exMem[slot] = RegisterWord(c, k)
      BY <1>1, <2>1 DEF Kept
    <3> HIDE DEF slot
    <3>5. slot \in Places /\ slot.word = exSp[c].word + k - 2
      BY <1>2, <3>2, <3>3, PlaceReached
    <3>6. ~(slot.word < exSp[c].word)
      BY <1>2, <3>1, <3>5
    <3>7. exMem'[slot] = RegisterWord(c, k)
      BY <1>7, <3>4, <3>5, <3>6
    <3> QED BY <1>4, <3>7 DEF slot
  <2> QED BY <1>6, <2>1, <2>2, <2>3, <2>4 DEF Kept, FrameIntact
<1>11. Good(c)'
  BY <1>2, <1>3, <1>6, <1>9, <1>10 DEF Good, StackIntact
<1> QED BY <1>8, <1>11, LocalStep

(* It returns to the program; the registers are restored.                  *)
LEMMA ReturnStep ==
    ASSUME ExInv, NEW c \in Numbers, ExReturn(c)
    PROVE  ExInv'
<1> DEFINE size == FrameWords + HandlerWords
<1>1. /\ On(c) /\ exAt[c] = "handler" /\ Level(c) = size /\ size \in Int /\ size > 0
      /\ exHandler[c] \notin Lost
  <2>1. On(c) /\ exAt[c] = "handler" /\ Level(c) = size /\ exHandler[c] # "trap"
    BY DEF On, ExReturn, Level
  <2>2. exHandler[c] # Beyond
    BY <2>1, OnStack
  <2> QED BY <2>1, <2>2, Sizes DEF Lost
<1>2. /\ exBase[c].word \in Int /\ exBase[c].word <= StackTop
      /\ exSp[c].word \in 0 .. StackTop /\ exSp[c] \in Places
      /\ exSp[c].memory = exBase[c].memory
      /\ size <= exBase[c].word - exSp[c].word
      /\ exBase[c].word - exSp[c].word <= ProgramWords + size
  BY <1>1, OnStack, Sizes
<1>3. /\ exHandler' = [exHandler EXCEPT ![c] = ""] /\ UNCHANGED <<exStack, exBase, exAsked>>
      /\ ExTyped
  BY DEF ExReturn, ExInv
<1>4. Undisturbed(c) => Kept(c) /\ FrameIntact(c)
  BY <1>1 DEF ExInv, StackIntact, Kept
<1>5. CASE ~FrameIntact(c)
  BY <1>1, <1>3, <1>4, <1>5, AstrayStep DEF ExReturn, Astray, ExTyped
<1>6. CASE FrameIntact(c)
  <2> DEFINE new == Up(exSp[c], size)
  <2>1. new \in Places /\ new.memory = exSp[c].memory /\ new.word = exSp[c].word + size
    <3>1. new = [memory |-> exSp[c].memory, word |-> exSp[c].word + size]
      BY <1>1, <1>2, PlaceMoved
    <3>2. exSp[c].word + size \in 0 .. StackTop
      <4>1. /\ exSp[c].word \in Int /\ exSp[c].word >= 0 /\ size \in Int /\ size > 0
            /\ exBase[c].word \in Int /\ exBase[c].word <= StackTop
            /\ size <= exBase[c].word - exSp[c].word /\ StackTop \in Int
        BY <1>1, <1>2, Sizes
      <4> HIDE DEF size
      <4> QED BY <4>1
    <3> HIDE DEF new
    <3> QED BY <1>2, <3>1, <3>2, PlaceReached
  <2> HIDE DEF new
  <2>2. /\ exSp' = [exSp EXCEPT ![c] = new] /\ exMem' = Freed(c, size)
        /\ exAt' = [exAt EXCEPT ![c] = "main"]
    BY <1>6 DEF ExReturn, new
  <2>3. ExTyped' /\ exSp'[c] = new /\ exAt'[c] = "main" /\ exHandler'[c] = ""
        /\ exBase'[c] = exBase[c]
    BY <1>3, <2>1, <2>2 DEF ExTyped, Freed
  <2>4. Local(c)
    BY <1>1, <1>3, <2>2, <2>3 DEF Local, On, Astray, ExTyped, Freed
  <2>5. StackDeep(c)'
    <3>1. exBase[c].word - new.word = exBase[c].word - exSp[c].word - size
      BY <1>1, <1>2, <2>1
    <3>2. "" \notin Lost
      BY DEF Lost, Beyond
    <3>3. Level(c)' = 0 /\ Used(c)' = exBase[c].word - new.word /\ On(c)'
      BY <2>3 DEF Level, Used, On
    <3>4. 0 <= Used(c)' /\ Used(c)' <= ProgramWords + 0
      <4> HIDE DEF size
      <4> QED BY <1>1, <1>2, <3>1, <3>3, Sizes
    <3> QED BY <2>3, <3>2, <3>3, <3>4 DEF StackDeep
  <2>6. ASSUME Undisturbed(c)' PROVE Kept(c)'
    <3>1. Kept(c) /\ Level(c)' = 0
      BY <1>4, <2>3, <2>4, <2>6, CalmBefore DEF Level
    <3>2. ASSUME NEW p \in Places, p.memory = exBase[c].memory, new.word + 0 <= p.word,
                 p.word < exBase[c].word
          PROVE  exMem'[p] = ProgramWord(c)
      <4>1. p.word - exSp[c].word \notin 0 .. size - 1 /\ exSp[c].word + size <= p.word
        BY <1>1, <1>2, <2>1, <3>2, PlaceTyped
      <4>2. exMem'[p] = exMem[p]
        BY <2>2, <4>1 DEF Freed
      <4> QED BY <1>1, <3>1, <3>2, <4>1, <4>2 DEF Kept
    <3> QED BY <2>3, <3>1, <3>2 DEF Kept
  <2>7. Good(c)'
    BY <1>2, <2>1, <2>3, <2>5, <2>6 DEF Good, StackIntact
  <2> QED BY <2>4, <2>7, LocalStep
<1> QED BY <1>5, <1>6

(* The first processor gives the second a stack, or starts another one.    *)
LEMMA SetStackStep ==
    ASSUME ExInv, NEW off \in Offsets, ExSetStack2(off) \/ ExSetStack3(off)
    PROVE  ExInv'
<1>1. /\ exStack' = [exStack EXCEPT ![2] = NewStack(off)]
      /\ UNCHANGED <<exAt, exHandler, exBase, exSp, exMem>> /\ ExTyped /\ exStack[1] \in Places
      /\ 1 \in Numbers /\ 2 \in Numbers
  BY DEF ExSetStack2, ExSetStack3, ExInv, ExTyped, Numbers
<1>2. NewStack(off) \in Places /\ NewStack(off).memory \in {0, 2}
  <2>1. CASE exStack[1].memory = 0
    <3>1. off \in Int /\ off >= 0 /\ off <= exStack[1].word
      BY <2>1, StackAssumption DEF ExSetStack2, ExSetStack3
    <3>2. Down(exStack[1], off) = [memory |-> exStack[1].memory, word |-> exStack[1].word - off]
      BY <1>1, <3>1, PlaceMoved
    <3>3. exStack[1].word - off \in 0 .. StackTop
      BY <1>1, <3>1, PlaceTyped, Sizes
    <3>4. Down(exStack[1], off) \in Places /\ Down(exStack[1], off).memory = 0
      BY <1>1, <2>1, <3>2, <3>3, PlaceReached
    <3> QED BY <2>1, <3>4 DEF NewStack
  <2>2. CASE exStack[1].memory # 0
    BY <2>2, Sizes DEF NewStack, SpmTop, Places, Numbers
  <2> QED BY <2>1, <2>2
<1>3. exAsked' \in [second : Places \cup {NoPlace}, third : BOOLEAN] /\ AskedKept'
  <2>1. /\ exAsked \in [second : Places \cup {NoPlace}, third : BOOLEAN] /\ AskedKept
        /\ exStack'[2] = NewStack(off)
    BY <1>1 DEF ExInv, ExTyped
  <2>2. CASE exAsked' = exAsked /\ (exAt[2] # "bios" \/ exAsked.third)
    BY <1>1, <2>1, <2>2 DEF AskedKept
  <2>3. CASE /\ exAsked' = [exAsked EXCEPT !.second = NewStack(off)]
             /\ exAt[2] = "bios" /\ ~exAsked.third
    BY <1>1, <1>2, <2>1, <2>3 DEF AskedKept
  <2>4. CASE exAsked' = [second |-> NoPlace, third |-> TRUE]
    BY <2>4 DEF AskedKept
  <2> QED BY <2>2, <2>3, <2>4 DEF ExSetStack2, ExSetStack3
<1>4. ExTyped'
  BY <1>1, <1>2, <1>3 DEF ExTyped
<1>5. OwnMemories'
  BY <1>1, <1>2 DEF ExInv, OwnMemories, ExTyped
<1> QED BY <1>1, <1>3, <1>4, <1>5
        DEF ExInv, ProgramsKept, Running, Undisturbed, StackDeep, On, Level, Used, StackIntact,
            Kept, FrameIntact

(* A processor starts its program, with an empty stack.                    *)
LEMMA LeaveBiosStep ==
    ASSUME ExInv, NEW c \in Helpers, ExLeaveBios(c)
    PROVE  ExInv'
<1>1. /\ c \in Numbers /\ exAt[c] = "bios" /\ exAt' = [exAt EXCEPT ![c] = "main"]
      /\ exBase' = [exBase EXCEPT ![c] = exStack[c]] /\ exSp' = [exSp EXCEPT ![c] = exStack[c]]
      /\ UNCHANGED <<exStack, exHandler, exMem, exAsked>> /\ ExTyped /\ exStack[c] \in Places
  BY DEF ExLeaveBios, Helpers, Numbers, ExInv, ExTyped
<1>2. ExTyped' /\ exAt'[c] = "main" /\ exBase'[c] = exStack[c] /\ exSp'[c] = exStack[c]
  BY <1>1 DEF ExTyped
<1>3. OwnMemories'
  BY <1>1 DEF ExInv, OwnMemories, ExTyped
<1>4. AskedKept'
  BY <1>1, <1>2 DEF ExInv, AskedKept, ExTyped, Numbers
<1>5. ASSUME NEW d \in Numbers, d # c
      PROVE  /\ exAt'[d] = exAt[d] /\ exBase'[d] = exBase[d] /\ exSp'[d] = exSp[d]
             /\ exHandler'[d] = exHandler[d]
  BY <1>1, <1>5 DEF ExTyped
<1>6. ASSUME NEW d \in Numbers, d # c, Undisturbed(d)' PROVE Undisturbed(d)
  <2>1. exAt[c] \notin Astray /\ ~Running(c)
    BY <1>1 DEF Astray, Running
  <2>2. ASSUME NEW e \in Numbers, e # c
        PROVE  (exAt'[e] \in Astray <=> exAt[e] \in Astray) /\ (Running(e)' <=> Running(e))
    BY <1>5, <2>2 DEF Running
  <2> QED BY <1>5, <1>6, <2>1, <2>2 DEF Undisturbed
<1>7. ProgramsKept'
  <2> SUFFICES ASSUME NEW d \in Numbers, Running(d)', Undisturbed(d)'
               PROVE  exAt'[d] # "corrupt"
    BY DEF ProgramsKept
  <2> QED BY <1>2, <1>5, <1>6 DEF ExInv, ProgramsKept, Running
<1>8. ASSUME NEW d \in Numbers, d # c PROVE StackDeep(d)' /\ StackIntact(d)'
  BY <1>1, <1>5, <1>6, <1>8
     DEF ExInv, StackDeep, StackIntact, On, Level, Used, Kept, FrameIntact
<1>9. StackDeep(c)' /\ StackIntact(c)'
  <2>1. exHandler'[c] \notin Lost
    BY <1>1 DEF ExInv, StackDeep
  <2>2. exStack[c].word \in Int
    BY <1>1, PlaceTyped
  <2>3. Level(c)' = 0 /\ Used(c)' = 0
    BY <1>2, <2>2 DEF Level, Used
  <2>4. StackDeep(c)'
    BY <1>2, <2>1, <2>3, Sizes DEF StackDeep
  <2>5. ASSUME NEW p \in Places, exStack[c].word + 0 <= p.word, p.word < exStack[c].word
        PROVE  FALSE
    BY <2>2, <2>5, PlaceTyped
  <2>6. Kept(c)'
    BY <1>2, <2>3, <2>5 DEF Kept
  <2> QED BY <2>4, <2>6 DEF StackIntact
<1> QED BY <1>2, <1>3, <1>4, <1>7, <1>8, <1>9 DEF ExInv

\* A program never goes on with foreign registers or words after exceptions on
\* any processors, and the second starts with the stack asked for, for any
\* number of registers, size of the memories and distances of the stacks, and
\* for programs and handlers of any size: as long as the stacks that share the
\* SDRAM are Room apart and nobody who runs on one has gone astray.
THEOREM ExceptionsApart == ExSpec => []RegistersSurvive
<1>1. ExInit => ExInv
  <2> SUFFICES ASSUME ExInit PROVE ExInv
    OBVIOUS
  <2>1. /\ exStack \in [Numbers -> Places]
        /\ \A c \in Numbers : exStack[c] \in {SdramPlace(StackTop), SpmTop(c)}
        /\ exAt = [c \in Numbers |-> IF c = 1 THEN "main" ELSE "bios"]
        /\ exHandler = [c \in Numbers |-> ""] /\ exSp = exBase
        /\ exBase = [c \in Numbers |-> IF c = 1 THEN exStack[1] ELSE SpmTop(c)]
        /\ exMem = [p \in Places |-> Rubbish]
        /\ exAsked = [second |-> NoPlace, third |-> FALSE]
    BY DEF ExInit
  <2>2. \A c \in Numbers : /\ SpmTop(c) \in Places /\ SpmTop(c).memory = c
                           /\ exStack[c].memory \in {0, c}
    <3> SUFFICES ASSUME NEW c \in Numbers
                 PROVE  /\ SpmTop(c) \in Places /\ SpmTop(c).memory = c
                        /\ exStack[c].memory \in {0, c}
      OBVIOUS
    <3>1. SpmTop(c) \in Places /\ SpmTop(c).memory = c
      BY Sizes DEF SpmTop, Places
    <3>2. SdramPlace(StackTop).memory = 0
      BY DEF SdramPlace
    <3> QED BY <2>1, <3>1, <3>2
  <2>3. ExTyped
    BY <2>1, <2>2 DEF ExTyped, Numbers
  <2>4. OwnMemories
    BY <2>1, <2>2 DEF OwnMemories, Numbers
  <2>5. AskedKept /\ ProgramsKept
    BY <2>1 DEF AskedKept, ProgramsKept
  <2>6. ASSUME NEW c \in Numbers PROVE StackDeep(c) /\ StackIntact(c)
    <3>1. /\ exAt[c] \in {"main", "bios"} /\ exHandler[c] \notin Lost /\ exSp[c] = exBase[c]
          /\ exBase[c] \in Places
      BY <2>1, <2>3 DEF Lost, Beyond, ExTyped
    <3>2. exBase[c].word \in Int
      BY <3>1, PlaceTyped
    <3>3. On(c) => Level(c) = 0 /\ Used(c) = 0
      BY <3>1, <3>2 DEF On, Level, Used
    <3>4. StackDeep(c)
      BY <3>1, <3>3, Sizes DEF StackDeep
    <3>5. ASSUME NEW p \in Places, exBase[c].word + 0 <= p.word, p.word < exBase[c].word
          PROVE  FALSE
      BY <3>2, <3>5, PlaceTyped
    <3> QED BY <3>1, <3>3, <3>4, <3>5 DEF StackIntact, Kept
  <2> QED BY <2>3, <2>4, <2>5, <2>6 DEF ExInv
<1>2. ExInv /\ [ExNext]_exVars => ExInv'
  <2> SUFFICES ASSUME ExInv, [ExNext]_exVars PROVE ExInv'
    OBVIOUS
  <2>1. ASSUME UNCHANGED <<exStack, exAt, exHandler, exBase, exSp, exMem, exAsked>> PROVE ExInv'
    BY <2>1 DEF ExInv, ExTyped, OwnMemories, AskedKept, ProgramsKept, Running, Undisturbed,
                StackDeep, On, Level, Used, StackIntact, Kept, FrameIntact
  <2>2. ASSUME NEW c \in Numbers, ExStep(c) PROVE ExInv'
    <3>1. ASSUME NEW number \in Raised, ExException(c, number) PROVE ExInv'
      BY <3>1, FrameStep DEF ExException
    <3>2. ASSUME ExTrap(c) PROVE ExInv'
      BY <3>2, FrameStep DEF ExTrap
    <3> QED BY <2>2, <3>1, <3>2, PushStep, PopStep, OverwriteStep, HandlerStep, JumpStep,
               ReturnStep DEF ExStep
  <2>3. ASSUME ExStart2 \/ ExStart3 PROVE ExInv'
    BY <2>1, <2>3 DEF ExStart2, ExStart3
  <2>4. ASSUME UNCHANGED exVars PROVE ExInv'
    BY <2>1, <2>4 DEF exVars
  <2> QED BY <2>2, <2>3, <2>4, SetStackStep, LeaveBiosStep DEF ExNext
<1>3. ExInv => RegistersSurvive
  BY DEF ExInv, RegistersSurvive, StacksAsAsked, AskedKept, Running
<1> QED BY <1>1, <1>2, <1>3, PTL DEF ExSpec

-----------------------------------------------------------------------------
(* The camera driver.                                                      *)

CdTyped ==
    /\ cmBase \in FrameBuffers
    /\ cdCall \in [do : {"idle", "control", "busy", "wait", "have"}, address : FrameBuffers,
                   mode : {"blocking", "nonblocking", "continues"}]
    /\ cdCapture \in FrameBuffers \cup {Nowhere}
    /\ cdBuffers \in [FrameBuffers -> [whole : BOOLEAN, fresh : BOOLEAN]]

\* A single image is asked for; it is grabbed from the next frame on; that frame
\* has ended; and the grabber has said so.
Requested ==
    /\ cmAction = <<FALSE, FALSE>> /\ cmSingle = TRUE /\ cmActive = FALSE /\ cmDone = FALSE
    /\ cmBase = cdCall.address
Grabbing ==
    /\ cmAction = <<TRUE, FALSE>> /\ (cmSingle = FALSE \/ cdGap = FALSE)
    /\ cmActive = FALSE /\ cmRunning = FALSE /\ cmDone = FALSE
    /\ cdCapture = cdCall.address /\ cdBuffers[cdCall.address].fresh = TRUE
GrabbedWhole ==
    /\ cmSingle = FALSE /\ cmActive = FALSE /\ cmRunning = FALSE /\ cdCapture = Nowhere
    /\ cdBuffers[cdCall.address] = [whole |-> TRUE, fresh |-> TRUE]
Ending == GrabbedWhole /\ cmAction = <<FALSE, TRUE>> /\ cdGap = FALSE /\ cmDone = FALSE
Ready == GrabbedWhole /\ cmAction = <<FALSE, FALSE>> /\ cmDone = TRUE

\* Between two calls no single image is under way.
NoneUnderWay == cmAction = <<FALSE, FALSE>> /\ cmSingle = FALSE

\* The invariant that the steps preserve.
CdInv ==
    /\ CdTyped
    /\ cdCall.do \in {"idle", "control"} => NoneUnderWay
    /\ cdCall.do = "control" => cmBase = cdCall.address
    /\ cdCall.do \in {"busy", "wait"} => Requested \/ Grabbing \/ Ending \/ Ready
    /\ cdCall.do = "have" => Ready

\* What the sensor does to the frame buffers is well typed, and leaves the one of
\* an image alone that is not grabbed.
LEMMA SensorTyped ==
    ASSUME CdTyped, NEW newScreen \in BOOLEAN, NEW called \in BOOLEAN, Sensor(newScreen, called)
    PROVE  /\ cdCapture' \in FrameBuffers \cup {Nowhere}
           /\ cdBuffers' \in [FrameBuffers -> [whole : BOOLEAN, fresh : BOOLEAN]]
<1> DEFINE old == [a \in FrameBuffers |-> [cdBuffers[a] EXCEPT !.fresh = @ /\ ~called]]
           ended == IF cdCapture = Nowhere THEN old ELSE [old EXCEPT ![cdCapture].whole = TRUE]
           begun == [whole |-> FALSE, fresh |-> ~called]
           grabbed == cmRunning' \/ cmAction'[1]
<1>1. old \in [FrameBuffers -> [whole : BOOLEAN, fresh : BOOLEAN]]
  <2> SUFFICES ASSUME NEW a \in FrameBuffers
               PROVE  [cdBuffers[a] EXCEPT !.fresh = @ /\ ~called] \in [whole : BOOLEAN, fresh : BOOLEAN]
    OBVIOUS
  <2> DEFINE f == cdBuffers[a].fresh /\ ~called
  <2>1. f \in BOOLEAN
    BY Zenon
  <2> HIDE DEF f
  <2>2. [cdBuffers[a] EXCEPT !.fresh = f] \in [whole : BOOLEAN, fresh : BOOLEAN]
    BY <2>1 DEF CdTyped
  <2> QED  BY <2>2 DEF f
<1>2. begun \in [whole : BOOLEAN, fresh : BOOLEAN]
  <2> DEFINE f == ~called
  <2>1. f \in BOOLEAN
    BY Zenon
  <2> HIDE DEF f
  <2>2. [whole |-> FALSE, fresh |-> f] \in [whole : BOOLEAN, fresh : BOOLEAN]
    BY <2>1
  <2> QED  BY <2>2 DEF f
<1>3. /\ cdCapture' = IF ~newScreen THEN cdCapture ELSE IF grabbed THEN cmBase ELSE Nowhere
      /\ cdBuffers' = IF ~newScreen THEN old
                      ELSE IF grabbed THEN [ended EXCEPT ![cmBase] = begun] ELSE ended
  BY Zenon DEF Sensor
<1> HIDE DEF old, begun, grabbed
<1>4. ended \in [FrameBuffers -> [whole : BOOLEAN, fresh : BOOLEAN]]
  BY <1>1 DEF CdTyped
<1> HIDE DEF ended
<1>5. [ended EXCEPT ![cmBase] = begun] \in [FrameBuffers -> [whole : BOOLEAN, fresh : BOOLEAN]]
  BY <1>2, <1>4
<1> QED  BY <1>1, <1>3, <1>4, <1>5 DEF CdTyped

\* In a clock without a call, in each of the ways it may go.
LEMMA SensorSteps ==
    ASSUME CdTyped, NEW newScreen \in BOOLEAN, Sensor(newScreen, FALSE), NEW a \in FrameBuffers
    PROVE  /\ newScreen => cdGap /\ cdGap' = FALSE
           /\ ~newScreen => cdCapture' = cdCapture /\ cdBuffers'[a] = cdBuffers[a]
           /\ newScreen /\ (cmRunning' \/ cmAction'[1]) =>
                cdCapture' = cmBase /\ cdBuffers'[cmBase].fresh = TRUE
           /\ newScreen /\ ~(cmRunning' \/ cmAction'[1]) =>
                /\ cdCapture' = Nowhere
                /\ cdBuffers'[a] = IF cdCapture = a THEN [cdBuffers[a] EXCEPT !.whole = TRUE]
                                   ELSE cdBuffers[a]
<1> DEFINE old == [b \in FrameBuffers |-> [cdBuffers[b] EXCEPT !.fresh = @ /\ ~FALSE]]
           ended == IF cdCapture = Nowhere THEN old ELSE [old EXCEPT ![cdCapture].whole = TRUE]
           grabbed == cmRunning' \/ cmAction'[1]
<1>1. \A b \in FrameBuffers : old[b] = cdBuffers[b]
  <2> SUFFICES ASSUME NEW b \in FrameBuffers
               PROVE  [cdBuffers[b] EXCEPT !.fresh = @ /\ ~FALSE] = cdBuffers[b]
    OBVIOUS
  <2>1. cdBuffers[b] \in [whole : BOOLEAN, fresh : BOOLEAN]
    BY DEF CdTyped
  <2> DEFINE f == cdBuffers[b].fresh /\ ~FALSE
  <2>2. f = cdBuffers[b].fresh
    BY <2>1, Zenon
  <2> HIDE DEF f
  <2>3. [cdBuffers[b] EXCEPT !.fresh = f] = cdBuffers[b]
    BY <2>1, <2>2
  <2> QED  BY <2>3 DEF f
<1>2. /\ newScreen => cdGap
      /\ cdGap' = ~newScreen
      /\ cdCapture' = IF ~newScreen THEN cdCapture ELSE IF grabbed THEN cmBase ELSE Nowhere
      /\ cdBuffers' = IF ~newScreen THEN old
                      ELSE IF grabbed
                      THEN [ended EXCEPT ![cmBase] = [whole |-> FALSE, fresh |-> ~FALSE]]
                      ELSE ended
  BY Zenon DEF Sensor
<1>3. newScreen => cdGap' = FALSE
  BY <1>2, Zenon
<1>4. DOMAIN old = FrameBuffers
  OBVIOUS
<1> HIDE DEF old, grabbed
<1>5. ended[a] = IF cdCapture = a THEN [cdBuffers[a] EXCEPT !.whole = TRUE] ELSE cdBuffers[a]
  <2>1. Nowhere \notin FrameBuffers
    BY CameraAssumption DEF Nowhere
  <2> QED  BY <1>1, <1>4, <2>1 DEF CdTyped
<1>6. DOMAIN ended = FrameBuffers
  BY <1>4
<1> HIDE DEF ended
<1>7. newScreen /\ grabbed => cdBuffers'[cmBase].fresh = TRUE
  BY <1>2, <1>6 DEF CdTyped
<1> QED  BY <1>1, <1>2, <1>3, <1>5, <1>7 DEF grabbed

LEMMA Pair ==
    ASSUME NEW pair, NEW a, NEW b, pair = <<a, b>>
    PROVE  pair[1] = a /\ pair[2] = b
OBVIOUS

LEMMA BecomesWhole ==
    ASSUME NEW W, NEW F, NEW r \in [whole : W, fresh : F], NEW w
    PROVE  [r EXCEPT !.whole = w] = [whole |-> w, fresh |-> r.fresh]
OBVIOUS

\* A clock without a call leaves the address and the mode, and takes an image that
\* is asked for one step further, whenever the frames begin.
LEMMA GrabberClock ==
    ASSUME CdTyped, NEW newScreen \in BOOLEAN, NEW name \in {"none", "poll"},
           Execute([name |-> name], newScreen), cdCall'.address = cdCall.address
    PROVE  /\ cmBase' = cmBase
           /\ NoneUnderWay => NoneUnderWay'
           /\ Ready => Ready'
           /\ Requested \/ Grabbing \/ Ending \/ Ready =>
                (Requested \/ Grabbing \/ Ending \/ Ready)'
<1> DEFINE A == cdCall.address
<1>1. /\ cmBase' = cmBase /\ cmActive' = cmActive
      /\ cmSingle' = IF cmAction[1] THEN FALSE ELSE cmSingle
      /\ cmRunning' = IF newScreen THEN cmActive ELSE cmRunning
      /\ cmAction' = IF cmAction[2] THEN <<FALSE, FALSE>>
                     ELSE IF newScreen THEN <<cmSingle, cmAction[1]>> ELSE cmAction
      /\ Sensor(newScreen, FALSE)
  <2>1. name \notin {"base", "start", "stop", "single"} /\ [name |-> name].name = name
    OBVIOUS
  <2>2. ([name |-> name].name = "base") = FALSE
    BY <2>1
  <2> QED  BY <2>1, <2>2 DEF Execute, CmControl
<1>2. /\ cmAction[2] = TRUE => cmDone' = TRUE
      /\ cmAction[2] = FALSE /\ cmDone = FALSE => cmDone' = FALSE
      /\ cmDone = TRUE => cmDone' = TRUE
  <2>1. name # "single" /\ [name |-> name].name = name
    OBVIOUS
  <2>2. cmDone' = (name # "single" /\ (cmAction[2] \/ cmDone))
    BY <2>1 DEF Execute, CmControl
  <2> QED  BY <2>1, <2>2, Zenon
<1>3. A \in FrameBuffers /\ cdCall'.address = A /\ cdBuffers[A] \in [whole : BOOLEAN, fresh : BOOLEAN]
      /\ Nowhere # A
  <2>1. A \in FrameBuffers /\ cdCall'.address = A
    BY DEF CdTyped
  <2> HIDE DEF A
  <2> QED  BY <2>1, CameraAssumption DEF CdTyped, Nowhere
<1>4. /\ newScreen => cdGap /\ cdGap' = FALSE
      /\ ~newScreen => cdCapture' = cdCapture /\ cdBuffers'[A] = cdBuffers[A]
      /\ newScreen /\ (cmRunning' \/ cmAction'[1]) =>
            cdCapture' = cmBase /\ cdBuffers'[cmBase].fresh = TRUE
      /\ newScreen /\ ~(cmRunning' \/ cmAction'[1]) =>
            /\ cdCapture' = Nowhere
            /\ cdBuffers'[A] = IF cdCapture = A THEN [cdBuffers[A] EXCEPT !.whole = TRUE]
                               ELSE cdBuffers[A]
  BY <1>1, <1>3, SensorSteps
<1> HIDE DEF A
\* The pair of cmAction, case by case.
<1>5. /\ cmAction = <<FALSE, FALSE>> => cmAction[1] = FALSE /\ cmAction[2] = FALSE
      /\ cmAction = <<TRUE, FALSE>> => cmAction[1] = TRUE /\ cmAction[2] = FALSE
      /\ cmAction = <<FALSE, TRUE>> => cmAction[1] = FALSE /\ cmAction[2] = TRUE
      /\ cmAction' = <<FALSE, FALSE>> => cmAction'[1] = FALSE
      /\ cmAction' = <<TRUE, FALSE>> => cmAction'[1] = TRUE
      /\ cmAction' = <<FALSE, TRUE>> => cmAction'[1] = FALSE
  BY Pair, Zenon
<1>6. ASSUME NEW a, NEW b, cmAction[1] = a, cmAction[2] = FALSE, cmSingle = b
      PROVE  cmAction' = IF newScreen THEN <<b, a>> ELSE cmAction
  BY <1>1, <1>6, Zenon
<1>7. cmAction[2] = TRUE => cmAction' = <<FALSE, FALSE>>
  BY <1>1, Zenon
<1>8. (cmAction[1] = FALSE => cmSingle' = cmSingle) /\ (cmAction[1] = TRUE => cmSingle' = FALSE)
  BY <1>1, Zenon
<1>9. NoneUnderWay => NoneUnderWay'
  <2> SUFFICES ASSUME cmAction = <<FALSE, FALSE>>, cmSingle = FALSE PROVE NoneUnderWay'
    BY DEF NoneUnderWay
  <2>1. cmAction[1] = FALSE /\ cmAction[2] = FALSE
    BY <1>5, Zenon
  <2>2. cmAction' = IF newScreen THEN <<FALSE, FALSE>> ELSE cmAction
    BY <1>6, <2>1, Zenon
  <2>3. cmSingle' = FALSE
    BY <1>8, <2>1, Zenon
  <2> QED  BY <2>2, <2>3, Zenon DEF NoneUnderWay
<1>10. Ready => Ready'
  <2> SUFFICES ASSUME Ready PROVE Ready'
    OBVIOUS
  <2>1. /\ cmAction[1] = FALSE /\ cmAction[2] = FALSE /\ cmSingle = FALSE /\ cmDone = TRUE
        /\ cmActive = FALSE /\ cmRunning = FALSE /\ cdCapture = Nowhere
        /\ cmAction = <<FALSE, FALSE>> /\ cdBuffers[A] = [whole |-> TRUE, fresh |-> TRUE]
    BY <1>5, Zenon DEF Ready, GrabbedWhole, A
  <2>2. cmAction' = <<FALSE, FALSE>> /\ cmSingle' = FALSE /\ cmActive' = FALSE /\ cmRunning' = FALSE
        /\ cmDone' = TRUE
    BY <1>1, <1>2, <1>6, <1>8, <2>1, Zenon
  <2>3. ~(cmRunning' \/ cmAction'[1])
    BY <1>5, <2>2, Zenon
  <2>4. cdCapture' = Nowhere /\ cdBuffers'[A] = cdBuffers[A]
    BY <1>3, <1>4, <2>1, <2>3, Zenon
  <2> QED  BY <1>3, <2>1, <2>2, <2>4, Zenon DEF Ready, GrabbedWhole
<1>11. Requested => Requested' \/ Grabbing'
  <2> SUFFICES ASSUME Requested PROVE Requested' \/ Grabbing'
    OBVIOUS
  <2>1. /\ cmAction[1] = FALSE /\ cmAction[2] = FALSE /\ cmSingle = TRUE /\ cmDone = FALSE
        /\ cmActive = FALSE /\ cmAction = <<FALSE, FALSE>> /\ cmBase = A
    BY <1>5, Zenon DEF Requested, A
  <2>2. cmSingle' = TRUE /\ cmActive' = FALSE /\ cmDone' = FALSE /\ cmBase' = A
    BY <1>1, <1>2, <1>8, <2>1, Zenon
  <2>3. CASE newScreen
    <3>1. cmAction' = <<TRUE, FALSE>> /\ cmRunning' = FALSE
      BY <1>1, <1>6, <2>1, <2>3, Zenon
    <3>2. cdCapture' = A /\ cdBuffers'[A].fresh = TRUE /\ cdGap' = FALSE
      BY <1>4, <1>5, <2>1, <2>3, <3>1, Zenon
    <3> QED  BY <1>3, <2>2, <3>1, <3>2, Zenon DEF Grabbing
  <2>4. CASE ~newScreen
    <3>1. cmAction' = <<FALSE, FALSE>>
      BY <1>6, <2>1, <2>4, Zenon
    <3> QED  BY <1>3, <2>2, <3>1, Zenon DEF Requested
  <2> QED  BY <2>3, <2>4
<1>12. Grabbing => Grabbing' \/ Ending'
  <2> SUFFICES ASSUME Grabbing PROVE Grabbing' \/ Ending'
    OBVIOUS
  <2>1. /\ cmAction[1] = TRUE /\ cmAction[2] = FALSE /\ (cmSingle = FALSE \/ cdGap = FALSE)
        /\ cmDone = FALSE /\ cmActive = FALSE /\ cmRunning = FALSE /\ cmAction = <<TRUE, FALSE>>
        /\ cdCapture = A /\ cdBuffers[A].fresh = TRUE
    BY <1>5, Zenon DEF Grabbing, A
  <2>2. cmSingle' = FALSE /\ cmActive' = FALSE /\ cmDone' = FALSE /\ cmRunning' = FALSE
    BY <1>1, <1>2, <1>8, <2>1, Zenon
  <2>3. CASE newScreen
    <3>1. cmAction' = <<FALSE, TRUE>> /\ cdGap' = FALSE
      BY <1>4, <1>6, <2>1, <2>3, Zenon
    <3>2. ~(cmRunning' \/ cmAction'[1])
      BY <1>5, <2>2, <3>1, Zenon
    <3>3. cdCapture' = Nowhere /\ cdBuffers'[A] = [cdBuffers[A] EXCEPT !.whole = TRUE]
      BY <1>4, <2>1, <2>3, <3>2, Zenon
    <3>4. [cdBuffers[A] EXCEPT !.whole = TRUE] = [whole |-> TRUE, fresh |-> TRUE]
      <4>1. [cdBuffers[A] EXCEPT !.whole = TRUE] = [whole |-> TRUE, fresh |-> cdBuffers[A].fresh]
        <5> DEFINE r == cdBuffers[A]
                   w == TRUE
        <5>1. r \in [whole : BOOLEAN, fresh : BOOLEAN]
          BY <1>3
        <5> HIDE DEF r, w
        <5>2. [r EXCEPT !.whole = w] = [whole |-> w, fresh |-> r.fresh]
          BY <5>1, BecomesWhole
        <5> QED  BY <5>2, Zenon DEF r, w
      <4> QED  BY <2>1, <4>1, Zenon
    <3> QED  BY <1>3, <2>2, <3>1, <3>3, <3>4, Zenon DEF Ending, GrabbedWhole
  <2>4. CASE ~newScreen
    <3>1. cmAction' = <<TRUE, FALSE>>
      BY <1>6, <2>1, <2>4, Zenon
    <3>2. cdCapture' = A /\ cdBuffers'[A].fresh = TRUE
      BY <1>4, <2>1, <2>4, Zenon
    <3> QED  BY <1>3, <2>2, <3>1, <3>2, Zenon DEF Grabbing
  <2> QED  BY <2>3, <2>4
<1>13. Ending => Ready'
  <2> SUFFICES ASSUME Ending PROVE Ready'
    OBVIOUS
  <2>1. /\ cmAction[1] = FALSE /\ cmAction[2] = TRUE /\ cmSingle = FALSE /\ cdGap = FALSE
        /\ cmActive = FALSE /\ cmRunning = FALSE /\ cdCapture = Nowhere
        /\ cdBuffers[A] = [whole |-> TRUE, fresh |-> TRUE]
    BY <1>5, Zenon DEF Ending, GrabbedWhole, A
  <2>2. cmAction' = <<FALSE, FALSE>> /\ cmSingle' = FALSE /\ cmActive' = FALSE /\ cmDone' = TRUE
        /\ cmRunning' = FALSE
    BY <1>1, <1>2, <1>7, <1>8, <2>1, Zenon
  <2>3. cdCapture' = Nowhere /\ cdBuffers'[A] = [whole |-> TRUE, fresh |-> TRUE]
    BY <1>4, <2>1, Zenon
  <2> QED  BY <1>3, <2>2, <2>3, Zenon DEF Ready, GrabbedWhole
<1> QED  BY <1>1, <1>9, <1>10, <1>11, <1>12, <1>13, Zenon

\* The program's calls, and the clocks between them.
LEMMA CallStep ==
    ASSUME CdInv, NEW newScreen \in BOOLEAN, CdClock(newScreen)
    PROVE  CdInv'
<1>1. ASSUME NEW address \in FrameBuffers, NEW mode \in {"blocking", "nonblocking", "continues"},
             CdCallGrabber(address, mode, newScreen)
      PROVE  CdInv'
  <2>1. /\ cdCall.do \in {"idle", "have"}
        /\ cdCall' = [do |-> "control", address |-> address, mode |-> mode]
        /\ CmControl(BaseCommand(address), newScreen) /\ Sensor(newScreen, TRUE)
    BY <1>1 DEF CdCallGrabber, Execute, First, BaseCommand
  <2>2. NoneUnderWay
    BY <2>1 DEF CdInv, Ready, GrabbedWhole, NoneUnderWay
  <2>3. cmBase' = address /\ NoneUnderWay'
    BY <2>1, <2>2 DEF CmControl, BaseCommand, NoneUnderWay
  <2>4. CdTyped'
    BY <2>1, <2>3, SensorTyped DEF CdInv, CdTyped
  <2> QED  BY <2>1, <2>3, <2>4 DEF CdInv
<1>2. CASE CdControl(newScreen)
  <2> DEFINE command == Second(cdCall.address, cdCall.mode)
             next == IF cdCall.mode = "blocking" THEN "wait"
                     ELSE IF cdCall.mode = "nonblocking" THEN "busy" ELSE "idle"
  <2>1. /\ cdCall.do = "control" /\ cdCall' = [cdCall EXCEPT !.do = next]
        /\ CmControl(command, newScreen) /\ Sensor(newScreen, command.name = "base")
    BY <1>2 DEF CdControl, Execute
  <2>2. command.name = IF cdCall.mode = "continues" THEN "start" ELSE "single"
    BY DEF Second
  <2>3. Sensor(newScreen, FALSE) /\ CdTyped /\ NoneUnderWay /\ cmBase = cdCall.address
    BY <2>1, <2>2 DEF CdInv
  <2> HIDE DEF command
  <2>4. cmBase' = cmBase /\ cdCall' \in [do : {next}, address : {cdCall.address}, mode : {cdCall.mode}]
        /\ next \in {"idle", "busy", "wait"}
    BY <2>1, <2>2, <2>3 DEF CmControl, CdTyped
  <2>5. CdTyped'
    BY <2>3, <2>4, SensorTyped DEF CdTyped
  <2>6. CASE cdCall.mode = "continues"
    <3>1. NoneUnderWay'
      BY <2>1, <2>2, <2>3, <2>6 DEF CmControl, NoneUnderWay
    <3> QED  BY <2>4, <2>5, <2>6, <3>1, <2>3 DEF CdInv, CdTyped
  <2>7. CASE cdCall.mode # "continues"
    <3>1. Requested' \/ Grabbing'
      BY <2>1, <2>2, <2>3, <2>4, <2>7 DEF CmControl, NoneUnderWay, Requested
    <3> QED  BY <2>3, <2>4, <2>5, <2>7, <3>1 DEF CdInv, CdTyped
  <2> QED  BY <2>6, <2>7
<1>3. CASE disableContinues(newScreen)
  <2>1. /\ cdCall.do \in {"idle", "have"} /\ cdCall' = [cdCall EXCEPT !.do = "idle"]
        /\ CmControl([name |-> "stop"], newScreen) /\ Sensor(newScreen, FALSE)
    BY <1>3 DEF disableContinues, Execute
  <2>2. NoneUnderWay
    BY <2>1 DEF CdInv, Ready, GrabbedWhole, NoneUnderWay
  <2>3. cmBase' = cmBase /\ NoneUnderWay'
    BY <2>1, <2>2 DEF CmControl, NoneUnderWay
  <2>4. CdTyped' /\ cdCall'.do = "idle"
    BY <2>1, <2>3, SensorTyped DEF CdInv, CdTyped
  <2> QED  BY <2>3, <2>4 DEF CdInv
<1>4. ASSUME NEW name \in {"none", "poll"}, Execute([name |-> name], newScreen),
             \/ cdCall' = cdCall
             \/ cdCall.do = "busy" /\ cdCall' = [cdCall EXCEPT !.do = "wait"]
             \/ cdCall.do = "wait" /\ cmDone /\ cdCall' = [cdCall EXCEPT !.do = "have"]
      PROVE  CdInv'
  <2>1. Sensor(newScreen, FALSE)
    <3>1. ([name |-> name].name = "base") = FALSE
      OBVIOUS
    <3> QED  BY <1>4, <3>1 DEF Execute
  <2>2. cdCall'.address = cdCall.address /\ CdTyped
        /\ cdCall' \in [do : {"idle", "control", "busy", "wait", "have"}, address : FrameBuffers,
                        mode : {"blocking", "nonblocking", "continues"}]
    BY <1>4 DEF CdInv, CdTyped
  <2>3. /\ cmBase' = cmBase
        /\ NoneUnderWay => NoneUnderWay'
        /\ Ready => Ready'
        /\ Requested \/ Grabbing \/ Ending \/ Ready => (Requested \/ Grabbing \/ Ending \/ Ready)'
    BY <1>4, <2>2, GrabberClock
  <2>4. CdTyped'
    BY <2>1, <2>2, <2>3, SensorTyped DEF CdTyped
  <2>5. (Requested \/ Grabbing \/ Ending) /\ cmDone => FALSE
    BY DEF Requested, Grabbing, Ending
  <2>6. CASE cdCall' = cdCall
    BY <2>3, <2>4, <2>6 DEF CdInv
  <2>7. CASE cdCall.do = "busy" /\ cdCall' = [cdCall EXCEPT !.do = "wait"]
    <3>1. cdCall'.do = "wait"
      BY <2>2, <2>7 DEF CdTyped
    <3> QED  BY <2>3, <2>4, <2>7, <3>1 DEF CdInv
  <2>8. CASE cdCall.do = "wait" /\ cmDone /\ cdCall' = [cdCall EXCEPT !.do = "have"]
    <3>1. cdCall'.do = "have"
      BY <2>2, <2>8 DEF CdTyped
    <3>2. Ready
      BY <2>5, <2>8 DEF CdInv
    <3> QED  BY <2>3, <2>4, <3>1, <3>2 DEF CdInv
  <2> QED  BY <1>4, <2>6, <2>7, <2>8
<1>5. CASE CdElsewhere(newScreen) \/ waitForNextImage(newScreen)
  BY <1>4, <1>5 DEF CdElsewhere, waitForNextImage, None
<1>6. CASE CdPoll(newScreen)
  <2>1. cdCall.do = "wait" /\ Execute([name |-> "poll"], newScreen)
        /\ cdCall' = [cdCall EXCEPT !.do = IF cmDone THEN "have" ELSE cdCall.do]
    BY <1>6 DEF CdPoll
  <2>2. CASE cmDone
    BY <1>4, <2>1, <2>2
  <2>3. CASE ~cmDone
    <3>1. cdCall' = cdCall
      BY <2>1, <2>3 DEF CdInv, CdTyped
    <3> QED  BY <1>4, <2>1, <3>1
  <2> QED  BY <2>2, <2>3
<1> QED  BY <1>1, <1>2, <1>3, <1>5, <1>6
         DEF CdClock, CdProgram, takeSingleImageBlocking, takeSingleImageNonBlocking, enableContinues

\* The image that the program has waited for is one whole frame that began after
\* its call, and nothing writes there until its next call, for any frame buffers
\* and whenever the frames begin (takeSingleImageBlocking, waitForNextImage).
THEOREM ImageIsFresh == CdSpec => []ImageFresh
<1>1. CdInit => CdInv
  BY DEF CdInit, CdInv, CdTyped, NoneUnderWay
<1>2. CdInv /\ [CdNext]_cdVars => CdInv'
  <2> SUFFICES ASSUME CdInv, [CdNext]_cdVars PROVE CdInv'
    OBVIOUS
  <2>1. CASE UNCHANGED cdVars
    BY <2>1 DEF cdVars, cmControlVars, CdInv, CdTyped, NoneUnderWay, Requested, Grabbing, Ending,
                Ready, GrabbedWhole
  <2>2. CASE CdNext
    BY <2>2, CallStep DEF CdNext
  <2> QED  BY <2>1, <2>2
<1>3. CdInv => ImageFresh
  BY CameraAssumption DEF CdInv, CdTyped, Ready, GrabbedWhole, ImageFresh, Nowhere
<1> QED  BY <1>1, <1>2, <1>3, PTL DEF CdSpec

-----------------------------------------------------------------------------
(* The setup of the camera chip.                                           *)

Writes == (0 .. 255) \X (0 .. 255)

\* The writes after the reset; those at the end are the same for all resolutions.
Lists(resolution) == Tail(Script(resolution))
Ends == rgb565_ov7670 \o <<<<17, 0>>>>

\* No write of a list resets the chip, and one to the multiplexor follows a selection.
Sound(list) ==
    /\ list \in Seq(Writes)
    /\ \A i \in 1 .. Len(list) :
        /\ list[i] # WriteReset
        /\ list[i][1] = SelectedCell => i > 1 /\ list[i - 1][1] = Select

(* A tuple of members of a set is a sequence of it.                        *)
LEMMA TupleSeq ==
    ASSUME NEW S, NEW n \in Nat, NEW list, list = [i \in 1 .. n |-> list[i]],
           \A i \in 1 .. n : list[i] \in S
    PROVE  list \in Seq(S) /\ Len(list) = n
<1>1. list \in [1 .. n -> S]
  OBVIOUS
<1> QED BY <1>1

LEMMA DefaultsSound ==
    /\ Sound(default_regs) /\ Len(default_regs) = 155
    /\ \A register \in {3, 12, 23, 24, 25, 26, 50, 62, 114, 115} :
        \E i \in 1 .. 155 : default_regs[i][1] = register
<1>1. default_regs = [i \in 1 .. 155 |-> default_regs[i]]
  BY SMTT(60) DEF default_regs
<1>2. ASSUME NEW i \in 1 .. 155 PROVE default_regs[i] \in Writes /\ default_regs[i] # WriteReset
  BY SMTT(60) DEF default_regs, WriteReset, RegisterCOM7, Writes
<1>3. ASSUME NEW i \in 1 .. 155, default_regs[i][1] = 200
      PROVE  i > 1 /\ default_regs[i - 1][1] = 121
  BY <1>3, SMTT(60) DEF default_regs
<1>4. /\ default_regs[8][1] = 3 /\ default_regs[9][1] = 12 /\ default_regs[3][1] = 23
      /\ default_regs[4][1] = 24 /\ default_regs[6][1] = 25 /\ default_regs[7][1] = 26
      /\ default_regs[5][1] = 50 /\ default_regs[10][1] = 62
      /\ default_regs[13][1] = 114 /\ default_regs[14][1] = 115
  BY SMTT(60) DEF default_regs
<1>5. default_regs \in Seq(Writes) /\ Len(default_regs) = 155
  BY <1>1, <1>2, TupleSeq
<1> QED BY <1>2, <1>3, <1>4, <1>5 DEF Sound, Select, SelectedCell

(* What a list for a resolution writes, the defaults have written before.  *)
LEMMA ResolutionSound ==
    ASSUME NEW resolution \in Resolutions
    PROVE  LET list == ForResolution(resolution) IN
           /\ list \in Seq(Writes)
           /\ \A i \in 1 .. Len(list) :
                list[i][1] \in {3, 12, 23, 24, 25, 26, 50, 62, 114, 115}
<1>1. CASE resolution = "VGA"
  <2> DEFINE list == vga_ov7670
  <2>1. ForResolution(resolution) = list
    BY <1>1 DEF ForResolution
  <2>2. list = [i \in 1 .. 7 |-> list[i]]
    BY DEF vga_ov7670
  <2>3. ASSUME NEW i \in 1 .. 7
        PROVE  list[i] \in Writes /\ list[i][1] \in {3, 12, 23, 24, 25, 26, 50, 62, 114, 115}
    BY DEF vga_ov7670, Writes
  <2> HIDE DEF list
  <2>4. list \in Seq(Writes) /\ Len(list) = 7
    BY <2>2, <2>3, TupleSeq
  <2> QED BY <2>1, <2>3, <2>4
<1>2. CASE resolution = "QVGA"
  <2> DEFINE list == qvga_ov7670
  <2>1. ForResolution(resolution) = list
    BY <1>2 DEF ForResolution
  <2>2. list = [i \in 1 .. 10 |-> list[i]]
    BY DEF qvga_ov7670
  <2>3. ASSUME NEW i \in 1 .. 10
        PROVE  list[i] \in Writes /\ list[i][1] \in {3, 12, 23, 24, 25, 26, 50, 62, 114, 115}
    BY DEF qvga_ov7670, Writes
  <2> HIDE DEF list
  <2>4. list \in Seq(Writes) /\ Len(list) = 10
    BY <2>2, <2>3, TupleSeq
  <2> QED BY <2>1, <2>3, <2>4
<1>3. CASE resolution = "QQVGA"
  <2> DEFINE list == qqvga_ov7670
  <2>1. ForResolution(resolution) = list
    BY <1>3 DEF ForResolution
  <2>2. list = [i \in 1 .. 10 |-> list[i]]
    BY DEF qqvga_ov7670
  <2>3. ASSUME NEW i \in 1 .. 10
        PROVE  list[i] \in Writes /\ list[i][1] \in {3, 12, 23, 24, 25, 26, 50, 62, 114, 115}
    BY DEF qqvga_ov7670, Writes
  <2> HIDE DEF list
  <2>4. list \in Seq(Writes) /\ Len(list) = 10
    BY <2>2, <2>3, TupleSeq
  <2> QED BY <2>1, <2>3, <2>4
<1> QED BY <1>1, <1>2, <1>3 DEF Resolutions

LEMMA ColoursTyped ==
    rgb565_ov7670 \in Seq(Writes) /\ <<<<17, 0>>>> \in Seq(Writes)
<1> DEFINE colours == rgb565_ov7670
<1>1. colours = [i \in 1 .. 12 |-> colours[i]]
  BY DEF rgb565_ov7670
<1>2. \A i \in 1 .. 12 : colours[i] \in Writes
  BY DEF rgb565_ov7670, Writes
<1>3. <<<<17, 0>>>> \in Seq(Writes)
  BY DEF Writes
<1> HIDE DEF colours
<1>4. colours \in Seq(Writes)
  BY <1>1, <1>2, TupleSeq
<1> QED BY <1>3, <1>4 DEF colours

LEMMA EndsSound ==
    /\ Ends \in Seq(Writes)
    /\ \A i \in 1 .. Len(Ends) :
        Ends[i] # WriteReset /\ Ends[i][1] # SelectedCell /\ Ends[i][1] # Select
<1> DEFINE colours == rgb565_ov7670
           rate == <<<<17, 0>>>>
<1>1. colours = [i \in 1 .. 12 |-> colours[i]]
  BY DEF rgb565_ov7670
<1>2. ASSUME NEW i \in 1 .. 12
      PROVE  /\ colours[i] \in Writes /\ colours[i] # WriteReset
             /\ colours[i][1] # SelectedCell /\ colours[i][1] # Select
  BY DEF rgb565_ov7670, Writes, WriteReset, RegisterCOM7, SelectedCell, Select
<1>3. /\ rate \in Seq(Writes) /\ Len(rate) = 1 /\ rate[1] # WriteReset
      /\ rate[1][1] # SelectedCell /\ rate[1][1] # Select
  BY DEF Writes, WriteReset, RegisterCOM7, SelectedCell, Select
<1> HIDE DEF colours, rate
<1>4. colours \in Seq(Writes) /\ Len(colours) = 12
  BY <1>1, <1>2, TupleSeq
<1>5. Ends = colours \o rate
  BY DEF Ends, colours, rate
<1>6. Ends \in Seq(Writes) /\ Len(Ends) = 13
      /\ \A i \in 1 .. 13 : Ends[i] = IF i <= 12 THEN colours[i] ELSE rate[i - 12]
  <2>1. /\ colours \o rate \in Seq(Writes) /\ Len(colours \o rate) = Len(colours) + Len(rate)
        /\ \A i \in 1 .. Len(colours) + Len(rate) : (colours \o rate)[i] =
                IF i <= Len(colours) THEN colours[i] ELSE rate[i - Len(colours)]
    BY <1>3, <1>4, ConcatProperties, Zenon
  <2>2. Len(colours) + Len(rate) = 13
    BY <1>3, <1>4
  <2> QED BY <1>4, <1>5, <2>1, <2>2
<1>7. ASSUME NEW i \in 1 .. 13
      PROVE  Ends[i] # WriteReset /\ Ends[i][1] # SelectedCell /\ Ends[i][1] # Select
  <2>1. CASE i <= 12
    BY <1>2, <1>6, <2>1
  <2>2. CASE i = 13
    <3>1. Ends[i] = rate[1]
      BY <1>6, <2>2
    <3> QED BY <1>3, <3>1
  <2> QED BY <2>1, <2>2
<1> QED BY <1>6, <1>7

(* A list is the defaults, what is special for the resolution, and the ends. *)
LEMMA ListsSound ==
    ASSUME NEW resolution \in Resolutions
    PROVE  LET list == Lists(resolution)
               special == ForResolution(resolution) IN
           /\ Script(resolution) # <<>> /\ Script(resolution) \in Seq(Writes)
           /\ Head(Script(resolution)) = WriteReset
           /\ Sound(list) /\ Len(list) = 155 + Len(special) + Len(Ends)
           /\ \A i \in 1 .. Len(list) :
                list[i] = IF i <= 155 THEN default_regs[i]
                          ELSE IF i <= 155 + Len(special) THEN special[i - 155]
                          ELSE Ends[i - (155 + Len(special))]
<1> DEFINE special == ForResolution(resolution)
           colours == rgb565_ov7670
           rate == <<<<17, 0>>>>
           reset == <<WriteReset>>
           body == (Defaults \o special) \o Ends
           script == Script(resolution)
           list == Lists(resolution)
<1>1. /\ Defaults \in Seq(Writes) /\ Len(Defaults) = 155 /\ Defaults = default_regs
      /\ special \in Seq(Writes) /\ Ends \in Seq(Writes)
  BY DefaultsSound, ResolutionSound, EndsSound DEF Defaults, Sound
<1>2. reset \in Seq(Writes) /\ Len(reset) = 1 /\ reset[1] = WriteReset
  BY DEF WriteReset, RegisterCOM7, Writes
<1>3. colours \in Seq(Writes) /\ rate \in Seq(Writes) /\ Ends = colours \o rate
  BY ColoursTyped DEF Ends
<1>4. script = (((reset \o Defaults) \o special) \o colours) \o rate
  BY DEF Script
<1> HIDE DEF colours, rate, reset, script
<1>5. script = reset \o body
  <2>1. /\ reset \o Defaults \in Seq(Writes) /\ (reset \o Defaults) \o special \in Seq(Writes)
        /\ Defaults \o special \in Seq(Writes)
    BY <1>1, <1>2, ConcatProperties
  <2>2. script = ((reset \o Defaults) \o special) \o Ends
    BY <1>3, <1>4, <2>1, ConcatAssociative
  <2>3. (reset \o Defaults) \o special = reset \o (Defaults \o special)
    <3>1. reset \in Seq(Writes) /\ Defaults \in Seq(Writes) /\ special \in Seq(Writes)
      BY <1>1, <1>2
    <3>2. \A a, b, c \in Seq(Writes) : (a \o b) \o c = a \o (b \o c)
      BY ConcatAssociative
    <3> HIDE DEF special
    <3> QED BY <3>1, <3>2
  <2> QED BY <1>1, <1>2, <2>1, <2>2, <2>3, ConcatAssociative
<1>6. /\ body \in Seq(Writes) /\ Len(body) = 155 + Len(special) + Len(Ends)
      /\ \A i \in 1 .. Len(body) :
            body[i] = IF i <= 155 THEN default_regs[i]
                      ELSE IF i <= 155 + Len(special) THEN special[i - 155]
                      ELSE Ends[i - (155 + Len(special))]
  <2> DEFINE first == Defaults \o special
  <2>1. /\ first \in Seq(Writes) /\ Len(first) = Len(Defaults) + Len(special)
        /\ \A i \in 1 .. Len(Defaults) + Len(special) :
                first[i] = IF i <= Len(Defaults) THEN Defaults[i] ELSE special[i - Len(Defaults)]
    <3>1. Defaults \in Seq(Writes) /\ special \in Seq(Writes)
      BY <1>1
    <3> HIDE DEF special
    <3> QED BY <3>1, ConcatProperties, Zenon DEF first
  <2> HIDE DEF first
  <2>2. /\ first \o Ends \in Seq(Writes) /\ Len(first \o Ends) = Len(first) + Len(Ends)
        /\ \A i \in 1 .. Len(first) + Len(Ends) :
                (first \o Ends)[i] = IF i <= Len(first) THEN first[i] ELSE Ends[i - Len(first)]
    <3>1. first \in Seq(Writes) /\ Ends \in Seq(Writes)
      BY <1>1, <2>1
    <3> QED BY <3>1, ConcatProperties, Zenon
  <2>3. body = first \o Ends
    BY DEF first
  <2>4. Len(special) \in Nat /\ Len(Ends) \in Nat
    BY <1>1
  <2> HIDE DEF body, special
  <2>5. Len(first) = 155 + Len(special) /\ Len(body) = 155 + Len(special) + Len(Ends)
    BY <1>1, <2>1, <2>2, <2>3, <2>4
  <2>6. ASSUME NEW i \in 1 .. Len(body)
        PROVE  body[i] = IF i <= 155 THEN default_regs[i]
                         ELSE IF i <= 155 + Len(special) THEN special[i - 155]
                         ELSE Ends[i - (155 + Len(special))]
    <3>1. CASE i <= 155 + Len(special)
      <4>1. i \in 1 .. Len(Defaults) + Len(special) /\ i \in 1 .. Len(first) + Len(Ends)
        BY <1>1, <2>4, <2>5, <3>1
      <4> QED BY <1>1, <2>1, <2>2, <2>3, <2>5, <3>1, <4>1
    <3>2. CASE i > 155 + Len(special)
      <4>1. i \in 1 .. Len(first) + Len(Ends) /\ ~(i <= Len(first)) /\ ~(i <= 155)
        BY <2>4, <2>5, <3>2
      <4> QED BY <2>2, <2>3, <2>5, <3>2, <4>1
    <3> QED BY <2>4, <3>1, <3>2
  <2> QED BY <2>2, <2>3, <2>5, <2>6
<1> HIDE DEF body
<1>7. script # <<>> /\ script \in Seq(Writes) /\ Head(script) = WriteReset /\ list = body
  <2>1. /\ reset \o body \in Seq(Writes) /\ Len(reset \o body) = Len(reset) + Len(body)
        /\ \A i \in 1 .. Len(reset) + Len(body) :
                (reset \o body)[i] = IF i <= Len(reset) THEN reset[i] ELSE body[i - Len(reset)]
    <3>1. reset \in Seq(Writes) /\ body \in Seq(Writes)
      BY <1>2, <1>6
    <3> QED BY <3>1, ConcatProperties, Zenon
  <2>2. Len(body) \in Nat
    BY <1>6
  <2>3. Len(script) = Len(body) + 1 /\ script[1] = WriteReset /\ script # <<>>
    BY <1>2, <1>5, <2>1, <2>2
  <2>4. /\ Tail(script) \in Seq(Writes) /\ Len(Tail(script)) = Len(script) - 1
        /\ \A i \in 1 .. Len(Tail(script)) : Tail(script)[i] = script[i + 1]
    BY <1>5, <2>1, <2>3, HeadTailProperties
  <2>5. ASSUME NEW i \in 1 .. Len(Tail(script)) PROVE Tail(script)[i] = body[i]
    <3>1. i + 1 \in 1 .. Len(reset) + Len(body) /\ ~(i + 1 <= Len(reset)) /\ i + 1 - Len(reset) = i
      BY <1>2, <2>2, <2>3, <2>4
    <3> QED BY <1>5, <2>1, <2>4, <3>1
  <2>6. Len(Tail(script)) = Len(body)
    BY <2>2, <2>3, <2>4
  <2>7. Tail(script) = body
    BY <1>6, <2>4, <2>5, <2>6, SeqEqual
  <2>8. list = Tail(script)
    BY DEF script, Lists
  <2> QED BY <1>5, <2>1, <2>3, <2>7, <2>8
<1> HIDE DEF list, special
<1>8. ASSUME NEW i \in 1 .. Len(list)
      PROVE  /\ list[i] # WriteReset
             /\ list[i][1] = SelectedCell => i > 1 /\ list[i - 1][1] = Select
  <2>0. Len(special) \in Nat /\ Len(Ends) \in Nat
    BY <1>1
  <2>1. CASE i <= 155
    <3>1. list[i] = default_regs[i] /\ (i > 1 => list[i - 1] = default_regs[i - 1])
      BY <1>6, <1>7, <2>0, <2>1
    <3>2. i \in 1 .. Len(default_regs) /\ i \in 1 .. 155
      BY <2>1, DefaultsSound
    <3>3. /\ default_regs[i] # WriteReset
          /\ default_regs[i][1] = SelectedCell => i > 1 /\ default_regs[i - 1][1] = Select
      BY <3>2, DefaultsSound DEF Sound
    <3> QED BY <3>1, <3>3
  <2>2. CASE i > 155 /\ i <= 155 + Len(special)
    <3>1. list[i] = special[i - 155] /\ i - 155 \in 1 .. Len(special)
      BY <1>6, <1>7, <2>0, <2>2
    <3>2. list[i][1] \in {3, 12, 23, 24, 25, 26, 50, 62, 114, 115}
      BY <3>1, ResolutionSound DEF special
    <3> QED BY <3>2 DEF SelectedCell, WriteReset, RegisterCOM7
  <2>3. CASE i > 155 + Len(special)
    <3>1. /\ list[i] = Ends[i - (155 + Len(special))]
          /\ i - (155 + Len(special)) \in 1 .. Len(Ends)
      BY <1>6, <1>7, <2>0, <2>3
    <3> QED BY <3>1, EndsSound
  <2> QED BY <2>0, <2>1, <2>2, <2>3
<1> QED BY <1>6, <1>7, <1>8 DEF Sound, list, script, special

LEMMA MaxIs ==
    ASSUME NEW S \in SUBSET Int, NEW m \in S, \A x \in S : x <= m
    PROVE  Max(S) = m
<1>1. \A y \in S : m >= y
  OBVIOUS
<1>2. ASSUME NEW x \in S, \A y \in S : x >= y PROVE x = m
  BY <1>2
<1> QED BY <1>1, <1>2 DEF Max

(* A write to the multiplexor reaches the cell that the write before it selects. *)
LEMMA CellSelected ==
    ASSUME NEW list, Sound(list), NEW i \in 1 .. Len(list), list[i][1] = SelectedCell
    PROVE  /\ i - 1 \in 1 .. Len(list) /\ list[i - 1][1] = Select
           /\ CellOf(list, i) = CellAt(list[i - 1][2]) /\ CellOf(list, i) \in 256 .. 511
<1>1. list \in Seq(Writes) /\ i > 1 /\ list[i - 1][1] = Select
  BY DEF Sound
<1>2. i - 1 \in 1 .. Len(list)
  BY <1>1
<1> DEFINE places == {j \in 1 .. i - 1 : list[j][1] = Select}
<1>3. places \in SUBSET Int /\ i - 1 \in places /\ \A j \in places : j <= i - 1
  BY <1>1, <1>2
<1>4. LastOf(list, places) = list[i - 1][2]
  <2> HIDE DEF places
  <2>1. Max(places) = i - 1
    BY <1>3, MaxIs
  <2> QED BY <1>3, <2>1 DEF LastOf
<1>5. list[i - 1] \in Writes
  BY <1>1, <1>2
<1>6. CellOf(list, i) = 256 + list[i - 1][2]
  BY <1>4 DEF CellOf, CellAt
<1>7. list[i - 1][2] \in 0 .. 255
  BY <1>5 DEF Writes
<1>8. CellOf(list, i) = CellAt(list[i - 1][2]) /\ CellOf(list, i) \in 256 .. 511
  <2>1. PICK x \in 0 .. 255 : x = list[i - 1][2]
    BY <1>7
  <2>2. CellOf(list, i) = 256 + x
    BY <1>6, <2>1
  <2>3. CellAt(list[i - 1][2]) = 256 + x
    BY <2>1 DEF CellAt
  <2>4. 256 + x \in 256 .. 511
    OBVIOUS
  <2> QED BY <2>2, <2>3, <2>4
<1> QED BY <1>1, <1>2, <1>8

\* The registers that a setup writes, for whatever resolution.
Touched(r) ==
    \/ \E i \in 1 .. Len(default_regs) :
        \/ default_regs[i][1] = r
        \/ default_regs[i][1] = SelectedCell /\ r = CellAt(default_regs[i - 1][2])
    \/ \E i \in 1 .. Len(Ends) : Ends[i][1] = r

(* Every setup writes the same registers.                                  *)
LEMMA SameRegisters ==
    ASSUME NEW resolution \in Resolutions, NEW r
    PROVE  (\E i \in 1 .. Len(Lists(resolution)) : Reaches(Lists(resolution), i, r)) <=> Touched(r)
<1> DEFINE special == ForResolution(resolution)
           list == Lists(resolution)
<1>1. /\ Sound(list) /\ Len(list) = 155 + Len(special) + Len(Ends)
      /\ \A i \in 1 .. Len(list) :
            list[i] = IF i <= 155 THEN default_regs[i]
                      ELSE IF i <= 155 + Len(special) THEN special[i - 155]
                      ELSE Ends[i - (155 + Len(special))]
  BY ListsSound
<1>2. /\ special \in Seq(Writes)
      /\ \A i \in 1 .. Len(special) :
            special[i][1] \in {3, 12, 23, 24, 25, 26, 50, 62, 114, 115}
  BY ResolutionSound
<1>3. Len(special) \in Nat /\ Len(Ends) \in Nat /\ Len(default_regs) = 155
  BY <1>2, EndsSound, DefaultsSound
<1> HIDE DEF special, list
<1>6. ASSUME NEW i \in 1 .. 155
      PROVE  i \in 1 .. Len(list) /\ list[i] = default_regs[i] /\ i \in 1 .. Len(default_regs)
  <2>1. PICK a \in Nat : a = Len(special)
    BY <1>3
  <2>2. PICK b \in Nat : b = Len(Ends)
    BY <1>3
  <2>3. Len(list) = 155 + a + b
    BY <1>1, <2>1, <2>2
  <2>4. i \in 1 .. Len(list) /\ i <= 155
    BY <2>3
  <2> QED BY <1>1, <1>3, <2>4
<1>4. ASSUME NEW i \in 1 .. Len(list), Reaches(list, i, r) PROVE Touched(r)
  <2>1. CASE i <= 155
    <3>1. list[i] = default_regs[i] /\ (i > 1 => list[i - 1] = default_regs[i - 1])
      <4>1. i \in 1 .. 155 /\ (i > 1 => i - 1 \in 1 .. 155)
        BY <2>1
      <4> QED BY <1>6, <4>1
    <3>2. list[i][1] = SelectedCell =>
            CellOf(list, i) = CellAt(list[i - 1][2]) /\ i - 1 \in 1 .. Len(list)
      BY <1>1, CellSelected
    <3>3. i \in 1 .. Len(default_regs)
      BY <1>3, <2>1
    <3> QED BY <1>4, <3>1, <3>2, <3>3 DEF Reaches, Touched
  <2>2. CASE i > 155 /\ i <= 155 + Len(special)
    <3>1. list[i] = special[i - 155] /\ i - 155 \in 1 .. Len(special)
      BY <1>1, <1>3, <2>2
    <3>2. list[i][1] \in {3, 12, 23, 24, 25, 26, 50, 62, 114, 115}
      BY <1>2, <3>1
    <3>3. list[i][1] = r
      BY <1>4, <3>2 DEF Reaches, SelectedCell
    <3>4. \E j \in 1 .. Len(default_regs) : default_regs[j][1] = r
      <4>1. \E j \in 1 .. 155 : default_regs[j][1] = list[i][1]
        BY <3>2, DefaultsSound
      <4> QED BY <1>6, <3>3, <4>1
    <3> QED BY <3>4 DEF Touched
  <2>3. CASE i > 155 + Len(special)
    <3>1. /\ list[i] = Ends[i - (155 + Len(special))]
          /\ i - (155 + Len(special)) \in 1 .. Len(Ends)
      BY <1>1, <1>3, <2>3
    <3>2. list[i][1] = r
      BY <1>4, <3>1, EndsSound DEF Reaches
    <3> QED BY <3>1, <3>2 DEF Touched
  <2> QED BY <1>3, <2>1, <2>2, <2>3
<1>5. ASSUME Touched(r) PROVE \E i \in 1 .. Len(list) : Reaches(list, i, r)
  <2>1. ASSUME NEW i \in 1 .. Len(default_regs), default_regs[i][1] = r
        PROVE  \E k \in 1 .. Len(list) : Reaches(list, k, r)
    <3>1. i \in 1 .. Len(list) /\ list[i] = default_regs[i]
      BY <1>3, <1>6
    <3> QED BY <2>1, <3>1 DEF Reaches
  <2>2. ASSUME NEW i \in 1 .. Len(default_regs), default_regs[i][1] = SelectedCell,
               r = CellAt(default_regs[i - 1][2])
        PROVE  \E k \in 1 .. Len(list) : Reaches(list, k, r)
    <3>1. i \in 1 .. Len(list) /\ list[i] = default_regs[i]
      BY <1>3, <1>6
    <3>2. CellOf(list, i) = CellAt(list[i - 1][2]) /\ i - 1 \in 1 .. Len(list)
      BY <1>1, <2>2, <3>1, CellSelected
    <3>3. list[i - 1] = default_regs[i - 1]
      <4>1. i - 1 \in 1 .. 155
        BY <1>3, <3>2
      <4> QED BY <1>6, <4>1
    <3> QED BY <2>2, <3>1, <3>2, <3>3 DEF Reaches
  <2>3. ASSUME NEW i \in 1 .. Len(Ends), Ends[i][1] = r
        PROVE  \E k \in 1 .. Len(list) : Reaches(list, k, r)
    <3> DEFINE k == 155 + Len(special) + i
    <3>1. k \in 1 .. Len(list) /\ ~(k <= 155) /\ ~(k <= 155 + Len(special))
          /\ k - (155 + Len(special)) = i
      BY <1>1, <1>3
    <3> HIDE DEF k
    <3>2. list[k] = Ends[i]
      BY <1>1, <3>1
    <3> QED BY <2>3, <3>1, <3>2 DEF Reaches
  <2> QED BY <1>5, <2>1, <2>2, <2>3 DEF Touched
<1> QED BY <1>4, <1>5 DEF list

\* Each register has what the last of the first k writes that reach it has written.
AsFar(list, k, registers) ==
    \A r \in 0 .. 511 :
        \/ \A i \in 1 .. k : ~Reaches(list, i, r)
        \/ \E i \in 1 .. k :
            /\ Reaches(list, i, r) /\ \A j \in i + 1 .. k : ~Reaches(list, j, r)
            /\ registers[r] = list[i][2]

CsTyped == csRegisters \in [0 .. 511 -> 0 .. 255]

\* Registers that no list writes have been 0 since the chip was switched on.
UntouchedZero == \A r \in 0 .. 511 : ~Touched(r) => csRegisters[r] = 0

\* The setup that is under way, or has been done.
OnTheWay ==
    LET list == Lists(csResolution) IN
    \/ csScript = Script(csResolution)
    \/ \E k \in 0 .. Len(list) :
        csScript = SubSeq(list, k + 1, Len(list)) /\ AsFar(list, k, csRegisters)

CsInv ==
    /\ CsTyped /\ UntouchedZero
    /\ csResolution \in Resolutions /\ csSetups \in Nat
    /\ IF csSetups = 0 THEN csScript = <<>> ELSE OnTheWay

\* The chip takes the write of a list that follows the first k.
Taken(list, k) == csRegisters' = AfterRegisterWrite(csRegisters, list[k + 1])

(* A write changes exactly the registers that it reaches.                  *)
LEMMA WriteReaches ==
    ASSUME NEW list, Sound(list), NEW k \in Nat, k + 1 \in 1 .. Len(list), AsFar(list, k, csRegisters),
           CsTyped, Taken(list, k)
    PROVE  /\ CsTyped'
           /\ \A r \in 0 .. 511 :
                csRegisters'[r] = IF Reaches(list, k + 1, r) THEN list[k + 1][2] ELSE csRegisters[r]
<1> DEFINE write == list[k + 1]
<1>1. k + 1 \in 1 .. Len(list) /\ write \in Writes /\ write # WriteReset
  <2>1. list \in Seq(Writes)
    BY DEF Sound
  <2>2. write \in Writes
    BY <2>1, ElementOfSeq
  <2> QED BY <2>2 DEF Sound
<1>2. write[1] \in 0 .. 255 /\ write[2] \in 0 .. 255
  BY <1>1 DEF Writes
<1>3. CASE write[1] = SelectedCell
  <2> DEFINE cell == CellAt(csRegisters[Select])
  <2>1. /\ k \in 1 .. Len(list) /\ list[k][1] = Select
        /\ CellOf(list, k + 1) = CellAt(list[k][2]) /\ CellOf(list, k + 1) \in 256 .. 511
    <3>1. PICK n \in 1 .. Len(list) : n = k + 1
      BY <1>1
    <3>2. n - 1 = k /\ list[n][1] = SelectedCell
      BY <1>3, <3>1
    <3>3. /\ n - 1 \in 1 .. Len(list) /\ list[n - 1][1] = Select
          /\ CellOf(list, n) = CellAt(list[n - 1][2]) /\ CellOf(list, n) \in 256 .. 511
      BY <3>2, CellSelected
    <3> QED BY <3>1, <3>2, <3>3
  <2>2. csRegisters[Select] = list[k][2]
    <3>1. Reaches(list, k, Select) /\ Select \in 0 .. 511 /\ k \in 1 .. k
      BY <2>1 DEF Reaches, Select
    <3>2. PICK i \in 1 .. k :
            /\ \A j \in i + 1 .. k : ~Reaches(list, j, Select)
            /\ csRegisters[Select] = list[i][2]
      BY <3>1 DEF AsFar
    <3>3. i = k
      BY <2>1, <3>1, <3>2
    <3> QED BY <3>2, <3>3
  <2>3. cell = CellOf(list, k + 1) /\ cell \in 256 .. 511
    BY <2>1, <2>2
  <2> HIDE DEF cell
  <2>4. csRegisters' = [csRegisters EXCEPT ![cell] = write[2], ![SelectedCell] = write[2]]
    BY <1>1, <1>3 DEF Taken, AfterRegisterWrite, cell
  <2>5. SelectedCell \in 0 .. 255
    BY DEF SelectedCell
  <2>6. \A r : Reaches(list, k + 1, r) <=> r = SelectedCell \/ r = cell
    BY <1>3, <2>3 DEF Reaches
  <2> QED BY <1>2, <2>3, <2>4, <2>5, <2>6 DEF CsTyped
<1>4. CASE write[1] # SelectedCell
  <2>1. csRegisters' = [csRegisters EXCEPT ![write[1]] = write[2]]
    BY <1>1, <1>4 DEF Taken, AfterRegisterWrite
  <2>2. \A r : Reaches(list, k + 1, r) <=> r = write[1]
    BY <1>4 DEF Reaches
  <2> HIDE DEF write
  <2>3. write[1] \in 0 .. 511
    BY <1>2
  <2>4. csRegisters' \in [0 .. 511 -> 0 .. 255]
    BY <1>2, <2>1 DEF CsTyped
  <2>5. \A r \in 0 .. 511 : csRegisters'[r] = IF r = write[1] THEN write[2] ELSE csRegisters[r]
    BY <2>1, <2>3 DEF CsTyped
  <2> QED BY <2>2, <2>4, <2>5 DEF write, CsTyped
<1> QED BY <1>3, <1>4

LEMMA FurtherWritten ==
    ASSUME NEW list, Sound(list), NEW k \in Nat, k + 1 \in 1 .. Len(list), AsFar(list, k, csRegisters),
           CsTyped, Taken(list, k)
    PROVE  AsFar(list, k + 1, csRegisters')
<1> SUFFICES ASSUME NEW r \in 0 .. 511
             PROVE  \/ \A i \in 1 .. k + 1 : ~Reaches(list, i, r)
                    \/ \E i \in 1 .. k + 1 :
                        /\ Reaches(list, i, r) /\ \A j \in i + 1 .. k + 1 : ~Reaches(list, j, r)
                        /\ csRegisters'[r] = list[i][2]
  BY DEF AsFar
<1>1. k \in Nat
  OBVIOUS
<1>2. csRegisters'[r] = IF Reaches(list, k + 1, r) THEN list[k + 1][2] ELSE csRegisters[r]
  BY WriteReaches
<1>3. CASE Reaches(list, k + 1, r)
  <2>1. k + 1 \in 1 .. k + 1 /\ \A j \in k + 1 + 1 .. k + 1 : FALSE
    BY <1>1
  <2> QED BY <1>2, <1>3, <2>1
<1>4. CASE ~Reaches(list, k + 1, r)
  <2>1. CASE \A i \in 1 .. k : ~Reaches(list, i, r)
    <3>1. ASSUME NEW i \in 1 .. k + 1 PROVE ~Reaches(list, i, r)
      <4>1. i \in 1 .. k \/ i = k + 1
        BY <1>1
      <4> QED BY <1>4, <2>1, <4>1
    <3> QED BY <3>1
  <2>2. ASSUME NEW i \in 1 .. k, Reaches(list, i, r),
               \A j \in i + 1 .. k : ~Reaches(list, j, r), csRegisters[r] = list[i][2]
        PROVE  \E n \in 1 .. k + 1 :
                    /\ Reaches(list, n, r) /\ \A j \in n + 1 .. k + 1 : ~Reaches(list, j, r)
                    /\ csRegisters'[r] = list[n][2]
    <3>1. i \in 1 .. k + 1
      BY <1>1
    <3>2. ASSUME NEW j \in i + 1 .. k + 1 PROVE ~Reaches(list, j, r)
      <4>1. j \in i + 1 .. k \/ j = k + 1
        BY <1>1
      <4> QED BY <1>4, <2>2, <4>1
    <3> QED BY <1>2, <1>4, <2>2, <3>1, <3>2
  <2> QED BY <2>1, <2>2 DEF AsFar
<1> QED BY <1>3, <1>4

LEMMA SetupInit == CsInit => CsInv
<1> SUFFICES ASSUME CsInit PROVE CsInv
  OBVIOUS
<1>1. /\ csRegisters = [r \in 0 .. 511 |-> 0] /\ csScript = <<>>
      /\ csResolution \in Resolutions /\ csSetups = 0
  BY DEF CsInit, AfterReset, Resolutions
<1> QED BY <1>1 DEF CsInv, CsTyped, UntouchedZero

(* A write of a list leaves the registers alone that no list writes.       *)
LEMMA UntouchedStay ==
    ASSUME NEW resolution \in Resolutions, NEW k \in Nat, k + 1 \in 1 .. Len(Lists(resolution)),
           AsFar(Lists(resolution), k, csRegisters), CsTyped, Taken(Lists(resolution), k),
           UntouchedZero
    PROVE  UntouchedZero'
<1> DEFINE list == Lists(resolution)
<1>1. Sound(list)
  BY ListsSound
<1> SUFFICES ASSUME NEW r \in 0 .. 511, ~Touched(r) PROVE csRegisters'[r] = 0
  BY DEF UntouchedZero
<1>2. ~Reaches(list, k + 1, r)
  BY SameRegisters
<1>3. csRegisters'[r] = csRegisters[r] /\ csRegisters[r] = 0
  <2> HIDE DEF list
  <2>1. /\ k + 1 \in 1 .. Len(list) /\ AsFar(list, k, csRegisters) /\ Taken(list, k)
    BY DEF list
  <2> QED BY <1>1, <1>2, <2>1, WriteReaches DEF UntouchedZero
<1> QED BY <1>3

LEMMA WriteStep ==
    ASSUME CsInv, NEW acknowledged \in BOOLEAN, writeOv7670Register(acknowledged)
    PROVE  CsInv'
<1>1. /\ csScript # <<>>
      /\ acknowledged \/ Head(csScript) = WriteReset
      /\ csRegisters' = IF acknowledged THEN AfterRegisterWrite(csRegisters, Head(csScript))
                        ELSE csRegisters
      /\ csScript' = Tail(csScript) /\ csResolution' = csResolution /\ csSetups' = csSetups
  BY DEF writeOv7670Register
<1>2. PICK resolution \in Resolutions : resolution = csResolution
  BY DEF CsInv
<1> DEFINE list == Lists(resolution)
<1>3. Sound(list) /\ list \in Seq(Writes) /\ Len(list) \in Nat
  BY ListsSound DEF Sound
<1>4. csSetups > 0 /\ csSetups \in Nat
  <2>1. csSetups # 0 /\ csSetups \in Nat
    BY <1>1 DEF CsInv
  <2> QED BY <2>1
<1>5. CASE csScript = Script(resolution)
  <2>1. Head(csScript) = WriteReset /\ csScript' = list
    BY <1>1, <1>5, ListsSound DEF Lists
  <2>2. csRegisters' = AfterReset \/ csRegisters' = csRegisters
    BY <1>1, <2>1 DEF AfterRegisterWrite
  <2>3. CsTyped' /\ UntouchedZero'
    <3>1. CsTyped /\ UntouchedZero
      BY DEF CsInv
    <3>2. CASE csRegisters' = csRegisters
      BY <3>1, <3>2 DEF CsTyped, UntouchedZero
    <3>3. CASE csRegisters' = AfterReset
      BY <3>3 DEF AfterReset, CsTyped, UntouchedZero
    <3> QED BY <2>2, <3>2, <3>3
  <2>4. csScript' = SubSeq(list, 0 + 1, Len(list))
    BY <1>3, <2>1, SubSeqFull
  <2>5. AsFar(list, 0, csRegisters')
    BY DEF AsFar
  <2>6. 0 \in 0 .. Len(list)
    BY <1>3
  <2>7. csResolution' = resolution /\ csSetups' # 0 /\ csSetups' \in Nat
    BY <1>1, <1>2, <1>4
  <2> HIDE DEF list
  <2>8. OnTheWay'
    BY <2>4, <2>5, <2>6, <2>7 DEF OnTheWay, list
  <2> QED BY <2>3, <2>7, <2>8 DEF CsInv
<1>6. ASSUME NEW k \in 0 .. Len(list), csScript = SubSeq(list, k + 1, Len(list)), AsFar(list, k, csRegisters)
      PROVE  CsInv'
  <2>1. k \in Nat /\ k + 1 \in 1 .. Len(list)
    <3>1. k # Len(list)
      <4> SUFFICES ASSUME k = Len(list) PROVE FALSE
        OBVIOUS
      <4>1. PICK n \in Nat : n = Len(list)
        BY <1>3
      <4>2. n < n + 1 /\ n + 1 = k + 1
        BY <4>1
      <4> HIDE DEF list
      <4>3. SubSeq(list, n + 1, n) = <<>>
        BY <4>2, SubSeqEmpty
      <4>4. csScript = SubSeq(list, n + 1, n)
        BY <1>6, <4>1, <4>2
      <4> QED BY <1>1, <4>3, <4>4
    <3> QED BY <1>3, <3>1
  <2>2. Head(csScript) = list[k + 1] /\ csScript' = SubSeq(list, k + 1 + 1, Len(list))
    <3>1. PICK m \in 1 .. Len(list) : m = k + 1
      BY <2>1
    <3>2. Len(list) \in m .. Len(list)
      BY <1>3
    <3> HIDE DEF list
    <3>3. /\ Head(SubSeq(list, m, Len(list))) = list[m]
          /\ Tail(SubSeq(list, m, Len(list))) = SubSeq(list, m + 1, Len(list))
      BY <1>3, <3>2, HeadTailOfSubSeq
    <3> QED BY <1>1, <1>6, <3>1, <3>3
  <2>3. Taken(list, k)
    <3>1. list[k + 1] # WriteReset
      BY <1>3, <2>1 DEF Sound
    <3> QED BY <1>1, <2>2, <3>1 DEF Taken
  <2>4. CsTyped /\ UntouchedZero
    BY DEF CsInv
  <2>5. UntouchedZero'
    BY <1>6, <2>1, <2>3, <2>4, UntouchedStay
  <2> HIDE DEF list
  <2>6. CsTyped' /\ AsFar(list, k + 1, csRegisters')
    BY <1>3, <1>6, <2>1, <2>3, <2>4, WriteReaches, FurtherWritten
  <2>7. k + 1 \in 0 .. Len(list)
    BY <2>1
  <2>8. csSetups' # 0 /\ csSetups' \in Nat /\ csResolution' = resolution
    BY <1>1, <1>2, <1>4
  <2>9. OnTheWay'
    BY <2>2, <2>6, <2>7, <2>8 DEF OnTheWay, list
  <2> QED BY <2>5, <2>6, <2>8, <2>9 DEF CsInv
<1>7. OnTheWay
  BY <1>4 DEF CsInv
<1> QED BY <1>2, <1>5, <1>6, <1>7 DEF OnTheWay

LEMMA SetupInvariance == CsSpec => []CsInv
<1>1. CsInit => CsInv
  BY SetupInit
<1>2. CsInv /\ [CsNext]_csVars => CsInv'
  <2> SUFFICES ASSUME CsInv, [CsNext]_csVars PROVE CsInv'
    OBVIOUS
  <2>1. ASSUME NEW resolution \in Resolutions, initOv7670(resolution) PROVE CsInv'
    <3>1. /\ csScript' = Script(resolution) /\ csResolution' = resolution
          /\ csSetups' = csSetups + 1 /\ csRegisters' = csRegisters
      BY <2>1 DEF initOv7670
    <3>2. csSetups' \in Nat /\ csSetups' # 0
      BY <3>1 DEF CsInv
    <3>3. CsTyped' /\ UntouchedZero'
      BY <3>1 DEF CsInv, CsTyped, UntouchedZero
    <3>4. OnTheWay'
      BY <3>1 DEF OnTheWay
    <3> QED BY <3>1, <3>2, <3>3, <3>4 DEF CsInv
  <2>2. ASSUME NEW acknowledged \in BOOLEAN, writeOv7670Register(acknowledged) PROVE CsInv'
    BY <2>2, WriteStep
  <2>3. CASE UNCHANGED csVars
    BY <2>3 DEF csVars, CsInv, CsTyped, UntouchedZero, OnTheWay
  <2> QED BY <2>1, <2>2, <2>3 DEF CsNext
<1> QED BY <1>1, <1>2, PTL DEF CsSpec

(* After a setup every register of the camera chip has the value for the   *)
(* resolution that was asked for, whatever it was set up for before, and   *)
(* although the reset that should make it forget may get lost.             *)
THEOREM SetUpHolds == CsSpec => []SetUpFromAnyState
<1>1. CsInv => SetUpFromAnyState
  <2> SUFFICES ASSUME CsInv, csScript = <<>>, csSetups > 0
               PROVE  csRegisters = Settings[csResolution]
    BY DEF SetUpFromAnyState
  <2>1. PICK resolution \in Resolutions : resolution = csResolution
    BY DEF CsInv
  <2> DEFINE list == Lists(resolution)
             places(r) == {i \in DOMAIN list : Reaches(list, i, r)}
  <2>2. /\ Sound(list) /\ list \in Seq(Writes) /\ Len(list) \in Nat
        /\ Script(resolution) # <<>>
    BY ListsSound DEF Sound
  <2>3. PICK k \in 0 .. Len(list) : <<>> = SubSeq(list, k + 1, Len(list)) /\ AsFar(list, k, csRegisters)
    BY <2>1, <2>2 DEF CsInv, OnTheWay
  <2>4. k = Len(list)
    <3> SUFFICES ASSUME k + 1 <= Len(list) PROVE FALSE
      BY <2>2
    <3>1. \A i \in k + 1 .. Len(list) : list[i] \in Writes
      <4>1. \A i \in k + 1 .. Len(list) : i \in 1 .. Len(list)
        BY <2>2
      <4> HIDE DEF list
      <4> QED BY <2>2, <4>1, ElementOfSeq
    <3>2. PICK n \in Nat : n = Len(list)
      BY <2>2
    <3> HIDE DEF list
    <3>3. PICK m \in 1 .. n : m = k + 1
      BY <3>2
    <3>4. Len(SubSeq(list, m, n)) = n - m + 1
      BY <3>1, <3>2, <3>3, SubSeqProperties
    <3>5. Len(SubSeq(list, m, n)) = 0
      BY <2>3, <3>2, <3>3
    <3> QED BY <3>3, <3>4, <3>5
  <2>5. ASSUME NEW r \in 0 .. 511 PROVE csRegisters[r] = LastOf(list, places(r))
    <3>1. CASE \A i \in 1 .. Len(list) : ~Reaches(list, i, r)
      <4>1. ~Touched(r)
        BY <3>1, SameRegisters
      <4>2. places(r) = {}
        BY <2>2, <3>1
      <4> QED BY <4>1, <4>2 DEF CsInv, UntouchedZero, LastOf
    <3>2. ASSUME NEW i \in 1 .. Len(list), Reaches(list, i, r),
                 \A j \in i + 1 .. Len(list) : ~Reaches(list, j, r),
                 csRegisters[r] = list[i][2]
          PROVE  csRegisters[r] = LastOf(list, places(r))
      <4>1. DOMAIN list = 1 .. Len(list)
        BY <2>2
      <4>2. i \in places(r) /\ places(r) \in SUBSET Int
        BY <3>2, <4>1
      <4>3. ASSUME NEW x \in places(r) PROVE x <= i
        <5>1. x \in 1 .. Len(list) /\ Reaches(list, x, r)
          BY <4>1
        <5>2. x \notin i + 1 .. Len(list)
          BY <3>2, <5>1
        <5> QED BY <2>2, <5>1, <5>2
      <4> HIDE DEF places
      <4>4. Max(places(r)) = i
        BY <4>2, <4>3, MaxIs
      <4> QED BY <3>2, <4>2, <4>4 DEF LastOf
    <3> QED BY <2>3, <2>4, <3>1, <3>2 DEF AsFar
  <2>6. Settings[resolution] = [r \in 0 .. 511 |-> LastOf(list, places(r))]
    BY DEF Settings, AfterSetup, Lists
  <2> HIDE DEF list, places
  <2>7. csRegisters = [r \in 0 .. 511 |-> csRegisters[r]]
    BY DEF CsInv, CsTyped
  <2> QED BY <2>1, <2>5, <2>6, <2>7
<1> QED BY <1>1, SetupInvariance, PTL
=============================================================================
