----------------------------- MODULE UnitsProofs -----------------------------
(***************************************************************************)
(* Proofs about the units of MCUnits, each alone in an environment that    *)
(* may do anything: the fetch stage with its instruction cache, what the   *)
(* arbiter promises as a queue, the load/store unit, the read buffer of    *)
(* the memory, and the clock crossing.                                     *)
(***************************************************************************)
EXTENDS MCUnits, BusArbiterProofs, SequenceTheorems, TLAPS

-----------------------------------------------------------------------------
(* The fetch stage: addresses, lines and tags.                             *)

LEMMA DivMod ==
    ASSUME NEW n \in Nat, NEW k \in Nat \ {0}
    PROVE  n \div k \in Nat /\ n % k \in 0 .. k - 1 /\ n = (n \div k) * k + (n % k)
<1>1. n \div k \in Nat /\ n % k \in 0 .. k - 1
  OBVIOUS
<1>2. PICK q \in Nat : q = n \div k
  BY <1>1
<1>3. PICK r \in 0 .. k - 1 : r = n % k
  BY <1>1
<1>4. n = q * k + r
  BY <1>2, <1>3, Z3
<1> QED BY <1>1, <1>2, <1>3, <1>4

LEMMA QuotientUnique ==
    ASSUME NEW k \in Nat \ {0}, NEW q \in Nat, NEW p \in Nat,
           NEW r \in 0 .. k - 1, NEW s \in 0 .. k - 1, q * k + r = p * k + s
    PROVE  q = p /\ r = s
<1>1. ASSUME NEW a \in Nat, NEW b \in Nat, a > b PROVE a * k >= b * k + k
  <2>1. a >= b + 1
    BY <1>1
  <2>2. a * k >= (b + 1) * k
    BY <2>1
  <2>3. (b + 1) * k = b * k + k
    OBVIOUS
  <2>4. a * k \in Nat /\ b * k \in Nat
    OBVIOUS
  <2> QED BY <2>2, <2>3, <2>4
<1>2. q * k \in Nat /\ p * k \in Nat
  OBVIOUS
<1>3. ~(q > p)
  <2> SUFFICES ASSUME q > p PROVE FALSE
    OBVIOUS
  <2>1. q * k >= p * k + k
    BY <1>1
  <2> QED BY <1>2, <2>1
<1>4. ~(p > q)
  <2> SUFFICES ASSUME p > q PROVE FALSE
    OBVIOUS
  <2>1. p * k >= q * k + k
    BY <1>1
  <2> QED BY <1>2, <2>1
<1>5. q = p
  BY <1>3, <1>4
<1> QED BY <1>2, <1>5

(* An address is its line and its word; a line is its tag and its index;    *)
(* all words of the line of an address are addresses.                       *)
LEMMA AddressParts ==
    ASSUME NEW p \in Pcs
    PROVE  /\ LineOf(p) \in Nat /\ WordOf(p) \in 0 .. WordsPerLine - 1
           /\ IndexOf(p) \in Indices /\ TagOf(p) \in Tags
           /\ p = LineOf(p) * WordsPerLine + WordOf(p)
           /\ LineOf(p) = TagOf(p) * Lines + IndexOf(p)
           /\ LineOf(p) * WordsPerLine \in Nat
           /\ \A w \in 0 .. WordsPerLine - 1 : LineOf(p) * WordsPerLine + w \in Pcs
<1> DEFINE W == WordsPerLine
           M == Lines
<1>1. /\ W \in Nat \ {0} /\ M \in Nat \ {0} /\ Addresses \in Nat \ {0} /\ p \in Nat
      /\ W * M \in Nat \ {0}
  BY FetchAssumption DEF Pcs
<1>2. /\ LineOf(p) \in Nat /\ WordOf(p) \in 0 .. W - 1
      /\ p = LineOf(p) * W + WordOf(p)
  BY <1>1, DivMod DEF LineOf, WordOf
<1>3. PICK i \in 0 .. M - 1, b \in Nat : i = IndexOf(p) /\ LineOf(p) = b * M + i
  <2>1. LineOf(p) \div M \in Nat /\ LineOf(p) % M \in 0 .. M - 1
        /\ LineOf(p) = (LineOf(p) \div M) * M + (LineOf(p) % M)
    BY <1>1, <1>2, DivMod
  <2> QED BY <2>1 DEF IndexOf, LineOf
<1>4. TagOf(p) = b
  <2> DEFINE k == W * M
             t == TagOf(p)
             u == p % k
             word == WordOf(p)
             v == i * W + word
  <2>1. t \in Nat /\ u \in 0 .. k - 1 /\ p = t * k + u
    BY <1>1, DivMod DEF TagOf
  <2>2. p = b * k + v
    <3>1. p = (b * M + i) * W + word
      BY <1>2, <1>3
    <3>2. word \in Nat
      BY <1>1, <1>2
    <3> HIDE DEF word
    <3>3. (b * M + i) * W + word = b * (W * M) + (i * W + word)
      BY <1>1, <1>3, <3>2, Z3
    <3> QED BY <3>1, <3>3
  <2>3. v \in 0 .. k - 1
    <3>1. word \in 0 .. W - 1
      BY <1>2
    <3> HIDE DEF word
    <3>2. i * W \in Nat /\ i * W + W = (i + 1) * W
      BY <1>1, <1>3
    <3>3. (i + 1) * W <= M * W
      BY <1>1, <1>3
    <3>4. M * W = k /\ M * W \in Nat
      BY <1>1
    <3> HIDE DEF k
    <3> QED BY <1>1, <3>1, <3>2, <3>3, <3>4
  <2> HIDE DEF k, t, u, v
  <2>4. t = b
    BY <1>1, <2>1, <2>2, <2>3, QuotientUnique DEF k
  <2> QED BY <2>4 DEF t
<1>5. LineOf(p) * W \in Nat /\ \A w \in 0 .. W - 1 : LineOf(p) * W + w \in Pcs
  <2> DEFINE a == LineOf(p)
             k == W * M
             c == (Addresses \div k) * M
  <2>1. Addresses = c * W /\ c \in Nat
    <3>1. PICK d \in Nat : Addresses = d * k
      <4>1. /\ Addresses \div k \in Nat /\ Addresses = (Addresses \div k) * k + (Addresses % k)
        BY <1>1, DivMod
      <4>2. Addresses % k = 0
        BY FetchAssumption
      <4>3. (Addresses \div k) * k \in Nat
        BY <1>1, <4>1
      <4> QED BY <4>1, <4>2, <4>3
    <3>2. d = Addresses \div k
      <4>1. /\ Addresses \div k \in Nat /\ Addresses = (Addresses \div k) * k + (Addresses % k)
            /\ Addresses % k \in 0 .. k - 1
        BY <1>1, DivMod
      <4> DEFINE e == Addresses \div k
                 f == Addresses % k
      <4>2. d * k + 0 = e * k + f /\ e \in Nat /\ f \in 0 .. k - 1
        BY <1>1, <3>1, <4>1
      <4> HIDE DEF e, f, k
      <4>3. 0 \in 0 .. k - 1 /\ k \in Nat \ {0}
        BY <1>1 DEF k
      <4>4. d = e
        BY <4>2, <4>3, QuotientUnique
      <4> QED BY <4>4 DEF e
    <3>3. c = d * M
      BY <3>2
    <3>4. d * (W * M) = (d * M) * W /\ d * M \in Nat
      BY <1>1, Z3
    <3> QED BY <3>1, <3>3, <3>4
  <2>2. a \in Nat /\ WordOf(p) \in 0 .. W - 1 /\ p = a * W + WordOf(p) /\ p < Addresses
    BY <1>1, <1>2 DEF Pcs
  <2> HIDE DEF a, c, k
  <2>3. a + 1 <= c
    <3> SUFFICES ASSUME a >= c PROVE FALSE
      BY <2>1, <2>2
    <3>1. a * W >= c * W /\ a * W \in Nat
      BY <1>1, <2>1, <2>2
    <3> QED BY <1>1, <2>1, <2>2, <3>1
  <2>4. (a + 1) * W <= c * W /\ (a + 1) * W = a * W + W /\ a * W \in Nat
    BY <1>1, <2>1, <2>2, <2>3
  <2>5. \A w \in 0 .. W - 1 : a * W + w \in 0 .. Addresses - 1
    BY <1>1, <2>1, <2>4
  <2> QED BY <2>4, <2>5 DEF a, Pcs
<1>6. TagOf(p) \in Tags
  BY DEF Tags
<1>7. IndexOf(p) \in Indices
  BY <1>3 DEF Indices
<1> QED BY <1>2, <1>3, <1>4, <1>5, <1>6, <1>7

(* The line of an address is known by its index and its tag.                *)
LEMMA LineKnown ==
    ASSUME NEW p \in Pcs, NEW q \in Pcs
    PROVE  /\ IndexOf(p) = IndexOf(q) /\ TagOf(p) = TagOf(q) => LineOf(p) = LineOf(q)
           /\ LineOf(p) = LineOf(q) => IndexOf(p) = IndexOf(q)
<1>1. /\ LineOf(p) = TagOf(p) * Lines + IndexOf(p)
      /\ LineOf(q) = TagOf(q) * Lines + IndexOf(q)
  BY AddressParts
<1> QED BY <1>1 DEF IndexOf, LineOf

-----------------------------------------------------------------------------
(* The inductive invariant of the fetch stage.                             *)

FsShape ==
    /\ fsPc \in Pcs /\ fsProgramCounter \in Pcs
    /\ fsState \in FsStates /\ fsBus \in FsBusStates
    /\ fsValidBits \in SUBSET Indices /\ fsTags \in [Indices -> Tags]
    /\ fsLines \in [Indices -> [0 .. WordsPerLine - 1 -> FsWords]]
    /\ fsRead \in FsWords /\ fsFetched \in FsWords /\ fsInstruction \in FsWords \cup {Nop}
    /\ fsDataIn \in Pcs \cup {NoWord} /\ fsBurstCount \in 0 .. WordsPerLine - 1

FsFlags ==
    /\ fsStall \in BOOLEAN /\ fsDelayedReset \in BOOLEAN /\ fsInsertNop \in BOOLEAN
    /\ fsHit \in BOOLEAN /\ fsBusError \in BOOLEAN /\ fsValidInstruction \in BOOLEAN
    /\ error \in BOOLEAN

\* The bus machine runs while the other one waits, and the stage is stalled all
\* the time; after reset nothing runs yet.
FsMachinesMeet ==
    /\ fsState = "WAIT_CACHE_LINE" <=> fsBus # "NOP"
    /\ fsState # "IDLE" => fsStall
    /\ fsDelayedReset => ~fsStall
    /\ fsDataIn # NoWord => fsBus = "WAIT_BURST"
    /\ fsBus \in {"REQUEST_BUS", "INIT_TRANSACTION"} => fsBurstCount = 0

\* Where the line of the missed address is filled, and the words written to it
\* so far: the one on its way from the bus is not yet there.
Filled   == fsLines[IndexOf(fsProgramCounter)]
Received == WordsPerLine - burst.left
Written  == IF fsDataIn = NoWord THEN Received ELSE Received - 1

\* A burst in progress: the word that follows is the one that the count says,
\* and the words before it are in the line.
BurstInOrder ==
    fsBus = "WAIT_BURST" =>
        /\ burst.left \in 0 .. WordsPerLine
        /\ burst.from = FsAddress + Received
        /\ fsDataIn # NoWord => Received > 0 /\ fsDataIn = FsAddress + Written
        /\ fsBurstCount = IF Written = WordsPerLine THEN 0 ELSE Written
        /\ \A w \in 0 .. WordsPerLine - 1 : w < Written => Filled[w] = FsAddress + w
        /\ WordOf(fsProgramCounter) < Written => fsFetched = fsProgramCounter

\* A burst that ended without an error has filled the line.
LineComplete ==
    /\ (fsBus = "SIGNAL_DONE" \/ fsState = "UPDATE_TAG") /\ ~fsBusError =>
          \A w \in 0 .. WordsPerLine - 1 : Filled[w] = FsAddress + w
    /\ fsBus = "SIGNAL_DONE" /\ ~fsBusError => fsFetched = fsProgramCounter

TagHit(pc) == IndexOf(pc) \in fsValidBits /\ fsTags[IndexOf(pc)] = TagOf(pc)

\* Lines hold what their tags say, the line being filled excepted.
TagsTruthful ==
    \A pc \in Pcs :
        /\ TagHit(pc) /\ LineOf(pc) \notin failedLines
        /\ IndexOf(pc) # IndexOf(fsProgramCounter) \/ fsState \in {"IDLE", "LOOKUP"}
        => fsLines[IndexOf(pc)][WordOf(pc)] = pc

\* While the stage is not stalled, a hit is a hit of the address looked up last,
\* and the read port shows its word.
HitTruthful ==
    ~fsStall /\ fsHit =>
        TagHit(fsPc) /\ fsRead = fsLines[IndexOf(fsPc)][WordOf(fsPc)]

\* After a fill the instruction register holds the word that was missed.
InstructionLoaded ==
    /\ fsState \in {"UPDATE_TAG", "LOOKUP"} =>
          IF fsBusError THEN ~fsValidInstruction ELSE fsInstruction = fsProgramCounter
    /\ ~fsStall /\ ~fsDelayedReset /\ fsValidInstruction =>
          fsInstruction \in {Nop, fsProgramCounter} \/ LineOf(fsProgramCounter) \in failedLines

FsInv ==
    /\ FsShape /\ FsFlags
    /\ FsMachinesMeet /\ BurstInOrder /\ LineComplete
    /\ TagsTruthful /\ HitTruthful /\ InstructionLoaded

-----------------------------------------------------------------------------
(* A clock edge of the fetch stage, part by part.                          *)

(* What the wires carry: an address in range, and a word of the burst.      *)
LEMMA InputsTyped ==
    ASSUME FsInv, NEW insertNop \in BOOLEAN, NEW jump \in JumpTargets \cup {NoJump},
           NEW endIn \in BOOLEAN, NEW dataIn \in {burst.from, NoWord}, Answer(dataIn, endIn)
    PROVE  /\ NextPc(insertNop, jump # NoJump, jump) \in Pcs
           /\ fsBus = "WAIT_BURST" /\ dataIn # NoWord =>
                 /\ dataIn \in Pcs /\ dataIn = burst.from
                 /\ burst.left > 0 /\ ~error /\ ~endIn
           /\ fsBus = "WAIT_BURST" /\ endIn => burst.left = 0 /\ dataIn = NoWord
<1>1. fsPc \in Pcs /\ Addresses \in Nat \ {0}
  BY FetchAssumption DEF FsInv, FsShape
<1>2. (fsPc + 1) % Addresses \in Pcs
  BY <1>1 DEF Pcs
<1>3. NextPc(insertNop, jump # NoJump, jump) \in Pcs
  BY <1>1, <1>2, JumpAssumption DEF NextPc
<1>4. fsBus = "WAIT_BURST" /\ dataIn # NoWord =>
        dataIn = burst.from /\ burst.left > 0 /\ ~error /\ ~endIn
  BY DEF Answer
<1>5. fsBus = "WAIT_BURST" /\ dataIn # NoWord => dataIn \in Pcs
  <2> SUFFICES ASSUME fsBus = "WAIT_BURST", dataIn # NoWord PROVE dataIn \in Pcs
    OBVIOUS
  <2>1. /\ burst.left \in 0 .. WordsPerLine /\ burst.left > 0
        /\ burst.from = FsAddress + Received
    BY <1>4 DEF FsInv, BurstInOrder
  <2>2. Received \in 0 .. WordsPerLine - 1
    BY <2>1, FetchAssumption DEF Received
  <2>3. FsAddress + Received \in Pcs
    BY <2>2, AddressParts DEF FsAddress, FsInv, FsShape
  <2> QED BY <1>4, <2>1, <2>3
<1>6. fsBus = "WAIT_BURST" /\ endIn => burst.left = 0 /\ dataIn = NoWord
  <2> SUFFICES ASSUME fsBus = "WAIT_BURST", endIn PROVE burst.left = 0 /\ dataIn = NoWord
    OBVIOUS
  <2> QED BY DEF Answer
<1> QED BY <1>3, <1>4, <1>5, <1>6

\* The inputs of a clock edge, and what it does.
Edge(dCacheStall, insertNop, granted, endIn, jump, dataIn) ==
    /\ dCacheStall \in BOOLEAN /\ insertNop \in BOOLEAN /\ granted \in BOOLEAN
    /\ endIn \in BOOLEAN /\ jump \in JumpTargets \cup {NoJump} /\ dataIn \in {burst.from, NoWord}
    /\ FsAloneClock(dCacheStall, insertNop, jump, granted, dataIn, endIn)

LEMMA MachinesStep ==
    ASSUME FsInv, NEW dCacheStall, NEW insertNop, NEW granted, NEW endIn, NEW jump, NEW dataIn,
           Edge(dCacheStall, insertNop, granted, endIn, jump, dataIn)
    PROVE  FsMachinesMeet' /\ FsFlags' /\ fsState' \in FsStates /\ fsBus' \in FsBusStates
<1>1. /\ dCacheStall \in BOOLEAN /\ insertNop \in BOOLEAN /\ endIn \in BOOLEAN
      /\ StallRegister(dCacheStall) /\ FillMachine /\ FsBusMachine(granted, error, endIn)
      /\ BurstRegisters(dataIn)
      /\ ProgramCounters(dCacheStall \/ fsStall, insertNop, NextPc(insertNop, jump # NoJump, jump))
      /\ InstructionRegister(dCacheStall \/ fsStall)
      /\ Cache(dCacheStall \/ fsStall, NextPc(insertNop, jump # NoJump, jump))
      /\ FsMemory(dataIn, endIn) /\ Answer(dataIn, endIn)
  BY DEF Edge, FsAloneClock, FsClock
<1>2. FsMachinesMeet /\ FsShape /\ FsFlags
  BY DEF FsInv
<1>3. fsState' \in FsStates
  BY <1>1, <1>2 DEF FillMachine, FsShape, FsStates
<1>4. fsBus' \in FsBusStates
  BY <1>1, <1>2 DEF FsBusMachine, FsNop, FsRequestBus, FsInitTransaction, FsWaitBurst,
       FsBusErrorState, FsSignalDone, FsShape, FsBusStates
<1>5. FsFlags'
  <2>1. fsStall' \in BOOLEAN /\ fsDelayedReset' \in BOOLEAN
    BY <1>1 DEF StallRegister
  <2>2. fsInsertNop' \in BOOLEAN
    BY <1>1, <1>2 DEF ProgramCounters, FsFlags
  <2>3. fsHit' \in BOOLEAN
    BY <1>1, <1>2 DEF Cache, FsFlags
  <2>4. fsBusError' \in BOOLEAN
    BY <1>1 DEF BurstRegisters
  <2>5. fsValidInstruction' \in BOOLEAN
    BY <1>1, <1>2 DEF InstructionRegister, FsFlags
  <2>6. error' \in BOOLEAN
    BY <1>1, <1>2 DEF FsMemory, FsFlags
  <2> QED BY <2>1, <2>2, <2>3, <2>4, <2>5, <2>6 DEF FsFlags
<1>6. FsMachinesMeet'
  <2>1. fsState' = "WAIT_CACHE_LINE" <=> fsBus' # "NOP"
    BY <1>1, <1>2 DEF FsMachinesMeet, FsShape, FsStates, FillMachine, AckLine, FsBusMachine, FsNop,
         FsRequestBus, FsInitTransaction, FsWaitBurst, FsBusErrorState, FsSignalDone
  <2>2. fsState' # "IDLE" => fsStall'
    BY <1>1, <1>2 DEF FsMachinesMeet, FsShape, FsStates, FillMachine, StallRegister
  <2>3. fsDelayedReset' => ~fsStall'
    BY <1>1 DEF StallRegister
  <2>4. fsDataIn' # NoWord => fsBus' = "WAIT_BURST"
    <3> SUFFICES ASSUME fsDataIn' # NoWord PROVE fsBus' = "WAIT_BURST"
      OBVIOUS
    <3>1. fsBus = "WAIT_BURST" /\ dataIn # NoWord
      BY <1>1 DEF BurstRegisters
    <3>2. ~error /\ ~endIn
      BY <1>1, <3>1 DEF Answer
    <3> QED BY <1>1, <3>1, <3>2 DEF FsBusMachine, FsNop, FsRequestBus, FsInitTransaction,
              FsWaitBurst, FsBusErrorState, FsSignalDone
  <2>5. fsBus' \in {"REQUEST_BUS", "INIT_TRANSACTION"} => fsBurstCount' = 0
    <3> SUFFICES ASSUME fsBus' \in {"REQUEST_BUS", "INIT_TRANSACTION"} PROVE fsBurstCount' = 0
      OBVIOUS
    <3>1. fsBus \in {"NOP", "REQUEST_BUS"}
      BY <1>1 DEF FsBusMachine, FsNop, FsRequestBus, FsInitTransaction,
              FsWaitBurst, FsBusErrorState, FsSignalDone
    <3> QED BY <1>1, <1>2, <3>1 DEF BurstRegisters, FsMachinesMeet
  <2> QED BY <2>1, <2>2, <2>3, <2>4, <2>5 DEF FsMachinesMeet
<1> QED BY <1>3, <1>4, <1>5, <1>6

(* The data memory is written at the word that the count says, in the line  *)
(* of the missed address, and nowhere else.                                 *)
LEMMA LinesWritten ==
    ASSUME FsInv, NEW dCacheStall, NEW insertNop, NEW granted, NEW endIn, NEW jump, NEW dataIn,
           Edge(dCacheStall, insertNop, granted, endIn, jump, dataIn)
    PROVE  /\ fsLines' \in [Indices -> [0 .. WordsPerLine - 1 -> FsWords]]
           /\ \A i \in Indices : \A w \in 0 .. WordsPerLine - 1 :
                 fsLines'[i][w] = IF fsDataIn # NoWord /\ i = IndexOf(fsProgramCounter)
                                     /\ w = fsBurstCount
                                  THEN fsDataIn ELSE fsLines[i][w]
<1> DEFINE next == NextPc(insertNop, jump # NoJump, jump)
           stalled == dCacheStall \/ fsStall
           data == ReadAddress(stalled, next)
<1>1. Cache(stalled, next)
  BY DEF Edge, FsAloneClock, FsClock
<1>2. fsLines' = IF fsDataIn = NoWord THEN fsLines
                 ELSE [fsLines EXCEPT ![data.index][data.word] = fsDataIn]
  BY <1>1 DEF Cache
<1> HIDE DEF data
<1>3. /\ fsLines \in [Indices -> [0 .. WordsPerLine - 1 -> FsWords]]
      /\ fsDataIn \in Pcs \cup {NoWord} /\ fsBurstCount \in 0 .. WordsPerLine - 1
      /\ IndexOf(fsProgramCounter) \in Indices
  BY AddressParts DEF FsInv, FsShape
<1>4. fsDataIn # NoWord => /\ fsDataIn \in FsWords
                           /\ data.index = IndexOf(fsProgramCounter) /\ data.word = fsBurstCount
  BY <1>3 DEF ReadAddress, data, FsWords
<1>5. CASE fsDataIn = NoWord
  BY <1>2, <1>3, <1>5
<1>6. CASE fsDataIn # NoWord
  <2> DEFINE i == IndexOf(fsProgramCounter)
             c == fsBurstCount
  <2>1. fsLines' = [fsLines EXCEPT ![i] = [fsLines[i] EXCEPT ![c] = fsDataIn]]
    BY <1>2, <1>4, <1>6
  <2>2. i \in Indices /\ c \in 0 .. WordsPerLine - 1 /\ fsDataIn \in FsWords
    BY <1>3, <1>4, <1>6
  <2> HIDE DEF i, c
  <2>3. [fsLines[i] EXCEPT ![c] = fsDataIn] \in [0 .. WordsPerLine - 1 -> FsWords]
    BY <1>3, <2>2
  <2>4. fsLines' \in [Indices -> [0 .. WordsPerLine - 1 -> FsWords]]
    BY <1>3, <2>1, <2>2, <2>3
  <2>5. ASSUME NEW j \in Indices, NEW w \in 0 .. WordsPerLine - 1
        PROVE  fsLines'[j][w] = IF j = i /\ w = c THEN fsDataIn ELSE fsLines[j][w]
    BY <1>3, <2>1, <2>2
  <2> QED BY <1>6, <2>4, <2>5 DEF i, c
<1> QED BY <1>5, <1>6

\* The tag memory is written for the missed address, in UPDATE_TAG only.
TagsWritten ==
    IF fsState = "UPDATE_TAG"
    THEN /\ fsValidBits' = fsValidBits \cup {IndexOf(fsProgramCounter)}
         /\ fsTags' = [fsTags EXCEPT ![IndexOf(fsProgramCounter)] = TagOf(fsProgramCounter)]
    ELSE UNCHANGED <<fsValidBits, fsTags>>

LEMMA TagsStep ==
    ASSUME FsInv, NEW dCacheStall, NEW insertNop, NEW granted, NEW endIn, NEW jump, NEW dataIn,
           Edge(dCacheStall, insertNop, granted, endIn, jump, dataIn)
    PROVE  TagsWritten
<1> DEFINE next == NextPc(insertNop, jump # NoJump, jump)
           stalled == dCacheStall \/ fsStall
<1>1. Cache(stalled, next)
  BY DEF Edge, FsAloneClock, FsClock
<1>2. fsState = "UPDATE_TAG" => LookupAddress(next) = fsProgramCounter
  BY DEF LookupAddress, FsInv, FsMachinesMeet
<1> QED BY <1>1, <1>2 DEF Cache, TagsWritten

LEMMA ShapeStep ==
    ASSUME FsInv, NEW dCacheStall, NEW insertNop, NEW granted, NEW endIn, NEW jump, NEW dataIn,
           Edge(dCacheStall, insertNop, granted, endIn, jump, dataIn)
    PROVE  FsShape'
<1> DEFINE next == NextPc(insertNop, jump # NoJump, jump)
           stalled == dCacheStall \/ fsStall
<1>1. /\ Answer(dataIn, endIn) /\ BurstRegisters(dataIn)
      /\ ProgramCounters(stalled, insertNop, next)
      /\ InstructionRegister(stalled) /\ Cache(stalled, next)
  BY DEF Edge, FsAloneClock, FsClock
<1>2. /\ next \in Pcs
      /\ fsBus = "WAIT_BURST" /\ dataIn # NoWord => dataIn \in Pcs
  BY <1>1, InputsTyped DEF Edge
<1>3. FsShape
  BY DEF FsInv
<1>4. fsPc' \in Pcs /\ fsProgramCounter' \in Pcs
  BY <1>1, <1>2, <1>3 DEF ProgramCounters, FsShape
<1>5. fsState' \in FsStates /\ fsBus' \in FsBusStates
  BY MachinesStep
<1>6. fsValidBits' \in SUBSET Indices /\ fsTags' \in [Indices -> Tags]
  <2>1. TagsWritten
    BY TagsStep
  <2>2. IndexOf(fsProgramCounter) \in Indices /\ TagOf(fsProgramCounter) \in Tags
    BY <1>3, AddressParts DEF FsShape
  <2> QED BY <1>3, <2>1, <2>2 DEF TagsWritten, FsShape
<1>7. fsLines' \in [Indices -> [0 .. WordsPerLine - 1 -> FsWords]]
  BY LinesWritten
<1>8. fsRead' \in FsWords
  <2> DEFINE data == ReadAddress(stalled, next)
  <2>1. data.index \in Indices /\ data.word \in 0 .. WordsPerLine - 1
    <3>1. \A p \in Pcs : IndexOf(p) \in Indices /\ WordOf(p) \in 0 .. WordsPerLine - 1
      BY AddressParts
    <3> QED BY <1>2, <1>3, <3>1 DEF ReadAddress, FsShape
  <2>2. fsRead' = fsLines[data.index][data.word]
    BY <1>1 DEF Cache
  <2> HIDE DEF data
  <2> QED BY <1>3, <2>1, <2>2 DEF FsShape
<1>9. fsFetched' \in FsWords /\ fsDataIn' \in Pcs \cup {NoWord}
  <2>1. fsFetched' \in FsWords
    BY <1>1, <1>3 DEF BurstRegisters, FsShape, FsWords
  <2>2. fsDataIn' \in Pcs \cup {NoWord}
    BY <1>1, <1>2 DEF BurstRegisters
  <2> QED BY <2>1, <2>2
<1>10. fsInstruction' \in FsWords \cup {Nop}
  BY <1>1, <1>3 DEF InstructionRegister, FsShape
<1>11. fsBurstCount' \in 0 .. WordsPerLine - 1
  <2>1. WordsPerLine \in Nat \ {0} /\ fsBurstCount \in 0 .. WordsPerLine - 1
    BY <1>3, FetchAssumption DEF FsShape
  <2>2. (fsBurstCount + 1) % WordsPerLine \in 0 .. WordsPerLine - 1
    BY <2>1
  <2>3. 0 \in 0 .. WordsPerLine - 1
    BY <2>1
  <2> QED BY <1>1, <2>1, <2>2, <2>3 DEF BurstRegisters
<1> QED BY <1>4, <1>5, <1>6, <1>7, <1>8, <1>9, <1>10, <1>11 DEF FsShape

(* While the bus machine runs, the address is held.                         *)
LEMMA AddressHeld ==
    ASSUME FsInv, NEW dCacheStall, NEW insertNop, NEW granted, NEW endIn, NEW jump, NEW dataIn,
           Edge(dCacheStall, insertNop, granted, endIn, jump, dataIn)
    PROVE  /\ fsStall => fsPc' = fsPc /\ fsProgramCounter' = fsProgramCounter
           /\ fsBus # "NOP" => fsStall
           /\ ~fsStall => fsState = "IDLE" /\ fsBus = "NOP" /\ fsDataIn = NoWord
<1>1. ProgramCounters(dCacheStall \/ fsStall, insertNop, NextPc(insertNop, jump # NoJump, jump))
  BY DEF Edge, FsAloneClock, FsClock
<1> QED BY <1>1 DEF ProgramCounters, FsInv, FsMachinesMeet, FsShape, FsStates

\* The word on its way goes to the line in this clock.
WrittenNext == IF fsDataIn = NoWord THEN Written ELSE Written + 1

(* The line and the fetched word after a clock of the burst.                *)
LEMMA WordStored ==
    ASSUME FsInv, NEW dCacheStall, NEW insertNop, NEW granted, NEW endIn, NEW jump, NEW dataIn,
           fsBus = "WAIT_BURST",
           Edge(dCacheStall, insertNop, granted, endIn, jump, dataIn)
    PROVE  /\ WrittenNext = Received /\ Received \in 0 .. WordsPerLine
           /\ \A w \in 0 .. WordsPerLine - 1 : w < Received => Filled'[w] = FsAddress + w
           /\ WordOf(fsProgramCounter) < Received => fsFetched' = fsProgramCounter
           /\ fsBurstCount' = IF Received = WordsPerLine THEN 0 ELSE Received
           /\ fsProgramCounter' = fsProgramCounter
<1> DEFINE W == WordsPerLine
<1>1. /\ W \in Nat \ {0} /\ burst.left \in 0 .. W
      /\ fsDataIn # NoWord => Received > 0 /\ fsDataIn = FsAddress + Written
      /\ fsBurstCount = IF Written = W THEN 0 ELSE Written
      /\ \A w \in 0 .. W - 1 : w < Written => Filled[w] = FsAddress + w
      /\ WordOf(fsProgramCounter) < Written => fsFetched = fsProgramCounter
  BY FetchAssumption DEF FsInv, BurstInOrder
<1>2. WrittenNext = Received /\ Received \in 0 .. W
  BY <1>1 DEF WrittenNext, Written, Received
<1>3. BurstRegisters(dataIn)
  BY DEF Edge, FsAloneClock, FsClock
<1>4. fsProgramCounter' = fsProgramCounter
  BY AddressHeld
<1>5. /\ fsProgramCounter \in Pcs /\ IndexOf(fsProgramCounter) \in Indices
      /\ WordOf(fsProgramCounter) \in 0 .. W - 1
      /\ fsProgramCounter = FsAddress + WordOf(fsProgramCounter)
  BY AddressParts DEF FsInv, FsShape, FsAddress
<1>6. \A w \in 0 .. W - 1 :
        Filled'[w] = IF fsDataIn # NoWord /\ w = fsBurstCount THEN fsDataIn ELSE Filled[w]
  BY <1>4, <1>5, LinesWritten DEF Filled
<1>7. CASE fsDataIn = NoWord
  <2>1. Written = Received /\ fsBurstCount' = fsBurstCount /\ fsFetched' = fsFetched
    BY <1>3, <1>7 DEF Written, BurstRegisters
  <2> QED BY <1>1, <1>2, <1>4, <1>6, <1>7, <2>1
<1>8. CASE fsDataIn # NoWord
  <2>1. Written = Received - 1 /\ Written \in 0 .. W - 1 /\ fsBurstCount = Written
    BY <1>1, <1>2, <1>8 DEF Written
  <2>2. \A w \in 0 .. W - 1 : w < Received => Filled'[w] = FsAddress + w
    <3> SUFFICES ASSUME NEW w \in 0 .. W - 1, w < Received PROVE Filled'[w] = FsAddress + w
      OBVIOUS
    <3>1. CASE w = Written
      BY <1>1, <1>6, <1>8, <2>1, <3>1
    <3>2. CASE w # Written
      <4>1. w < Written
        BY <1>2, <2>1, <3>2
      <4>2. Filled'[w] = Filled[w]
        BY <1>6, <2>1, <3>2
      <4> QED BY <1>1, <4>1, <4>2
    <3> QED BY <3>1, <3>2
  <2>3. WordOf(fsProgramCounter) < Received => fsFetched' = fsProgramCounter
    <3> SUFFICES ASSUME WordOf(fsProgramCounter) < Received PROVE fsFetched' = fsProgramCounter
      OBVIOUS
    <3>1. CASE WordOf(fsProgramCounter) = Written
      BY <1>1, <1>3, <1>5, <1>8, <2>1, <3>1 DEF BurstRegisters
    <3>2. CASE WordOf(fsProgramCounter) # Written
      <4>1. WordOf(fsProgramCounter) < Written
        BY <1>2, <1>5, <2>1, <3>2
      <4>2. fsFetched' = fsFetched
        BY <1>3, <2>1, <3>2 DEF BurstRegisters
      <4> QED BY <1>1, <4>1, <4>2
    <3> QED BY <3>1, <3>2
  <2>4. fsBurstCount' = IF Received = W THEN 0 ELSE Received
    <3>1. fsBurstCount' = (Written + 1) % W
      BY <1>3, <1>8, <2>1 DEF BurstRegisters
    <3>2. Written + 1 = Received
      BY <1>2, <2>1
    <3>3. fsBurstCount' = Received % W
      BY <3>1, <3>2
    <3>4. Received % W = IF Received = W THEN 0 ELSE Received
      BY <1>1, <1>2
    <3> QED BY <3>3, <3>4
  <2> QED BY <1>2, <1>4, <2>2, <2>3, <2>4
<1> QED BY <1>7, <1>8

LEMMA BurstStep ==
    ASSUME FsInv, NEW dCacheStall, NEW insertNop, NEW granted, NEW endIn, NEW jump, NEW dataIn,
           Edge(dCacheStall, insertNop, granted, endIn, jump, dataIn)
    PROVE  BurstInOrder'
<1> SUFFICES ASSUME fsBus' = "WAIT_BURST"
             PROVE  /\ burst'.left \in 0 .. WordsPerLine
                    /\ burst'.from = FsAddress' + Received'
                    /\ fsDataIn' # NoWord => Received' > 0 /\ fsDataIn' = FsAddress' + Written'
                    /\ fsBurstCount' = IF Written' = WordsPerLine THEN 0 ELSE Written'
                    /\ \A w \in 0 .. WordsPerLine - 1 : w < Written' => Filled'[w] = FsAddress' + w
                    /\ WordOf(fsProgramCounter') < Written' => fsFetched' = fsProgramCounter'
  BY DEF BurstInOrder
<1>1. /\ Answer(dataIn, endIn) /\ BurstRegisters(dataIn) /\ FsMemory(dataIn, endIn)
      /\ FsBusMachine(granted, error, endIn)
  BY DEF Edge, FsAloneClock, FsClock
<1>2. fsBus \in {"INIT_TRANSACTION", "WAIT_BURST"}
  BY <1>1 DEF FsBusMachine, FsNop, FsRequestBus, FsInitTransaction, FsWaitBurst, FsBusErrorState,
              FsSignalDone
<1>3. fsProgramCounter' = fsProgramCounter /\ FsAddress' = FsAddress
  BY <1>2, AddressHeld DEF FsAddress
<1>4. WordsPerLine \in Nat \ {0} /\ FsAddress \in Nat /\ WordOf(fsProgramCounter) \in Nat
  BY FetchAssumption, AddressParts DEF FsAddress, FsInv, FsShape
<1>5. CASE fsBus = "INIT_TRANSACTION"
  <2>1. burst' = [from |-> FsAddress, left |-> WordsPerLine]
    BY <1>1, <1>5 DEF FsMemory, FsBegin
  <2>2. fsDataIn' = NoWord /\ fsBurstCount' = 0
    BY <1>1, <1>5 DEF BurstRegisters, FsInv, FsMachinesMeet
  <2>3. Received' = 0 /\ Written' = 0
    BY <1>4, <2>1, <2>2 DEF Received, Written
  <2> QED BY <1>3, <1>4, <2>1, <2>2, <2>3
<1>6. CASE fsBus = "WAIT_BURST"
  <2>1. ~error /\ ~endIn
    BY <1>1, <1>6 DEF FsBusMachine, FsNop, FsRequestBus, FsInitTransaction, FsWaitBurst,
                      FsBusErrorState, FsSignalDone
  <2>2. /\ Received \in 0 .. WordsPerLine
        /\ \A w \in 0 .. WordsPerLine - 1 : w < Received => Filled'[w] = FsAddress + w
        /\ WordOf(fsProgramCounter) < Received => fsFetched' = fsProgramCounter
        /\ fsBurstCount' = IF Received = WordsPerLine THEN 0 ELSE Received
    BY <1>6, WordStored
  <2>3. fsDataIn' = dataIn
    BY <1>1, <1>6 DEF BurstRegisters
  <2>4. burst.left \in 0 .. WordsPerLine /\ burst.from = FsAddress + Received
    BY <1>6 DEF FsInv, BurstInOrder
  <2>5. CASE dataIn = NoWord
    <3>1. burst' = burst
      BY <1>1, <1>6, <2>1, <2>5 DEF FsMemory, FsBegin, FsEnd
    <3>2. Received' = Received /\ Written' = Received
      BY <2>3, <2>5, <3>1 DEF Received, Written
    <3> QED BY <1>3, <2>2, <2>3, <2>4, <2>5, <3>1, <3>2
  <2>6. CASE dataIn # NoWord
    <3>1. dataIn = burst.from /\ burst.left > 0
      BY <1>1, <1>6, <2>6, InputsTyped DEF Edge
    <3>2. burst' = [from |-> burst.from + 1, left |-> burst.left - 1]
      BY <1>1, <1>6, <2>1, <2>6 DEF FsMemory, FsBegin, FsEnd
    <3>3. Received' = Received + 1 /\ Written' = Received /\ burst'.left \in 0 .. WordsPerLine
      BY <1>4, <2>3, <2>4, <2>6, <3>1, <3>2 DEF Received, Written
    <3>4. Received # WordsPerLine
      BY <1>4, <2>4, <3>1 DEF Received
    <3> QED BY <1>3, <1>4, <2>2, <2>3, <2>4, <3>1, <3>2, <3>3, <3>4
  <2> QED BY <2>5, <2>6
<1> QED BY <1>2, <1>5, <1>6

LEMMA CompleteStep ==
    ASSUME FsInv, NEW dCacheStall, NEW insertNop, NEW granted, NEW endIn, NEW jump, NEW dataIn,
           Edge(dCacheStall, insertNop, granted, endIn, jump, dataIn)
    PROVE  LineComplete'
<1>1. /\ Answer(dataIn, endIn) /\ BurstRegisters(dataIn)
      /\ FsBusMachine(granted, error, endIn) /\ FillMachine
  BY DEF Edge, FsAloneClock, FsClock
<1>2. FsMachinesMeet /\ LineComplete /\ FsShape
  BY DEF FsInv
<1>3. CASE fsBus' = "SIGNAL_DONE" /\ ~fsBusError'
  <2>1. fsBus = "WAIT_BURST" /\ endIn
    BY <1>1, <1>3 DEF FsBusMachine, FsNop, FsRequestBus, FsInitTransaction, FsWaitBurst,
                      FsBusErrorState, FsSignalDone, BurstRegisters
  <2>2. burst.left = 0 /\ WordsPerLine \in Nat \ {0}
    BY <1>1, <2>1, InputsTyped, FetchAssumption DEF Edge
  <2>3. Received = WordsPerLine
    BY <2>2 DEF Received
  <2>4. fsProgramCounter' = fsProgramCounter /\ FsAddress' = FsAddress
    BY <2>1, AddressHeld DEF FsAddress
  <2>5. /\ \A w \in 0 .. WordsPerLine - 1 : w < Received => Filled'[w] = FsAddress + w
        /\ WordOf(fsProgramCounter) < Received => fsFetched' = fsProgramCounter
    BY <2>1, WordStored
  <2>6. WordOf(fsProgramCounter) \in 0 .. WordsPerLine - 1
    BY <1>2, AddressParts DEF FsShape
  <2> QED BY <2>2, <2>3, <2>4, <2>5, <2>6 DEF LineComplete
<1>4. CASE fsState' = "UPDATE_TAG" /\ ~fsBusError' /\ fsBus' # "SIGNAL_DONE"
  <2>1. fsBus = "SIGNAL_DONE" /\ ~fsBusError
    BY <1>1, <1>2, <1>4 DEF FillMachine, AckLine, BurstRegisters, FsShape, FsStates
  <2>2. fsDataIn = NoWord /\ fsProgramCounter' = fsProgramCounter /\ FsAddress' = FsAddress
    BY <1>2, <2>1, AddressHeld DEF FsMachinesMeet, FsAddress
  <2>3. IndexOf(fsProgramCounter) \in Indices
    BY <1>2, AddressParts DEF FsShape
  <2>4. \A w \in 0 .. WordsPerLine - 1 : Filled'[w] = Filled[w]
    BY <2>2, <2>3, LinesWritten DEF Filled
  <2> QED BY <1>2, <1>4, <2>1, <2>2, <2>4 DEF LineComplete
<1> QED BY <1>3, <1>4 DEF LineComplete

LEMMA TagsTruthfulStep ==
    ASSUME FsInv, NEW dCacheStall, NEW insertNop, NEW granted, NEW endIn, NEW jump, NEW dataIn,
           Edge(dCacheStall, insertNop, granted, endIn, jump, dataIn)
    PROVE  TagsTruthful'
<1>1. FillMachine /\ FsHistory
  BY DEF Edge, FsAloneClock, FsClock
<1>2. FsMachinesMeet /\ LineComplete /\ FsShape /\ TagsTruthful
  BY DEF FsInv
<1> SUFFICES ASSUME NEW pc \in Pcs, TagHit(pc)', LineOf(pc) \notin failedLines',
                    \/ IndexOf(pc) # IndexOf(fsProgramCounter')
                    \/ fsState' \in {"IDLE", "LOOKUP"}
             PROVE  fsLines'[IndexOf(pc)][WordOf(pc)] = pc
  BY DEF TagsTruthful
<1> DEFINE i == IndexOf(pc)
           w == WordOf(pc)
           index == IndexOf(fsProgramCounter)
<1>3. /\ i \in Indices /\ w \in 0 .. WordsPerLine - 1 /\ index \in Indices
      /\ pc = LineOf(pc) * WordsPerLine + w
  BY <1>2, AddressParts DEF FsShape
<1>4. fsLines'[i][w] = IF fsDataIn # NoWord /\ i = index /\ w = fsBurstCount
                       THEN fsDataIn ELSE fsLines[i][w]
  BY <1>3, LinesWritten
<1>5. TagsWritten
  BY TagsStep
<1> HIDE DEF i, w, index
<1>6. CASE fsState = "UPDATE_TAG"
  <2>1. fsDataIn = NoWord /\ fsProgramCounter' = fsProgramCounter
    BY <1>2, <1>6, AddressHeld DEF FsMachinesMeet
  <2>2. CASE i = index
    <3>1. TagOf(pc) = TagOf(fsProgramCounter)
      BY <1>2, <1>3, <1>5, <1>6, <2>2 DEF TagsWritten, TagHit, i, index, FsShape
    <3>2. LineOf(pc) = LineOf(fsProgramCounter)
      BY <1>2, <2>2, <3>1, LineKnown DEF i, index, FsShape
    <3>3. ~fsBusError
      BY <1>1, <1>6, <3>2 DEF FsHistory
    <3>4. Filled[w] = FsAddress + w
      BY <1>2, <1>3, <1>6, <3>3 DEF LineComplete
    <3> QED BY <1>3, <1>4, <2>1, <2>2, <3>2, <3>4 DEF Filled, FsAddress, i, index, w
  <2>3. CASE i # index
    <3>1. LineOf(pc) # LineOf(fsProgramCounter)
      BY <1>2, <2>3, LineKnown DEF i, index, FsShape
    <3>2. LineOf(pc) \notin failedLines
      BY <1>1, <1>6, <3>1 DEF FsHistory
    <3>3. TagHit(pc)
      BY <1>2, <1>3, <1>5, <1>6, <2>3 DEF TagsWritten, TagHit, i, index, FsShape
    <3> QED BY <1>2, <1>4, <2>3, <3>2, <3>3 DEF TagsTruthful, i, index, w
  <2> QED BY <2>2, <2>3
<1>7. CASE fsState # "UPDATE_TAG"
  <2>1. TagHit(pc) /\ LineOf(pc) \notin failedLines
    BY <1>1, <1>5, <1>7 DEF TagsWritten, TagHit, FsHistory
  <2>2. CASE fsState \in {"IDLE", "LOOKUP"}
    <3>1. fsDataIn = NoWord
      BY <1>2, <2>2 DEF FsMachinesMeet
    <3> QED BY <1>2, <1>4, <2>1, <2>2, <3>1 DEF TagsTruthful, i, w
  <2>3. CASE fsState \in {"REQUEST_CACHE_LINE", "WAIT_CACHE_LINE"}
    <3>1. fsState' \notin {"IDLE", "LOOKUP"}
      BY <1>1, <2>3 DEF FillMachine
    <3>2. fsProgramCounter' = fsProgramCounter
      BY <1>2, <2>3, AddressHeld DEF FsMachinesMeet
    <3>3. i # index
      BY <3>1, <3>2 DEF i, index
    <3> QED BY <1>2, <1>4, <2>1, <3>3 DEF TagsTruthful, i, index, w
  <2> QED BY <1>2, <1>7, <2>2, <2>3 DEF FsShape, FsStates
<1> QED BY <1>6, <1>7

(* A hit is told of the address looked up in the same clock, and the read   *)
(* port shows the word of that address.                                     *)
LEMMA HitStep ==
    ASSUME FsInv, NEW dCacheStall, NEW insertNop, NEW granted, NEW endIn, NEW jump, NEW dataIn,
           Edge(dCacheStall, insertNop, granted, endIn, jump, dataIn)
    PROVE  HitTruthful'
<1> DEFINE next == NextPc(insertNop, jump # NoJump, jump)
           stalled == dCacheStall \/ fsStall
<1>1. /\ ProgramCounters(stalled, insertNop, next) /\ StallRegister(dCacheStall)
      /\ Cache(stalled, next) /\ Answer(dataIn, endIn)
  BY DEF Edge, FsAloneClock, FsClock
<1>2. FsMachinesMeet /\ FsShape /\ HitTruthful
  BY DEF FsInv
<1>3. next \in Pcs
  BY <1>1, InputsTyped DEF Edge
<1> SUFFICES ASSUME ~fsStall', fsHit'
             PROVE  TagHit(fsPc)' /\ fsRead' = fsLines'[IndexOf(fsPc')][WordOf(fsPc')]
  BY DEF HitTruthful
<1>4. fsPc' \in Pcs
  BY ShapeStep DEF FsShape
<1>5. fsState = "LOOKUP" \/ (fsState = "IDLE" /\ ~fsStall)
  BY <1>1, <1>2 DEF StallRegister, FsMachinesMeet, FsShape, FsStates
<1>6. fsDataIn = NoWord /\ UNCHANGED <<fsValidBits, fsTags>>
  <2>1. fsDataIn = NoWord
    BY <1>2, <1>5 DEF FsMachinesMeet
  <2>2. TagsWritten
    BY TagsStep
  <2> QED BY <1>5, <2>1, <2>2 DEF TagsWritten
<1>7. fsLines' = fsLines
  BY <1>1, <1>6 DEF Cache
<1>8. CASE fsState = "LOOKUP"
  <2>1. fsStall /\ fsPc' = fsPc
    BY <1>2, <1>8, AddressHeld DEF FsMachinesMeet
  <2>2. LookupAddress(next) = fsPc
    BY <1>8, <2>1 DEF LookupAddress
  <2>3. TagHit(fsPc)
    BY <1>1, <1>8, <2>2 DEF Cache, TagHit
  <2>4. ReadAddress(stalled, next) = [index |-> IndexOf(fsPc), word |-> WordOf(fsPc)]
    BY <1>6, <1>8 DEF ReadAddress
  <2>5. fsRead' = fsLines[IndexOf(fsPc)][WordOf(fsPc)]
    BY <1>1, <2>4 DEF Cache
  <2> QED BY <1>6, <1>7, <2>1, <2>3, <2>5 DEF TagHit
<1>9. CASE fsState = "IDLE" /\ ~fsStall /\ dCacheStall
  <2>1. fsPc' = fsPc
    BY <1>1, <1>9 DEF ProgramCounters
  <2>2. fsHit
    BY <1>1, <1>9 DEF Cache
  <2>3. TagHit(fsPc)
    BY <1>2, <1>9, <2>2 DEF HitTruthful
  <2>4. ReadAddress(stalled, next) = [index |-> IndexOf(fsPc), word |-> WordOf(fsPc)]
    BY <1>6, <1>9 DEF ReadAddress
  <2>5. fsRead' = fsLines[IndexOf(fsPc)][WordOf(fsPc)]
    BY <1>1, <2>4 DEF Cache
  <2> QED BY <1>6, <1>7, <2>1, <2>3, <2>5 DEF TagHit
<1>10. CASE fsState = "IDLE" /\ ~fsStall /\ ~dCacheStall
  <2>1. fsPc' = next
    BY <1>1, <1>10 DEF ProgramCounters
  <2>2. LookupAddress(next) = next
    BY <1>10 DEF LookupAddress
  <2>3. TagHit(next)
    BY <1>1, <1>10, <2>2 DEF Cache, TagHit
  <2>4. ReadAddress(stalled, next) = [index |-> IndexOf(next), word |-> WordOf(next)]
    BY <1>6, <1>10 DEF ReadAddress
  <2>5. fsRead' = fsLines[IndexOf(next)][WordOf(next)]
    BY <1>1, <2>4 DEF Cache
  <2> QED BY <1>6, <1>7, <2>1, <2>3, <2>5 DEF TagHit
<1> QED BY <1>5, <1>8, <1>9, <1>10

LEMMA InstructionStep ==
    ASSUME FsInv, NEW dCacheStall, NEW insertNop, NEW granted, NEW endIn, NEW jump, NEW dataIn,
           Edge(dCacheStall, insertNop, granted, endIn, jump, dataIn)
    PROVE  InstructionLoaded'
<1> DEFINE next == NextPc(insertNop, jump # NoJump, jump)
           stalled == dCacheStall \/ fsStall
<1>1. /\ ProgramCounters(stalled, insertNop, next) /\ StallRegister(dCacheStall)
      /\ InstructionRegister(stalled) /\ FillMachine /\ BurstRegisters(dataIn) /\ FsHistory
  BY DEF Edge, FsAloneClock, FsClock
<1>2. /\ FsMachinesMeet /\ FsShape /\ FsFlags /\ HitTruthful /\ TagsTruthful /\ LineComplete
      /\ InstructionLoaded
  BY DEF FsInv
<1>3. fsState' = "UPDATE_TAG" =>
        IF fsBusError' THEN ~fsValidInstruction' ELSE fsInstruction' = fsProgramCounter'
  <2> SUFFICES ASSUME fsState' = "UPDATE_TAG"
               PROVE  IF fsBusError' THEN ~fsValidInstruction'
                      ELSE fsInstruction' = fsProgramCounter'
    OBVIOUS
  <2>1. fsBus = "SIGNAL_DONE" /\ fsState = "WAIT_CACHE_LINE" /\ fsStall /\ ~fsDelayedReset
    BY <1>1, <1>2 DEF FillMachine, AckLine, FsShape, FsStates, FsMachinesMeet
  <2>2. fsProgramCounter' = fsProgramCounter
    BY <2>1, AddressHeld
  <2>3. (fsBusError' <=> fsBusError) /\ (fsValidInstruction' <=> ~fsBusError)
    BY <1>1, <2>1 DEF BurstRegisters, InstructionRegister, AckLine
  <2>4. fsInstruction' = fsFetched
    BY <1>1, <2>1 DEF InstructionRegister, AckLine
  <2>5. ~fsBusError => fsFetched = fsProgramCounter
    BY <1>2, <2>1 DEF LineComplete
  <2> QED BY <2>2, <2>3, <2>4, <2>5
<1>4. fsState' = "LOOKUP" =>
        IF fsBusError' THEN ~fsValidInstruction' ELSE fsInstruction' = fsProgramCounter'
  <2> SUFFICES ASSUME fsState' = "LOOKUP"
               PROVE  IF fsBusError' THEN ~fsValidInstruction'
                      ELSE fsInstruction' = fsProgramCounter'
    OBVIOUS
  <2>1. fsState = "UPDATE_TAG" /\ fsBus = "NOP" /\ fsStall /\ ~fsDelayedReset
    BY <1>1, <1>2 DEF FillMachine, FsShape, FsStates, FsMachinesMeet
  <2>2. fsProgramCounter' = fsProgramCounter
    BY <2>1, AddressHeld
  <2>3. (fsBusError' <=> fsBusError) /\ UNCHANGED <<fsInstruction, fsValidInstruction>>
    BY <1>1, <2>1 DEF BurstRegisters, InstructionRegister, AckLine
  <2> QED BY <1>2, <2>1, <2>2, <2>3 DEF InstructionLoaded
<1>5. ASSUME ~fsStall', ~fsDelayedReset', fsValidInstruction'
      PROVE  \/ fsInstruction' \in {Nop, fsProgramCounter'}
             \/ LineOf(fsProgramCounter') \in failedLines'
  <2>1. fsState = "LOOKUP" \/ (fsState = "IDLE" /\ ~fsStall)
    BY <1>1, <1>2, <1>5 DEF StallRegister, FsMachinesMeet, FsShape, FsStates
  <2>2. failedLines' = failedLines
    BY <1>1, <2>1 DEF FsHistory
  <2>3. fsBus = "NOP"
    BY <1>2, <2>1 DEF FsMachinesMeet
  <2>4. CASE fsState = "LOOKUP"
    <3>1. fsStall /\ ~fsDelayedReset /\ fsProgramCounter' = fsProgramCounter
      BY <1>2, <2>4, AddressHeld DEF FsMachinesMeet
    <3>2. UNCHANGED <<fsInstruction, fsValidInstruction>>
      BY <1>1, <2>3, <3>1 DEF InstructionRegister, AckLine
    <3> QED BY <1>2, <1>5, <2>4, <3>1, <3>2 DEF InstructionLoaded
  <2>5. CASE fsState = "IDLE" /\ ~fsStall /\ dCacheStall
    <3>1. fsProgramCounter' = fsProgramCounter
      BY <1>1, <2>5 DEF ProgramCounters
    <3>2. CASE fsDelayedReset
      BY <1>1, <3>2 DEF InstructionRegister
    <3>3. CASE ~fsDelayedReset
      <4>1. UNCHANGED <<fsInstruction, fsValidInstruction>>
        BY <1>1, <2>3, <2>5, <3>3 DEF InstructionRegister, AckLine
      <4> QED BY <1>2, <1>5, <2>2, <2>5, <3>1, <3>3, <4>1 DEF InstructionLoaded
    <3> QED BY <3>2, <3>3
  <2>6. CASE fsState = "IDLE" /\ ~fsStall /\ ~dCacheStall
    <3>1. fsHit /\ fsProgramCounter' = fsPc
      BY <1>1, <1>5, <2>6 DEF StallRegister, ProgramCounters
    <3>2. fsInstruction' \in {Nop, fsRead}
      BY <1>1, <2>3, <2>6 DEF InstructionRegister, AckLine
    <3>3. TagHit(fsPc) /\ fsRead = fsLines[IndexOf(fsPc)][WordOf(fsPc)]
      BY <1>2, <2>6, <3>1 DEF HitTruthful
    <3>4. LineOf(fsPc) \notin failedLines => fsRead = fsPc
      BY <1>2, <2>6, <3>3 DEF TagsTruthful, FsShape
    <3> QED BY <2>2, <3>1, <3>2, <3>4
  <2> QED BY <2>1, <2>4, <2>5, <2>6
<1> QED BY <1>3, <1>4, <1>5 DEF InstructionLoaded

-----------------------------------------------------------------------------
(* The theorems about the fetch stage.                                     *)

LEMMA FsInitial == FsAloneInit => FsInv
<1> SUFFICES ASSUME FsAloneInit PROVE FsInv
  OBVIOUS
<1>1. FsInit /\ burst = NoBurst /\ error = FALSE
  BY DEF FsAloneInit
<1>2. FsShape
  <2>1. ResetVector \in Pcs /\ 0 \in 0 .. WordsPerLine - 1 /\ Junk \in FsWords
    BY FetchAssumption DEF Pcs, FsWords
  <2>2. fsLines \in [Indices -> [0 .. WordsPerLine - 1 -> FsWords]]
    BY <1>1, <2>1 DEF FsInit
  <2> QED BY <1>1, <2>1, <2>2 DEF FsInit, FsShape, FsStates, FsBusStates
<1>3. FsFlags /\ FsMachinesMeet /\ BurstInOrder /\ LineComplete /\ HitTruthful
  BY <1>1 DEF FsInit, FsFlags, FsMachinesMeet, BurstInOrder, LineComplete, HitTruthful
<1>4. TagsTruthful /\ InstructionLoaded
  BY <1>1 DEF FsInit, TagsTruthful, TagHit, InstructionLoaded
<1> QED BY <1>2, <1>3, <1>4 DEF FsInv

(* The invariant of the fetch stage: the line being filled is ahead of the  *)
(* read port by no word, tags and lines agree, and the instruction register *)
(* holds what was asked for (fetchStage.v), for any cache and memory.       *)
THEOREM FetchInvariant == FsAloneSpec => []FsInv
<1>1. FsInv /\ [FsAloneNext]_fsAloneVars => FsInv'
  <2> SUFFICES ASSUME FsInv, [FsAloneNext]_fsAloneVars PROVE FsInv'
    OBVIOUS
  <2>1. CASE UNCHANGED fsAloneVars
    BY <2>1 DEF fsAloneVars, fsVars, cacheVars, fillVars, FsInv, FsShape, FsFlags, FsMachinesMeet,
         BurstInOrder, LineComplete, TagsTruthful, HitTruthful, InstructionLoaded, Filled,
         Received, Written, TagHit, FsAddress
  <2>2. CASE FsAloneNext
    <3>1. PICK dCacheStall \in BOOLEAN, insertNop \in BOOLEAN, granted \in BOOLEAN,
               endIn \in BOOLEAN, jump \in JumpTargets \cup {NoJump},
               dataIn \in {burst.from, NoWord} :
            FsAloneClock(dCacheStall, insertNop, jump, granted, dataIn, endIn)
      BY <2>2 DEF FsAloneNext
    <3>2. Edge(dCacheStall, insertNop, granted, endIn, jump, dataIn)
      BY <3>1 DEF Edge
    <3>3. FsShape' /\ FsFlags' /\ FsMachinesMeet'
      BY <3>2, ShapeStep, MachinesStep
    <3>4. BurstInOrder' /\ LineComplete'
      BY <3>2, BurstStep, CompleteStep
    <3>5. TagsTruthful' /\ HitTruthful' /\ InstructionLoaded'
      BY <3>2, TagsTruthfulStep, HitStep, InstructionStep
    <3> QED BY <3>3, <3>4, <3>5 DEF FsInv
  <2> QED BY <2>1, <2>2
<1> QED BY <1>1, FsInitial, PTL DEF FsAloneSpec

(* What the fetch stage hands to the decode stage is the word at its        *)
(* program counter or invalid, over misses, refills, jumps, stalls and bus  *)
(* errors at any moment.                                                    *)
THEOREM FetchIsTruthful == FsAloneSpec => []FetchTruthful
<1>1. FsInv => InstructionCorrect
  BY DEF FsInv, InstructionLoaded, InstructionCorrect, FsStallOut
<1>2. FsInv => FailedFetchInvalid
  BY DEF FsInv, InstructionLoaded, FailedFetchInvalid
<1> QED BY <1>1, <1>2, FetchInvariant, PTL DEF FetchTruthful

(* A valid line that is not being filled holds the words of its tag.        *)
THEOREM LinesTrue == FsAloneSpec => []LinesMatchTags
<1>1. FsInv => LinesMatchTags
  BY DEF FsInv, TagsTruthful, TagHit, LinesMatchTags
<1> QED BY <1>1, FetchInvariant, PTL

(* Every register of the fetch stage keeps its type.                        *)
THEOREM FetchTypes == FsAloneSpec => []FsTypeOK
<1>1. FsInv => FsTypeOK
  <2> SUFFICES ASSUME FsInv PROVE FsTypeOK
    OBVIOUS
  <2>1. FsShape /\ FsFlags
    BY DEF FsInv
  <2>2. {fsStall, fsDelayedReset, fsInsertNop, fsHit, fsBusError, fsValidInstruction}
           \subseteq BOOLEAN
    BY <2>1, Zenon DEF FsFlags
  <2>3. \A i \in Indices : \A w \in 0 .. WordsPerLine - 1 : fsLines[i][w] \in FsWords
    BY <2>1 DEF FsShape
  <2> QED BY <2>1, <2>2, <2>3 DEF FsShape, FsTypeOK
<1> QED BY <1>1, FetchInvariant, PTL

-----------------------------------------------------------------------------
(* The arbiter, for any number of request lines.                           *)

\* A grant is only given out of IDLE, which ends every transaction.
NoGrantInTransaction == state = "GRANT" => ~activeTransaction

(* Walking on from the remove pointer goes around the memory at most once.  *)
LEMMA AroundOnce ==
    ASSUME NEW p \in Slots, NEW i \in 1 .. N
    PROVE  (p + i - 1) % N = IF p + i - 1 < N THEN p + i - 1 ELSE p + i - 1 - N
<1> SUFFICES ASSUME NEW x \in Int, x = p + i - 1
             PROVE  x % N = IF x < N THEN x ELSE x - N
  BY NAssumption DEF Slots
<1> DEFINE q == x \div N
           r == x % N
<1>1. x \in Nat /\ x < 2 * N /\ N \in Nat \ {0}
  BY NAssumption DEF Slots
<1>2. q \in Nat /\ r \in 0 .. N - 1 /\ x = q * N + r
  <2>1. q \in Nat /\ r \in 0 .. N - 1
    BY <1>1
  <2>2. PICK a \in Nat : a = q
    BY <2>1
  <2>3. PICK b \in 0 .. N - 1 : b = r
    BY <2>1
  <2>4. x = a * N + b
    BY <1>1, <2>2, <2>3, Z3
  <2> QED BY <2>1, <2>2, <2>3, <2>4
<1> HIDE DEF q, r
<1>3. q = 0 \/ q = 1
  <2> SUFFICES ASSUME q >= 2 PROVE FALSE
    BY <1>2
  <2>1. q * N >= 2 * N
    BY <1>1, <1>2
  <2>2. q * N \in Int
    BY <1>1, <1>2
  <2> QED BY <1>1, <1>2, <2>1, <2>2
<1>4. r = IF x < N THEN x ELSE x - N
  <2>1. CASE q = 0
    BY <1>1, <1>2, <2>1
  <2>2. CASE q = 1
    <3>1. q * N = N
      BY <1>1, <2>2
    <3> QED BY <1>1, <1>2, <3>1
  <2> QED BY <1>3, <2>1, <2>2
<1> QED BY <1>4 DEF r

(* The queue has as many places as entries between the pointers, and each   *)
(* of them is one place of the queue.                                       *)
LEMMA QueuePlaces ==
    ASSUME TypeOK
    PROVE  /\ QueueLength \in 0 .. N
           /\ QueueLength = 0 <=> queuedRequests = {} /\ removePointer = insertPointer
           /\ \A i \in 1 .. QueueLength : (removePointer + i - 1) % N \in Occupied
           /\ \A s \in Occupied : \E i \in 1 .. QueueLength : s = (removePointer + i - 1) % N
<1>1. removePointer \in 0 .. N - 1 /\ insertPointer \in 0 .. N - 1 /\ N \in Nat \ {0}
  BY NAssumption DEF TypeOK, Slots
<1>2. QueueLength \in 0 .. N
  BY <1>1 DEF QueueLength
<1>3. QueueLength = 0 <=> queuedRequests = {} /\ removePointer = insertPointer
  BY <1>1 DEF QueueLength
<1>4. ASSUME NEW i \in 1 .. QueueLength PROVE (removePointer + i - 1) % N \in Occupied
  <2>1. i \in 1 .. N
    BY <1>1, <1>2
  <2>2. (removePointer + i - 1) % N = IF removePointer + i - 1 < N THEN removePointer + i - 1
                                      ELSE removePointer + i - 1 - N
    BY <2>1, AroundOnce, <1>1 DEF Slots
  <2>3. (IF removePointer + i - 1 < N THEN removePointer + i - 1 ELSE removePointer + i - 1 - N)
           \in Occupied
    BY <1>1, <2>1 DEF Occupied, QueueLength, Slots
  <2> QED BY <2>2, <2>3
<1>5. ASSUME NEW s \in Occupied
      PROVE  \E i \in 1 .. QueueLength : s = (removePointer + i - 1) % N
  <2> DEFINE i == IF s >= removePointer THEN s - removePointer + 1 ELSE s - removePointer + N + 1
  <2>1. i \in 1 .. QueueLength /\ s \in 0 .. N - 1
    BY <1>1 DEF Occupied, QueueLength, Slots
  <2>2. s = IF removePointer + i - 1 < N THEN removePointer + i - 1 ELSE removePointer + i - 1 - N
    BY <1>1, <2>1
  <2>3. i \in 1 .. N
    BY <1>1, <1>2, <2>1
  <2> HIDE DEF i
  <2> QED BY <2>1, <2>2, <2>3, AroundOnce, <1>1 DEF Slots
<1> QED BY <1>2, <1>3, <1>4, <1>5

\* The queue is the sequence of the queued requests that the memory shows.
QueueFacts ==
    /\ QueueContent \in Seq(Masters) /\ Len(QueueContent) = QueueLength
    /\ QueueLength \in 0 .. N
    /\ QueueLength = 0 <=> queuedRequests = {}
    /\ \A i \in 1 .. QueueLength :
          /\ QueueContent[i] \in queuedRequests
          /\ memory[(removePointer + i - 1) % N] = {QueueContent[i]}

LEMMA QueueShape == TypeOK /\ QueueConsistent => QueueFacts
<1> SUFFICES ASSUME TypeOK, QueueConsistent PROVE QueueFacts
  OBVIOUS
<1>1. QueueLength \in 0 .. N /\ N \in Nat \ {0}
  BY QueuePlaces, NAssumption
<1>2. ASSUME NEW i \in 1 .. QueueLength
      PROVE  /\ QueueContent[i] \in queuedRequests
             /\ memory[(removePointer + i - 1) % N] = {QueueContent[i]}
  <2> DEFINE s == (removePointer + i - 1) % N
  <2>1. s \in Occupied
    BY QueuePlaces
  <2>2. QueueContent[i] = CHOOSE m \in queuedRequests : memory[s] = {m}
    BY DEF QueueContent
  <2> HIDE DEF s
  <2>3. \E m \in queuedRequests : memory[s] = {m}
    BY <2>1 DEF QueueConsistent
  <2>4. QueueContent[i] \in queuedRequests /\ memory[s] = {QueueContent[i]}
    BY <2>2, <2>3
  <2> QED BY <2>4 DEF s
<1>3. QueueContent \in [1 .. QueueLength -> Masters]
  BY <1>2 DEF QueueContent, TypeOK
<1>4. QueueContent \in Seq(Masters) /\ Len(QueueContent) = QueueLength
  BY <1>1, <1>3
<1>5. QueueLength = 0 <=> queuedRequests = {}
  <2>1. QueueLength = 0 => queuedRequests = {}
    BY QueuePlaces
  <2>2. queuedRequests = {} => QueueLength = 0
    <3> SUFFICES ASSUME queuedRequests = {}, QueueLength # 0 PROVE FALSE
      OBVIOUS
    <3>1. 1 \in 1 .. QueueLength
      BY <1>1
    <3> QED BY <1>2, <3>1
  <2> QED BY <2>1, <2>2
<1> QED BY <1>1, <1>2, <1>4, <1>5 DEF QueueFacts

(* The head of a queue that is not empty is at the remove pointer.          *)
LEMMA HeadShown ==
    ASSUME TypeOK, QueueConsistent, queuedRequests # {}
    PROVE  QueueContent # <<>> /\ memory[removePointer] = {Head(QueueContent)}
<1>1. QueueFacts /\ QueueLength \in 1 .. N
  BY QueueShape, NAssumption DEF QueueFacts
<1>2. (removePointer + 1 - 1) % N = removePointer
  BY AroundOnce, NAssumption DEF TypeOK, Slots
<1>3. memory[removePointer] = {QueueContent[1]}
  BY <1>1, <1>2 DEF QueueFacts
<1>4. QueueContent # <<>> /\ Head(QueueContent) = QueueContent[1]
  <2> DEFINE q == QueueContent
  <2>1. q \in Seq(Masters) /\ Len(q) >= 1 /\ Len(q) \in Nat
    BY <1>1 DEF QueueFacts
  <2> HIDE DEF q
  <2>2. q # <<>> /\ Head(q) = q[1]
    BY <2>1
  <2> QED BY <2>2 DEF q
<1> QED BY <1>3, <1>4

(* An edge that removes nothing leaves the queue or appends a request that  *)
(* is not in it.                                                            *)
LEMMA KeepsAccepts ==
    ASSUME TypeOK, QueueConsistent, NEW requests \in SUBSET Masters, QueueKeeps(requests),
           TypeOK'
    PROVE  /\ Abstract!Accept(QueueContent)
           /\ queuedRequests # {} => memory'[removePointer'] = memory[removePointer]
<1> DEFINE O == Outstanding(requests)
<1>1. QueueConsistent' /\ removePointer' = removePointer
  BY KeepConsistent
<1>2. QueueFacts /\ QueueFacts'
  <2>1. QueueFacts
    BY QueueShape
  <2>2. TypeOK' /\ QueueConsistent' => QueueFacts'
    BY QueueShape, PTL
  <2> QED BY <1>1, <2>1, <2>2
<1>3. queuedRequests # {} => memory'[removePointer'] = memory[removePointer]
  BY KeepConsistent
<1>4. CASE O = {}
  <2>1. ToBeQueued(O) = {}
    BY <1>4 DEF ToBeQueued
  <2>2. UNCHANGED <<memory, queuedRequests, insertPointer, removePointer>>
    BY <1>4, <2>1 DEF QueueKeeps, Enqueue, WriteEntry
  <2>3. QueueContent' = QueueContent
    BY <2>2 DEF QueueContent, QueueLength
  <2> QED BY <1>3, <2>3 DEF Abstract!Accept
<1>5. CASE O # {}
  <2>1. PICK m \in O : ToBeQueued(O) = {m}
    BY <1>5, EncoderSelectsOne DEF Outstanding
  <2>2. m \in Masters /\ m \notin queuedRequests
    BY DEF Outstanding
  <2>3. /\ memory' = [memory EXCEPT ![insertPointer] = {m}]
        /\ queuedRequests' = queuedRequests \cup {m}
        /\ insertPointer' = Increment(insertPointer)
    BY <1>5, <2>1 DEF QueueKeeps, Enqueue, WriteEntry
  <2>4. /\ insertPointer \in Slots /\ removePointer \in Slots
        /\ memory \in [Slots -> SUBSET Masters] /\ N \in Nat \ {0}
    BY NAssumption DEF TypeOK
  <2>5. removePointer = insertPointer => queuedRequests = {}
    <3> SUFFICES ASSUME removePointer = insertPointer, queuedRequests # {} PROVE FALSE
      OBVIOUS
    <3>1. Occupied = Slots
      BY DEF Occupied
    <3> QED BY <2>2, <3>1, FullQueue
  <2>6. insertPointer \notin Occupied
    BY <2>4, <2>5 DEF Occupied, Slots
  <2>7. QueueLength' = QueueLength + 1 /\ QueueLength \in 0 .. N - 1
    BY <1>1, <2>3, <2>4, <2>5 DEF QueueLength, Increment, Slots
  <2>8. (removePointer + (QueueLength + 1) - 1) % N = insertPointer
    <3>1. QueueLength + 1 \in 1 .. N
      BY <2>4, <2>7
    <3>2. insertPointer = IF removePointer + (QueueLength + 1) - 1 < N
                          THEN removePointer + (QueueLength + 1) - 1
                          ELSE removePointer + (QueueLength + 1) - 1 - N
      BY <2>4, <2>5 DEF QueueLength, Slots
    <3> QED BY <2>4, <3>1, <3>2, AroundOnce
  <2>9. /\ QueueContent \in Seq(Masters) /\ Len(QueueContent) = QueueLength
        /\ QueueContent' \in Seq(Masters) /\ Len(QueueContent') = QueueLength'
    BY <1>2 DEF QueueFacts
  <2>10. QueueContent'[QueueLength + 1] = m
    <3>1. memory'[(removePointer' + (QueueLength + 1) - 1) % N] = {m}
      BY <1>1, <2>3, <2>4, <2>8
    <3>2. QueueLength + 1 \in 1 .. QueueLength'
      BY <2>7
    <3>3. memory'[(removePointer' + (QueueLength + 1) - 1) % N] = {QueueContent'[QueueLength + 1]}
      BY <1>2, <3>2 DEF QueueFacts
    <3> QED BY <3>1, <3>3
  <2>11. ASSUME NEW i \in 1 .. QueueLength PROVE QueueContent'[i] = QueueContent[i]
    <3> DEFINE s == (removePointer + i - 1) % N
    <3>1. s \in Occupied /\ memory[s] = {QueueContent[i]}
      BY QueuePlaces, <1>2 DEF QueueFacts
    <3>2. memory'[s] = memory[s]
      <4> HIDE DEF s
      <4> QED BY <2>3, <2>4, <2>6, <3>1
    <3>3. i \in 1 .. QueueLength'
      BY <2>7
    <3>4. memory'[(removePointer' + i - 1) % N] = {QueueContent'[i]}
      BY <1>2, <3>3 DEF QueueFacts
    <3> QED BY <1>1, <3>1, <3>2, <3>4
  <2>12. QueueContent' = Append(QueueContent, m)
    <3> DEFINE q == QueueContent
               r == QueueContent'
    <3>1. /\ q \in Seq(Masters) /\ r \in Seq(Masters) /\ Len(r) = Len(q) + 1
          /\ r[Len(q) + 1] = m /\ \A i \in 1 .. Len(q) : r[i] = q[i]
      BY <2>7, <2>9, <2>10, <2>11
    <3> HIDE DEF q, r
    <3>2. /\ Append(q, m) \in Seq(Masters) /\ Len(Append(q, m)) = Len(q) + 1
          /\ \A i \in 1 .. Len(q) : Append(q, m)[i] = q[i]
          /\ Append(q, m)[Len(q) + 1] = m /\ Len(q) \in Nat
      BY <2>2, <3>1
    <3>3. \A i \in 1 .. Len(r) : r[i] = Append(q, m)[i]
      BY <3>1, <3>2
    <3>4. r = Append(q, m)
      BY <3>1, <3>2, <3>3, SeqEqual
    <3> QED BY <3>4 DEF q, r
  <2>13. m \in Masters \ Abstract!Waiting
    BY <1>2, <2>2, <2>9 DEF QueueFacts, Abstract!Waiting
  <2> QED BY <1>3, <2>12, <2>13 DEF Abstract!Accept
<1> QED BY <1>4, <1>5

(* An edge in REMOVE takes the head off the queue, and may append a request *)
(* that is not in it.                                                       *)
LEMMA RemovesAccepts ==
    ASSUME TypeOK, QueueConsistent, NEW requests \in SUBSET Masters, QueueRemoves(requests),
           queuedRequests # {}, grantMask = memory[removePointer], TypeOK'
    PROVE  Abstract!Accept(Tail(QueueContent))
<1> DEFINE O == Outstanding(requests)
           L == QueueLength
           T == Tail(QueueContent)
<1>1. QueueFacts /\ QueueFacts'
  <2>1. QueueFacts
    BY QueueShape
  <2>2. QueueConsistent'
    BY RemoveConsistent
  <2>3. TypeOK' /\ QueueConsistent' => QueueFacts'
    BY QueueShape, PTL
  <2> QED BY <2>1, <2>2, <2>3
<1>2. /\ insertPointer \in Slots /\ removePointer \in Slots
      /\ memory \in [Slots -> SUBSET Masters] /\ N \in Nat \ {0}
      /\ removePointer' = Increment(removePointer)
  BY NAssumption DEF TypeOK, QueueRemoves
<1>3. L \in 1 .. N
  BY <1>1, <1>2 DEF QueueFacts
<1>4. PICK h \in queuedRequests : memory[removePointer] = {h}
  <2>1. removePointer \in Occupied
    BY <1>2 DEF Occupied, Slots
  <2> QED BY <2>1 DEF QueueConsistent
<1>5. /\ T \in Seq(Masters) /\ Len(T) = L - 1
      /\ \A i \in 1 .. L - 1 : T[i] = QueueContent[i + 1]
  <2> DEFINE q == QueueContent
  <2>1. q \in Seq(Masters) /\ Len(q) = L /\ q # <<>>
    BY <1>1, <1>3 DEF QueueFacts
  <2> HIDE DEF q
  <2>2. /\ Tail(q) \in Seq(Masters) /\ Len(Tail(q)) = L - 1
        /\ \A i \in 1 .. Len(Tail(q)) : Tail(q)[i] = q[i + 1]
    BY <2>1, HeadTailProperties
  <2> QED BY <2>2 DEF q
<1>6. ASSUME NEW i \in 1 .. N - 1
      PROVE  (removePointer' + i - 1) % N = (removePointer + (i + 1) - 1) % N
  <2>1. i \in 1 .. N /\ i + 1 \in 1 .. N /\ removePointer' \in Slots
    BY <1>2 DEF TypeOK
  <2>2. (removePointer' + i - 1) % N =
           IF removePointer' + i - 1 < N THEN removePointer' + i - 1 ELSE removePointer' + i - 1 - N
    BY <2>1, AroundOnce
  <2>3. (removePointer + (i + 1) - 1) % N =
           IF removePointer + (i + 1) - 1 < N THEN removePointer + (i + 1) - 1
           ELSE removePointer + (i + 1) - 1 - N
    BY <1>2, <2>1, AroundOnce
  <2>4. (IF removePointer' + i - 1 < N THEN removePointer' + i - 1 ELSE removePointer' + i - 1 - N)
        = (IF removePointer + (i + 1) - 1 < N THEN removePointer + (i + 1) - 1
           ELSE removePointer + (i + 1) - 1 - N)
    BY <1>2, <2>1 DEF Increment, Slots
  <2> QED BY <2>2, <2>3, <2>4
<1>7. ASSUME NEW i \in 1 .. L - 1
      PROVE  LET s == (removePointer' + i - 1) % N IN s \in Occupied /\ memory[s] = {T[i]}
  <2>1. i \in 1 .. N - 1 /\ i + 1 \in 1 .. L
    BY <1>2, <1>3
  <2>2. LET s == (removePointer + (i + 1) - 1) % N IN
            s \in Occupied /\ memory[s] = {QueueContent[i + 1]}
    BY <1>1, <2>1, QueuePlaces DEF QueueFacts
  <2> QED BY <1>5, <1>6, <2>1, <2>2
<1>8. CASE O = {}
  <2>1. ToBeQueued(O) = {}
    BY <1>8 DEF ToBeQueued
  <2>2. /\ UNCHANGED <<memory, insertPointer>>
        /\ queuedRequests' = queuedRequests \ {h}
    BY <1>4, <1>8, <2>1 DEF QueueRemoves, Enqueue, WriteEntry
  <2>3. L = 1 => queuedRequests' = {}
    <3> SUFFICES ASSUME L = 1, NEW k \in queuedRequests PROVE k = h
      BY <2>2
    <3>1. PICK s \in Occupied : memory[s] = {k}
      BY DEF QueueConsistent
    <3>2. PICK i \in 1 .. L : s = (removePointer + i - 1) % N
      BY QueuePlaces
    <3>3. s = removePointer
      <4>1. i = 1 /\ 1 \in 1 .. N
        BY <1>2, <3>2
      <4>2. (removePointer + i - 1) % N = removePointer
        BY <1>2, <4>1, AroundOnce DEF Slots
      <4> QED BY <3>2, <4>2
    <3> QED BY <1>4, <3>1, <3>3
  <2>4. QueueLength' = L - 1
    BY <1>2, <2>2, <2>3 DEF QueueLength, Increment, Slots
  <2>5. ASSUME NEW i \in 1 .. L - 1 PROVE QueueContent'[i] = T[i]
    <3>1. memory'[(removePointer' + i - 1) % N] = {QueueContent'[i]}
      BY <1>1, <2>4 DEF QueueFacts
    <3> QED BY <1>7, <2>2, <3>1
  <2>6. QueueContent' = T
    <3> DEFINE r == QueueContent'
    <3>1. r \in Seq(Masters) /\ Len(r) = L - 1 /\ \A i \in 1 .. L - 1 : r[i] = T[i]
      BY <1>1, <2>4, <2>5 DEF QueueFacts
    <3> HIDE DEF r, T, L
    <3>2. r = T
      BY <1>5, <3>1, SeqEqual
    <3> QED BY <3>2 DEF r
  <2> QED BY <2>6 DEF Abstract!Accept
<1>9. CASE O # {}
  <2>1. PICK m \in O : ToBeQueued(O) = {m}
    BY <1>9, EncoderSelectsOne DEF Outstanding
  <2>2. m \in Masters /\ m \notin queuedRequests
    BY DEF Outstanding
  <2>3. /\ memory' = [memory EXCEPT ![insertPointer] = {m}]
        /\ queuedRequests' = (queuedRequests \ {h}) \cup {m}
        /\ insertPointer' = Increment(insertPointer)
    BY <1>4, <1>9, <2>1, <2>2 DEF QueueRemoves, Enqueue, WriteEntry
  <2>4. removePointer # insertPointer
    <3> SUFFICES ASSUME removePointer = insertPointer PROVE FALSE
      OBVIOUS
    <3>1. Occupied = Slots
      BY DEF Occupied
    <3> QED BY <2>2, <3>1, FullQueue
  <2>5. insertPointer \notin Occupied
    BY <1>2, <2>4 DEF Occupied, Slots
  <2>6. QueueLength' = L /\ L \in 1 .. N - 1
    BY <1>2, <2>4, <2>3 DEF QueueLength, Increment, Slots
  <2>7. (removePointer' + L - 1) % N = insertPointer
    <3>1. L + 1 \in 1 .. N
      BY <1>2, <2>6
    <3>2. insertPointer = IF removePointer + (L + 1) - 1 < N THEN removePointer + (L + 1) - 1
                          ELSE removePointer + (L + 1) - 1 - N
      BY <1>2, <2>4 DEF QueueLength, Slots
    <3>3. (removePointer + (L + 1) - 1) % N = insertPointer
      BY <1>2, <3>1, <3>2, AroundOnce
    <3> QED BY <1>6, <2>6, <3>3
  <2>8. QueueContent'[L] = m
    <3>1. memory'[(removePointer' + L - 1) % N] = {m}
      BY <1>2, <2>3, <2>7
    <3>2. memory'[(removePointer' + L - 1) % N] = {QueueContent'[L]}
      BY <1>1, <2>6 DEF QueueFacts
    <3> QED BY <3>1, <3>2
  <2>9. ASSUME NEW i \in 1 .. L - 1 PROVE QueueContent'[i] = T[i]
    <3> DEFINE s == (removePointer' + i - 1) % N
    <3>1. s \in Occupied /\ memory[s] = {T[i]}
      BY <1>7
    <3>2. i \in 1 .. QueueLength'
      BY <2>6
    <3>3. memory'[s] = {QueueContent'[i]}
      BY <1>1, <3>2 DEF QueueFacts
    <3> HIDE DEF s, T, L
    <3>4. memory'[s] = memory[s]
      <4>1. s \in Slots /\ s # insertPointer
        BY <1>2, <2>5, <3>1 DEF Occupied
      <4> QED BY <1>2, <2>3, <4>1
    <3> QED BY <3>1, <3>3, <3>4
  <2>10. QueueContent' = Append(T, m)
    <3> DEFINE r == QueueContent'
    <3>1. /\ r \in Seq(Masters) /\ Len(r) = L /\ r[L] = m /\ L \in Nat
          /\ \A i \in 1 .. L - 1 : r[i] = T[i]
      BY <1>1, <2>6, <2>8, <2>9 DEF QueueFacts
    <3> HIDE DEF r, T, L
    <3>2. /\ Append(T, m) \in Seq(Masters) /\ Len(Append(T, m)) = L
          /\ \A i \in 1 .. L - 1 : Append(T, m)[i] = T[i]
          /\ Append(T, m)[L] = m
      BY <1>3, <1>5, <2>2
    <3>3. \A i \in 1 .. Len(r) : r[i] = Append(T, m)[i]
      BY <3>1, <3>2
    <3>4. r = Append(T, m)
      BY <3>1, <3>2, <3>3, SeqEqual
    <3> QED BY <3>4 DEF r
  <2>11. m \in Masters \ Abstract!Waiting
    BY <1>1, <2>2 DEF QueueFacts, Abstract!Waiting
  <2> QED BY <2>10, <2>11 DEF Abstract!Accept
<1> QED BY <1>8, <1>9

\* The master that has the bus, as FifoArbiter sees it.
Holder == IF Tenured THEN memory[removePointer] ELSE {}

\* What the refinement needs: the queue in order, and no grant in a transaction.
FifoInv == IInv /\ NoGrantInTransaction

LEMMA FifoInvariance == Spec => []FifoInv
<1>1. Init => NoGrantInTransaction
  BY DEF Init, NoGrantInTransaction
<1>2. IInv /\ NoGrantInTransaction /\ [Next]_vars => NoGrantInTransaction'
  <2> SUFFICES ASSUME NoGrantInTransaction, [Next]_vars PROVE NoGrantInTransaction'
    OBVIOUS
  <2>1. CASE UNCHANGED vars
    BY <2>1 DEF vars, NoGrantInTransaction
  <2>2. CASE Next
    BY <2>2 DEF Next, Clock, Idle, Grant, WaitBegin, Servicing, InitBusError, BusError,
                EndTransaction, Remove, Reset, NoGrantInTransaction
  <2> QED BY <2>1, <2>2
<1> QED BY <1>1, <1>2, Invariance, PTL DEF Spec, FifoInv

(* An edge that removes nothing, seen from outside, by who has the bus      *)
(* before and after it.                                                     *)
LEMMA KeepsSeen ==
    ASSUME FifoInv, IInv', NEW requests \in SUBSET Masters, QueueKeeps(requests),
           \/ Tenured <=> Tenured'
           \/ Tenured /\ ~Tenured',
           busGrants' = {}
    PROVE  Abstract!Stay \/ Abstract!Abort
<1>1. /\ Abstract!Accept(QueueContent)
      /\ queuedRequests # {} => memory'[removePointer'] = memory[removePointer]
  BY KeepsAccepts DEF FifoInv, IInv
<1>2. Tenured => queuedRequests # {} /\ memory[removePointer] # {}
  <2>1. Tenured => queuedRequests # {}
    BY DEF FifoInv, IInv, ServesHead
  <2>2. queuedRequests # {} => removePointer \in Occupied
    BY NAssumption DEF FifoInv, IInv, TypeOK, Occupied, Slots
  <2> QED BY <2>1, <2>2 DEF FifoInv, IInv, QueueConsistent
<1>3. CASE Tenured <=> Tenured'
  <2>1. Holder' = Holder
    BY <1>1, <1>2, <1>3 DEF Holder
  <2> QED BY <1>1, <2>1 DEF Abstract!Stay, Holder
<1>4. CASE Tenured /\ ~Tenured'
  <2>1. Holder # {} /\ Holder' = {}
    BY <1>2, <1>4 DEF Holder
  <2> QED BY <1>1, <2>1 DEF Abstract!Abort, Holder
<1> QED BY <1>3, <1>4

(* A clock edge of the arbiter is a step of the queue.                      *)
LEMMA FifoStep ==
    ASSUME FifoInv, FifoInv', Next
    PROVE  Abstract!FifoNext
<1> USE DEF Abstract!FifoNext
<1>1. TypeOK /\ QueueConsistent /\ ServesHead /\ NoGrantInTransaction /\ IInv' /\ TypeOK'
  BY DEF FifoInv, IInv
<1>2. ASSUME NEW requests \in SUBSET Masters, NEW begin \in BOOLEAN, NEW end \in BOOLEAN,
             NEW dataValid \in BOOLEAN, Clock(requests, begin, end, dataValid)
      PROVE  Abstract!FifoNext
  <2> USE DEF NoGrant
  <2>1. CASE Idle(requests, begin, end)
    <3>1. ~Tenured /\ ~Tenured'
      BY <2>1 DEF Idle, Tenured
    <3> QED BY <1>1, <2>1, <3>1, KeepsSeen DEF Idle
  <2>2. CASE Grant(requests, begin, end)
    <3>1. ~Tenured /\ ~activeTransaction
      BY <1>1, <2>2 DEF Grant, Tenured, NoGrantInTransaction
    <3>2. CASE begin
      <4>1. ~Tenured'
        BY <2>2, <3>1, <3>2 DEF Grant, Tenured
      <4> QED BY <1>1, <2>2, <3>1, <3>2, <4>1, KeepsSeen DEF Grant
    <3>3. CASE ~begin
      <4>1. Tenured' /\ busGrants' = grantMask
        BY <2>2, <3>3 DEF Grant, Tenured
      <4>2. /\ Abstract!Accept(QueueContent)
            /\ queuedRequests # {} => memory'[removePointer'] = memory[removePointer]
        BY <1>1, <2>2, KeepsAccepts DEF Grant
      <4>3. queuedRequests # {} /\ grantMask = memory[removePointer]
        BY <1>1, <2>2 DEF Grant, ServesHead
      <4>4. QueueContent # <<>> /\ memory[removePointer] = {Head(QueueContent)}
        BY <1>1, <4>3, HeadShown
      <4>5. Holder = {} /\ Holder' = {Head(QueueContent)}
        BY <3>1, <4>1, <4>2, <4>3, <4>4 DEF Holder
      <4> QED BY <4>1, <4>2, <4>3, <4>4, <4>5 DEF Abstract!Give, Holder
    <3> QED BY <3>2, <3>3
  <2>3. CASE WaitBegin(requests, begin, end)
    <3>1. Tenured /\ Tenured'
      BY <2>3 DEF WaitBegin, Tenured
    <3> QED BY <1>1, <2>3, <3>1, KeepsSeen DEF WaitBegin
  <2>4. CASE Servicing(requests, begin, end, dataValid)
    <3>1. Tenured
      BY <2>4 DEF Servicing, Tenured
    <3> QED BY <1>1, <2>4, <3>1, KeepsSeen DEF Servicing
  <2>5. CASE InitBusError(requests, end)
    <3>1. Tenured' => Tenured
      BY <2>5 DEF InitBusError, Tenured
    <3> QED BY <1>1, <2>5, <3>1, KeepsSeen DEF InitBusError
  <2>6. CASE BusError(requests, end)
    <3>1. Tenured' => Tenured
      BY <2>6 DEF BusError, Tenured
    <3> QED BY <1>1, <2>6, <3>1, KeepsSeen DEF BusError
  <2>7. CASE EndTransaction(requests, end)
    <3>1. ~Tenured /\ ~Tenured'
      BY <2>7 DEF EndTransaction, Tenured
    <3> QED BY <1>1, <2>7, <3>1, KeepsSeen DEF EndTransaction
  <2>8. CASE Remove(requests, end)
    <3>1. Tenured /\ ~Tenured' /\ busGrants' = {}
      BY <2>8 DEF Remove, Tenured
    <3>2. queuedRequests # {} /\ grantMask = memory[removePointer]
      BY <1>1, <3>1 DEF ServesHead
    <3>3. Abstract!Accept(Tail(QueueContent))
      BY <1>1, <2>8, <3>2, RemovesAccepts DEF Remove
    <3>4. QueueContent # <<>> /\ memory[removePointer] = {Head(QueueContent)}
      BY <1>1, <3>2, HeadShown
    <3>5. Holder = {Head(QueueContent)} /\ Holder' = {}
      BY <3>1, <3>4 DEF Holder
    <3> QED BY <3>1, <3>3, <3>4, <3>5 DEF Abstract!Finish, Holder
  <2> QED BY <1>2, <2>1, <2>2, <2>3, <2>4, <2>5, <2>6, <2>7, <2>8 DEF Clock
<1>3. ASSUME NEW requests \in SUBSET Masters, Reset(requests)
      PROVE  Abstract!FifoNext
  <2>1. queuedRequests' = {} /\ ~Tenured' /\ busGrants' = {}
    BY <1>3 DEF Reset, Tenured, NoGrant
  <2>2. QueueFacts'
    <3>1. TypeOK' /\ QueueConsistent' => QueueFacts'
      BY QueueShape, PTL
    <3> QED BY <1>1, <3>1 DEF IInv
  <2>3. QueueContent' = <<>>
    <3> DEFINE r == QueueContent'
    <3>1. r \in Seq(Masters) /\ Len(r) = 0
      BY <2>1, <2>2 DEF QueueFacts
    <3> HIDE DEF r
    <3>2. r = <<>>
      BY <3>1, EmptySeq
    <3> QED BY <3>2 DEF r
  <2>4. Holder' = {}
    BY <2>1 DEF Holder
  <2> QED BY <2>1, <2>3, <2>4 DEF Abstract!Restart, Holder
<1> QED BY <1>2, <1>3 DEF Next

(* The arbiter is a first-come-first-served queue of requests: each is      *)
(* accepted once, gets the bus in its turn and leaves the queue only then,  *)
(* for any number of request lines (busArbiter.v with queueMemory.v).       *)
THEOREM ArbiterIsFifo == Spec => ImplementsFifo
<1>1. Init => Abstract!FifoInit
  <2> SUFFICES ASSUME Init PROVE Abstract!FifoInit
    OBVIOUS
  <2>1. TypeOK /\ QueueConsistent
    BY InitIInv DEF IInv
  <2>2. QueueContent = <<>>
    <3> DEFINE r == QueueContent
    <3>1. r \in Seq(Masters) /\ Len(r) = 0
      BY <2>1, QueueShape DEF QueueFacts, Init
    <3> HIDE DEF r
    <3>2. r = <<>>
      BY <3>1, EmptySeq
    <3> QED BY <3>2 DEF r
  <2> QED BY <2>2 DEF Init, Tenured, Abstract!FifoInit
<1>2. FifoInv /\ FifoInv' /\ [Next]_vars => [Abstract!FifoNext]_Abstract!fifoVars
  <2> SUFFICES ASSUME FifoInv, FifoInv', [Next]_vars
               PROVE  [Abstract!FifoNext]_Abstract!fifoVars
    OBVIOUS
  <2>1. CASE UNCHANGED vars
    BY <2>1 DEF vars, queueVars, Abstract!fifoVars, QueueContent, QueueLength, Tenured
  <2> QED BY <2>1, FifoStep
<1> QED BY <1>1, <1>2, FifoInvariance, PTL DEF Spec, ImplementsFifo, Abstract!FifoSpec

-----------------------------------------------------------------------------
(* The load/store unit.                                                    *)

\* How the two machines go together: the bus machine runs while the other one
\* waits, and the pipeline is stalled all the time.
MachinesMeet ==
    /\ dcState = "WAIT_FOR_ACTION" <=> dcBus # "NOOP"
    /\ dcState # "IDLE" => dcStall
    /\ dcStall => dcOp \in Ops \ {NoOp}

\* What is known of an error: nothing before the transaction, then the register
\* of the bus machine has it, then the one that the pipeline sees.
ErrorCarried ==
    /\ dcBus \in {"INIT_TRANSACTION", "WAIT_READ", "DO_WRITE", "END_WRITE", "BUS_ERROR"} =>
          ~dcBusError /\ ~failed
    /\ dcBus = "REQUEST_BUS" => ~failed
    /\ dcBus = "SIG_DONE" => dcBusError = failed
    /\ dcBus = "NOOP" => dcCacheError = failed
    /\ dcState \in {"IDLE", "REQUEST_ACTION"} /\ dcStall => ~failed

DcInv == DcTypeOK /\ failed \in BOOLEAN /\ MachinesMeet /\ ErrorCarried

(* A clock edge of the unit.                                               *)
LEMMA DcStep ==
    ASSUME DcInv, DcAloneNext
    PROVE  DcInv'
<1>1. PICK iCacheStall \in BOOLEAN, granted \in BOOLEAN, busErrorIn \in BOOLEAN,
           busyIn \in BOOLEAN, endIn \in BOOLEAN, dataValidIn \in BOOLEAN,
           nextOp \in Ops, dataIn \in Data :
        /\ DcClock(iCacheStall, nextOp, granted, busErrorIn, busyIn, endIn, dataValidIn, dataIn)
        /\ DcHistory(iCacheStall)
  BY DEF DcAloneNext
<1>2. /\ StallRegisters(iCacheStall, nextOp) /\ StateMachine
      /\ BusMachine(granted, busErrorIn, busyIn, endIn, dataValidIn, dataIn)
      /\ DcHistory(iCacheStall)
  BY <1>1 DEF DcClock
<1>3. DcTypeOK /\ failed \in BOOLEAN /\ MachinesMeet /\ ErrorCarried
  BY DEF DcInv
<1>4. exeOp' \in Ops /\ dcOp' \in Ops /\ dcStall' \in BOOLEAN /\ dcCacheError' \in BOOLEAN
      /\ failed' \in BOOLEAN
  BY <1>2, <1>3 DEF DcTypeOK, StallRegisters, DcHistory, NeedsBus
<1>5. dcState' \in DcStates
  BY <1>2, <1>3 DEF DcTypeOK, StateMachine, DcStates
<1>6. dcBus' \in DcBusStates /\ dcBusError' \in BOOLEAN /\ dcFetched' \in Data
  BY <1>2, <1>3 DEF DcTypeOK, BusMachine, Noop, RequestBus, InitTransaction, WaitRead, DoWrite,
                    EndTransfer, SigDone, DcBusStates
<1>7. MachinesMeet'
  <2>1. dcStall' => dcOp' \in Ops \ {NoOp}
    BY <1>2, <1>3 DEF DcTypeOK, StallRegisters, NeedsBus, MachinesMeet, Ops, NoOp
  <2>2. dcState' # "IDLE" => dcStall'
    BY <1>2, <1>3 DEF DcTypeOK, StallRegisters, StateMachine, MachinesMeet, DcStates
  <2>3. dcState' = "WAIT_FOR_ACTION" <=> dcBus' # "NOOP"
    BY <1>2, <1>3 DEF DcTypeOK, StateMachine, MachinesMeet, DcStates, BusMachine, Noop, RequestBus,
                      InitTransaction, WaitRead, DoWrite, EndTransfer, SigDone, DcBusStates,
                      BusActionDone
  <2> QED BY <2>1, <2>2, <2>3 DEF MachinesMeet
<1>8. ErrorCarried'
  <2> USE <1>2, <1>3 DEF DcTypeOK, MachinesMeet, ErrorCarried
  <2>1. dcBus' \in {"INIT_TRANSACTION", "WAIT_READ", "DO_WRITE", "END_WRITE", "BUS_ERROR"} =>
           ~dcBusError' /\ ~failed'
    BY DEF BusMachine, Noop, RequestBus, InitTransaction, WaitRead, DoWrite, EndTransfer, SigDone,
           DcHistory
  <2>2. dcBus' = "REQUEST_BUS" => ~failed'
    BY DEF BusMachine, Noop, RequestBus, InitTransaction, WaitRead, DoWrite, EndTransfer, SigDone,
           DcHistory
  <2>3. dcBus' = "SIG_DONE" => dcBusError' = failed'
    BY DEF BusMachine, Noop, RequestBus, InitTransaction, WaitRead, DoWrite, EndTransfer, SigDone,
           DcHistory
  <2>4. dcBus' = "NOOP" => dcCacheError' = failed'
    <3>1. dcBus' = "NOOP" => dcBus \in {"NOOP", "SIG_DONE"}
      BY DEF BusMachine, Noop, RequestBus, InitTransaction, WaitRead, DoWrite, EndTransfer, SigDone
    <3>2. dcBus = "NOOP" => dcCacheError' = failed'
      BY DEF StallRegisters, BusActionDone, DcHistory
    <3>3. dcBus = "SIG_DONE" => dcCacheError' = failed'
      BY DEF StallRegisters, BusActionDone, DcHistory
    <3> QED BY <3>1, <3>2, <3>3
  <2>5. dcState' \in {"IDLE", "REQUEST_ACTION"} /\ dcStall' => ~failed'
    BY DEF StallRegisters, StateMachine, DcStates, DcHistory
  <2> QED BY <2>1, <2>2, <2>3, <2>4, <2>5
<1> QED BY <1>4, <1>5, <1>6, <1>7, <1>8 DEF DcInv, DcTypeOK

(* The two machines of the unit keep step, and an error is carried from the *)
(* bus machine to the register that the pipeline sees (dCache.v), for any   *)
(* targets and words of the bus.                                            *)
THEOREM LoadStoreInvariant == DcAloneSpec => []DcInv
<1>1. DcAloneInit => DcInv
  BY DEF DcAloneInit, DcInit, DcInv, DcTypeOK, MachinesMeet, ErrorCarried, DcStates, DcBusStates, Ops
<1>2. DcInv /\ [DcAloneNext]_dcAloneVars => DcInv'
  <2> SUFFICES ASSUME DcInv, [DcAloneNext]_dcAloneVars PROVE DcInv'
    OBVIOUS
  <2>1. CASE UNCHANGED dcAloneVars
    BY <2>1 DEF dcAloneVars, dcVars, DcInv, DcTypeOK, MachinesMeet, ErrorCarried
  <2> QED BY <2>1, DcStep
<1> QED BY <1>1, <1>2, PTL DEF DcAloneSpec

(* Whatever the pipeline and the bus do, an error of the bus is what the    *)
(* pipeline is told of the operation that met it, and of no other.         *)
THEOREM ErrorTold == DcAloneSpec => []ErrorReachesPipeline
<1>1. DcInv => ErrorReachesPipeline
  BY DEF DcInv, MachinesMeet, ErrorCarried, ErrorReachesPipeline
<1> QED BY <1>1, LoadStoreInvariant, PTL

\* The state of LoadStorePort in the registers of the unit.
Pending   == IF dcStall THEN dcOp ELSE NoOp
Performed ==
    dcStall /\ \/ dcBus \in {"WAIT_READ", "DO_WRITE", "END_WRITE", "BUS_ERROR", "SIG_DONE"}
               \/ dcState = "SIGNAL_DONE"

(* What a clock edge is for the pipeline.                                   *)
LEMMA PortStep ==
    ASSUME DcInv, DcAloneNext
    PROVE  [Port!PortNext]_Port!portVars
<1>1. PICK iCacheStall \in BOOLEAN, granted \in BOOLEAN, busErrorIn \in BOOLEAN,
           busyIn \in BOOLEAN, endIn \in BOOLEAN, dataValidIn \in BOOLEAN,
           nextOp \in Ops, dataIn \in Data :
        /\ DcClock(iCacheStall, nextOp, granted, busErrorIn, busyIn, endIn, dataValidIn, dataIn)
        /\ DcHistory(iCacheStall)
  BY DEF DcAloneNext
<1>2. /\ StallRegisters(iCacheStall, nextOp) /\ StateMachine
      /\ BusMachine(granted, busErrorIn, busyIn, endIn, dataValidIn, dataIn)
      /\ DcHistory(iCacheStall)
  BY <1>1 DEF DcClock
<1>3. DcTypeOK /\ failed \in BOOLEAN /\ MachinesMeet /\ ErrorCarried
  BY DEF DcInv
<1>4. CASE ~dcStall
  <2>1. dcState = "IDLE" /\ dcBus = "NOOP" /\ dcState' = "IDLE" /\ dcBus' = "NOOP"
    BY <1>2, <1>3, <1>4 DEF MachinesMeet, StateMachine, BusMachine, Noop, RequestBus,
         InitTransaction, WaitRead, DoWrite, EndTransfer, SigDone
  <2>2. Pending = NoOp /\ Performed = FALSE /\ Performed' = FALSE
    BY <1>4, <2>1 DEF Pending, Performed
  <2>3. CASE NeedsBus /\ ~iCacheStall
    <3>1. dcStall' /\ dcOp' = exeOp /\ exeOp \in Ops \ {NoOp} /\ failed' = FALSE
      <4>1. dcStall' /\ dcOp' = exeOp /\ exeOp \in Ops
        BY <1>2, <1>3, <1>4, <2>1, <2>3 DEF StallRegisters, DcTypeOK
      <4>2. exeOp # NoOp
        BY <2>3 DEF NeedsBus, NoOp
      <4>3. failed' = FALSE
        BY <1>2, <1>4, <2>1, <2>3, Zenon DEF DcHistory
      <4> QED BY <4>1, <4>2, <4>3
    <3>2. Pending' \in (Ops \ {NoOp}) \ {NoOp}
      BY <3>1 DEF Pending
    <3> QED BY <2>2, <3>1, <3>2 DEF Pending, Performed, Port!PortNext, Port!Accept
  <2>4. CASE ~(NeedsBus /\ ~iCacheStall)
    <3>1. ~dcStall' /\ (failed' = FALSE \/ failed' = failed)
      BY <1>2, <1>3, <1>4, <2>1, <2>4 DEF StallRegisters, DcHistory, DcTypeOK
    <3>2. Pending' = NoOp
      BY <3>1 DEF Pending
    <3> QED BY <2>2, <3>1, <3>2
             DEF Pending, Performed, Port!PortNext, Port!Forget, Port!portVars
  <2> QED BY <2>3, <2>4
<1>5. CASE dcStall /\ dcState = "SIGNAL_DONE"
  <2>1. ~dcStall' /\ dcOp \in Ops \ {NoOp} /\ dcBus = "NOOP" /\ failed' = failed
    BY <1>2, <1>3, <1>5 DEF MachinesMeet, StallRegisters, DcHistory
  <2>2. Pending # NoOp /\ Pending' = NoOp /\ Performed /\ Performed' = FALSE
    BY <1>5, <2>1 DEF Pending, Performed
  <2> QED BY <2>1, <2>2 DEF Pending, Performed, Port!PortNext, Port!Release
<1>6. CASE dcStall /\ dcState # "SIGNAL_DONE"
  <2>1. /\ dcStall' /\ dcOp' = dcOp /\ dcOp \in Ops \ {NoOp}
        /\ failed' = IF dcBus = "BUS_ERROR" THEN TRUE ELSE failed
    BY <1>2, <1>3, <1>6 DEF DcTypeOK, MachinesMeet, StallRegisters, DcHistory
  <2>2. Pending' = Pending /\ Pending # NoOp
    BY <1>6, <2>1 DEF Pending
  <2>3. CASE dcBus = "INIT_TRANSACTION"
    <3>1. dcBus' \in {"WAIT_READ", "DO_WRITE"}
      BY <1>2, <2>3 DEF BusMachine, Noop, RequestBus, InitTransaction, WaitRead, DoWrite,
                        EndTransfer, SigDone
    <3>2. Performed = FALSE /\ Performed' = TRUE /\ failed' = failed
      BY <1>6, <2>1, <2>3, <3>1 DEF Performed
    <3> QED BY <2>2, <3>2 DEF Pending, Performed, Port!PortNext, Port!Perform
  <2>4. CASE dcBus = "BUS_ERROR"
    <3>1. dcBus' = "SIG_DONE" /\ ~failed
      BY <1>2, <1>3, <2>4 DEF ErrorCarried, BusMachine, Noop, RequestBus, InitTransaction,
                              WaitRead, DoWrite, EndTransfer, SigDone
    <3>2. Performed = TRUE /\ Performed' = TRUE /\ failed' = TRUE
      BY <1>6, <2>1, <2>4, <3>1 DEF Performed
    <3> QED BY <2>2, <3>1, <3>2 DEF Pending, Performed, Port!PortNext, Port!Fail
  <2>5. CASE dcBus \in {"WAIT_READ", "DO_WRITE", "END_WRITE"}
    <3>1. dcBus' \in {"WAIT_READ", "DO_WRITE", "END_WRITE", "BUS_ERROR", "SIG_DONE"}
      BY <1>2, <2>5 DEF BusMachine, Noop, RequestBus, InitTransaction, WaitRead, DoWrite,
                        EndTransfer, SigDone
    <3>2. Performed = TRUE /\ Performed' = TRUE /\ failed' = failed
      BY <1>6, <2>1, <2>5, <3>1 DEF Performed
    <3> QED BY <2>2, <3>2 DEF Pending, Performed, Port!portVars
  <2>6. CASE dcBus = "SIG_DONE"
    <3>1. dcState' = "SIGNAL_DONE"
      BY <1>2, <1>3, <2>6 DEF MachinesMeet, StateMachine, BusActionDone
    <3>2. Performed = TRUE /\ Performed' = TRUE /\ failed' = failed
      BY <1>6, <2>1, <2>6, <3>1 DEF Performed
    <3> QED BY <2>2, <3>2 DEF Pending, Performed, Port!portVars
  <2>7. CASE dcBus \in {"NOOP", "REQUEST_BUS"}
    <3>1. dcBus' \in {"NOOP", "REQUEST_BUS", "INIT_TRANSACTION"} /\ dcState' # "SIGNAL_DONE"
      BY <1>2, <1>3, <1>6, <2>7 DEF DcTypeOK, DcStates, StateMachine, BusActionDone, BusMachine,
           Noop, RequestBus, InitTransaction, WaitRead, DoWrite, EndTransfer, SigDone
    <3>2. Performed = FALSE /\ Performed' = FALSE /\ failed' = failed
      BY <1>6, <2>1, <2>7, <3>1 DEF Performed
    <3> QED BY <2>2, <3>2 DEF Pending, Performed, Port!portVars
  <2> QED BY <1>3, <2>3, <2>4, <2>5, <2>6, <2>7 DEF DcTypeOK, DcBusStates
<1> QED BY <1>4, <1>5, <1>6

(* Every load and store that leaves the execution stage is put on the bus   *)
(* exactly once before the pipeline goes on: the unit implements            *)
(* LoadStorePort in any environment.                                        *)
THEOREM UnitIsPort == DcAloneSpec => ImplementsPort
<1>1. DcAloneInit => Port!PortInit
  BY DEF DcAloneInit, DcInit, Port!PortInit
<1>2. DcInv /\ [DcAloneNext]_dcAloneVars => [Port!PortNext]_Port!portVars
  <2> SUFFICES ASSUME DcInv, [DcAloneNext]_dcAloneVars PROVE [Port!PortNext]_Port!portVars
    OBVIOUS
  <2>1. CASE UNCHANGED dcAloneVars
    BY <2>1 DEF dcAloneVars, dcVars, Port!portVars
  <2> QED BY <2>1, PortStep
<1> QED BY <1>1, <1>2, LoadStoreInvariant, PTL DEF DcAloneSpec, ImplementsPort, Port!PortSpec

-----------------------------------------------------------------------------
(* The read buffer, for every depth and every kind of word.                *)

\* The invariant that the steps preserve: types and flags together.
RfInv == RfTypeOK /\ FlagsAgree

(* A pointer stays in the buffer, moves, and no two positions have the same *)
(* successor (lines 13 and 14).                                            *)
LEMMA AfterFacts ==
    ASSUME NEW p \in Entries, NEW q \in Entries
    PROVE  /\ RfAfter(p) \in Entries
           /\ RfAfter(p) # p
           /\ RfAfter(p) = RfAfter(q) <=> p = q
BY DepthAssumption DEF Entries, RfAfter

(* The registers keep their types and the flags keep telling the truth.    *)
LEMMA InvStep ==
    ASSUME RfInv, NEW clear \in BOOLEAN, NEW push \in BOOLEAN, NEW pop \in BOOLEAN,
           NEW word \in Words, RfClock(clear, push, pop, word)
    PROVE  RfInv'
<1> USE DEF RfInv
<1>1. /\ rfPush' \in Entries /\ rfPop' \in Entries
  BY AfterFacts, DepthAssumption DEF RfClock, RfPointers, RfTypeOK, Entries
<1>2. /\ rfFull' \in BOOLEAN /\ rfEmpty' \in BOOLEAN
  BY DEF RfClock, RfFlags, RfTypeOK
<1>3. rfMemory' \in [Entries -> Words] /\ rfOut' \in Words
  BY DEF RfClock, RfData, RfTypeOK
<1>4. FlagsAgree'
  <2>1. CASE clear
    BY <2>1 DEF RfClock, RfFlags, RfPointers, FlagsAgree
  <2>2. CASE ~clear
    <3>1. /\ RfAfter(rfPush) # rfPush /\ RfAfter(rfPop) # rfPop
          /\ RfAfter(rfPush) = RfAfter(rfPop) <=> rfPush = rfPop
      BY AfterFacts DEF RfTypeOK
    <3> QED BY <2>2, <3>1
          DEF RfClock, RfFlags, RfPointers, FlagsAgree, RfTypeOK, RfDoPush, RfDoPop
  <2> QED BY <2>1, <2>2
<1> QED BY <1>1, <1>2, <1>3, <1>4 DEF RfTypeOK

(* The flags of the buffer tell its state from its pointers, for every     *)
(* depth (s_readFullReg and s_readEmptyReg).                               *)
THEOREM FlagsCorrect == RfSpec => [](RfTypeOK /\ FlagsAgree)
<1>1. RfInit => RfInv
  <2>1. 0 \in Entries
    BY DepthAssumption DEF Entries
  <2> QED BY <2>1 DEF RfInit, RfInv, RfTypeOK, FlagsAgree
<1>2. RfInv /\ [RfNext]_rfVars => RfInv'
  <2> SUFFICES ASSUME RfInv, [RfNext]_rfVars PROVE RfInv'
    OBVIOUS
  <2>1. CASE RfNext
    BY <2>1, InvStep DEF RfNext
  <2>2. CASE UNCHANGED rfVars
    BY <2>2 DEF rfVars, RfInv, RfTypeOK, FlagsAgree
  <2> QED BY <2>1, <2>2
<1> QED BY <1>1, <1>2, PTL DEF RfSpec, RfInv

(* A slot is an entry of the memory.                                       *)
LEMMA SlotRange ==
    ASSUME NEW p \in Entries, NEW n \in 1 .. Depth
    PROVE  (IF p + n - 1 >= Depth THEN p + n - 1 - Depth ELSE p + n - 1) \in Entries
BY DepthAssumption DEF Entries

(* What lies between the pointers is a sequence of words.                  *)
LEMMA Shape ==
    ASSUME NEW m \in [Entries -> Words], NEW p \in Entries, NEW c \in 0 .. Depth,
           NEW q, q = [n \in 1 .. c |-> m[IF p + n - 1 >= Depth THEN p + n - 1 - Depth
                                         ELSE p + n - 1]]
    PROVE  q \in Seq(Words) /\ Len(q) = c
<1>1. c \in Nat /\ \A n \in 1 .. c : n \in 1 .. Depth
  BY DepthAssumption
<1>2. q \in [1 .. c -> Words]
  BY <1>1, SlotRange
<1> QED BY <1>1, <1>2

(* The contents are a sequence of words, as long as the count.             *)
LEMMA ContentsType ==
    ASSUME RfInv
    PROVE  /\ RfCount \in 0 .. Depth
           /\ RfContents \in Seq(Words) /\ Len(RfContents) = RfCount
           /\ \A n \in 1 .. RfCount : RfSlot(n) \in Entries /\ RfContents[n] = rfMemory[RfSlot(n)]
           /\ RfCount = 0 <=> rfEmpty
           /\ RfCount = Depth <=> rfFull
<1> USE DepthAssumption DEF RfInv, RfTypeOK, Entries
<1>1. RfCount \in 0 .. Depth
  BY DEF RfCount
<1>2. \A n \in 1 .. RfCount : RfSlot(n) \in Entries
  BY <1>1 DEF RfSlot
<1>4. RfContents \in Seq(Words) /\ Len(RfContents) = RfCount
  BY <1>1, Shape DEF RfContents, RfSlot
<1>5. (RfCount = 0 <=> rfEmpty) /\ (RfCount = Depth <=> rfFull)
  BY DEF RfCount, FlagsAgree
<1> QED BY <1>1, <1>2, <1>4, <1>5 DEF RfContents

(* What one clock does to the count.                                       *)
LEMMA CountStep ==
    ASSUME RfInv, NEW push \in BOOLEAN, NEW pop \in BOOLEAN, NEW word \in Words,
           RfClock(FALSE, push, pop, word)
    PROVE  /\ RfDoPush(push) => RfCount < Depth
           /\ RfDoPop(pop) => RfCount > 0
           /\ RfDoPush(push) /\ ~RfDoPop(pop) => RfCount' = RfCount + 1
           /\ ~RfDoPush(push) /\ RfDoPop(pop) => RfCount' = RfCount - 1
           /\ RfDoPush(push) /\ RfDoPop(pop) => RfCount' = RfCount
           /\ ~RfDoPush(push) /\ ~RfDoPop(pop) => RfCount' = RfCount
           /\ RfCount \in 0 .. Depth /\ RfCount' \in 0 .. Depth
<1> USE DepthAssumption DEF RfInv, RfTypeOK, Entries, RfCount, FlagsAgree
<1> QED BY DEF RfClock, RfFlags, RfPointers, RfAfter, RfDoPush, RfDoPop

(* What one clock does to the contents: a pop moves every word one place   *)
(* forward, a push puts the new word behind the last.                      *)
LEMMA ContentsStep ==
    ASSUME RfInv, NEW push \in BOOLEAN, NEW pop \in BOOLEAN, NEW word \in Words,
           RfClock(FALSE, push, pop, word),
           NEW shift \in {0, 1}, shift = (IF RfDoPop(pop) THEN 1 ELSE 0),
           NEW n \in 1 .. RfCount'
    PROVE  RfContents'[n] = IF n + shift <= RfCount THEN RfContents[n + shift] ELSE word
<1> USE DepthAssumption
<1>1. RfInv' /\ RfCount \in 0 .. Depth /\ RfCount' \in 0 .. Depth
  BY InvStep, CountStep
<1>2. /\ RfContents'[n] = rfMemory'[RfSlot(n)']
      /\ RfSlot(n)' \in Entries
  <2>1. RfContents'[n] = rfMemory'[RfSlot(n)']
    BY DEF RfContents, RfSlot
  <2>2. rfPop' \in Entries /\ n \in 1 .. Depth
    BY <1>1 DEF RfInv, RfTypeOK
  <2> QED BY <2>1, <2>2, SlotRange DEF RfSlot
<1>3. (RfDoPush(push) => RfCount' = RfCount + 1 - shift)
      /\ (~RfDoPush(push) => RfCount' = RfCount - shift)
  <2>1. CASE RfDoPop(pop)
    <3>1. shift = 1
      BY <2>1
    <3>2. (RfDoPush(push) => RfCount' = RfCount) /\ (~RfDoPush(push) => RfCount' = RfCount - 1)
      BY <2>1, CountStep, Zenon
    <3>3. RfCount + 1 - 1 = RfCount
      BY <1>1
    <3> QED BY <3>1, <3>2, <3>3
  <2>2. CASE ~RfDoPop(pop)
    <3>1. shift = 0
      BY <2>2
    <3>2. (RfDoPush(push) => RfCount' = RfCount + 1) /\ (~RfDoPush(push) => RfCount' = RfCount)
      BY <2>2, CountStep, Zenon
    <3>3. RfCount + 1 - 0 = RfCount + 1 /\ RfCount - 0 = RfCount
      BY <1>1
    <3> QED BY <3>1, <3>2, <3>3
  <2> QED BY <2>1, <2>2
<1>4. CASE n + shift <= RfCount
  <2>1. n + shift \in 1 .. RfCount
    BY <1>1, <1>4
  <2>2. /\ RfContents[n + shift] = rfMemory[RfSlot(n + shift)]
        /\ RfSlot(n + shift) \in Entries
    BY <2>1, ContentsType
  <2>3. RfSlot(n)' = RfSlot(n + shift)
    BY <2>1, <1>1 DEF RfSlot, RfClock, RfPointers, RfAfter, RfInv, RfTypeOK, Entries
  <2>4. RfDoPush(push) => RfSlot(n + shift) # rfPush
    BY <2>1, <1>1, CountStep
       DEF RfSlot, RfCount, RfInv, RfTypeOK, FlagsAgree, Entries, RfDoPush
  <2>5. rfMemory'[RfSlot(n)'] = rfMemory[RfSlot(n + shift)]
    BY <2>2, <2>3, <2>4 DEF RfClock, RfData, RfInv, RfTypeOK
  <2> QED BY <1>2, <1>4, <2>2, <2>5
<1>5. CASE ~(n + shift <= RfCount)
  <2>1. RfDoPush(push) /\ n + shift = RfCount + 1
    BY <1>1, <1>3, <1>5
  <2>2. RfSlot(n)' = rfPush
    BY <2>1, <1>1, CountStep
       DEF RfSlot, RfCount, RfClock, RfPointers, RfAfter, RfInv, RfTypeOK, FlagsAgree,
           Entries, RfDoPush
  <2>3. rfMemory'[rfPush] = word
    BY <2>1 DEF RfClock, RfData, RfInv, RfTypeOK
  <2> QED BY <1>2, <1>5, <2>2, <2>3
<1> QED BY <1>4, <1>5

(* Without a clear, the contents change as the contents of a queue.        *)
LEMMA QueueStep ==
    ASSUME RfInv, NEW push \in BOOLEAN, NEW pop \in BOOLEAN, NEW word \in Words,
           RfClock(FALSE, push, pop, word)
    PROVE  RQ!Hold \/ RQ!Put \/ RQ!Take \/ RQ!Pass
<1>1. /\ RfContents \in Seq(Words) /\ Len(RfContents) = RfCount
      /\ RfContents' \in Seq(Words) /\ Len(RfContents') = RfCount'
      /\ RfCount \in 0 .. Depth /\ RfCount' \in 0 .. Depth
  <2>1. RfInv'
    BY InvStep, FALSE \in BOOLEAN
  <2>2. RfContents' \in Seq(Words) /\ Len(RfContents') = RfCount'
    <3>1. RfContents' = [n \in 1 .. RfCount' |-> rfMemory'[
               IF rfPop' + n - 1 >= Depth THEN rfPop' + n - 1 - Depth ELSE rfPop' + n - 1]]
      BY DEF RfContents, RfSlot
    <3>2. rfMemory' \in [Entries -> Words] /\ rfPop' \in Entries /\ RfCount' \in 0 .. Depth
      BY <2>1, CountStep DEF RfInv, RfTypeOK
    <3> HIDE DEF RfContents
    <3> QED BY <3>1, <3>2, Shape
  <2> QED BY <2>2, ContentsType, CountStep
<1>2. CASE ~RfDoPush(push) /\ ~RfDoPop(pop)
  <2>1. RfCount' = RfCount
    BY <1>1, <1>2, CountStep, DepthAssumption
  <2>2. \A n \in 1 .. RfCount : RfContents'[n] = RfContents[n]
    <3> SUFFICES ASSUME NEW n \in 1 .. RfCount PROVE RfContents'[n] = RfContents[n]
      OBVIOUS
    <3>1. RfContents'[n] = IF n + 0 <= RfCount THEN RfContents[n + 0] ELSE word
      BY <1>2, <2>1, ContentsStep
    <3> QED BY <1>1, <3>1
  <2>3. RfContents' = RfContents
    BY <1>1, <2>1, <2>2, SeqEqual
  <2> QED BY <2>3 DEF RQ!Hold
<1>3. CASE RfDoPush(push) /\ ~RfDoPop(pop)
  <2>1. RfCount' = RfCount + 1 /\ RfCount < Depth
    BY <1>1, <1>3, CountStep, DepthAssumption
  <2> DEFINE longer == Append(RfContents, word)
  <2>2. /\ longer \in Seq(Words) /\ Len(longer) = RfCount + 1
        /\ \A n \in 1 .. RfCount : longer[n] = RfContents[n]
        /\ longer[RfCount + 1] = word
    BY <1>1, AppendProperties
  <2> HIDE DEF longer
  <2>3. \A n \in 1 .. RfCount' : RfContents'[n] = longer[n]
    <3> SUFFICES ASSUME NEW n \in 1 .. RfCount' PROVE RfContents'[n] = longer[n]
      OBVIOUS
    <3>1. RfContents'[n] = IF n + 0 <= RfCount THEN RfContents[n + 0] ELSE word
      BY <1>3, ContentsStep
    <3> QED BY <1>1, <2>1, <2>2, <3>1
  <2>4. RfContents' = longer
    BY <1>1, <2>1, <2>2, <2>3, SeqEqual
  <2> QED BY <1>1, <2>1, <2>4 DEF RQ!Put, longer
<1>4. CASE ~RfDoPush(push) /\ RfDoPop(pop)
  <2>1. RfCount' = RfCount - 1 /\ RfCount > 0
    BY <1>1, <1>4, CountStep, DepthAssumption
  <2>2. RfContents # <<>>
    BY <1>1, <2>1
  <2> DEFINE rest == Tail(RfContents)
  <2>3. /\ rest \in Seq(Words) /\ Len(rest) = RfCount - 1
        /\ \A n \in 1 .. RfCount - 1 : rest[n] = RfContents[n + 1]
    BY <1>1, <2>2, HeadTailProperties
  <2> HIDE DEF rest
  <2>4. \A n \in 1 .. RfCount' : RfContents'[n] = rest[n]
    <3> SUFFICES ASSUME NEW n \in 1 .. RfCount' PROVE RfContents'[n] = rest[n]
      OBVIOUS
    <3>1. RfContents'[n] = IF n + 1 <= RfCount THEN RfContents[n + 1] ELSE word
      BY <1>4, ContentsStep
    <3> QED BY <1>1, <2>1, <2>3, <3>1
  <2>5. RfContents' = rest
    BY <1>1, <2>1, <2>3, <2>4, SeqEqual
  <2> QED BY <2>2, <2>5 DEF RQ!Take, rest
<1>5. CASE RfDoPush(push) /\ RfDoPop(pop)
  <2>1. RfCount' = RfCount /\ RfCount > 0 /\ RfCount < Depth
    BY <1>1, <1>5, CountStep, DepthAssumption
  <2>2. RfContents # <<>>
    BY <1>1, <2>1
  <2> DEFINE rest == Tail(RfContents)
             longer == Append(rest, word)
  <2>3. /\ rest \in Seq(Words) /\ Len(rest) = RfCount - 1
        /\ \A n \in 1 .. RfCount - 1 : rest[n] = RfContents[n + 1]
    BY <1>1, <2>2, HeadTailProperties
  <2> HIDE DEF rest
  <2>4. /\ longer \in Seq(Words) /\ Len(longer) = RfCount
        /\ \A n \in 1 .. RfCount - 1 : longer[n] = rest[n]
        /\ longer[RfCount] = word
    BY <1>1, <2>1, <2>3, AppendProperties
  <2> HIDE DEF longer
  <2>5. \A n \in 1 .. RfCount' : RfContents'[n] = longer[n]
    <3> SUFFICES ASSUME NEW n \in 1 .. RfCount' PROVE RfContents'[n] = longer[n]
      OBVIOUS
    <3>1. RfContents'[n] = IF n + 1 <= RfCount THEN RfContents[n + 1] ELSE word
      BY <1>5, ContentsStep
    <3>2. n \in 1 .. RfCount - 1 \/ n = RfCount
      BY <1>1, <2>1
    <3> QED BY <1>1, <2>1, <2>3, <2>4, <3>1, <3>2
  <2>6. RfContents' = longer
    BY <1>1, <2>1, <2>4, <2>5, SeqEqual
  <2> QED BY <1>1, <2>1, <2>2, <2>6 DEF RQ!Pass, longer, rest
<1> QED BY <1>2, <1>3, <1>4, <1>5

(* The output shows the oldest word one clock later.                       *)
LEMMA ShowStep ==
    ASSUME RfInv, NEW clear \in BOOLEAN, NEW push \in BOOLEAN, NEW pop \in BOOLEAN,
           NEW word \in Words, RfClock(clear, push, pop, word)
    PROVE  RQ!Show
<1> SUFFICES ASSUME RfContents # <<>> PROVE rfOut' = Head(RfContents)
  BY DEF RQ!Show
<1>1. RfContents \in Seq(Words) /\ Len(RfContents) = RfCount /\ RfCount \in 0 .. Depth
  BY ContentsType
<1>2. 1 \in 1 .. RfCount
  BY <1>1, EmptySeq, DepthAssumption
<1>3. Head(RfContents) = RfContents[1]
  BY <1>1
<1>4. RfContents[1] = rfMemory[RfSlot(1)]
  BY <1>2, ContentsType
<1>5. RfSlot(1) = rfPop
  BY DepthAssumption DEF RfSlot, RfInv, RfTypeOK, Entries
<1> QED BY <1>3, <1>4, <1>5 DEF RfClock, RfData

(* The read buffer implements the bounded queue, for every depth: no word  *)
(* is lost, doubled or overtaken, and a full buffer refuses words instead  *)
(* of overwriting them.                                                    *)
THEOREM BufferIsQueue == RfSpec => ImplementsQueue
<1>1. RfInit => RQ!RqInit
  <2> SUFFICES ASSUME RfInit PROVE RQ!RqInit
    OBVIOUS
  <2>1. RfCount = 0
    BY DepthAssumption DEF RfInit, RfCount
  <2>2. RfContents = <<>>
    BY <2>1 DEF RfContents
  <2> QED BY <2>2 DEF RfInit, RQ!RqInit
<1>2. RfTypeOK /\ FlagsAgree /\ [RfNext]_rfVars => [RQ!RqNext]_(RQ!rqVars)
  <2> SUFFICES ASSUME RfInv, [RfNext]_rfVars PROVE [RQ!RqNext]_(RQ!rqVars)
    BY DEF RfInv
  <2>1. CASE RfNext
    <3>1. PICK clear \in BOOLEAN, push \in BOOLEAN, pop \in BOOLEAN, word \in Words :
               RfClock(clear, push, pop, word)
      BY <2>1 DEF RfNext
    <3>2. RQ!Show
      BY <3>1, ShowStep
    <3>3. CASE clear
      <4>1. RfCount' = 0
        BY <3>1, <3>3, DepthAssumption DEF RfClock, RfFlags, RfPointers, RfCount
      <4>2. RfContents' = <<>>
        BY <4>1 DEF RfContents
      <4> QED BY <3>2, <4>2 DEF RQ!RqNext, RQ!Drop
    <3>4. CASE ~clear
      <4>1. RfClock(FALSE, push, pop, word)
        BY <3>1, <3>4
      <4> QED BY <3>2, <4>1, QueueStep DEF RQ!RqNext
    <3> QED BY <3>3, <3>4
  <2>2. CASE UNCHANGED rfVars
    BY <2>2 DEF rfVars, RQ!rqVars, RfContents, RfCount, RfSlot
  <2> QED BY <2>1, <2>2
<1>3. RfSpec => [](RfTypeOK /\ FlagsAgree)
  BY FlagsCorrect
<1> QED BY <1>1, <1>2, <1>3, PTL DEF RfSpec, ImplementsQueue, RQ!RqSpec

-----------------------------------------------------------------------------
(* The crossing of the baud ticks, for any divisors and any ratio of the    *)
(* two clocks.                                                             *)

\* Reference edges since the last tick.
Elapsed == xcDivisor - xcCounter

\* A pulse in the first cell is younger than the last system edge, one in the
\* second younger than the edge before, and no two are under way.
PulseAge(k) ==
    /\ xcCells[k][0] => Elapsed < xcEdges
    /\ xcCells[k][1] => Elapsed < ClockRatio + xcEdges
    /\ ~(xcCells[k][0] /\ xcCells[k][1])
    /\ xcOwed[k] = IF xcCells[k][0] \/ xcCells[k][1] THEN 1 ELSE 0

\* The invariant that the edges preserve when the ticks are far enough apart.
FarApart ==
    xcDivisor > 2 * ClockRatio =>
        /\ xcCounter \in 1 .. xcDivisor
        /\ \A k \in XcKinds : PulseAge(k)

\* What the proof needs of the types.
XcShape ==
    /\ xcDivisor \in Nat /\ xcEdges \in 0 .. ClockRatio
    /\ xcCells \in [XcKinds -> [0 .. 2 -> BOOLEAN]]

XcInv == XcShape /\ FarApart

(* An edge of the reference clock, which may start a pulse: the one before *)
(* has been delivered by then.                                             *)
LEMMA ReferenceEdge ==
    ASSUME XcInv, XcReferenceEdge
    PROVE  XcInv'
<1>1. XcShape'
  <2>1. xcDivisor' = xcDivisor /\ xcEdges' = xcEdges + 1 /\ xcEdges < ClockRatio
    BY DEF XcReferenceEdge
  <2>2. xcCells' \in [XcKinds -> [0 .. 2 -> BOOLEAN]]
    <3>1. \A k \in XcKinds :
            [xcCells[k] EXCEPT ![0] = ~xcCells[k][1] /\ (@ \/ XcTick(k))]
                \in [0 .. 2 -> BOOLEAN]
      BY ZenonT(30) DEF XcInv, XcShape
    <3> QED BY <3>1 DEF XcReferenceEdge
  <2> QED BY <2>1, <2>2, ClockRatioAssumption DEF XcInv, XcShape
<1>2. FarApart'
  <2> SUFFICES ASSUME xcDivisor > 2 * ClockRatio
               PROVE  /\ xcCounter' \in 1 .. xcDivisor
                      /\ \A k \in XcKinds : PulseAge(k)'
    BY DEF FarApart, XcReferenceEdge
  <2>1. /\ xcDivisor \in Nat /\ xcEdges \in 0 .. ClockRatio /\ xcEdges < ClockRatio
        /\ xcCounter \in 1 .. xcDivisor /\ ClockRatio \in Nat \ {0}
        /\ xcDivisor' = xcDivisor /\ xcEdges' = xcEdges + 1
    BY ClockRatioAssumption DEF XcInv, XcShape, FarApart, XcReferenceEdge
  <2>2. IF XcLoad THEN xcCounter = 1 /\ xcCounter' = xcDivisor
                  ELSE xcCounter > 1 /\ xcCounter' = xcCounter - 1
    BY <2>1 DEF XcLoad, XcReferenceEdge
  <2>3. xcCounter' \in 1 .. xcDivisor
    BY <2>1, <2>2
  <2>4. ASSUME NEW k \in XcKinds PROVE PulseAge(k)'
    <3> DEFINE first == xcCells[k][0]
               second == xcCells[k][1]
    <3>1. /\ xcCells'[k][0] <=> ~second /\ (first \/ XcTick(k))
          /\ xcCells'[k][1] <=> second
          /\ xcOwed'[k] = IF XcTick(k) /\ xcOwed[k] < 3 THEN xcOwed[k] + 1 ELSE xcOwed[k]
      <4>1. xcCells'[k] = [xcCells[k] EXCEPT ![0] = ~xcCells[k][1] /\ (@ \/ XcTick(k))]
        BY DEF XcReferenceEdge
      <4>2. xcCells[k] \in [0 .. 2 -> BOOLEAN]
        BY DEF XcInv, XcShape
      <4>3. xcCells'[k][0] <=> ~second /\ (first \/ XcTick(k))
        <5>1. 0 \in DOMAIN xcCells[k]
          BY <4>2
        <5> QED BY <4>1, <5>1, Zenon
      <4>4. xcCells'[k][1] <=> second
        BY <4>1, <4>2
      <4>5. xcOwed'[k] = IF XcTick(k) /\ xcOwed[k] < 3 THEN xcOwed[k] + 1 ELSE xcOwed[k]
        BY DEF XcReferenceEdge
      <4> QED BY <4>3, <4>4, <4>5
    <3>2. /\ first => Elapsed < xcEdges
          /\ second => Elapsed < ClockRatio + xcEdges
          /\ ~(first /\ second)
          /\ xcOwed[k] = IF first \/ second THEN 1 ELSE 0
      BY DEF XcInv, FarApart, PulseAge
    <3> HIDE DEF first, second
    <3>3. CASE XcTick(k)
      <4>1. XcLoad /\ Elapsed = xcDivisor - 1
        BY <2>2, <3>3 DEF XcTick, Elapsed
      <4>2. ~first /\ ~second
        BY <2>1, <3>2, <4>1
      <4>3. Elapsed' = 0
        BY <2>1, <2>2, <4>1 DEF Elapsed
      <4>4. xcCells'[k][0] /\ ~xcCells'[k][1] /\ xcOwed'[k] = 1
        BY <3>1, <3>2, <3>3, <4>2
      <4> QED BY <2>1, <4>3, <4>4 DEF PulseAge
    <3>4. CASE ~XcTick(k) /\ XcLoad
      <4>1. Elapsed = xcDivisor - 1
        BY <2>2, <3>4 DEF Elapsed
      <4>2. ~first /\ ~second
        BY <2>1, <3>2, <4>1
      <4> QED BY <3>1, <3>2, <3>4, <4>2 DEF PulseAge
    <3>5. CASE ~XcTick(k) /\ ~XcLoad
      <4>1. Elapsed' = Elapsed + 1 /\ Elapsed \in Int
        BY <2>1, <2>2, <3>5 DEF Elapsed
      <4>2. /\ xcCells'[k][0] <=> first
            /\ xcCells'[k][1] <=> second
            /\ xcOwed'[k] = xcOwed[k]
        BY <3>1, <3>2, <3>5
      <4>3. /\ xcCells'[k][0] => Elapsed' < xcEdges'
            /\ xcCells'[k][1] => Elapsed' < ClockRatio + xcEdges'
        BY <2>1, <3>2, <4>1, <4>2
      <4>4. xcOwed'[k] = IF xcCells'[k][0] \/ xcCells'[k][1] THEN 1 ELSE 0
        BY <3>2, <4>2
      <4>5. ~(xcCells'[k][0] /\ xcCells'[k][1])
        BY <3>2, <4>2
      <4> QED BY <4>3, <4>4, <4>5 DEF PulseAge
    <3> QED BY <3>3, <3>4, <3>5
  <2> QED BY <2>3, <2>4
<1> QED BY <1>1, <1>2 DEF XcInv

(* An edge of the system clock moves every pulse on by one cell.           *)
LEMMA SystemEdge ==
    ASSUME XcInv, XcSystemEdge
    PROVE  XcInv'
<1>1. \A k \in XcKinds : XcShifted(xcCells[k]) \in [0 .. 2 -> BOOLEAN]
  BY DEF XcInv, XcShape, XcShifted
<1>2. XcShape'
  BY <1>1, ClockRatioAssumption DEF XcInv, XcShape, XcSystemEdge
<1>3. FarApart'
  <2> SUFFICES ASSUME xcDivisor > 2 * ClockRatio, NEW k \in XcKinds
               PROVE  PulseAge(k)'
    BY DEF FarApart, XcInv, XcSystemEdge
  <2>1. /\ xcDivisor \in Nat /\ xcEdges \in 0 .. ClockRatio
        /\ xcCounter \in 1 .. xcDivisor /\ ClockRatio \in Nat \ {0}
        /\ xcDivisor' = xcDivisor /\ xcEdges' = 0 /\ xcCounter' = xcCounter
        /\ Elapsed' = Elapsed
    BY ClockRatioAssumption DEF XcInv, XcShape, FarApart, XcSystemEdge, Elapsed
  <2> DEFINE first == xcCells[k][0]
             second == xcCells[k][1]
  <2>2. /\ xcCells'[k][0] = FALSE /\ xcCells'[k][1] = first
        /\ xcOwed'[k] = IF second THEN xcOwed[k] - 1 ELSE xcOwed[k]
    BY DEF XcSystemEdge, XcShifted
  <2>3. /\ first => Elapsed < xcEdges
        /\ ~(first /\ second)
        /\ xcOwed[k] = IF first \/ second THEN 1 ELSE 0
    BY DEF XcInv, FarApart, PulseAge
  <2> HIDE DEF first, second
  <2>4. Elapsed \in Int
    BY <2>1 DEF Elapsed
  <2> QED BY <2>1, <2>2, <2>3, <2>4 DEF PulseAge
<1> QED BY <1>2, <1>3 DEF XcInv

(* Ticks that are more than two periods of the system clock apart arrive   *)
(* each once, for every divisor and every ratio of the clocks              *)
(* (synchroFlop.v, baudGenerator.v).                                       *)
THEOREM CrossingHolds == XcSpec => []TicksArriveOnce
<1>0. Divisors \subseteq Nat
  <2>1. BaudValues \subseteq Nat
    BY DEF BaudValues
  <2> QED BY <2>1, DivisorsAssumption
<1>1. XcInit => XcInv
  BY <1>0, ClockRatioAssumption
     DEF XcInit, XcInv, XcShape, FarApart, PulseAge, Elapsed
<1>2. XcInv /\ [XcNext]_xcVars => XcInv'
  <2> SUFFICES ASSUME XcInv, [XcNext]_xcVars PROVE XcInv'
    OBVIOUS
  <2>1. CASE UNCHANGED xcVars
    BY <2>1 DEF xcVars, XcInv, XcShape, FarApart, PulseAge, Elapsed
  <2> QED BY <2>1, ReferenceEdge, SystemEdge DEF XcNext
<1>3. XcInv => TicksArriveOnce
  BY DEF XcInv, FarApart, PulseAge, TicksArriveOnce
<1> QED BY <1>1, <1>2, <1>3, PTL DEF XcSpec

-----------------------------------------------------------------------------
(* The units of MCUnits, one of them running.                              *)

(* In every behaviour of MCUnits each unit behaves as it does alone, or     *)
(* stands still.                                                            *)
LEMMA UnitsAreAlone ==
    UnitsSpec => Spec /\ DcAloneSpec /\ FsAloneSpec /\ RfSpec /\ XcSpec
<1>1. UnitsInit => Init /\ DcAloneInit /\ FsAloneInit /\ RfInit /\ XcInit
  BY DEF UnitsInit
<1>2. [UnitsNext]_unitVars =>
        /\ [Next]_vars /\ [DcAloneNext]_dcAloneVars /\ [FsAloneNext]_fsAloneVars
        /\ [RfNext]_rfVars /\ [XcNext]_xcVars
  BY DEF UnitsNext, Frozen, unitVars
<1> QED BY <1>1, <1>2, PTL DEF UnitsSpec, Spec, DcAloneSpec, FsAloneSpec, RfSpec, XcSpec

(* The registers of the crossing are typed, whatever the two clocks do.     *)
LEMMA CrossingTypes == XcSpec => []XcTypeOK
<1>1. XcInit => XcTypeOK
  BY ClockRatioAssumption, DivisorsAssumption DEF XcInit, XcTypeOK
<1>2. XcTypeOK /\ [XcNext]_xcVars => XcTypeOK'
  <2> SUFFICES ASSUME XcTypeOK, [XcNext]_xcVars PROVE XcTypeOK'
    OBVIOUS
  <2>1. CASE XcReferenceEdge
    <3>1. xcCells' \in [XcKinds -> [0 .. 2 -> BOOLEAN]]
      <4>1. \A k \in XcKinds :
              [xcCells[k] EXCEPT ![0] = ~xcCells[k][1] /\ (@ \/ XcTick(k))]
                \in [0 .. 2 -> BOOLEAN]
        BY ZenonT(30) DEF XcTypeOK
      <4> QED BY <2>1, <4>1 DEF XcReferenceEdge
    <3>2. xcOwed' \in [XcKinds -> Int]
      BY <2>1 DEF XcReferenceEdge, XcTypeOK
    <3>3. xcDivisor' \in Divisors /\ xcEdges' \in 0 .. ClockRatio
      BY <2>1, ClockRatioAssumption DEF XcReferenceEdge, XcTypeOK
    <3>4. xcEighth' \in 0 .. 7
      BY <2>1 DEF XcReferenceEdge, XcTypeOK
    <3>5. xcCounter' \in BaudValues
      <4>1. xcCounter \in BaudValues /\ xcDivisor \in BaudValues
        BY DivisorsAssumption DEF XcTypeOK
      <4>2. xcCounter' = IF XcLoad THEN xcDivisor ELSE xcCounter - 1
        BY <2>1 DEF XcReferenceEdge
      <4>3. ASSUME xcCounter \notin {0, 1} PROVE xcCounter - 1 \in BaudValues
        BY <4>1, <4>3 DEF BaudValues
      <4> QED BY <4>1, <4>2, <4>3 DEF XcLoad
    <3> QED BY <3>1, <3>2, <3>3, <3>4, <3>5 DEF XcTypeOK
  <2>2. CASE XcSystemEdge
    <3>1. xcCells' \in [XcKinds -> [0 .. 2 -> BOOLEAN]]
      <4>1. \A k \in XcKinds : XcShifted(xcCells[k]) \in [0 .. 2 -> BOOLEAN]
        BY DEF XcTypeOK, XcShifted
      <4> QED BY <2>2, <4>1 DEF XcSystemEdge
    <3>2. xcOwed' \in [XcKinds -> Int]
      BY <2>2 DEF XcSystemEdge, XcTypeOK
    <3>3. xcEdges' \in 0 .. ClockRatio
      BY <2>2, ClockRatioAssumption DEF XcSystemEdge
    <3> QED BY <2>2, <3>1, <3>2, <3>3 DEF XcSystemEdge, XcTypeOK
  <2>3. CASE UNCHANGED xcVars
    BY <2>3 DEF xcVars, XcTypeOK
  <2> QED BY <2>1, <2>2, <2>3 DEF XcNext
<1> QED BY <1>1, <1>2, PTL DEF XcSpec

(* All registers of the arbiter, the load/store unit, the fetch stage, the  *)
(* read buffer and the crossing of the ticks stay in their types, for all   *)
(* sizes and any environment.                                               *)
THEOREM UnitsTyped == UnitsSpec => []TypesOK
<1>1. DcInv => DcTypeOK
  BY DEF DcInv
<1>2. RfSpec => []RfTypeOK
  BY FlagsCorrect, PTL
<1> QED
  BY <1>1, <1>2, UnitsAreAlone, TypeCorrect, LoadStoreInvariant, FetchTypes, CrossingTypes, PTL
  DEF TypesOK
=============================================================================
