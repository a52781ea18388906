----------------------------- MODULE FetchStage -----------------------------
(***************************************************************************)
(* The fetch stage of the processor with its direct-mapped instruction     *)
(* cache (modules/or1420/verilog/fetchStage.v), one step per clock edge.   *)
(* An address is a natural number; the word that memory holds at an        *)
(* address is represented by the address itself, so that a wrong word is   *)
(* visible as a wrong number.                                              *)
(***************************************************************************)
EXTENDS Integers

CONSTANTS
    WordsPerLine,   \* 16 in the code
    Lines,          \* lines in the cache: 32 in the code
    Addresses,      \* number of instruction addresses (2^30 in the code)
    ResetVector

ASSUME FetchAssumption ==
    /\ WordsPerLine \in Nat \ {0} /\ Lines \in Nat \ {0}
    /\ Addresses \in Nat \ {0} /\ ResetVector \in 0 .. Addresses - 1
    /\ Addresses % (WordsPerLine * Lines) = 0

Pcs     == 0 .. Addresses - 1
NoWord  == -1                   \* no data on the bus
Junk    == -2                   \* a word that no memory delivered
Nop     == -3                   \* NOP_INSTRUCTION
FsWords   == Pcs \cup {Junk}
Indices == 0 .. Lines - 1

WordOf(pc)  == pc % WordsPerLine
IndexOf(pc) == (pc \div WordsPerLine) % Lines
TagOf(pc)   == pc \div (WordsPerLine * Lines)
LineOf(pc)  == pc \div WordsPerLine
Tags        == {TagOf(pc) : pc \in Pcs}

VARIABLES
    fsPc,                \* s_pcReg: the address looked up last
    fsProgramCounter,    \* s_programCounterReg: the address being fetched
    fsStall,             \* s_stallReg
    fsDelayedReset,      \* s_delayedResetReg
    fsInsertNop,         \* s_insertNopReg
    fsState,             \* s_stateReg
    fsBus,               \* s_busStateReg
    fsHit,               \* s_hitReg
    fsValidBits,         \* s_validBits, as the set of valid lines
    fsTags,              \* s_tagMemory
    fsLines,             \* s_dataMemory
    fsRead,              \* s_instruction: the read port of s_dataMemory
    fsDataIn,            \* s_dataInReg, or NoWord when s_dataInValidReg is low
    fsBurstCount,        \* s_burstCountReg
    fsFetched,           \* s_fetchedInstructionReg
    fsBusError,          \* s_busErrorReg
    fsInstruction,       \* instruction, to the decode stage
    fsValidInstruction   \* validInstruction, to the decode stage

cacheVars == <<fsHit, fsValidBits, fsTags, fsLines, fsRead>>
fillVars  == <<fsState, fsBus, fsDataIn, fsBurstCount, fsFetched, fsBusError>>
fsVars    == <<fsPc, fsProgramCounter, fsStall, fsDelayedReset, fsInsertNop,
               fsInstruction, fsValidInstruction, cacheVars, fillVars>>

FsStates    == {"IDLE", "REQUEST_CACHE_LINE", "WAIT_CACHE_LINE", "UPDATE_TAG", "LOOKUP"}
FsBusStates == {"NOP", "REQUEST_BUS", "INIT_TRANSACTION", "WAIT_BURST", "SIGNAL_DONE", "BUS_ERROR"}

-----------------------------------------------------------------------------
(* Outputs. *)

FsRequest  == fsBus = "REQUEST_BUS"
FsBegin    == fsBus = "INIT_TRANSACTION"
FsEnd      == fsBus = "BUS_ERROR"
FsStallOut == fsStall \/ fsDelayedReset

\* The line asked for, by the address of its first word.
FsAddress  == LineOf(fsProgramCounter) * WordsPerLine

-----------------------------------------------------------------------------
(* A clock edge. *)

NextPc(insertNop, doJump, jumpTarget) ==
    IF doJump THEN jumpTarget
    ELSE IF insertNop THEN fsPc ELSE (fsPc + 1) % Addresses

AckLine == fsBus = "SIGNAL_DONE"

ProgramCounters(stalled, insertNop, next) ==
    IF stalled THEN UNCHANGED <<fsPc, fsProgramCounter, fsInsertNop>>
    ELSE fsPc' = next /\ fsProgramCounter' = fsPc /\ fsInsertNop' = insertNop

StallRegister(dCacheStall) ==
    /\ fsStall' = (fsState # "LOOKUP" /\ (fsStall \/ (~fsHit /\ ~dCacheStall)))
    /\ fsDelayedReset' = FALSE

\* Mutant: after a refill the same address is looked up again.
LookupAddressStale(next) == IF ~fsStall THEN next ELSE fsProgramCounter

\* The address at the tag memory, and the one at the data memory.
LookupAddress(next) ==
    IF ~fsStall THEN next ELSE IF fsState = "LOOKUP" THEN fsPc ELSE fsProgramCounter
ReadAddress(stalled, next) ==
    IF fsDataIn # NoWord
    THEN [index |-> IndexOf(fsProgramCounter), word |-> fsBurstCount]
    ELSE LET pc == IF fsState = "LOOKUP" \/ stalled THEN fsPc ELSE next
         IN [index |-> IndexOf(pc), word |-> WordOf(pc)]

Cache(stalled, next) ==
    LET lookup == LookupAddress(next)
        index  == IndexOf(lookup)
        data   == ReadAddress(stalled, next)
    IN
    /\ fsHit' = IF fsState # "LOOKUP" /\ stalled THEN fsHit
                ELSE index \in fsValidBits /\ fsTags[index] = TagOf(lookup)
    /\ IF fsState = "UPDATE_TAG"
       THEN /\ fsValidBits' = fsValidBits \cup {index}
            /\ fsTags' = [fsTags EXCEPT ![index] = TagOf(lookup)]
       ELSE UNCHANGED <<fsValidBits, fsTags>>
    /\ fsLines' = IF fsDataIn = NoWord THEN fsLines
                  ELSE [fsLines EXCEPT ![data.index][data.word] = fsDataIn]
    /\ fsRead' = fsLines[data.index][data.word]

\* The instruction register, which a line fill loads while the stage stalls.
InstructionRegister(stalled) ==
    IF ~stalled \/ AckLine \/ fsDelayedReset
    THEN /\ fsValidInstruction' = ~(fsBusError /\ AckLine)
         /\ fsInstruction' = IF (fsState = "IDLE" /\ fsInsertNop) \/ fsDelayedReset THEN Nop
                             ELSE IF AckLine THEN fsFetched ELSE fsRead
    ELSE UNCHANGED <<fsInstruction, fsValidInstruction>>

FillMachine ==
    fsState' = CASE fsState = "IDLE"               -> IF fsStall THEN "REQUEST_CACHE_LINE" ELSE "IDLE"
                 [] fsState = "REQUEST_CACHE_LINE" -> "WAIT_CACHE_LINE"
                 [] fsState = "WAIT_CACHE_LINE"    -> IF AckLine THEN "UPDATE_TAG" ELSE "WAIT_CACHE_LINE"
                 [] fsState = "UPDATE_TAG"         -> "LOOKUP"
                 [] fsState = "LOOKUP"             -> "IDLE"

FsNop ==
    /\ fsBus = "NOP"
    /\ fsBus' = IF fsState = "REQUEST_CACHE_LINE" THEN "REQUEST_BUS" ELSE "NOP"

FsRequestBus(granted) ==
    /\ fsBus = "REQUEST_BUS"
    /\ fsBus' = IF granted THEN "INIT_TRANSACTION" ELSE "REQUEST_BUS"

FsInitTransaction ==
    /\ fsBus = "INIT_TRANSACTION"
    /\ fsBus' = "WAIT_BURST"

FsWaitBurst(busErrorIn, endIn) ==
    /\ fsBus = "WAIT_BURST"
    /\ fsBus' = IF busErrorIn THEN "BUS_ERROR" ELSE IF endIn THEN "SIGNAL_DONE" ELSE "WAIT_BURST"

FsBusErrorState ==
    /\ fsBus = "BUS_ERROR"
    /\ fsBus' = "SIGNAL_DONE"

FsSignalDone ==
    /\ fsBus = "SIGNAL_DONE"
    /\ fsBus' = "NOP"

FsBusMachine(granted, busErrorIn, endIn) ==
    \/ FsNop
    \/ FsRequestBus(granted)
    \/ FsInitTransaction
    \/ FsWaitBurst(busErrorIn, endIn)
    \/ FsBusErrorState
    \/ FsSignalDone

\* Mutant: a burst that was cut short leaves its count behind.
BurstRegistersNoReset(dataIn) ==
    /\ fsDataIn' = IF fsBus = "WAIT_BURST" THEN dataIn ELSE NoWord
    /\ fsBurstCount' = IF fsDataIn # NoWord THEN (fsBurstCount + 1) % WordsPerLine ELSE fsBurstCount
    /\ fsFetched' = IF fsDataIn # NoWord /\ fsBurstCount = WordOf(fsProgramCounter)
                    THEN fsDataIn ELSE fsFetched
    /\ fsBusError' = (fsBus # "INIT_TRANSACTION" /\ (fsBusError \/ fsBus = "BUS_ERROR"))

\* The registers that take the words off the bus, one clock late.
BurstRegisters(dataIn) ==
    /\ fsDataIn' = IF fsBus = "WAIT_BURST" THEN dataIn ELSE NoWord
    /\ fsBurstCount' = IF fsBus = "NOP" THEN 0
                       ELSE IF fsDataIn # NoWord THEN (fsBurstCount + 1) % WordsPerLine
                       ELSE fsBurstCount
    /\ fsFetched' = IF fsDataIn # NoWord /\ fsBurstCount = WordOf(fsProgramCounter)
                    THEN fsDataIn ELSE fsFetched
    /\ fsBusError' = (fsBus # "INIT_TRANSACTION" /\ (fsBusError \/ fsBus = "BUS_ERROR"))

\* dataIn is the word on the bus, or NoWord.
FsClock(dCacheStall, insertNop, doJump, jumpTarget, granted, busErrorIn, endIn, dataIn) ==
    LET stalled == dCacheStall \/ fsStall
        next    == NextPc(insertNop, doJump, jumpTarget)
    IN
    /\ ProgramCounters(stalled, insertNop, next)
    /\ StallRegister(dCacheStall)
    /\ Cache(stalled, next)
    /\ InstructionRegister(stalled)
    /\ FillMachine
    /\ FsBusMachine(granted, busErrorIn, endIn)
    /\ BurstRegisters(dataIn)

\* After the last clock edge with reset high.
FsInit ==
    /\ fsPc = ResetVector /\ fsProgramCounter = ResetVector
    /\ fsStall = FALSE /\ fsDelayedReset = TRUE /\ fsInsertNop = FALSE
    /\ fsState = "IDLE" /\ fsBus = "NOP"
    /\ fsHit = FALSE /\ fsValidBits = {}
    /\ fsTags \in [Indices -> Tags]
    /\ fsLines = [i \in Indices |-> [w \in 0 .. WordsPerLine - 1 |-> Junk]]
    /\ fsRead = Junk /\ fsFetched = Junk
    /\ fsDataIn = NoWord /\ fsBurstCount = 0 /\ fsBusError = FALSE
    /\ fsInstruction = Nop /\ fsValidInstruction = TRUE
=============================================================================
