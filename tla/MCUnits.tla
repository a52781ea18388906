------------------------------- MODULE MCUnits -------------------------------
(***************************************************************************)
(* Units of the hardware, each alone in an environment that may do         *)
(* anything its inputs allow: the arbiter with three request lines, the    *)
(* load/store unit, the fetch stage, the read buffer of the SDRAM          *)
(* controller, and the clock crossing of the UART's ticks.  In each        *)
(* behaviour one of them runs.                                             *)
(***************************************************************************)
EXTENDS BusArbiter, DCache, FetchStage, SdramFifo, ClockCrossing

-----------------------------------------------------------------------------
(* The arbiter with three request lines, checked against FifoArbiter.      *)

MCPowerUpMasks == {{}, Masters}

\* The queued masters, oldest first.
QueueLength ==
    LET distance == IF insertPointer >= removePointer
                    THEN insertPointer - removePointer
                    ELSE N + insertPointer - removePointer
    IN IF distance = 0 /\ queuedRequests # {} THEN N ELSE distance

QueueContent ==
    [i \in 1 .. QueueLength |->
        CHOOSE m \in queuedRequests : memory[(removePointer + i - 1) % N] = {m}]

Abstract == INSTANCE FifoArbiter WITH
    queue <- QueueContent,
    holder <- IF Tenured THEN memory[removePointer] ELSE {},
    grants <- busGrants

\* The arbiter is a fair first-come-first-served queue of requests.
ImplementsFifo == Abstract!FifoSpec

-----------------------------------------------------------------------------
(* The load/store unit alone, on a bus that may do anything.               *)

VARIABLE failed   \* history: the bus reported an error for the operation in the unit
dcAloneVars == <<dcVars, failed>>

DcHistory(iCacheStall) ==
    failed' = IF dcBus = "BUS_ERROR" THEN TRUE
              ELSE IF iCacheStall \/ dcStall THEN failed ELSE FALSE

DcAloneInit == DcInit /\ failed = FALSE

DcAloneNext ==
    \E iCacheStall, granted, busErrorIn, busyIn, endIn, dataValidIn \in BOOLEAN,
       nextOp \in Ops, dataIn \in Data :
        /\ DcClock(iCacheStall, nextOp, granted, busErrorIn, busyIn, endIn, dataValidIn, dataIn)
        /\ DcHistory(iCacheStall)

DcAloneSpec == DcAloneInit /\ [][DcAloneNext]_dcAloneVars

Port == INSTANCE LoadStorePort WITH
    Operations <- Ops \ {NoOp},
    None <- NoOp,
    pending <- IF dcStall THEN dcOp ELSE NoOp,
    performed <- dcStall /\ \/ dcBus \in {"WAIT_READ", "DO_WRITE", "END_WRITE",
                                          "BUS_ERROR", "SIG_DONE"}
                            \/ dcState = "SIGNAL_DONE"

\* Every load and store that leaves the execution stage is put on the bus
\* exactly once, whatever the fetch stage stalls and the bus does meanwhile,
\* and a failure is recorded only for an operation that is on the bus, and
\* stays until the pipeline has moved on.
ImplementsPort == Port!PortSpec

\* All registers of the load/store unit (s_stateReg, s_busStateReg, ...) stay
\* in their types.
DcTypeOK ==
    /\ exeOp \in Ops /\ dcOp \in Ops
    /\ dcStall \in BOOLEAN /\ dcCacheError \in BOOLEAN /\ dcBusError \in BOOLEAN
    /\ dcState \in DcStates /\ dcBus \in DcBusStates
    /\ dcFetched \in Data

\* When the unit releases the pipeline, s_cacheErrorReg tells the fate of the
\* operation it holds: an error of the bus is seen until the pipeline moves,
\* however long the fetch stage stalls it after the transaction, and never
\* sticks to the next operation.
ErrorReachesPipeline == ~dcStall => dcCacheError = failed

-----------------------------------------------------------------------------
(* The fetch stage with a pipeline that stalls, jumps and inserts bubbles  *)
(* at will, and a memory that answers a burst after any number of clocks,  *)
(* with gaps, or with a bus error.                                         *)

CONSTANT JumpTargets

ASSUME JumpAssumption == JumpTargets \subseteq Pcs

VARIABLES
    burst,        \* the words the memory has yet to deliver: [from, left], or NoBurst
    error,        \* the bus error wire
    failedLines   \* history: the lines whose last fill ended with an error

NoJump  == -1
NoBurst == [from |-> 0, left |-> -1]
fsAloneVars == <<fsVars, burst, error, failedLines>>

\* The wires of the bus in this clock: nothing, the next word, the end of the
\* burst (after its last word), or the error that lasts until the master ends.
Answer(dataIn, endIn) ==
    \/ dataIn = NoWord /\ ~endIn
    \/ burst.left > 0 /\ ~error /\ dataIn = burst.from /\ ~endIn
    \/ burst.left = 0 /\ ~error /\ dataIn = NoWord /\ endIn

FsMemory(dataIn, endIn) ==
    /\ burst' = IF FsBegin THEN [from |-> FsAddress, left |-> WordsPerLine]
                ELSE IF endIn \/ FsEnd THEN NoBurst
                ELSE IF dataIn # NoWord THEN [from |-> burst.from + 1, left |-> burst.left - 1]
                ELSE burst
    /\ IF burst.left > 0 /\ ~FsEnd /\ dataIn = NoWord THEN error' \in {error, TRUE}
       ELSE error' = FALSE

FsHistory ==
    failedLines' = CASE fsState = "UPDATE_TAG" /\ fsBusError -> failedLines \cup {LineOf(fsProgramCounter)}
                     [] fsState = "UPDATE_TAG" /\ ~fsBusError -> failedLines \ {LineOf(fsProgramCounter)}
                     [] OTHER -> failedLines

\* jump is the target of a jump, or NoJump.
FsAloneClock(dCacheStall, insertNop, jump, granted, dataIn, endIn) ==
    /\ granted => FsRequest
    /\ Answer(dataIn, endIn)
    /\ FsClock(dCacheStall, insertNop, jump # NoJump, jump, granted, error, endIn, dataIn)
    /\ FsMemory(dataIn, endIn)
    /\ FsHistory

FsAloneInit == FsInit /\ burst = NoBurst /\ error = FALSE /\ failedLines = {}

FsAloneNext ==
    \E dCacheStall, insertNop, granted, endIn \in BOOLEAN,
       jump \in JumpTargets \cup {NoJump}, dataIn \in {burst.from, NoWord} :
        FsAloneClock(dCacheStall, insertNop, jump, granted, dataIn, endIn)

FsAloneSpec == FsAloneInit /\ [][FsAloneNext]_fsAloneVars

FsTypeOK ==
    /\ fsPc \in Pcs /\ fsProgramCounter \in Pcs
    /\ fsState \in FsStates /\ fsBus \in FsBusStates
    /\ fsValidBits \subseteq Indices /\ fsTags \in [Indices -> Tags]
    /\ \A i \in Indices : \A w \in 0 .. WordsPerLine - 1 : fsLines[i][w] \in FsWords
    /\ fsRead \in FsWords /\ fsFetched \in FsWords /\ fsInstruction \in FsWords \cup {Nop}
    /\ fsDataIn \in Pcs \cup {NoWord} /\ fsBurstCount \in 0 .. WordsPerLine - 1
    /\ {fsStall, fsDelayedReset, fsInsertNop, fsHit, fsBusError, fsValidInstruction} \subseteq BOOLEAN

\* What the decode stage gets while it is not stalled is a bubble or the word
\* that memory holds at the program counter that goes with it: over misses,
\* refills of a line by another, jumps into a line being filled and stalls of
\* the data cache at any moment.  Only a line whose fill ended in a bus error
\* may hold other words, since its tag is written all the same.
InstructionCorrect ==
    ~FsStallOut /\ fsValidInstruction =>
        \/ fsInstruction \in {Nop, fsProgramCounter}
        \/ LineOf(fsProgramCounter) \in failedLines

\* A fetch that ended in a bus error reaches the decode stage as invalid.
FailedFetchInvalid ==
    fsState \in {"UPDATE_TAG", "LOOKUP"} /\ fsBusError => ~fsValidInstruction

\* What the fetch stage hands to the decode stage can be trusted: the right word
\* where it says valid, over misses, refills, jumps and stalls at any moment, and
\* invalid where the bus reported an error.
FetchTruthful == InstructionCorrect /\ FailedFetchInvalid

\* A line that is valid and that is not being filled holds the words of its
\* address.
LinesMatchTags ==
    \A pc \in Pcs :
        LET i == IndexOf(pc) IN
        /\ i \in fsValidBits /\ fsTags[i] = TagOf(pc)
        /\ LineOf(pc) \notin failedLines
        /\ fsState = "IDLE"
        => fsLines[i][WordOf(pc)] = pc

-----------------------------------------------------------------------------
(* One of the units at a time.                                             *)

VARIABLE part
unitVars == <<part, vars, dcAloneVars, fsAloneVars, rfVars, xcVars>>

Frozen ==
    /\ UNCHANGED part
    /\ IF part = "arbiter" THEN TRUE ELSE UNCHANGED vars
    /\ IF part = "load/store" THEN TRUE ELSE UNCHANGED dcAloneVars
    /\ IF part = "fetch" THEN TRUE ELSE UNCHANGED fsAloneVars
    /\ IF part = "buffer" THEN TRUE ELSE UNCHANGED rfVars
    /\ IF part = "ticks" THEN TRUE ELSE UNCHANGED xcVars

UnitsInit ==
    /\ part \in {"arbiter", "load/store", "fetch", "buffer", "ticks"}
    /\ Init /\ DcAloneInit /\ FsAloneInit /\ RfInit /\ XcInit
    \* What a part that does not run starts with makes no difference.
    /\ part # "arbiter" => grantMask = {} /\ \A s \in Slots : memory[s] = {}
    /\ part # "load/store" => ~dcBusError /\ dcFetched = "w1"
    /\ part # "fetch" => \A i \in Indices : fsTags[i] = 0
    /\ part # "buffer" => rfOut = "w1" /\ \A e \in Entries : rfMemory[e] = "w1"
    /\ part # "ticks" => xcDivisor = 27

UnitsNext ==
    /\ Frozen
    /\ \/ part = "arbiter" /\ Next
       \/ part = "load/store" /\ DcAloneNext
       \/ part = "fetch" /\ FsAloneNext
       \/ part = "buffer" /\ RfNext
       \/ part = "ticks" /\ XcNext

UnitsSpec == UnitsInit /\ [][UnitsNext]_unitVars /\ (part = "arbiter" => WF_vars(Next))

\* The registers of all five units stay in their types.
TypesOK == TypeOK /\ DcTypeOK /\ FsTypeOK /\ RfTypeOK /\ XcTypeOK
=============================================================================
