------------------------------ MODULE I2cMaster ------------------------------
(***************************************************************************)
(* The I2C master and the custom instruction in front of it (i2cMaster.v,  *)
(* i2cCustomInstr.v).  A byte on the wire is one state; each state is left *)
(* when the clock divider says so, after the sample of its last bit.  The  *)
(* device is external: it may refuse any byte.                             *)
(***************************************************************************)
EXTENDS Integers

CONSTANTS
    ImRegisters,    \* of the device
    ImValues        \* of a register

VARIABLES
    imState,        \* s_stateMachineReg, the bits of a byte taken together
    imSampled,      \* the bit of this state has been sampled
    imPending,      \* s_actionPendingReg
    imFirst,        \* s_firstReadPassReg
    imIsRead,       \* s_isReadActionReg
    imAckError,     \* s_ackErrorReg
    imData,         \* s_dataOutReg
    imIn,           \* s_inDataReg: what the instruction asked for
    imStarted,      \* s_startedI2cReg
    imOldBusy,      \* s_oldBusyReg
    imDone,         \* s_doneReg
    imDevice        \* external: what the device is at, its pointer, its registers

imVars == <<imState, imSampled, imPending, imFirst, imIsRead, imAckError, imData, imIn, imStarted,
            imOldBusy, imDone, imDevice>>

ImStates == {"IDLE", "SENDSTART", "ADDRESS", "ACK1", "REGISTER", "ACK2", "DATA", "ACK3", "SENDSTOP"}
ImRequests == [read : BOOLEAN, reg : ImRegisters, value : ImValues]
ImResults == [error : BOOLEAN, data : ImValues]

ImTypeOK ==
    /\ imState \in ImStates /\ imSampled \in BOOLEAN
    /\ imPending \in BOOLEAN /\ imFirst \in BOOLEAN /\ imIsRead \in BOOLEAN
    /\ imAckError \in BOOLEAN /\ imData \in ImValues /\ imIn \in ImRequests
    /\ imStarted \in BOOLEAN /\ imOldBusy \in BOOLEAN /\ imDone \in BOOLEAN
    /\ imDevice \in [at : {"free", "addressed", "pointed", "sending"}, pointer : ImRegisters,
                     regs : [ImRegisters -> ImValues]]

ImInit ==
    /\ imState = "IDLE" /\ imSampled = FALSE
    /\ imPending = FALSE /\ imFirst = FALSE /\ imIsRead = FALSE /\ imAckError = FALSE
    /\ imData \in ImValues /\ imIn = [read |-> FALSE, reg |-> 0, value |-> 0]
    /\ imStarted = FALSE /\ imOldBusy = FALSE /\ imDone = FALSE
    /\ imDevice \in [at : {"free"}, pointer : {0}, regs : [ImRegisters -> ImValues]]

\* The results of all units are put together with an or: 0 while not done.
ImResult ==
    IF imDone THEN [error |-> imAckError, data |-> imData] ELSE [error |-> FALSE, data |-> 0]

ImBusy == imState # "IDLE" \/ imPending

\* s_isMyCi.
ImAccepts(start) == start /\ ~imStarted

\* A read stays pending through its first pass, which only sends the register.
ImPendingNext(accepts) ==
    ~(imState # "IDLE" /\ ~imFirst) /\ (accepts \/ imPending)

ImFirstNext(accepts, request, advance) ==
    /\ ~(advance /\ imState = "SENDSTOP")
    /\ ~(advance /\ imState \in {"ACK1", "ACK2"} /\ imAckError)
    /\ (accepts /\ request.read) \/ imFirst

\* Mutant: the kind of the action is not kept.
ImIsReadNextWrites(accepts, request) == FALSE

ImIsReadNext(accepts, request) == IF accepts THEN request.read ELSE imIsRead

\* The state after this one.
ImFollowing ==
    CASE imState = "IDLE" -> IF imPending THEN "SENDSTART" ELSE "IDLE"
      [] imState = "SENDSTART" -> "ADDRESS"
      [] imState = "ADDRESS" -> "ACK1"
      [] imState = "ACK1" -> IF imAckError THEN "SENDSTOP"
                             ELSE IF ~imIsRead \/ imFirst THEN "REGISTER" ELSE "DATA"
      [] imState = "REGISTER" -> "ACK2"
      [] imState = "ACK2" -> IF imAckError \/ imFirst THEN "SENDSTOP" ELSE "DATA"
      [] imState = "DATA" -> "ACK3"
      [] imState = "ACK3" -> "SENDSTOP"
      [] imState = "SENDSTOP" -> "IDLE"

\* The acknowledge bits that the master looks at.
ImLooksAtAck == imState \in {"ACK1", "ACK2"} \/ (imState = "ACK3" /\ ~imIsRead)

\* External: the device hears the byte that ends in this state. In ACK1 it has
\* been addressed for reading or for writing (bit DIR).
ImDeviceAfter(accepted) ==
    CASE imState = "SENDSTART" \/ imState = "SENDSTOP" -> [imDevice EXCEPT !.at = "free"]
      [] imState = "ACK1" /\ accepted ->
            [imDevice EXCEPT !.at = IF imIsRead /\ ~imFirst THEN "sending" ELSE "addressed"]
      [] imState = "ACK2" /\ accepted /\ imDevice.at = "addressed" ->
            [imDevice EXCEPT !.at = "pointed", !.pointer = imIn.reg]
      [] imState = "ACK3" /\ accepted /\ imDevice.at = "pointed" ->
            [imDevice EXCEPT !.regs[imDevice.pointer] = imIn.value]
      [] OTHER -> imDevice

\* The sample of a bit (s_clockCountReg = 2): the data, or an acknowledge, which
\* a device that does not listen leaves high.
ImSample ==
    /\ imSampled' = TRUE /\ ~imSampled
    /\ imData' = IF imState # "DATA" THEN imData
                 ELSE IF imIsRead THEN imDevice.regs[imDevice.pointer] ELSE imIn.value
    /\ \E accepted \in BOOLEAN :
        /\ imAckError' = IF ImLooksAtAck THEN ~accepted ELSE imAckError
        /\ imDevice' = ImDeviceAfter(accepted)
    /\ UNCHANGED imState

ImAdvance ==
    /\ imSampled /\ imSampled' = FALSE
    /\ imState' = ImFollowing
    /\ UNCHANGED <<imAckError, imData, imDevice>>

\* One clock of the instruction and the master.
ImClock(start, request) ==
    LET accepts == ImAccepts(start) IN
    /\ imIsRead' = ImIsReadNext(accepts, request)
    /\ imIn' = IF accepts THEN request ELSE imIn
    /\ imPending' = ImPendingNext(accepts)
    /\ imStarted' = (~imDone /\ (accepts \/ imStarted))
    /\ imOldBusy' = ImBusy
    /\ imDone' = (imOldBusy /\ ~ImBusy)
    /\ \/ ImSample /\ imFirst' = ImFirstNext(accepts, request, FALSE)
       \/ ImAdvance /\ imFirst' = ImFirstNext(accepts, request, TRUE)
       \/ /\ imFirst' = ImFirstNext(accepts, request, FALSE)
          /\ UNCHANGED <<imState, imSampled, imAckError, imData, imDevice>>

-----------------------------------------------------------------------------
(* How the pipeline starts a custom instruction and takes its result       *)
(* (decodeStage.v, executeStage.v): a start pulse of one clock, a stall    *)
(* until the unit is done, and a register for a result that comes while    *)
(* something else stalls the pipeline.                                     *)

VARIABLES
    cuCustom,       \* s_isCustomReg: the execute stage has a custom instruction
    cuStart,        \* s_startReg
    cuDone,         \* s_doneReg
    cuExtended,     \* s_extendedDoneReg
    cuSaved,        \* s_savedCiDataReg
    cuSavedValid    \* s_savedCiValidReg

cuVars == <<cuCustom, cuStart, cuDone, cuExtended, cuSaved, cuSavedValid>>

CuInit(result) ==
    /\ cuCustom = FALSE /\ cuStart = FALSE /\ cuDone = TRUE /\ cuExtended = FALSE
    /\ cuSaved = result /\ cuSavedValid = FALSE

\* Mutant: a unit that was done during another stall is forgotten.
CuStallForgets(done) == cuCustom /\ ~(done /\ ~cuDone) /\ (~done \/ ~cuDone)

\* customInstructionStall.
CuStall(done) ==
    /\ cuCustom /\ ~cuExtended
    /\ ~done \/ ~cuDone
    /\ ~(done /\ ~cuDone)

\* s_customResult.
CuResult(result) == IF cuSavedValid THEN cuSaved ELSE result

\* One clock; next: the instruction behind is a custom instruction.
CuClock(stall, done, result, next) ==
    /\ cuCustom' = IF stall THEN cuCustom ELSE next
    /\ cuStart' = (~stall /\ next)
    /\ cuDone' = (done \/ (~cuStart /\ cuDone))
    /\ cuExtended' = (stall /\ (done \/ cuExtended))
    /\ cuSaved' = IF stall /\ done THEN result ELSE cuSaved
    /\ cuSavedValid' = (stall /\ (done \/ cuSavedValid))
=============================================================================
