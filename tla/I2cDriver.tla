------------------------------ MODULE I2cDriver ------------------------------
(***************************************************************************)
(* The programs that reach devices over I2C (rtc.c, ov7670.c): a read is   *)
(* repeated while it is not acknowledged, up to four times; the result of  *)
(* a write goes nowhere.  The clock chip changes its registers by itself.  *)
(***************************************************************************)
EXTENDS I2cMaster

CONSTANTS
    IdCalls,        \* bound: calls of the two routines
    IdChanges       \* bound: changes that the device makes by itself

VARIABLES
    idAt,           \* "program", "read" or "write"
    idRetry,        \* retry
    idRequest,      \* the operand of the instruction
    idResult,       \* what the last read returned
    idSeen,         \* history: values the register has had since the read was called
    idCalled,       \* bound
    idChanged       \* bound

idVars == <<imVars, cuVars, idAt, idRetry, idRequest, idResult, idSeen, idCalled, idChanged>>

IdNone == [error |-> TRUE, data |-> 0]

IdTypeOK ==
    /\ ImTypeOK
    /\ idAt \in {"program", "read", "write"} /\ idRetry \in 0 .. 4
    /\ idRequest \in ImRequests /\ idResult \in ImResults /\ idSeen \subseteq ImValues
    /\ idCalled \in 0 .. IdCalls /\ idChanged \in 0 .. IdChanges

IdInit ==
    /\ ImInit /\ CuInit(IdNone)
    /\ idAt = "program" /\ idRetry = 0
    /\ idRequest = [read |-> FALSE, reg |-> 0, value |-> 0]
    /\ idResult = IdNone /\ idSeen = {} /\ idCalled = 0 /\ idChanged = 0

\* A call of readRtcRegister or readOv7670Register, or of one of the two writes.
IdCall(request) ==
    /\ idAt = "program" /\ ~cuCustom /\ idCalled < IdCalls
    /\ idAt' = IF request.read THEN "read" ELSE "write"
    /\ idRequest' = request /\ idRetry' = 0 /\ idCalled' = idCalled + 1
    /\ idSeen' = {imDevice.regs[request.reg]}
    /\ UNCHANGED idResult

\* retry < 4 && (result & 0x80000000) != 0, after retry++.
IdAgain(result) == idRetry + 1 < 4 /\ result.error

\* The instruction leaves the execute stage.
IdFinish(result) ==
    /\ idRetry' = IF idAt = "read" THEN idRetry + 1 ELSE idRetry
    /\ idAt' = IF idAt = "read" /\ IdAgain(result) THEN "read" ELSE "program"
    /\ idResult' = IF idAt = "read" THEN result ELSE idResult
    /\ idSeen' = idSeen \cup {imDevice.regs[idRequest.reg]}
    /\ UNCHANGED <<idRequest, idCalled>>

\* One clock; the pipeline may be stalled by something else. The instruction
\* follows some other instruction of the routine.
IdClock(other) ==
    LET stall == other \/ CuStall(imDone) IN
    /\ ImClock(cuStart, idRequest)
    /\ IF ~stall /\ cuCustom
       THEN IdFinish(CuResult(ImResult)) /\ CuClock(stall, imDone, ImResult, FALSE)
       ELSE \/ /\ CuClock(stall, imDone, ImResult, idAt # "program" /\ ~cuCustom)
               /\ idSeen' = idSeen \cup {imDevice.regs[idRequest.reg]}
               /\ UNCHANGED <<idAt, idRetry, idRequest, idResult, idCalled>>
            \/ /\ CuClock(stall, imDone, ImResult, FALSE)
               /\ \E request \in ImRequests : IdCall(request)
    /\ UNCHANGED idChanged

\* External: the clock chip counts.
IdDeviceChanges(r, v) ==
    /\ idChanged < IdChanges /\ idChanged' = idChanged + 1
    /\ imDevice' = [imDevice EXCEPT !.regs[r] = v]
    /\ idSeen' = IF r = idRequest.reg THEN idSeen \cup {v} ELSE idSeen
    /\ UNCHANGED <<imState, imSampled, imPending, imFirst, imIsRead, imAckError, imData, imIn,
                   imStarted, imOldBusy, imDone, cuVars, idAt, idRetry, idRequest, idResult,
                   idCalled>>

IdNext ==
    \/ \E other \in BOOLEAN : IdClock(other)
    \/ \E r \in ImRegisters, v \in ImValues : IdDeviceChanges(r, v)

IdSpec == IdInit /\ [][IdNext]_idVars
\* The clock divider runs, and other stalls end.
IdTick == \E other \in BOOLEAN : IdClock(other) /\ (ImSample \/ ImAdvance)
IdReleased == idAt # "program" /\ ~CuStall(imDone) /\ IdClock(FALSE)
IdFairness == WF_idVars(IdTick) /\ WF_idVars(IdReleased)

-----------------------------------------------------------------------------
(* Correctness.                                                            *)

\* A read that returns without the error bit returns a value the register had
\* during the call, whatever bytes the device refused before.
ReadReturnsRegister ==
    idAt = "program" /\ idRequest.read /\ idRetry > 0 /\ ~idResult.error
        => idResult.data \in idSeen

\* Nothing but a write of the program changes a register of the device from
\* outside: the register and the value of the write it is at.
WritesAsAsked ==
    [][\A r \in ImRegisters :
        imDevice'.regs[r] # imDevice.regs[r] /\ idChanged' = idChanged =>
            /\ idAt = "write" /\ cuCustom /\ r = idRequest.reg
            /\ imDevice'.regs[r] = idRequest.value]_idVars

\* Every call returns: a device that never acknowledges ends a read after four
\* attempts, and the pipeline is released after every instruction.
CallReturns == idAt # "program" ~> idAt = "program"

\* The device is read and written as the program asks, although any byte may be
\* refused and the device changes by itself.
DeviceAsAsked == []ReadReturnsRegister /\ WritesAsAsked
=============================================================================
