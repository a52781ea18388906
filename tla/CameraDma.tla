------------------------------ MODULE CameraDma ------------------------------
(***************************************************************************)
(* The camera interface (modules/camera/verilog/camera.v): the sensor      *)
(* fills a line buffer, and when a line is complete a master copies it to  *)
(* the frame buffer in bursts.  The program controls the grabber with      *)
(* custom instructions.  One step per clock of the bus; the words that the *)
(* sensor writes at its own clock come between two clocks of the bus.      *)
(*                                                                         *)
(* The counters that measure the sensor are left out, apart from the words *)
(* per line.  Addresses count words.                                       *)
(***************************************************************************)
EXTENDS Integers

CONSTANTS
    CameraBurst,    \* words of the longest burst (16 in the code)
    LineWords,      \* words of a line of the sensor
    LinePlaces,     \* words of the line buffer (512 in the code)
    FrameBuffers    \* the addresses that the program gives to frame buffers

ASSUME CameraAssumption ==
    /\ CameraBurst \in Nat \ {0} /\ LineWords \in Nat \ {0}
    /\ LinePlaces \in Nat /\ LineWords <= LinePlaces
    /\ FrameBuffers \subseteq Nat

VARIABLES
    \* control
    cmBase,         \* s_frameBufferBaseReg
    cmActive,       \* s_grabberActiveReg
    cmSingle,       \* s_grabberSingleShotReg
    cmRunning,      \* s_grabberRunningReg
    cmAction,       \* s_singleShotActionReg
    cmDone,         \* s_singleShotDoneReg
    \* the line buffer
    cmLine,         \* its contents
    cmShown,        \* s_busPixelWord
    cmSelect,       \* s_busSelectReg
    \* the master
    cmState,        \* s_stateMachineReg
    cmAddress,      \* s_busAddressReg
    cmLeft,         \* s_nrOfPixelsPerLineReg: words of the line that are left
    cmCount,        \* s_burstCountReg as a signed number
    cmOut,          \* s_addressDataOutReg
    cmValid,        \* s_dataValidReg
    cmBegin, cmEnd, \* outputs
    cmWords         \* burstSizeOut + 1

cmControlVars == <<cmBase, cmActive, cmSingle, cmRunning, cmAction, cmDone>>
cmVars == <<cmControlVars, cmLine, cmShown, cmSelect, cmState, cmAddress, cmLeft, cmCount,
            cmOut, cmValid, cmBegin, cmEnd, cmWords>>

CmStates == {"IDLE", "REQUEST_BUS1", "INIT_BURST1", "DO_BURST1", "END_TRANS1", "END_TRANS2"}

NoPixels == -1      \* an empty cell of the line buffer, or no word on the wires

-----------------------------------------------------------------------------
(* Control.                                                                *)

\* The custom instructions: those that change something, and "poll" (7), which
\* reads whether the single image is done and changes nothing.
Commands == [name : {"none", "start", "stop", "single", "poll"}] \cup [name : {"base"}, address : FrameBuffers]

\* Mutant: the image is reported when its first line comes.
CmControlDoneEarly(command, newScreen) ==
    /\ cmBase' = IF command.name = "base" THEN command.address ELSE cmBase
    /\ cmActive' = IF command.name \in {"start", "stop", "single"} THEN command.name = "start"
                   ELSE cmActive
    /\ cmSingle' = IF cmAction[1] THEN FALSE
                   ELSE IF command.name \in {"start", "stop", "single"} THEN command.name = "single"
                   ELSE cmSingle
    /\ cmRunning' = IF newScreen THEN cmActive ELSE cmRunning
    /\ cmAction' = IF cmAction[2] THEN <<FALSE, FALSE>>
                   ELSE IF newScreen THEN <<cmSingle, cmAction[1]>> ELSE cmAction
    /\ cmDone' = (command.name # "single" /\ (cmAction[1] \/ cmDone))

CmControl(command, newScreen) ==
    /\ cmBase' = IF command.name = "base" THEN command.address ELSE cmBase
    /\ cmActive' = IF command.name \in {"start", "stop", "single"} THEN command.name = "start"
                   ELSE cmActive
    /\ cmSingle' = IF cmAction[1] THEN FALSE
                   ELSE IF command.name \in {"start", "stop", "single"} THEN command.name = "single"
                   ELSE cmSingle
    /\ cmRunning' = IF newScreen THEN cmActive ELSE cmRunning
    /\ cmAction' = IF cmAction[2] THEN <<FALSE, FALSE>>
                   ELSE IF newScreen THEN <<cmSingle, cmAction[1]>> ELSE cmAction
    /\ cmDone' = (command.name # "single" /\ (cmAction[2] \/ cmDone))

-----------------------------------------------------------------------------
(* The master.                                                             *)

\* s_burstSizeNext
NextBurst ==
    IF cmState = "INIT_BURST1" /\ cmLeft > CameraBurst THEN CameraBurst ELSE cmLeft

BurstOver == cmCount < 0

\* s_doWrite: a word of the line buffer goes out.
CmWrites(busy) == cmState = "DO_BURST1" /\ ~BurstOver /\ ~busy

CmRequest == cmState = "REQUEST_BUS1"

CmIdle(newLine) ==
    /\ cmState = "IDLE"
    /\ cmState' = IF (cmRunning \/ cmAction[1]) /\ newLine THEN "REQUEST_BUS1" ELSE "IDLE"

CmRequestBus(granted) ==
    /\ cmState = "REQUEST_BUS1"
    /\ cmState' = IF granted THEN "INIT_BURST1" ELSE "REQUEST_BUS1"

CmInitBurst == cmState = "INIT_BURST1" /\ cmState' = "DO_BURST1"

CmDoBurst(error, busy) ==
    /\ cmState = "DO_BURST1"
    /\ cmState' = IF error THEN "END_TRANS2"
                  ELSE IF BurstOver /\ ~busy THEN "END_TRANS1" ELSE "DO_BURST1"

CmEndBurst ==
    \/ cmState = "END_TRANS1" /\ cmState' = IF cmLeft # 0 THEN "REQUEST_BUS1" ELSE "IDLE"
    \/ cmState = "END_TRANS2" /\ cmState' = "IDLE"

\* Mutant: the words of a burst stay to be done.
CmPositionRepeats(busy, newScreen, newLine) ==
    /\ cmAddress' = IF newScreen THEN cmBase
                    ELSE IF CmWrites(busy) THEN cmAddress + 1 ELSE cmAddress
    /\ cmSelect' = IF cmState = "IDLE" THEN 0
                   ELSE IF CmWrites(busy) THEN (cmSelect + 1) % LinePlaces ELSE cmSelect
    /\ cmLeft' = IF newLine THEN LineWords
                 ELSE IF cmState = "INIT_BURST1" THEN cmLeft - 1 ELSE cmLeft
    /\ cmCount' = IF cmState = "INIT_BURST1" THEN NextBurst - 1
                  ELSE IF CmWrites(busy) THEN cmCount - 1 ELSE cmCount

\* Where the master is in the frame, the line and the burst.
CmPosition(busy, newScreen, newLine) ==
    /\ cmAddress' = IF newScreen THEN cmBase
                    ELSE IF CmWrites(busy) THEN cmAddress + 1 ELSE cmAddress
    /\ cmSelect' = IF cmState = "IDLE" THEN 0
                   ELSE IF CmWrites(busy) THEN (cmSelect + 1) % LinePlaces ELSE cmSelect
    /\ cmLeft' = IF newLine THEN LineWords
                 ELSE IF cmState = "INIT_BURST1" THEN cmLeft - NextBurst ELSE cmLeft
    /\ cmCount' = IF cmState = "INIT_BURST1" THEN NextBurst - 1
                  ELSE IF CmWrites(busy) THEN cmCount - 1 ELSE cmCount

\* Mutant: a word is not held while the memory is busy.
CmOutputsNoHold(busy) ==
    /\ cmBegin' = (cmState = "INIT_BURST1")
    /\ cmWords' = IF cmState = "INIT_BURST1" THEN NextBurst ELSE 1
    /\ cmEnd' = (cmState \in {"END_TRANS1", "END_TRANS2"})
    /\ cmOut' = IF cmState = "INIT_BURST1" THEN cmAddress
                ELSE IF CmWrites(busy) THEN cmShown
                ELSE NoPixels
    /\ cmValid' = (CmWrites(busy) \/ (busy /\ cmValid))

CmOutputs(busy) ==
    /\ cmBegin' = (cmState = "INIT_BURST1")
    /\ cmWords' = IF cmState = "INIT_BURST1" THEN NextBurst ELSE 1
    /\ cmEnd' = (cmState \in {"END_TRANS1", "END_TRANS2"})
    /\ cmOut' = IF cmState = "INIT_BURST1" THEN cmAddress
                ELSE IF CmWrites(busy) THEN cmShown
                ELSE IF busy THEN cmOut ELSE NoPixels
    /\ cmValid' = (CmWrites(busy) \/ (busy /\ cmValid))

\* The line buffer: the sensor writes [place, pixels], the bus side reads,
\* one clock late, at its own place.
CmLineBuffer(written) ==
    /\ cmLine' = IF written.place \in DOMAIN cmLine
                 THEN [cmLine EXCEPT ![written.place] = written.pixels] ELSE cmLine
    /\ cmShown' = cmLine[cmSelect]

CmClock(command, granted, error, busy, newScreen, newLine, written) ==
    /\ CmControl(command, newScreen)
    /\ CmIdle(newLine) \/ CmRequestBus(granted) \/ CmInitBurst \/ CmDoBurst(error, busy) \/ CmEndBurst
    /\ CmPosition(busy, newScreen, newLine)
    /\ CmOutputs(busy)
    /\ CmLineBuffer(written)

CmInit ==
    /\ cmBase = 0 /\ cmActive = FALSE /\ cmSingle = FALSE /\ cmRunning = FALSE
    /\ cmAction = <<FALSE, FALSE>> /\ cmDone = FALSE
    /\ cmLine = [place \in 0 .. LinePlaces - 1 |-> NoPixels] /\ cmShown = NoPixels /\ cmSelect = 0
    /\ cmState = "IDLE" /\ cmAddress = 0 /\ cmLeft = 0 /\ cmCount = -1
    /\ cmOut = NoPixels /\ cmValid = FALSE /\ cmBegin = FALSE /\ cmEnd = FALSE /\ cmWords = 1
=============================================================================
