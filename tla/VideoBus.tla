------------------------------- MODULE VideoBus -------------------------------
(***************************************************************************)
(* The bus of systems/singleCore/verilog/or1420SingleCore.v with the two   *)
(* masters that move pictures: the camera interface, which copies lines of *)
(* the sensor to the memory, and the graphics controller, which fetches    *)
(* lines of the screen.  The processor takes part as the master that       *)
(* writes and reads the registers of the graphics controller.              *)
(*                                                                         *)
(* The addresses from ScreenBase on hold a picture: each word is           *)
(* represented by its address.  Negative addresses belong to nobody.       *)
(***************************************************************************)
EXTENDS BusArbiter, GraphicsDma, CameraDma, FrameMemory

CONSTANTS
    CameraLine,     \* the request lines: s_busRequests[28],
    ScreenLine,     \* s_busRequests[29]
    CpuLine,        \* and s_busRequests[31]
    RegisterOps,    \* what the processor does with the graphics controller
    ScreenEvents,   \* pulses of the screen: "none", "line", "screen"
    ScreenLines,    \* lines of the screen
    CameraCommands, \* the custom instructions of the program
    SensorEvents,   \* of the sensor: "none", "word", "line", "frame"
    SensorLines,    \* lines of an image
    FrameArea       \* words of the memory that are looked at

\* A master has two clocks to begin after its grant, the program writes only
\* registers that exist and gives only instructions that exist, and the words that are
\* looked at include those of every frame buffer.
ASSUME VideoAssumption ==
    /\ CameraLine # ScreenLine /\ CameraLine # CpuLine /\ ScreenLine # CpuLine
    /\ Timeout >= 2
    /\ RegisterOps \subseteq [read : BOOLEAN, reg : {"width", "height", "mode", "base"},
                             value : Int, flag : BOOLEAN]
    /\ CameraCommands \subseteq Commands
    /\ SensorLines \in Nat /\ ScreenLines \in Nat
    /\ FrameArea \in Nat
    /\ \A b \in FrameBuffers \cup {0} : b + SensorLines * LineWords <= FrameArea

VARIABLES
    cpState, cpOp,  \* the processor's access
    scLine,         \* lines of the screen that have begun since the last new screen
    scBuffers,      \* the two line buffers of the screen, forgotten when a line
                    \* is disturbed (what is in them then is nobody's business)
    scBase,         \* history: the base and the registers when the screen began
    scDisturbed,    \* history: a line came late, failed, or the registers changed
    snLine, snSent, \* the sensor: the line, and the words of it that are sent
    frame,          \* the memory: which image each word comes from
    snBase,         \* history: the frame buffers of <<this image, the last one>>
    pgTold,         \* history: the program has read that its single image is
                    \* done, and asked for no other one since
    snTrouble       \* history of <<this image, the last one>>: "clean", or "late"
                    \* (also after an error), or begun during a transfer, "overlap"

videoVars == <<vars, grVars, cmVars, fmVars, cpState, cpOp, scLine, scBuffers, scBase,
               scDisturbed, snLine, snSent, frame, snBase, pgTold, snTrouble>>

FrameWords == SensorLines * LineWords

-----------------------------------------------------------------------------
(* The wires.                                                              *)

CpuBegin == cpState = "begin"
CpuEnd   == cpState = "end"
CpuData  == cpState = "data"

Requests ==
    (IF cpState = "request" THEN {CpuLine} ELSE {})
      \cup (IF GrRequest THEN {ScreenLine} ELSE {}) \cup (IF CmRequest THEN {CameraLine} ELSE {})

Begin == CpuBegin \/ grBegin \/ cmBegin
End   == CpuEnd \/ grAnswer \/ cmEnd \/ fmEnd \/ endTransactionOut
Valid == CpuData \/ grAnswer \/ cmValid \/ fmValid
Busy  == FmBusy(Valid)

Word == CASE fmValid -> fmWord
          [] cmValid -> cmOut
          [] CpuData -> cpOp
          [] OTHER -> grOut

\* What the slaves see of the transaction that begins.
MemoryAccess ==
    IF grBegin THEN [mine |-> grOut >= 0, read |-> TRUE, address |-> grOut, words |-> grWords]
    ELSE IF cmBegin THEN [mine |-> TRUE, read |-> FALSE, address |-> cmOut, words |-> cmWords]
    ELSE NoAccess
RegisterAccess ==
    IF CpuBegin /\ ~grBegin /\ ~cmBegin
    THEN [mine |-> TRUE, read |-> cpOp.read, reg |-> cpOp.reg] ELSE NotSelected

-----------------------------------------------------------------------------
(* The processor: an access as the load/store unit makes it.               *)

NoRegisterOp == [read |-> TRUE, reg |-> "none", value |-> 0, flag |-> FALSE]

Processor ==
    \/ /\ cpState = "rest"
       /\ \/ UNCHANGED <<cpState, cpOp>>
          \/ cpOp' \in RegisterOps /\ cpState' = "request"
    \/ /\ cpState = "request"
       /\ cpState' = IF CpuLine \in busGrants THEN "begin" ELSE "request"
       /\ UNCHANGED cpOp
    \/ /\ cpState = "begin"
       /\ cpState' = IF cpOp.read THEN "wait" ELSE "data"
       /\ UNCHANGED cpOp
    \/ /\ cpState = "data"
       /\ cpState' = "end"
       /\ UNCHANGED cpOp
    \/ /\ cpState = "wait"
       /\ cpState' = IF busErrorOut THEN "end" ELSE IF End THEN "rest" ELSE "wait"
       /\ cpOp' = IF cpState' = "rest" THEN NoRegisterOp ELSE cpOp
    \/ /\ cpState = "end"
       /\ cpState' = "rest" /\ cpOp' = NoRegisterOp

-----------------------------------------------------------------------------
(* The screen.                                                             *)

NewScreen(event) == event = "screen"
NewLine(event)   == event = "line"

ScreenEventPossible(event) ==
    CASE event = "line" -> scLine \in 0 .. ScreenLines - 1
      [] event = "screen" -> scLine \in {-1, ScreenLines}
      [] OTHER -> TRUE

EmptyBuffers == [b \in {0, 1} |-> [p \in 0 .. BufferWords - 1 |-> Nothing]]

Screen(event) ==
    /\ event \in ScreenEvents /\ ScreenEventPossible(event)
    /\ scLine' = CASE event = "screen" -> 0 [] event = "line" -> scLine + 1 [] OTHER -> scLine
    /\ scBase' = IF event = "screen" THEN grSetup.base ELSE scBase
    /\ scDisturbed' =
         \/ grWrite
         \/ event # "none" /\ grState # "IDLE"
         \/ busErrorOut /\ GrReads
         \/ scDisturbed /\ event # "screen"
    /\ scBuffers' = IF scDisturbed' THEN EmptyBuffers
                    ELSE IF GrBufferWrite
                    THEN [scBuffers EXCEPT ![grWriteIndex][GrBufferPlace] = GrBufferWord]
                    ELSE scBuffers

-----------------------------------------------------------------------------
(* The sensor of the camera and the frame buffer.                          *)

SensorEventPossible(event) ==
    CASE event = "word"  -> snLine \in 0 .. SensorLines - 1 /\ snSent < LineWords
      [] event = "line"  -> snLine \in 0 .. SensorLines - 1 /\ snSent = LineWords
      [] event = "frame" -> snLine \in {-1, SensorLines}
      [] OTHER -> TRUE

\* The pixels of a word, and those of the word that belongs at a place.
Pixels(line, place) == LineWords * line + place

Written(event) ==
    IF event = "word" THEN [place |-> snSent, pixels |-> Pixels(snLine, snSent)]
    ELSE [place |-> NoPixels, pixels |-> NoPixels]

Sensor(event) ==
    /\ event \in SensorEvents /\ SensorEventPossible(event)
    /\ snLine' = CASE event = "frame" -> 0 [] event = "line" -> snLine + 1 [] OTHER -> snLine
    /\ snSent' = CASE event = "word" -> snSent + 1 [] event = "line" -> 0 [] OTHER -> snSent
    /\ snBase' = IF event = "frame" THEN <<cmBase, snBase[1]>> ELSE snBase
    /\ LET late == \/ event = "line" /\ cmState # "IDLE"
                   \/ event = "word" /\ cmState # "IDLE" /\ snSent >= cmSelect
                   \/ busErrorOut /\ cmState = "DO_BURST1"
           worst == IF snTrouble[1] = "clean" /\ late THEN "late" ELSE snTrouble[1]
       IN snTrouble' = IF event # "frame" THEN <<worst, snTrouble[2]>>
                       ELSE IF cmState = "IDLE" THEN <<"clean", worst>> ELSE <<"overlap", "late">>

\* The word that the memory stores in this clock.
Stored == FmBusy(Valid) /\ fmDone'

\* Each word of the memory belongs to the present image ("new") or to the
\* last one, at its place, or it is something else, as all words are of an
\* image that is no longer clean.
Memory(event) ==
    LET after(a) == IF Stored /\ fmNext = a
                    THEN IF Word = a - snBase[1] THEN "new" ELSE "other"
                    ELSE frame[a]
    IN frame' = [a \in DOMAIN frame |->
                   IF event = "frame" THEN IF after(a) = "new" THEN "last" ELSE "other"
                   ELSE IF snTrouble'[1] # "clean" /\ after(a) = "new" THEN "other" ELSE after(a)]

-----------------------------------------------------------------------------

VideoClock(screenEvent, sensorEvent, command) ==
    /\ Processor /\ Screen(screenEvent) /\ Sensor(sensorEvent)
    /\ Clock(Requests, Begin, End, Valid)
    /\ GrClock(ScreenLine \in busGrants, Begin, End, Valid, busErrorOut, RegisterAccess, Word,
               NewScreen(screenEvent), NewLine(screenEvent))
    /\ CmClock(command, CameraLine \in busGrants, busErrorOut, Busy, sensorEvent = "frame",
               sensorEvent = "line", Written(sensorEvent))
    /\ FmClock(Begin, End, Valid, busErrorOut, MemoryAccess)
    /\ Memory(sensorEvent)
    /\ pgTold' = (command.name # "single" /\ (pgTold \/ (command.name = "poll" /\ cmDone)))

VideoInit ==
    /\ Init /\ GrReset /\ CmInit /\ FmInit
    /\ cpState = "rest" /\ cpOp = NoRegisterOp
    /\ scLine = -1 /\ scBase = 0 /\ scDisturbed = TRUE
    /\ scBuffers = EmptyBuffers
    /\ snLine = -1 /\ snSent = 0 /\ snBase = <<0, 0>> /\ snTrouble = <<"late", "late">> /\ pgTold = FALSE
    /\ frame = [a \in 0 .. FrameArea - 1 |-> "other"]

VideoNext ==
    \E screenEvent \in ScreenEvents, sensorEvent \in SensorEvents, command \in CameraCommands :
        VideoClock(screenEvent, sensorEvent, command)

VideoSpec == VideoInit /\ [][VideoNext]_videoVars

\* A clock in which nothing comes from outside.
QuietClock ==
    /\ cpState = "rest" => UNCHANGED <<cpState, cpOp>>
    /\ VideoClock("none", "none", [name |-> "none"])

\* The clock runs, also when nothing comes from outside any more.
VideoFairSpec == VideoSpec /\ WF_videoVars(QuietClock)

-----------------------------------------------------------------------------
(* Correctness.                                                            *)

VideoTypeOK ==
    /\ grState \in GrStates /\ cmState \in CmStates
    /\ grWriteAddress \in 0 .. BufferWords     \* no word beyond the line buffer
    /\ grWords \in 1 .. BurstWords /\ cmWords \in 1 .. CameraBurst
    /\ cmLeft \in 0 .. LineWords /\ cmCount \in -1 .. CameraBurst - 1
    /\ fmLeft \in 0 .. BurstWords

Transacting ==
    (IF cpState \in {"begin", "data", "wait", "end"} THEN {CpuLine} ELSE {})
      \cup (IF GrStarts \/ GrReads \/ grState = "ERROR" THEN {ScreenLine} ELSE {})
      \cup (IF cmState \notin {"IDLE", "REQUEST_BUS1"} THEN {CameraLine} ELSE {})

\* One master at a time has the bus, though each of the three ends its
\* transactions in its own way (the processor and the camera themselves, the
\* screen never), and the words of one transaction never meet the beginning
\* of the next.
OneMaster ==
    /\ Cardinality(Transacting) <= 1
    /\ Begin => state = "WAIT_BEGIN" /\ ~Valid
    /\ fmValid => ~cmValid /\ ~CpuData /\ ~grAnswer

\* The words of a line of the picture.
PictureLine ==
    grSetup.width \div (CASE grSetup.dual /\ grSetup.gray -> 8
                          [] grSetup.dual # grSetup.gray -> 4
                          [] OTHER -> 2)

\* Unless a line came late or failed or the registers changed since the
\* screen began, the line buffer that is shown holds exactly the line of the
\* picture that belongs to the present line of the screen, whether it came
\* in one burst or two, with lines doubled or not; a new screen repairs
\* whatever went wrong before.
ShownLine ==
    grState = "IDLE" /\ ~scDisturbed /\ scLine >= 0 =>
        LET line  == IF grSetup.dualLine THEN scLine \div 2 ELSE scLine
            shown == scBuffers[1 - grWriteIndex]
        IN IF grSetup.aligned
           THEN \A p \in 0 .. PictureLine - 1 : shown[p] = scBase + PictureLine * line + p
           ELSE \A p \in DOMAIN shown : shown[p] = Black

\* An image of the sensor that met no delay and no error is in the frame
\* buffer, each word at its place, before the next one begins, whatever
\* happened to the images before it.
ImageStored ==
    /\ snTrouble[1] = "clean" /\ snLine = SensorLines /\ cmState = "IDLE"
    /\ cmRunning \/ cmAction[1]
    => \A p \in 0 .. FrameWords - 1 : frame[snBase[1] + p] = "new"

\* Lines that come late and transfers that fail spoil the image, but never
\* reach beyond the frame buffer, as long as no image begins during a
\* transfer.
Confined ==
    [][Stored /\ snTrouble[1] # "overlap" => fmNext - snBase[1] \in 0 .. FrameWords - 1]_videoVars

\* When the program reads that the single image is done, the image is
\* complete, and nothing is written any more until the program asks for it.
SingleImage ==
    [][snTrouble[2] = "clean" /\ cmDone' =>
         IF cmDone THEN Stored => cmRunning
         ELSE \A p \in 0 .. FrameWords - 1 : frame'[snBase[2] + p] = "last"]_videoVars

\* Reading that the single image is done clears the bit, as the list of the
\* custom instructions says.
DoneClearsItself == pgTold => ~cmDone

\* The controller comes to rest after every line, whatever fails.
ScreenRests == grState # "IDLE" ~> grState = "IDLE"

\* So does the camera interface, unless lines keep coming.
CameraRests == ([]<>(cmState = "IDLE")) \/ ([]<>(snSent = 0) /\ []<>(snSent # 0))

\* The screen shows the picture that was asked for, from lines that it got as the
\* only master in a transaction.
PictureShown == VideoTypeOK /\ OneMaster /\ ShownLine

\* The bus has one master at a time, and no master counts beyond its burst.
BusShared == VideoTypeOK /\ OneMaster

\* Both picture masters come to rest: a transfer that fails, meets a full time-out
\* or is overtaken by the next line does not hang them.
MastersRest == CameraRests /\ ScreenRests
=============================================================================
