----------------------------- MODULE MCVideoBus -----------------------------
(***************************************************************************)
(* The picture masters with bursts of two words, one at a time: the screen *)
(* with a program that keeps to one use of it; the camera with a program   *)
(* that takes single images or image after image while it moves the frame  *)
(* buffer; or the screen again, with a frame buffer that may be missing.   *)
(***************************************************************************)
EXTENDS VideoBus

Op(read, reg, value, flag) == [read |-> read, reg |-> reg, value |-> value, flag |-> flag]

\* Lines of three words in two bursts, and a base that nobody answers for.
WidePictures == {Op(FALSE, "width", 6, FALSE), Op(FALSE, "base", 0, TRUE), Op(FALSE, "base", -20, TRUE)}

\* Doubled pixels and grayscale, alone and together; doubled lines of the
\* width after a reset.
NarrowPictures ==
    {Op(FALSE, "width", 4, TRUE), Op(FALSE, "mode", 2, TRUE), Op(FALSE, "base", 0, TRUE)}
LowPictures ==
    {Op(FALSE, "height", 3, TRUE), Op(FALSE, "base", 0, TRUE)}

\* A transaction of the processor, to be in the way of the camera.
Accesses == {Op(TRUE, "base", 0, FALSE)}

NoCommand == [name |-> "none"]
NoCommands == {NoCommand}
Single == {NoCommand, [name |-> "single"]}
Running == {NoCommand, [name |-> "start"], [name |-> "base", address |-> 6]}
Poll == Single \cup {[name |-> "poll"]}

-----------------------------------------------------------------------------
AllPictures == WidePictures \cup NarrowPictures \cup LowPictures
AllCommands == Single \cup Running
MissingPicture == {Op(FALSE, "base", 0, TRUE), Op(FALSE, "base", -20, TRUE)}

VARIABLE use    \* what this program, the sensor and the screen do
useVars == <<videoVars, use>>

\* The screen, with wide lines that take two bursts, narrow ones with doubled
\* pixels and grayscale, or narrow ones with doubled lines.
ScreenUseInit == VideoInit /\ use \in {WidePictures, NarrowPictures, LowPictures}

ScreenUseNext ==
    /\ \E screenEvent \in ScreenEvents : VideoClock(screenEvent, "none", NoCommand)
    /\ cpOp' \in use \cup {cpOp, NoRegisterOp}
    /\ UNCHANGED use

ScreenUseSpec == ScreenUseInit /\ [][ScreenUseNext]_useVars

\* The camera, or the screen without its memory.
CameraUseInit == VideoInit /\ use \in {"single", "running", "screen"}

CameraUseNext ==
    /\ \/ /\ use = "screen"
          /\ \E screenEvent \in ScreenEvents : VideoClock(screenEvent, "none", NoCommand)
       \/ /\ use # "screen"
          /\ cpOp' = cpOp
          /\ \E sensorEvent \in SensorEvents,
                command \in IF use = "single" THEN Single ELSE Running :
                VideoClock("none", sensorEvent, command)
    /\ UNCHANGED use

CameraUseSpec ==
    CameraUseInit /\ [][CameraUseNext]_useVars /\ WF_useVars(QuietClock /\ UNCHANGED use)

\* A program that polls the camera and also reaches for the bus.
PollSpec == VideoInit /\ use = "poll" /\ [][VideoNext /\ UNCHANGED use]_useVars
=============================================================================
