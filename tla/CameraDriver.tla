---------------------------- MODULE CameraDriver ----------------------------
(***************************************************************************)
(* Taking images with the driver (programs/support/src/ov7670.c) on top of *)
(* the control part of the camera interface (CameraDma): in every clock    *)
(* the program may execute one custom instruction, and the sensor may      *)
(* begin a new frame. The program waits for an image before it asks for    *)
(* the next one.                                                           *)
(***************************************************************************)
EXTENDS CameraDma, SequencesExt

VARIABLES
    cdCall,     \* where the program is in the functions of the driver
    cdGap,      \* some clocks have passed since the last frame began
    cdCapture,  \* the frame buffer that the sensor writes, or Nowhere
    cdBuffers   \* history, of each frame buffer: its image is complete (whole),
                \* and began after the last call (fresh)

cdVars == <<cmControlVars, cdCall, cdGap, cdCapture, cdBuffers>>

Nowhere == -1
None == [name |-> "none"]
BaseCommand(address) == [name |-> "base", address |-> address]

CdInit ==
    /\ cmBase \in FrameBuffers /\ cmActive = FALSE /\ cmSingle = FALSE /\ cmRunning = FALSE
    /\ cmAction = <<FALSE, FALSE>> /\ cmDone = FALSE
    /\ cdCall = [do |-> "idle", address |-> cmBase, mode |-> "blocking"]
    /\ cdGap = FALSE /\ cdCapture = Nowhere
    /\ cdBuffers = [a \in FrameBuffers |-> [whole |-> FALSE, fresh |-> FALSE]]

\* The sensor: an image that is complete when the next frame begins, and one
\* that begins if the interface grabs it.
Sensor(newScreen, called) ==
    LET old     == [a \in FrameBuffers |-> [cdBuffers[a] EXCEPT !.fresh = @ /\ ~called]]
        ended   == IF cdCapture = Nowhere THEN old ELSE [old EXCEPT ![cdCapture].whole = TRUE]
        grabbed == cmRunning' \/ cmAction'[1]
    IN  /\ newScreen => cdGap
        /\ cdGap' = ~newScreen
        /\ cdCapture' = IF ~newScreen THEN cdCapture ELSE IF grabbed THEN cmBase ELSE Nowhere
        /\ cdBuffers' = IF ~newScreen THEN old
                        ELSE IF grabbed
                        THEN [ended EXCEPT ![cmBase] = [whole |-> FALSE, fresh |-> ~called]]
                        ELSE ended

\* One clock in which the program executes this custom instruction.
Execute(command, newScreen) ==
    CmControl(command, newScreen) /\ Sensor(newScreen, command.name = "base")

\* The program does something else.
CdElsewhere(newScreen) == Execute(None, newScreen) /\ UNCHANGED cdCall

\* The first instruction of a call gives the address, the second the command.
First(address, mode) == BaseCommand(address)

Second(address, mode) == [name |-> IF mode = "continues" THEN "start" ELSE "single"]

CdCallGrabber(address, mode, newScreen) ==
    /\ cdCall.do \in {"idle", "have"}
    /\ cdCall' = [do |-> "control", address |-> address, mode |-> mode]
    /\ Execute(First(address, mode), newScreen)

CdControl(newScreen) ==
    /\ cdCall.do = "control"
    /\ cdCall' = [cdCall EXCEPT !.do = CASE cdCall.mode = "blocking" -> "wait"
                                         [] cdCall.mode = "nonblocking" -> "busy"
                                         [] OTHER -> "idle"]
    /\ Execute(Second(cdCall.address, cdCall.mode), newScreen)

takeSingleImageBlocking(address, newScreen) == CdCallGrabber(address, "blocking", newScreen)
takeSingleImageNonBlocking(address, newScreen) == CdCallGrabber(address, "nonblocking", newScreen)
enableContinues(address, newScreen) == CdCallGrabber(address, "continues", newScreen)

disableContinues(newScreen) ==
    /\ cdCall.do \in {"idle", "have"}
    /\ cdCall' = [cdCall EXCEPT !.do = "idle"]
    /\ Execute([name |-> "stop"], newScreen)

waitForNextImage(newScreen) ==
    cdCall.do = "busy" /\ cdCall' = [cdCall EXCEPT !.do = "wait"] /\ Execute(None, newScreen)

\* One round of the loop that waits.
CdPoll(newScreen) ==
    /\ cdCall.do = "wait"
    /\ cdCall' = [cdCall EXCEPT !.do = IF cmDone THEN "have" ELSE @]
    /\ Execute([name |-> "poll"], newScreen)

CdProgram(newScreen) ==
    \/ \E address \in FrameBuffers :
        \/ takeSingleImageBlocking(address, newScreen)
        \/ takeSingleImageNonBlocking(address, newScreen)
        \/ enableContinues(address, newScreen)
    \/ CdControl(newScreen) \/ disableContinues(newScreen)
    \/ waitForNextImage(newScreen) \/ CdPoll(newScreen)

CdClock(newScreen) == CdProgram(newScreen) \/ CdElsewhere(newScreen)
CdNext == \E newScreen \in BOOLEAN : CdClock(newScreen)

\* A call goes on, and the sensor sends one frame after the other.
CdDriverStep == \E newScreen \in BOOLEAN : CdControl(newScreen) \/ CdPoll(newScreen)
CdFairness ==
    /\ WF_cdVars(CdDriverStep)
    /\ SF_cdVars(CdClock(TRUE))

CdSpec == CdInit /\ [][CdNext]_cdVars /\ CdFairness

-----------------------------------------------------------------------------
(* Correctness.                                                            *)

\* When an image was waited for, its frame buffer holds one whole frame that
\* began after the call, and nothing is written there as long as the program
\* does not call the driver again, whatever was grabbed before and whenever the
\* frames begin.
ImageFresh ==
    cdCall.do = "have" =>
        /\ cdBuffers[cdCall.address] = [whole |-> TRUE, fresh |-> TRUE]
        /\ cdCapture # cdCall.address

\* A call that waits comes back.
TakeReturns == cdCall.do = "wait" ~> cdCall.do = "have"

-----------------------------------------------------------------------------
(* The camera chip and how the driver sets it up over I2C: a reset, a list *)
(* of defaults, a list for the resolution, a list for the colours.  Nobody *)
(* looks whether a write was acknowledged. A register may be set up again  *)
(* for another resolution.                                                 *)

CONSTANT MaxSetups      \* bound: calls of initOv7670

VARIABLES
    csRegisters,    \* the registers of the chip, and the cells behind its multiplexor
    csScript,       \* what initOv7670 still has to write
    csResolution,   \* its argument
    csSetups        \* history: how many calls there were

csVars == <<csRegisters, csScript, csResolution, csSetups>>

Resolutions == {"VGA", "QVGA", "QQVGA"}

\* The lists of <<register, value>>, in decimal: 18 is COM7, 12 and 62 (COM3,
\* COM14) with 112 to 115 the scaling, 3, 23 to 26 and 50 the window.
default_regs == <<
    <<58, 4>>, <<18, 0>>, <<23, 19>>, <<24, 1>>, <<50, 182>>, <<25, 2>>, <<26, 122>>, <<3, 10>>,
    <<12, 0>>, <<62, 0>>, <<112, 58>>, <<113, 53>>, <<114, 17>>, <<115, 240>>, <<162, 1>>,
    <<21, 2>>, <<122, 32>>, <<123, 16>>, <<124, 30>>, <<125, 53>>, <<126, 90>>, <<127, 105>>,
    <<128, 118>>, <<129, 128>>, <<130, 136>>, <<131, 143>>, <<132, 150>>, <<133, 163>>,
    <<134, 175>>, <<135, 196>>, <<136, 215>>, <<137, 232>>, <<19, 192>>, <<0, 0>>, <<16, 0>>,
    <<13, 64>>, <<20, 24>>, <<165, 5>>, <<171, 7>>, <<36, 149>>, <<37, 51>>, <<38, 227>>,
    <<159, 120>>, <<160, 104>>, <<161, 3>>, <<166, 216>>, <<167, 216>>, <<168, 240>>,
    <<169, 144>>, <<170, 148>>, <<19, 197>>, <<48, 0>>, <<49, 0>>, <<14, 97>>, <<15, 75>>,
    <<22, 2>>, <<30, 7>>, <<33, 2>>, <<34, 145>>, <<41, 7>>, <<51, 11>>, <<53, 11>>, <<55, 29>>,
    <<56, 113>>, <<57, 42>>, <<60, 120>>, <<77, 64>>, <<78, 32>>, <<105, 0>>, <<116, 16>>,
    <<141, 79>>, <<142, 0>>, <<143, 0>>, <<144, 0>>, <<145, 0>>, <<150, 0>>, <<154, 0>>,
    <<176, 132>>, <<177, 12>>, <<178, 14>>, <<179, 130>>, <<184, 10>>, <<67, 10>>, <<68, 240>>,
    <<69, 52>>, <<70, 88>>, <<71, 40>>, <<72, 58>>, <<89, 136>>, <<90, 136>>, <<91, 68>>,
    <<92, 103>>, <<93, 73>>, <<94, 14>>, <<108, 10>>, <<109, 85>>, <<110, 17>>, <<111, 159>>,
    <<106, 64>>, <<1, 64>>, <<2, 96>>, <<19, 199>>, <<79, 128>>, <<80, 128>>, <<81, 0>>,
    <<82, 34>>, <<83, 94>>, <<84, 128>>, <<88, 158>>, <<65, 8>>, <<63, 0>>, <<117, 5>>,
    <<118, 225>>, <<76, 0>>, <<119, 1>>, <<61, 72>>, <<75, 9>>, <<201, 96>>, <<86, 64>>,
    <<52, 17>>, <<59, 18>>, <<164, 130>>, <<150, 0>>, <<151, 48>>, <<152, 32>>, <<153, 48>>,
    <<154, 132>>, <<155, 41>>, <<156, 3>>, <<157, 76>>, <<158, 63>>, <<120, 4>>, <<121, 1>>,
    <<200, 240>>, <<121, 15>>, <<200, 0>>, <<121, 16>>, <<200, 126>>, <<121, 10>>, <<200, 128>>,
    <<121, 11>>, <<200, 1>>, <<121, 12>>, <<200, 15>>, <<121, 13>>, <<200, 32>>, <<121, 9>>,
    <<200, 128>>, <<121, 2>>, <<200, 192>>, <<121, 3>>, <<200, 64>>, <<121, 5>>, <<200, 48>>,
    <<121, 38>>>>

vga_ov7670 == <<
    <<12, 0>>, <<50, 246>>, <<23, 19>>, <<24, 1>>, <<25, 2>>, <<26, 122>>, <<3, 10>>>>

qvga_ov7670 == <<
    <<12, 4>>, <<62, 25>>, <<114, 17>>, <<115, 241>>, <<23, 22>>, <<24, 4>>, <<50, 36>>,
    <<25, 2>>, <<26, 122>>, <<3, 10>>>>

qqvga_ov7670 == <<
    <<12, 4>>, <<62, 26>>, <<114, 34>>, <<115, 242>>, <<23, 22>>, <<24, 4>>, <<50, 164>>,
    <<25, 2>>, <<26, 122>>, <<3, 10>>>>

rgb565_ov7670 == <<
    <<18, 4>>, <<140, 0>>, <<4, 0>>, <<64, 208>>, <<20, 106>>, <<79, 179>>, <<80, 179>>,
    <<81, 0>>, <<82, 61>>, <<83, 167>>, <<84, 228>>, <<61, 64>>>>

-----------------------------------------------------------------------------
(* The chip, as the lists use it.                                          *)

RegisterCOM7 == 18
Select == 121       \* register 0x79 selects the cell that 0xc8 writes
SelectedCell == 200
CellAt(select) == 256 + select

WriteReset == <<RegisterCOM7, 128>>
AfterReset == [r \in 0 .. 511 |-> 0]

\* Bit 7 of COM7 resets everything.
AfterRegisterWrite(registers, write) ==
    IF write = WriteReset THEN AfterReset
    ELSE IF write[1] = SelectedCell
    THEN [registers EXCEPT ![CellAt(registers[Select])] = write[2], ![SelectedCell] = write[2]]
    ELSE [registers EXCEPT ![write[1]] = write[2]]

-----------------------------------------------------------------------------
(* The driver.                                                             *)

\* Mutant: the defaults leave the scaling as it is.
DefaultsScaled == SelectSeq(default_regs, LAMBDA write : write[1] # 62)

Defaults == default_regs

ForResolution(resolution) ==
    CASE resolution = "QQVGA" -> qqvga_ov7670 [] resolution = "QVGA" -> qvga_ov7670
      [] OTHER -> vga_ov7670

\* initOv7670 writes this, and the frame rate at last.
Script(resolution) ==
    <<WriteReset>> \o Defaults \o ForResolution(resolution) \o rgb565_ov7670 \o <<<<17, 0>>>>

CsInit ==
    /\ csRegisters = AfterReset /\ csScript = <<>> /\ csResolution = "VGA" /\ csSetups = 0

initOv7670(resolution) ==
    /\ csScript = <<>> /\ csSetups < MaxSetups
    /\ csScript' = Script(resolution) /\ csResolution' = resolution
    /\ csSetups' = csSetups + 1
    /\ UNCHANGED csRegisters

\* One write. The reset may get lost: the chip does not acknowledge.
writeOv7670Register(acknowledged) ==
    /\ csScript # <<>>
    /\ acknowledged \/ Head(csScript) = WriteReset
    /\ csRegisters' = IF acknowledged THEN AfterRegisterWrite(csRegisters, Head(csScript))
                      ELSE csRegisters
    /\ csScript' = Tail(csScript)
    /\ UNCHANGED <<csResolution, csSetups>>

CsNext ==
    \/ \E resolution \in Resolutions : initOv7670(resolution)
    \/ \E acknowledged \in BOOLEAN : writeOv7670Register(acknowledged)

CsSpec == CsInit /\ [][CsNext]_csVars

-----------------------------------------------------------------------------
\* What the last of the writes at these places of a list has written.
LastOf(script, places) == IF places = {} THEN 0 ELSE script[Max(places)][2]

\* The cell that a write to register 0xc8 reaches.
CellOf(script, i) == CellAt(LastOf(script, {j \in 1 .. i - 1 : script[j][1] = Select}))

Reaches(script, i, r) ==
    script[i][1] = r \/ (script[i][1] = SelectedCell /\ CellOf(script, i) = r)

\* The registers after a setup of a chip that has been reset.
AfterSetup(resolution) ==
    LET script == Tail(Script(resolution)) IN
    [r \in 0 .. 511 |-> LastOf(script, {i \in DOMAIN script : Reaches(script, i, r)})]
Settings == [resolution \in Resolutions |-> AfterSetup(resolution)]

\* After a setup every register has the value for the resolution that was asked
\* for, whatever the chip was set up for before, and although the reset that
\* should make it forget that may get lost.
SetUpFromAnyState ==
    csScript = <<>> /\ csSetups > 0 => csRegisters = Settings[csResolution]
=============================================================================
