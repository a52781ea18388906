---------------------------- MODULE MCConcurrent ----------------------------
(***************************************************************************)
(* The software that runs beside something else: the locks, the barrier    *)
(* and the exceptions beside the other processors, the camera driver       *)
(* beside the camera, its setup with writes that get lost, the serial      *)
(* routines and the I2C routines beside their devices.  In each behaviour  *)
(* one of them runs.                                                       *)
(***************************************************************************)
EXTENDS Locks, Barrier, MultiCpu, CameraDriver, SerialDriver, I2cDriver

\* Here the serial routines only have to return.
MCTexts == {<<"a", "b">>}
MCFrames == {[byte |-> "1", kind |-> "good"]}

VARIABLE part
otherCmVars == <<cmLine, cmShown, cmSelect, cmState, cmAddress, cmLeft, cmCount, cmOut, cmValid,
                 cmBegin, cmEnd, cmWords>>
mcVars == <<part, lkVars, brVars, exVars, cdVars, otherCmVars, csVars, srVars, idVars>>

Frozen ==
    /\ UNCHANGED <<part, otherCmVars>>
    /\ IF part = "locks" THEN TRUE ELSE UNCHANGED lkVars
    /\ IF part = "barrier" THEN TRUE ELSE UNCHANGED brVars
    /\ IF part = "processors" THEN TRUE ELSE UNCHANGED exVars
    /\ IF part = "camera" THEN TRUE ELSE UNCHANGED cdVars
    /\ IF part = "setup" THEN TRUE ELSE UNCHANGED csVars
    /\ IF part = "serial" THEN TRUE ELSE UNCHANGED srVars
    /\ IF part = "i2c" THEN TRUE ELSE UNCHANGED idVars

MCInit ==
    /\ part \in {"locks", "barrier", "processors", "camera", "setup", "serial", "i2c"}
    /\ LkInit /\ BrInit /\ ExInit /\ CdInit /\ CsInit /\ SrInit /\ IdInit
    \* What a part that does not run starts with makes no difference.
    /\ part # "locks" => \A l \in LockIds : lkByte[l] = 0
    /\ part # "barrier" => brPatient
    /\ part # "processors" => \A c \in Numbers : exStack[c].memory = c
    \* Bound: the stack registers of the helpers come up alike, and in the SDRAM
    \* only when the first processor has its stack in its scratchpad.
    /\ exStack[2].memory = 0 <=> exStack[3].memory = 0
    /\ exStack[2].memory = 0 => exStack[1].memory = 1
    /\ part # "camera" => cmBase = 0
    /\ part # "serial" => srLibrary = "monitor" /\ ~uxClear
    /\ part # "i2c" => imData = 0 /\ \A r \in ImRegisters : imDevice.regs[r] = 0
    \* The rest of the camera interface is not part of its control.
    /\ cmLine = 0 /\ cmShown = 0 /\ cmSelect = 0 /\ cmState = 0 /\ cmAddress = 0 /\ cmLeft = 0
    /\ cmCount = 0 /\ cmOut = 0 /\ cmValid = 0 /\ cmBegin = 0 /\ cmEnd = 0 /\ cmWords = 0

MCNext ==
    /\ Frozen
    /\ \/ part = "locks" /\ LkNext
       \/ part = "barrier" /\ BrNext
       \/ part = "processors" /\ ExNext
       \/ part = "camera" /\ CdNext
       \/ part = "setup" /\ CsNext
       \/ part = "serial" /\ SrNext
       \/ part = "i2c" /\ IdNext

\* The fairness of the parts (LkFairness, BrFairness, CdFairness, SrFairness,
\* IdFairness), as steps of the whole: the first, second and third fair actor.
FirstActor ==
    /\ \/ part = "locks" /\ LkStep(1)
       \/ part = "barrier" /\ BrStep(1)
       \/ part = "camera" /\ CdDriverStep
       \/ part = "serial" /\ SrTick
       \/ part = "i2c" /\ IdTick
    /\ Frozen
SecondActor ==
    /\ \/ part = "locks" /\ LkStep(2)
       \/ part = "barrier" /\ BrStep(2)
       \/ part = "serial" /\ SrPoll
       \/ part = "i2c" /\ IdReleased
    /\ Frozen
ThirdActor ==
    /\ \/ part = "locks" /\ LkStep(3)
       \/ part = "barrier" /\ BrStep(3)
    /\ Frozen
Often == part = "camera" /\ CdClock(TRUE) /\ Frozen

MCFairness ==
    WF_mcVars(FirstActor) /\ WF_mcVars(SecondActor) /\ WF_mcVars(ThirdActor) /\ SF_mcVars(Often)

MCSpec == MCInit /\ [][MCNext]_mcVars /\ MCFairness

\* Who waits for another processor is served: a free lock is taken, a barrier at
\* which all have arrived opens.
WaitersServed == FreeLockTaken /\ BarrierOpens

\* Who waits for a device comes back, whatever the device does: from the camera
\* driver, from sending over the UART, from an I2C access.
CallsReturn == TakeReturns /\ SendReturns /\ CallReturns
=============================================================================
