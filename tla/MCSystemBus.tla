----------------------------- MODULE MCSystemBus -----------------------------
(***************************************************************************)
(* The bus with two lines of two words of code, line 0 in the boot ROM and *)
(* line 1 in the flash, that compete for a cache of one line.              *)
(***************************************************************************)
EXTENDS SystemBus

MCTargets == {"rom", "uart", "uartWord", "flash", "flashByte", "unmapped"}
MCData == {Junk}
MCPowerUpMasks == {{}}
MCPauses == {"none"}
MCTwoPauses == {"none", "ci"}
MCCodeSlave == [line \in 0 .. 1 |-> IF line = 0 THEN "bios" ELSE "flash"]
MCJumpTargets == {2}
MCNoJumps == {}
MCNeverBusy == {FALSE}

Load(targets)  == [kind : {"load"}, target : targets]
Store(targets) == [kind : {"store"}, target : targets]

\* A program that meets every slave, those that answer within a few clocks and
\* those that are slow, refuse or are missing.
MCWholeProgram ==
    {NoOp} \cup Load({"rom", "uart", "flash", "unmapped"}) \cup Store({"uart", "uartWord"})

\* For liveness: nothing but trouble, a flash that may be busy at any time,
\* code that jumps between the boot ROM and an address nobody answers, and
\* custom instructions that stall the pipeline.
MCTroubledProgram == Load({"flash", "unmapped"})
MCAnyBusy == BOOLEAN
MCMissingCode == [line \in 0 .. 1 |-> IF line = 0 THEN "bios" ELSE "none"]
=============================================================================
