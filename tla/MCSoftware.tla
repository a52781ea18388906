----------------------------- MODULE MCSoftware -----------------------------
(***************************************************************************)
(* The programs: the monitors of the two platforms, with words of two      *)
(* digits, a host and a flash of four pages, the serial and I2C routines   *)
(* with their devices, and the algorithms of the support library and of    *)
(* the programs.  In each behaviour one runs.                              *)
(***************************************************************************)
EXTENDS Monitor1300, Lfsr, MemCopy, Images, Registers, SerialDriver, I2cDriver

\* An SDRAM with rubbish, and one with a program.
Programs ==
    {[a \in 0 .. 15 |-> 0],
     [a \in 0 .. 15 |-> CASE a = 0 -> 6 [] a = 1 -> 5 [] OTHER -> (a * 3 + 5) % 16]}

SmallStarts == SUBSET (0 .. 4)

MCTexts == {<<"a">>, <<"a", "b">>}
MCFrames ==
    {[byte |-> "1", kind |-> "good"], [byte |-> "f", kind |-> "no stop bit"],
     [byte |-> "x", kind |-> "break"]}

VARIABLE part
mcVars == <<part, orVars, lfVars, cpVars, dtVars, edVars, gyVars, rgVars, srVars, idVars>>

Monitors == {"or1420", "or1300"}

Frozen ==
    /\ UNCHANGED part
    /\ IF part \in Monitors THEN TRUE ELSE UNCHANGED orVars
    /\ IF part = "lfsr" THEN TRUE ELSE UNCHANGED lfVars
    /\ IF part = "memcpy" THEN TRUE ELSE UNCHANGED cpVars
    /\ IF part = "dither" THEN TRUE ELSE UNCHANGED dtVars
    /\ IF part = "edges" THEN TRUE ELSE UNCHANGED edVars
    /\ IF part = "grey" THEN TRUE ELSE UNCHANGED gyVars
    /\ IF part = "registers" THEN TRUE ELSE UNCHANGED rgVars
    /\ IF part = "serial" THEN TRUE ELSE UNCHANGED srVars
    /\ IF part = "i2c" THEN TRUE ELSE UNCHANGED idVars

MCInit ==
    /\ part \in Monitors \cup {"lfsr", "memcpy", "dither", "edges", "grey", "registers", "serial",
                            "i2c"}
    /\ OrInit /\ LfInit /\ CpInit /\ DtInit /\ EdInit /\ GyInit /\ RgInit /\ SrInit /\ IdInit
    \* What a part that does not run starts with makes no difference.
    /\ part \notin Monitors => sdram[0] = 0
    /\ part # "serial" => srLibrary = "monitor" /\ ~uxClear
    /\ part # "i2c" => imData = 0 /\ \A r \in ImRegisters : imDevice.regs[r] = 0

MCNext ==
    /\ Frozen
    /\ \/ part = "or1420" /\ MnNext /\ UNCHANGED soft
       \/ part = "or1300" /\ OrNext
       \/ part = "lfsr" /\ LfNext
       \/ part = "memcpy" /\ CpNext
       \/ part = "dither" /\ DtNext
       \/ part = "edges" /\ EdNext
       \/ part = "grey" /\ GyNext
       \/ part = "registers" /\ RgNext
       \/ part = "serial" /\ SrNext
       \/ part = "i2c" /\ IdNext

MCSpec == MCInit /\ [][MCNext]_mcVars
Or1420Spec == MCInit /\ part = "or1420" /\ [][MCNext]_mcVars
GeneratorSpec == MCInit /\ part = "lfsr" /\ [][MCNext]_mcVars

\* The algorithms compute what they are meant to: the generator runs through all
\* values, the copies use words only where they are aligned, the dithering passes
\* the error on, the edges do not depend on the side they are seen from, the custom
\* instruction replaces the loop, and the number read is the one that was typed.
AlgorithmsExact ==
    FullPeriod /\ WordsAligned /\ ErrorPassedOn /\ EdgesSymmetric /\ GreySame /\ NumberRead
=============================================================================
