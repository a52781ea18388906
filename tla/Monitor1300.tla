----------------------------- MODULE Monitor1300 -----------------------------
(***************************************************************************)
(* The monitor of the OR1300 platform (bios.c), whose download and flash   *)
(* commands are those of Monitor, except that it adjusts the SDRAM, can    *)
(* download to a memory for a soft BIOS, and starts programs in the target *)
(* itself.                                                                 *)
(***************************************************************************)
EXTENDS Monitor

CONSTANTS
    SoftLimit,      \* the word of the soft BIOS that must not be reached (4095)
    AdjustWords     \* the words of the SDRAM that the adjustment writes (8192)

VARIABLE soft       \* the words at softRom

orVars == <<mnVars, soft>>

SoftPlaces == 0 .. SoftLimit
OrInit == MnInit /\ soft = [a \in SoftPlaces |-> 0]

-----------------------------------------------------------------------------
\* sdramAdjust writes other words over the start of the SDRAM, and tries four
\* delays until it reads them back.
Adjusted == [a \in SdramPlaces |-> IF a < AdjustWords THEN Fits(Erased * a + 1) ELSE sdram[a]]

\* helpscreen(), of processor 1, the adjustment included: without a delay that
\* works (4) it never comes back.
OrHelpscreen(button, delay) ==
    IF delay = 4 THEN job' = [do |-> "broken"] /\ sdram' = Adjusted
    ELSE IF flash[0] # MAGIC \/ button THEN job' = Input /\ sdram' = Adjusted
    ELSE /\ sdram' = [a \in SdramPlaces |-> IF a < flash[1] THEN flash[a] ELSE Adjusted[a]]
         /\ job' = IF flash[1] <= FlashWords THEN Start("flash", "sdram", TRUE)
                   ELSE [do |-> "astray"]

OrBoot(button, delay) ==
    /\ job.do = "reset" /\ mn' = Fresh /\ OrHelpscreen(button, delay)
    /\ UNCHANGED <<flash, sent, image, budget, soft>>
OrHelp(button, delay) ==
    Command /\ OrHelpscreen(button, delay) /\ UNCHANGED <<mn, flash, image, soft>>

\* **
OrStart ==
    /\ Command
    /\ (IF mn.target = "softRom" THEN soft ELSE Target)[0] = MAGIC
    /\ job' = Start(mn.target, mn.target, FALSE)
    /\ UNCHANGED <<mn, sdram, flash, image, soft>>

\* *r copies the program into the SDRAM, but jumps into the target.
OrRunFlash ==
    /\ Command /\ flash[0] = MAGIC /\ RunFlash(mn.target)
    /\ UNCHANGED <<mn, flash, image, soft>>

-----------------------------------------------------------------------------
OrToggle ==
    /\ Command
    /\ mn' = [mn EXCEPT !.max = 0,
                        !.target = CASE @ = "sdram" -> "softRom" [] @ = "softRom" -> "flash"
                                     [] OTHER -> "sdram"]
    /\ UNCHANGED <<job, sdram, flash, image, soft>>

\* '@' forgets the bytes of an unfinished word.
OrAddress(address) ==
    /\ Asks
    /\ mn' = [mn EXCEPT !.address = address, !.bytes = 0, !.data = 0,
                        !.max = IF address = 0 THEN 0 ELSE @]
    /\ sent' = [from |-> address, bytes |-> <<>>,
                faithful |-> mn.prog /\ mn.target # "flash"]
    /\ UNCHANGED <<job, sdram, flash, image, soft>>

\* Mutant: the limit of the soft BIOS is one word further.
TooBigLate == mn.target = "softRom" /\ mn.address > SoftLimit

\* The soft BIOS is full.
TooBig == mn.target = "softRom" /\ mn.address >= SoftLimit

OrTooBig(data) ==
    /\ mn' = [mn EXCEPT !.address = IF @ = SoftLimit THEN @ + 1 ELSE @, !.max = 0,
                        !.bytes = @ + 1, !.data = data, !.repeat = 1]
    /\ job' = Input /\ UNCHANGED <<sdram, soft>>

\* As MnWord, but the highest address counts in verification mode too.
OrWord(data) ==
    LET max == IF mn.address + 1 > mn.max THEN mn.address + 1 ELSE mn.max IN
    /\ mn.address <= LastAddress
    /\ mn' = Again([mn EXCEPT !.address = @ + 1, !.max = max, !.bytes = CountAfterWord,
                              !.data = 0])
    /\ sdram' = IF mn.prog /\ mn.target = "sdram" THEN Stored(sdram, data, max) ELSE sdram
    /\ soft' = IF mn.prog /\ mn.target = "softRom" THEN Stored(soft, data, max) ELSE soft
    /\ job' = IF Ended THEN Input ELSE job

OrByte ==
    /\ job.do = "code"
    /\ LET data == Data(job.value) IN
       IF mn.repeat = 0
       THEN mn' = [mn EXCEPT !.repeat = 1] /\ job' = Input /\ UNCHANGED <<sdram, soft>>
       ELSE IF mn.bytes + 1 # WordBytes
       THEN /\ mn' = Again([mn EXCEPT !.bytes = @ + 1, !.data = data])
            /\ job' = IF Ended THEN Input ELSE job
            /\ UNCHANGED <<sdram, soft>>
       ELSE IF TooBig THEN OrTooBig(data)
       ELSE IF mn.target = "flash" THEN MnAbort(data) /\ UNCHANGED soft
       ELSE OrWord(data)
    /\ UNCHANGED <<flash, sent, image, budget>>

\* The commands that are the same on both platforms.
OrMode(prog) == MnMode(prog) /\ UNCHANGED soft
OrRepeat(count) == MnRepeat(count) /\ UNCHANGED soft
OrCode(value) == MnCode(value) /\ UNCHANGED soft
OrMemcheck == MnMemcheck /\ UNCHANGED soft
OrStore == MnStore /\ UNCHANGED soft
OrStoring(works) == (MnScan(works) \/ MnWrite(works)) /\ UNCHANGED soft
OrErase == MnErase /\ UNCHANGED soft
OrErasing(works) == MnErasePage(works) /\ UNCHANGED soft
OrCheck(works) == (MnCheck \/ MnCheckStep(works)) /\ UNCHANGED soft

OrPowerFails == MnPowerFails /\ soft' = [a \in SoftPlaces |-> 0]

OrNext ==
    \/ \E button \in BOOLEAN, delay \in 0 .. 4 : OrBoot(button, delay) \/ OrHelp(button, delay)
    \/ OrStart \/ OrRunFlash \/ OrToggle \/ OrMemcheck
    \/ \E prog \in BOOLEAN : OrMode(prog)
    \/ \E address \in 0 .. LastAddress : OrAddress(address)
    \/ \E count \in Repeats : OrRepeat(count)
    \/ \E value \in Codes : OrCode(value)
    \/ OrByte \/ OrStore \/ OrErase
    \/ \E works \in BOOLEAN : OrStoring(works) \/ OrErasing(works) \/ OrCheck(works)
    \/ OrPowerFails

OrSpec == OrInit /\ [][OrNext]_orVars

-----------------------------------------------------------------------------
\* A download to the soft BIOS is stored up to the limit, and the word at the
\* limit is never written, however long the download is.
SoftStored ==
    /\ soft[SoftLimit] = 0
    /\ job.do = "input" /\ sent.faithful /\ mn.target = "softRom" =>
        \A i \in 0 .. Complete - 1 :
            sent.from + i # 1 /\ sent.from + i < SoftLimit
                => soft[sent.from + i] = swapBytes(Received(i))

\* A download is stored at its addresses, in the SDRAM and in the soft BIOS, and
\* nowhere else in the soft BIOS.
DownloadsStored == DownloadStored /\ SoftStored
=============================================================================
