------------------------------ MODULE Monitor ------------------------------
(***************************************************************************)
(* The monitor in the boot ROM of the OR1420 platform (bios1.c): it starts *)
(* the program in the flash, or downloads a program over the serial line   *)
(* into the SDRAM, starts it, or stores it in the flash.  One step per     *)
(* command, per byte of a download and per operation of the flash; the     *)
(* power may fail between any two, and in the middle of a flash operation. *)
(*                                                                         *)
(* A program is a list of words; its word 0 is MAGIC, its word 1 becomes   *)
(* its size.                                                               *)
(***************************************************************************)
EXTENDS FlashDriver, Sequences

CONSTANTS
    ByteBase, WordBytes,    \* a word has WordBytes digits of base ByteBase (4 of 256)
    MAGIC,                  \* 0xDEAD1420
    Preloaded,              \* what the SDRAM may hold at first
    Codes, Repeats,         \* the bytes and the repetitions that the host sends
    LastAddress,            \* bound: the last word that is downloaded
    MaxSent,                \* bound: bytes of one download
    MaxCommands, MaxFaults  \* bounds: commands of the host; power and flash failures

VARIABLES
    mn,         \* the variables of bios()
    job,        \* the loop it is in
    sdram, flash,
    sent,       \* history: the download since the last '@'
    image,      \* history: the program last stored in the flash
    budget      \* the commands and faults that may still come

mnVars == <<mn, job, sdram, flash, sent, image, budget>>

SdramPlaces == FlashPlaces
Input == [do |-> "input"]       \* get_rs232_blocking()

\* swapBytes: the digits in the other order.
Digit(word, i) == (word \div ByteBase ^ i) % ByteBase
Word(bytes) ==
    LET value[i \in 0 .. WordBytes] == IF i = 0 THEN 0 ELSE value[i - 1] * ByteBase + bytes[i]
    IN value[WordBytes]
swapBytes(word) == Word([i \in 1 .. WordBytes |-> Digit(word, i - 1)])
Fits(value) == value % ByteBase ^ WordBytes

NothingSent == [from |-> -1, bytes |-> <<>>, faithful |-> FALSE]
NoImage == [words |-> <<>>, torn |-> FALSE]
TornImage == [words |-> <<>>, torn |-> TRUE]

\* The variables at a reset. (The address is not set, and data not when bytes
\* is 0: nothing reads them before an '@' and a first byte, and they are 0 here.)
Fresh == [target |-> "sdram", prog |-> TRUE, max |-> 0, address |-> 0,
          bytes |-> 0, data |-> 0, repeat |-> 1]

MnInit ==
    /\ mn = Fresh /\ job = [do |-> "reset"]
    /\ sdram \in Preloaded
    /\ flash \in {[a \in FlashPlaces |-> Erased],
                  [a \in FlashPlaces |-> IF a \in LastStart + BlockWords .. LastEnd THEN 0 ELSE Erased]}
    /\ sent = NothingSent /\ image = NoImage
    /\ budget = [commands |-> MaxCommands, faults |-> MaxFaults]

\* The host sends a command that ends the download, or one that belongs to it.
Asks == job.do = "input" /\ budget.commands > 0 /\ budget' = [budget EXCEPT !.commands = @ - 1]
Command == Asks /\ sent' = NothingSent
Worked(works) ==
    IF works THEN UNCHANGED budget
    ELSE budget.faults > 0 /\ budget' = [budget EXCEPT !.faults = @ - 1]

-----------------------------------------------------------------------------
(* Starting programs.                                                      *)

\* sdram[i] = flash[i] for the number of words in flash[1].
CopyToSdram == sdram' = [a \in SdramPlaces |-> IF a < flash[1] THEN flash[a] ELSE sdram[a]]

\* The program in one memory was asked for; the processor jumps to one memory.
Start(asked, runs, copied) == [do |-> "run", asked |-> asked, runs |-> runs, copied |-> copied]

\* A size beyond the flash leads the copy out of it.
RunFlash(runs) ==
    /\ CopyToSdram
    /\ job' = IF flash[1] <= FlashWords THEN Start("flash", runs, TRUE) ELSE [do |-> "astray"]

\* helpscreen(), at a reset and for *h: with the button up, a program in the
\* flash is started.
helpscreen(button) ==
    IF flash[0] = MAGIC /\ ~button THEN RunFlash("sdram") ELSE job' = Input /\ UNCHANGED sdram

MnBoot(button) ==
    /\ job.do = "reset"
    /\ mn' = Fresh
    /\ helpscreen(button)
    /\ UNCHANGED <<flash, sent, image, budget>>

MnHelp(button) == Command /\ helpscreen(button) /\ UNCHANGED <<mn, flash, image>>

Target == IF mn.target = "flash" THEN flash ELSE sdram

\* ** starts the program: l.jumps goes to the SDRAM, whatever the target is.
MnStart ==
    /\ Command /\ Target[0] = MAGIC
    /\ job' = Start(mn.target, "sdram", FALSE)
    /\ UNCHANGED <<mn, sdram, flash, image>>

\* *r
MnRunFlash == Command /\ flash[0] = MAGIC /\ RunFlash("sdram") /\ UNCHANGED <<mn, flash, image>>

-----------------------------------------------------------------------------
(* Downloads.                                                              *)

\* *p, *v and *t.
MnMode(prog) ==
    /\ Command /\ mn' = [mn EXCEPT !.prog = prog]
    /\ UNCHANGED <<job, sdram, flash, image>>
MnToggle ==
    /\ Command
    /\ mn' = [mn EXCEPT !.target = IF @ = "sdram" THEN "flash" ELSE "sdram", !.max = 0]
    /\ UNCHANGED <<job, sdram, flash, image>>

\* '@' and an address; what is left of an unfinished word stays. The host sends
\* the code table before, so that its codes stand for the bytes it means.
MnAddress(address) ==
    /\ Asks
    /\ mn' = [mn EXCEPT !.address = address,
                        !.data = IF mn.bytes = 0 THEN 0 ELSE Fits(address * WordBytes),
                        !.max = IF address = 0 THEN 0 ELSE @]
    /\ sent' = [from |-> address, bytes |-> <<>>,
                faithful |-> mn.bytes = 0 /\ mn.prog /\ mn.target # "flash"]
    /\ UNCHANGED <<job, sdram, flash, image>>

\* ' and two digits: the next byte counts as many.
MnRepeat(count) ==
    /\ Asks /\ mn' = [mn EXCEPT !.repeat = count]
    /\ UNCHANGED <<job, sdram, flash, sent, image>>

\* A code of the table, sent after an address; an unknown one changes nothing.
MnCode(value) ==
    /\ job.do = "input" /\ sent.from >= 0 /\ Len(sent.bytes) + mn.repeat <= MaxSent
    /\ job' = [do |-> "code", value |-> value]
    /\ sent' = [sent EXCEPT !.bytes = @ \o [i \in 1 .. mn.repeat |-> value]]
    /\ UNCHANGED <<mn, sdram, flash, image, budget>>

\* A word is complete: it is stored, and the highest address goes into word 1.
Stored(memory, data, max) ==
    [a \in DOMAIN memory |-> IF a = 1 /\ max > mn.max THEN max
                             ELSE IF a = mn.address THEN swapBytes(data) ELSE memory[a]]

Data(value) == Fits(mn.data * ByteBase + value)
Ended == mn.repeat <= 1
Again(fields) == [fields EXCEPT !.repeat = IF Ended THEN 1 ELSE @ - 1]

CountAfterWord == 0

\* The word is stored, or only compared with what is there.
MnWord(data) ==
    LET max == IF mn.address + 1 > mn.max /\ mn.prog THEN mn.address + 1 ELSE mn.max IN
    /\ mn.address <= LastAddress
    /\ mn' = Again([mn EXCEPT !.address = @ + 1, !.max = max, !.bytes = CountAfterWord,
                              !.data = 0])
    /\ sdram' = IF mn.prog THEN Stored(sdram, data, max) ELSE sdram
    /\ job' = IF Ended THEN Input ELSE job

\* The flash cannot be downloaded to: the rest of the repetitions is dropped,
\* and the bytes are not counted from 0 again.
MnAbort(data) ==
    /\ mn' = [mn EXCEPT !.address = IF @ = 0 THEN 1 ELSE @, !.bytes = @ + 1, !.data = data,
                        !.repeat = 1]
    /\ job' = Input /\ UNCHANGED sdram

\* One round of the loop over the repetitions.
MnByte ==
    /\ job.do = "code"
    /\ LET data == Data(job.value) IN
       IF mn.repeat = 0 THEN mn' = [mn EXCEPT !.repeat = 1] /\ job' = Input /\ UNCHANGED sdram
       ELSE IF mn.bytes + 1 # WordBytes
       THEN /\ mn' = Again([mn EXCEPT !.bytes = @ + 1, !.data = data])
            /\ job' = IF Ended THEN Input ELSE job
            /\ UNCHANGED sdram
       ELSE IF mn.target = "flash" THEN MnAbort(data)
       ELSE MnWord(data)
    /\ UNCHANGED <<flash, sent, image, budget>>

\* *m leaves the addresses in all three rounds: each case falls into the last.
MnMemcheck ==
    /\ Command
    /\ mn' = [mn EXCEPT !.max = 0]
    /\ sdram' = [a \in SdramPlaces |-> Fits(a * WordBytes)]
    /\ UNCHANGED <<job, flash, image>>

-----------------------------------------------------------------------------
(* The flash.                                                              *)

\* *f: nothing, unless the target holds a program that fits.
MnStore ==
    /\ Command /\ mn.target = "sdram" /\ sdram[0] = MAGIC
    /\ sdram[1] \in 0 .. FlashWords - 1
    /\ job' = [do |-> "scan", at |-> 0, works |-> TRUE]
    /\ image' = TornImage
    /\ UNCHANGED <<mn, sdram, flash>>

\* Mutant: only the first word of each page is looked at.
DirtyFirst(at) == at % PageWords = 0 /\ flash[at] # Erased

Dirty(at) == flash[at] # Erased

\* One word of the loops that erase the page of every word that is not erased.
ScanWord(works) ==
    /\ works \/ Dirty(job.at)
    /\ flash' \in IF Dirty(job.at) THEN flashErase(flash, job.at, works) ELSE {flash}
    /\ job' = [job EXCEPT !.at = @ + 1, !.works = @ /\ works]

MnScan(works) ==
    /\ job.do = "scan"
    /\ Worked(works)
    /\ IF job.at < sdram[1] THEN ScanWord(works)
       ELSE works /\ job' = [job EXCEPT !.do = "write", !.at = 0] /\ UNCHANGED flash
    /\ UNCHANGED <<mn, sdram, sent, image>>

\* The words, block by block. "Programming finished" comes in any case.
MnWrite(works) ==
    /\ job.do = "write"
    /\ Worked(works)
    /\ IF job.at < sdram[1]
       THEN /\ flash' \in flashWrite(flash, job.at, sdram, works)
            /\ job' = [job EXCEPT !.at = @ + BlockWords, !.works = @ /\ works]
            /\ UNCHANGED image
       ELSE /\ works /\ job' = Input /\ UNCHANGED flash
            /\ image' = IF job.works
                        THEN [words |-> [a \in 0 .. sdram[1] - 1 |-> sdram[a]], torn |-> FALSE]
                        ELSE image
    /\ UNCHANGED <<mn, sdram, sent>>

\* *e
MnErase ==
    /\ Command /\ job' = [do |-> "erase", at |-> 0, works |-> TRUE]
    /\ image' = TornImage
    /\ UNCHANGED <<mn, sdram, flash>>

MnErasePage(works) ==
    /\ job.do = "erase"
    /\ Worked(works)
    /\ IF job.at < FlashWords THEN ScanWord(works) /\ UNCHANGED image
       ELSE /\ works /\ job' = Input /\ UNCHANGED flash
            /\ image' = [image EXCEPT !.torn = ~job.works]
    /\ UNCHANGED <<mn, sdram, sent>>

\* *s: a program that reaches into the page is no longer what was stored.
MnCheck ==
    /\ Command /\ job' = CheckBegin
    /\ image' = IF LastStart \in DOMAIN image.words THEN TornImage ELSE image
    /\ UNCHANGED <<mn, sdram, flash>>

MnCheckStep(works) ==
    /\ Worked(works)
    /\ \/ /\ job.do = "check"
          /\ \E r \in CheckRound(flash, job, works) : flash' = r.flash /\ job' = r.job
       \/ /\ job.do = "verify" /\ works
          /\ job' = [do |-> "verdict", okay |-> TestOkay(flash)] /\ UNCHANGED flash
       \/ job.do = "verdict" /\ works /\ job' = Input /\ UNCHANGED flash
    /\ UNCHANGED <<mn, sdram, sent, image>>

-----------------------------------------------------------------------------
\* The power fails: the SDRAM may be lost, and the operation of the flash is
\* done partly. Afterwards, and after a reset by hand, the monitor boots.
Interrupted ==
    CASE job.do = "scan" /\ job.at < sdram[1] /\ Dirty(job.at) -> flashErase(flash, job.at, FALSE)
      [] job.do = "erase" /\ job.at < FlashWords /\ Dirty(job.at) -> flashErase(flash, job.at, FALSE)
      [] job.do = "write" /\ job.at < sdram[1] -> flashWrite(flash, job.at, sdram, FALSE)
      [] job.do = "check" -> {r.flash : r \in CheckRound(flash, job, FALSE)}
      [] OTHER -> {flash}

MnPowerFails ==
    /\ job.do # "reset"
    /\ Worked(FALSE)
    /\ job' = [do |-> "reset"] /\ mn' = Fresh
    /\ sdram' \in {sdram, [a \in SdramPlaces |-> 0]}
    /\ flash' \in Interrupted
    /\ sent' = NothingSent /\ UNCHANGED image

MnNext ==
    \/ \E button \in BOOLEAN : MnBoot(button) \/ MnHelp(button)
    \/ MnStart \/ MnRunFlash
    \/ \E prog \in BOOLEAN : MnMode(prog)
    \/ MnToggle \/ MnMemcheck
    \/ \E address \in 0 .. LastAddress : MnAddress(address)
    \/ \E count \in Repeats : MnRepeat(count)
    \/ \E value \in Codes : MnCode(value)
    \/ MnByte
    \/ MnStore \/ MnErase \/ MnCheck
    \/ \E works \in BOOLEAN : MnScan(works) \/ MnWrite(works) \/ MnErasePage(works)
                                \/ MnCheckStep(works)
    \/ MnPowerFails

MnSpec == MnInit /\ [][MnNext]_mnVars

-----------------------------------------------------------------------------
(* Correctness.                                                            *)

Received(i) == Word(SubSeq(sent.bytes, i * WordBytes + 1, i * WordBytes + WordBytes))
Complete == Len(sent.bytes) \div WordBytes

\* After a download in programming mode, with no byte left of an earlier one,
\* every word that was sent, repetitions included, is in the SDRAM at its
\* address; a download from address 0 leaves its number of words in word 1.
DownloadStored ==
    job.do = "input" /\ sent.faithful /\ mn.target = "sdram" =>
        /\ \A i \in 0 .. Complete - 1 :
            sent.from + i # 1 => sdram[sent.from + i] = swapBytes(Received(i))
        /\ sent.from = 0 /\ Complete > 1 => sdram[1] = Complete

\* A program that was stored in the flash without a fault stays there through
\* every command but *f, *e and a *s whose page it reaches, through resets and
\* power cuts.
ImageKept == \A a \in DOMAIN image.words : flash[a] = image.words[a]

\* What a reset, *h or *r copies out of the flash and starts is the program that
\* was stored last, whole, unless a fault happened while it was stored. (It has
\* both words of its header: *f also stores a program of word 0 alone, whose size
\* is then what the flash held in word 1 before.)
BootsWholeImage ==
    job.do = "run" /\ job.copied /\ job.runs = "sdram" /\ ~image.torn /\ 1 \in DOMAIN image.words
        => \A a \in DOMAIN image.words : sdram[a] = image.words[a]

\* "Flash test okay." is only said when the page holds the test sequence and
\* is erased behind it.
CheckTruthful ==
    job.do = "verdict" /\ job.okay => \A a \in LastStart .. LastEnd - 1 : flash[a] = AfterTest[a]

\* The help text: ** starts the program loaded in the target.
StartsAskedProgram ==
    job.do = "run" =>
        LET asked == IF job.asked = "flash" THEN flash ELSE sdram
        IN  \A a \in 0 .. asked[1] - 1 : sdram[a] = asked[a]

\* The flash is a safe place: what was stored stays, what boots is whole, and what
\* the test says of a page is so.
StoredProgramSafe == ImageKept /\ BootsWholeImage /\ CheckTruthful
=============================================================================
