---------------------------- MODULE FlashDriver ----------------------------
(***************************************************************************)
(* The flash routines of the monitor (modules/bios/c/flash.c): what each   *)
(* of their loops does in one round, as a relation between the contents of *)
(* the flash before and after. The chip, outside the repository, may fail; *)
(* its error flags (flash.h) are never read by any routine.                *)
(***************************************************************************)
EXTENDS Integers

CONSTANTS
    FlashWords,     \* words of the flash (4*1024*1024 in the code)
    PageWords,      \* words that are erased together (1024 in the code)
    BlockWords,     \* words that are programmed together (8 in the code)
    Erased          \* an erased word, 0xFFFFFFFF

ASSUME FlashAssumption ==
    /\ {FlashWords, PageWords, BlockWords} \subseteq Nat \ {0}
    /\ PageWords % BlockWords = 0 /\ FlashWords % (2 * PageWords) = 0

FlashPlaces == 0 .. FlashWords - 1

\* A word that is programmed twice loses bits.
Programmed(old, new) ==
    IF old = Erased THEN new ELSE IF new \in {old, Erased} THEN old ELSE 0

AfterErase(flash, address) ==
    [a \in FlashPlaces |-> IF a \div PageWords = address \div PageWords THEN Erased ELSE flash[a]]

\* The block at the address, with the words of the source, those behind the
\* end of the program included.
AfterWrite(flash, address, source) ==
    [a \in FlashPlaces |-> IF a \in address .. address + BlockWords - 1
                           THEN Programmed(flash[a], source[a]) ELSE flash[a]]

\* An operation that is cut short, or that fails, has changed some words.
Partly(before, after) ==
    {[a \in FlashPlaces |-> IF a \in done THEN after[a] ELSE before[a]] :
        done \in SUBSET {a \in FlashPlaces : before[a] # after[a]}}

\* flashErase, flashWrite for one block: start, wait for the busy flag.
Outcomes(before, after, works) == IF works THEN {after} ELSE Partly(before, after)
flashErase(flash, address, works) == Outcomes(flash, AfterErase(flash, address), works)
flashWrite(flash, address, source, works) ==
    Outcomes(flash, AfterWrite(flash, address, source), works)

-----------------------------------------------------------------------------
(* checkFlash: the page it takes for the last one is erased once if need   *)
(* be, programmed with a test sequence and read back.                      *)

LastEnd == FlashWords \div 2     \* flashsize is half of what *e erases
LastStart == LastEnd - PageWords
TestWord(i) == IF i = 0 THEN 7 ELSE i       \* values[], numbered from 0
TestSource == [a \in FlashPlaces |-> IF a < LastStart THEN 0 ELSE TestWord(a - LastStart)]

\* The check begins with word LastStart and no erase so far.
CheckBegin == [do |-> "check", at |-> LastStart, erased |-> FALSE]

\* One word of the scan. A word that is not erased starts the erase, and the
\* scan goes on with the second word of the page; a second one is an error.
CheckRound(flash, job, works) ==
    IF job.at = LastEnd
    THEN {[flash |-> f, job |-> [do |-> "verify"]] :
            f \in flashWrite(flash, LastStart, TestSource, works)}
    ELSE IF flash[job.at] = Erased
    THEN {[flash |-> flash, job |-> [job EXCEPT !.at = @ + 1]]}
    ELSE IF job.erased THEN {[flash |-> flash, job |-> [do |-> "input"]]}
    ELSE {[flash |-> f, job |-> [job EXCEPT !.at = LastStart + 1, !.erased = TRUE]] :
            f \in flashErase(flash, job.at, works)}

\* The page when the test is okay.
AfterTest == [a \in FlashPlaces |-> IF a - LastStart \in 0 .. BlockWords - 1
                                   THEN TestWord(a - LastStart) ELSE Erased]

\* "Flash test okay."
TestOkay(flash) == \A i \in 0 .. BlockWords - 1 : flash[LastStart + i] = TestWord(i)
=============================================================================
