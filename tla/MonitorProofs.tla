--------------------------- MODULE MonitorProofs ---------------------------
(***************************************************************************)
(* The monitors keep the program that is stored in the flash, boot the     *)
(* whole of it, and say of a page that it passed the test only when it     *)
(* did: for flashes, pages and blocks of any size, any number of commands, *)
(* of faults and of power cuts.                                            *)
(***************************************************************************)
EXTENDS Monitor1300, TLAPS

\* A stored program is a list of words, and its word 1 its size.
ImageSized ==
    \E n \in 0 .. FlashWords - 1 :
        /\ DOMAIN image.words = 0 .. n - 1
        /\ n > 1 => image.words[1] = n

\* While the flash is erased or programmed for a program no program counts as
\* stored, and the size of the new one is known.
Storing ==
    job.do \in {"scan", "write", "erase"} =>
        /\ image = TornImage
        /\ job \in [do : {"scan", "write", "erase"}, at : Nat, works : BOOLEAN]
        /\ job.do # "erase" => sdram[1] \in 0 .. FlashWords - 1

\* Without a failure the loops of *f leave their part of the flash as they should.
ScanErases ==
    job.do = "scan" /\ job.works => \A a \in FlashPlaces : a < job.at => flash[a] = Erased
WriteProgresses ==
    job.do = "write" /\ job.works =>
        \A a \in 0 .. sdram[1] - 1 : flash[a] = IF a < job.at THEN sdram[a] ELSE Erased

\* The test of a page leaves the stored program alone. What it has passed of the
\* page is erased, but for the first word, which it skips after an erase.
CheckScans ==
    job.do = "check" =>
        /\ job \in [do : {"check"}, at : LastStart .. LastEnd, erased : BOOLEAN]
        /\ LastStart \notin DOMAIN image.words
        /\ \A a \in LastStart + 1 .. job.at - 1 : flash[a] = Erased
CheckPrograms ==
    job.do = "verify" => \A a \in LastStart + BlockWords .. LastEnd - 1 : flash[a] = Erased

\* The inductive invariant.
StoreInv ==
    /\ ImageSized /\ Storing /\ ScanErases /\ WriteProgresses /\ CheckScans /\ CheckPrograms
    /\ StoredProgramSafe

-----------------------------------------------------------------------------
(* The flash.                                                              *)

\* The page of the test: where it lies, and that the erase of one of its words
\* changes nothing below it.
LEMMA LastPage ==
    /\ LastStart \in Nat /\ LastEnd = LastStart + PageWords
    /\ LastEnd \in Nat /\ LastEnd <= FlashWords
    /\ BlockWords \in Nat \ {0} /\ PageWords \in Nat \ {0} /\ BlockWords <= PageWords
    /\ FlashWords \in Nat
    /\ \A a \in LastStart .. LastEnd - 1, b \in Nat :
        b \div PageWords = a \div PageWords => b >= LastStart
<1> DEFINE P == PageWords
           F == FlashWords
<1>1. F \in Nat \ {0} /\ P \in Nat \ {0} /\ BlockWords \in Nat \ {0}
  BY FlashAssumption
<1>2. P % BlockWords = 0 /\ F % (2 * P) = 0
  BY FlashAssumption
<1>3. PICK c \in Nat \ {0} : F = (2 * P) * c
  <2>1. F % (2 * P) = F - (2 * P) * (F \div (2 * P)) /\ F \div (2 * P) \in Nat
    BY <1>1, Z3
  <2>2. F = (2 * P) * (F \div (2 * P))
    BY <1>1, <1>2, <2>1, Z3
  <2>3. F \div (2 * P) # 0
    BY <1>1, <2>2, Z3
  <2> QED  BY <2>1, <2>2, <2>3
<1>4. BlockWords <= P
  BY <1>1, <1>2, Z3
<1>5. F \div 2 = P * c
  <2>1. P * c \in Nat /\ F = 2 * (P * c)
    BY <1>1, <1>3, Z3
  <2> QED  BY <2>1, Z3
<1>6. LastEnd = P * c /\ LastStart = P * (c - 1) /\ LastEnd = LastStart + P
      /\ LastStart \in Nat
  BY <1>1, <1>3, <1>5, Z3 DEF LastEnd, LastStart
<1>7. P * c <= F
  BY <1>1, <1>3, Z3
<1>8. ASSUME NEW a \in LastStart .. LastEnd - 1, NEW b \in Nat,
             b \div PageWords = a \div PageWords
      PROVE  b >= LastStart
  <2>1. a \in Nat /\ a - P * (c - 1) \in 0 .. P - 1
    BY <1>1, <1>3, <1>6
  <2>2. a \div P = c - 1
    BY <1>1, <1>3, <2>1, Z3
  <2>3. b = P * (b \div P) + (b % P) /\ b % P \in Nat
    BY <1>1, Z3
  <2> QED  BY <1>1, <1>6, <1>8, <2>2, <2>3, Z3
<1> QED  BY <1>1, <1>4, <1>6, <1>7, <1>8

\* An operation of the flash leaves each word as it was or as it should become;
\* one that works leaves them all as they should become.
LEMMA OperationChanges ==
    ASSUME NEW before, NEW after, NEW works \in BOOLEAN,
           NEW f \in Outcomes(before, after, works), works => after = [a \in FlashPlaces |-> after[a]]
    PROVE  /\ works => f = after
           /\ \A a \in FlashPlaces : f[a] = before[a] \/ f[a] = after[a]
BY DEF Outcomes, Partly

LEMMA EraseChanges ==
    ASSUME NEW at, NEW works \in BOOLEAN, NEW f \in flashErase(flash, at, works)
    PROVE  \A a \in FlashPlaces :
            /\ f[a] = flash[a] \/ f[a] = Erased
            /\ a \div PageWords # at \div PageWords => f[a] = flash[a]
            /\ works /\ a = at => f[a] = Erased
<1> DEFINE after == AfterErase(flash, at)
<1>1. after = [a \in FlashPlaces |-> after[a]]
  BY DEF AfterErase
<1>2. \A a \in FlashPlaces :
        after[a] = IF a \div PageWords = at \div PageWords THEN Erased ELSE flash[a]
  BY DEF AfterErase
<1>3. f \in Outcomes(flash, after, works)
  BY DEF flashErase
<1> HIDE DEF after
<1>4. (works => f = after) /\ \A a \in FlashPlaces : f[a] = flash[a] \/ f[a] = after[a]
  BY <1>1, <1>3, OperationChanges
<1> QED  BY <1>2, <1>4

LEMMA WriteChanges ==
    ASSUME NEW at \in Nat, NEW source, NEW works \in BOOLEAN,
           NEW f \in flashWrite(flash, at, source, works)
    PROVE  \A a \in FlashPlaces :
            /\ ~(a >= at /\ a < at + BlockWords) => f[a] = flash[a]
            /\ works /\ a >= at /\ a < at + BlockWords /\ flash[a] = Erased => f[a] = source[a]
<1> DEFINE after == AfterWrite(flash, at, source)
<1>1. after = [a \in FlashPlaces |-> after[a]]
  BY DEF AfterWrite
<1>2. \A a \in FlashPlaces :
        after[a] = IF a \in at .. at + BlockWords - 1
                   THEN Programmed(flash[a], source[a]) ELSE flash[a]
  BY DEF AfterWrite
<1>3. f \in Outcomes(flash, after, works)
  BY DEF flashWrite
<1> HIDE DEF after
<1>4. (works => f = after) /\ \A a \in FlashPlaces : f[a] = flash[a] \/ f[a] = after[a]
  BY <1>1, <1>3, OperationChanges
<1>5. FlashPlaces \subseteq Nat /\ BlockWords \in Nat
  BY LastPage DEF FlashPlaces
<1>6. \A a \in FlashPlaces : a \in at .. at + BlockWords - 1 <=> a >= at /\ a < at + BlockWords
  BY <1>5
<1> QED  BY <1>2, <1>4, <1>6 DEF Programmed

-----------------------------------------------------------------------------
(* Steps that leave the flash alone.                                       *)

Loops == {"scan", "write", "erase", "check", "verify", "verdict"}

\* Outside the loops over the flash, and before a program runs, there is nothing
\* to keep but the stored program.
LEMMA QuietStep ==
    StoreInv /\ flash' = flash /\ image' = image /\ job'.do \notin Loops \cup {"run"} => StoreInv'
BY DEF StoreInv, ImageSized, Storing, ScanErases, WriteProgresses, CheckScans, CheckPrograms,
       StoredProgramSafe, ImageKept, BootsWholeImage, CheckTruthful, Loops

\* The copy takes the whole of the stored program: word 1 of the flash is its size.
LEMMA CopyStep ==
    ASSUME StoreInv, flash' = flash, image' = image,
           NEW asked, NEW runs, job' = Start(asked, runs, TRUE),
           \A a \in SdramPlaces : a < flash[1] => sdram'[a] = flash[a]
    PROVE  StoreInv'
<1>1. job'.do = "run"
  BY DEF Start
<1>2. BootsWholeImage'
  <2> SUFFICES ASSUME 1 \in DOMAIN image.words, NEW a \in DOMAIN image.words
               PROVE  sdram'[a] = image.words[a]
    BY DEF BootsWholeImage
  <2>1. PICK n \in 0 .. FlashWords - 1 :
            DOMAIN image.words = 0 .. n - 1 /\ (n > 1 => image.words[1] = n)
    BY DEF StoreInv, ImageSized
  <2>2. FlashWords \in Nat
    BY LastPage
  <2>3. flash[1] = n /\ a \in SdramPlaces /\ a < n
    BY <2>1, <2>2 DEF StoreInv, StoredProgramSafe, ImageKept, SdramPlaces, FlashPlaces
  <2> QED  BY <2>3 DEF StoreInv, StoredProgramSafe, ImageKept
<1> QED  BY <1>1, <1>2 DEF StoreInv, ImageSized, Storing, ScanErases, WriteProgresses, CheckScans,
                           CheckPrograms, StoredProgramSafe, ImageKept, CheckTruthful

\* A program that runs where it is was not copied.
LEMMA JumpStep ==
    ASSUME StoreInv, flash' = flash, image' = image,
           NEW asked, NEW runs, job' = Start(asked, runs, FALSE)
    PROVE  StoreInv'
BY DEF StoreInv, ImageSized, Storing, ScanErases, WriteProgresses, CheckScans, CheckPrograms,
       StoredProgramSafe, ImageKept, BootsWholeImage, CheckTruthful, Start

-----------------------------------------------------------------------------
(* The commands that change the flash.                                     *)

\* One round of a loop.
LEMMA RoundMoves ==
    ASSUME NEW j \in [do : {"scan", "write", "erase"}, at : Nat, works : BOOLEAN],
           NEW at \in Nat, NEW works \in BOOLEAN
    PROVE  LET next == [j EXCEPT !.at = at, !.works = @ /\ works]
           IN  /\ next \in [do : {j.do}, at : {at}, works : BOOLEAN]
               /\ next.works => j.works /\ works
<1> DEFINE w == j.works /\ works
           next == [j EXCEPT !.at = at, !.works = w]
<1>1. w \in BOOLEAN
  BY Zenon
<1> HIDE DEF w
<1>2. next \in [do : {j.do}, at : {at}, works : BOOLEAN] /\ next.works = w
  BY <1>1
<1> USE DEF w
<1> QED  BY <1>2, Zenon

\* Once no program counts as stored, there is nothing to keep but the loop.
LEMMA TornStep ==
    ASSUME image' = TornImage,
           job'.do \notin {"run", "check", "verify", "verdict"},
           Storing', ScanErases', WriteProgresses'
    PROVE  StoreInv'
<1>1. ImageSized' /\ ImageKept' /\ ~(1 \in DOMAIN image'.words)
  <2>1. image'.words = <<>> /\ DOMAIN image'.words = 0 .. 0 - 1
    BY DEF TornImage
  <2>2. 0 \in 0 .. FlashWords - 1
    BY FlashAssumption
  <2> QED  BY <2>1, <2>2 DEF ImageSized, ImageKept
<1> QED  BY <1>1 DEF StoreInv, CheckScans, CheckPrograms, StoredProgramSafe, BootsWholeImage,
                     CheckTruthful

LEMMA StoreBegins == StoreInv /\ (MnStore \/ MnErase) => StoreInv'
<1> SUFFICES ASSUME StoreInv, MnStore \/ MnErase PROVE StoreInv'
  OBVIOUS
<1>1. /\ image' = TornImage /\ sdram' = sdram
      /\ job' \in [do : {"scan", "erase"}, at : {0}, works : BOOLEAN]
      /\ job'.do = "scan" => sdram[1] \in 0 .. FlashWords - 1
  <2>1. CASE MnStore
    BY <2>1 DEF MnStore
  <2>2. CASE MnErase
    BY <2>2 DEF MnErase
  <2> QED  BY <2>1, <2>2
<1>2. ScanErases'
  BY <1>1, LastPage DEF ScanErases, FlashPlaces
<1> QED  BY <1>1, <1>2, TornStep DEF Storing, WriteProgresses

LEMMA ScanStep == StoreInv /\ (\E works \in BOOLEAN : MnScan(works)) => StoreInv'
<1> SUFFICES ASSUME StoreInv, NEW works \in BOOLEAN, MnScan(works) PROVE StoreInv'
  OBVIOUS
<1>1. /\ image = TornImage /\ image' = image /\ sdram' = sdram /\ job.do = "scan"
      /\ job \in [do : {"scan", "write", "erase"}, at : Nat, works : BOOLEAN]
      /\ sdram[1] \in 0 .. FlashWords - 1
  BY DEF StoreInv, Storing, MnScan
<1>2. job.works => \A a \in FlashPlaces : a < job.at => flash[a] = Erased
  BY <1>1 DEF StoreInv, ScanErases
<1>3. FlashWords \in Nat /\ FlashPlaces \subseteq Nat
  BY LastPage DEF FlashPlaces
<1>4. CASE job.at < sdram[1]
  <2>1. ScanWord(works)
    BY <1>4 DEF MnScan
  <2>2. job' \in [do : {"scan"}, at : Nat, works : BOOLEAN] /\ job'.at = job.at + 1
        /\ (job'.works => job.works /\ works)
    <3>1. job' = [job EXCEPT !.at = job.at + 1, !.works = @ /\ works] /\ job.at + 1 \in Nat
      BY <1>1, <2>1 DEF ScanWord
    <3>2. job' \in [do : {"scan"}, at : {job.at + 1}, works : BOOLEAN]
          /\ (job'.works => job.works /\ works)
      BY <1>1, <3>1, RoundMoves, Zenon
    <3> QED  BY <3>1, <3>2
  <2>3. ScanErases'
    <3> SUFFICES ASSUME job'.works, NEW a \in FlashPlaces, a < job'.at
                 PROVE  flash'[a] = Erased
      BY DEF ScanErases
    <3>1. a = job.at \/ (a < job.at /\ flash[a] = Erased)
      BY <1>1, <1>2, <1>3, <2>2
    <3>2. CASE Dirty(job.at)
      <4>1. flash' \in flashErase(flash, job.at, works)
        BY <2>1, <3>2 DEF ScanWord
      <4>2. works
        BY <2>2, Zenon
      <4>3. flash'[a] = flash[a] \/ flash'[a] = Erased
        BY <4>1, EraseChanges, Zenon
      <4>4. a = job.at => flash'[a] = Erased
        BY <4>1, <4>2, EraseChanges, Zenon
      <4> QED  BY <3>1, <4>3, <4>4
    <3>3. CASE ~Dirty(job.at)
      BY <2>1, <3>1, <3>3 DEF ScanWord, Dirty
    <3> QED  BY <3>2, <3>3
  <2> QED  BY <1>1, <2>2, <2>3, TornStep DEF Storing, WriteProgresses
<1>5. CASE ~(job.at < sdram[1])
  <2>1. flash' = flash /\ job' = [job EXCEPT !.do = "write", !.at = 0]
    BY <1>5 DEF MnScan
  <2>2. job' \in [do : {"write"}, at : {0}, works : BOOLEAN] /\ job'.works = job.works
    BY <1>1, <2>1
  <2>3. WriteProgresses'
    BY <1>1, <1>2, <1>3, <1>5, <2>1, <2>2 DEF WriteProgresses, FlashPlaces
  <2> QED  BY <1>1, <2>2, <2>3, TornStep DEF Storing, ScanErases
<1> QED  BY <1>4, <1>5

LEMMA WriteStep == StoreInv /\ (\E works \in BOOLEAN : MnWrite(works)) => StoreInv'
<1> SUFFICES ASSUME StoreInv, NEW works \in BOOLEAN, MnWrite(works) PROVE StoreInv'
  OBVIOUS
<1>1. /\ image = TornImage /\ sdram' = sdram /\ job.do = "write"
      /\ job \in [do : {"scan", "write", "erase"}, at : Nat, works : BOOLEAN]
      /\ sdram[1] \in 0 .. FlashWords - 1
  BY DEF StoreInv, Storing, MnWrite
<1>2. job.works => \A a \in 0 .. sdram[1] - 1 :
                        flash[a] = IF a < job.at THEN sdram[a] ELSE Erased
  BY <1>1 DEF StoreInv, WriteProgresses
<1>3. FlashWords \in Nat /\ BlockWords \in Nat \ {0} /\ 0 .. sdram[1] - 1 \subseteq FlashPlaces
  BY <1>1, LastPage DEF FlashPlaces
<1>4. CASE job.at < sdram[1]
  <2>1. flash' \in flashWrite(flash, job.at, sdram, works) /\ image' = image
        /\ job' = [job EXCEPT !.at = @ + BlockWords, !.works = @ /\ works]
    BY <1>4 DEF MnWrite
  <2>2. job' \in [do : {"write"}, at : Nat, works : BOOLEAN] /\ job'.at = job.at + BlockWords
        /\ (job'.works => job.works /\ works)
    <3>1. job' = [job EXCEPT !.at = job.at + BlockWords, !.works = @ /\ works]
          /\ job.at + BlockWords \in Nat
      BY <1>1, <1>3, <2>1
    <3>2. job' \in [do : {"write"}, at : {job.at + BlockWords}, works : BOOLEAN]
          /\ (job'.works => job.works /\ works)
      BY <1>1, <3>1, RoundMoves, Zenon
    <3> QED  BY <3>1, <3>2
  <2>3. WriteProgresses'
    <3> SUFFICES ASSUME job'.works, NEW a \in 0 .. sdram[1] - 1
                 PROVE  flash'[a] = IF a < job.at + BlockWords THEN sdram[a] ELSE Erased
      BY <1>1, <2>2 DEF WriteProgresses
    <3>1. /\ a < job.at \/ a >= job.at + BlockWords => flash'[a] = flash[a]
          /\ a >= job.at /\ a < job.at + BlockWords /\ flash[a] = Erased => flash'[a] = sdram[a]
      <4>1. a \in FlashPlaces /\ job.at \in Nat /\ works
        BY <1>1, <1>3, <2>2, Zenon
      <4>2. ~(a >= job.at /\ a < job.at + BlockWords) => flash'[a] = flash[a]
        BY <2>1, <4>1, WriteChanges, Zenon
      <4>3. a >= job.at /\ a < job.at + BlockWords /\ flash[a] = Erased => flash'[a] = sdram[a]
        <5> DEFINE f == flash'
        <5>1. f \in flashWrite(flash, job.at, sdram, TRUE)
          BY <2>1, <4>1, Zenon
        <5> HIDE DEF f
        <5>2. a >= job.at /\ a < job.at + BlockWords /\ flash[a] = Erased => f[a] = sdram[a]
          BY <4>1, <5>1, WriteChanges
        <5> QED  BY <5>2 DEF f
      <4> QED  BY <1>1, <1>3, <4>1, <4>2, <4>3
    <3> QED  BY <1>1, <1>2, <1>3, <2>2, <3>1
  <2> QED  BY <1>1, <2>1, <2>2, <2>3, TornStep DEF Storing, ScanErases
<1>5. CASE ~(job.at < sdram[1])
  <2>1. flash' = flash /\ job' = Input
        /\ image' = IF job.works
                    THEN [words |-> [a \in 0 .. sdram[1] - 1 |-> sdram[a]], torn |-> FALSE]
                    ELSE image
    BY <1>5 DEF MnWrite
  <2>2. CASE ~job.works
    BY <1>1, <2>1, <2>2, TornStep DEF Input, Storing, ScanErases, WriteProgresses
  <2>3. CASE job.works
    <3>1. DOMAIN image'.words = 0 .. sdram[1] - 1
          /\ \A a \in 0 .. sdram[1] - 1 : image'.words[a] = sdram[a]
      BY <2>1, <2>3
    <3>2. ImageSized'
      BY <1>1, <1>3, <3>1 DEF ImageSized
    <3>3. ImageKept'
      BY <1>1, <1>2, <1>3, <1>5, <2>1, <2>3, <3>1 DEF ImageKept
    <3> QED  BY <2>1, <3>2, <3>3
             DEF Input, StoreInv, Storing, ScanErases, WriteProgresses, CheckScans, CheckPrograms,
                 StoredProgramSafe, BootsWholeImage, CheckTruthful
  <2> QED  BY <2>2, <2>3
<1> QED  BY <1>4, <1>5

LEMMA EraseStep == StoreInv /\ (\E works \in BOOLEAN : MnErasePage(works)) => StoreInv'
<1> SUFFICES ASSUME StoreInv, NEW works \in BOOLEAN, MnErasePage(works) PROVE StoreInv'
  OBVIOUS
<1>1. /\ image = TornImage /\ sdram' = sdram /\ job.do = "erase"
      /\ job \in [do : {"scan", "write", "erase"}, at : Nat, works : BOOLEAN]
  BY DEF StoreInv, Storing, MnErasePage
<1>2. CASE job.at < FlashWords
  <2>1. image' = image /\ job' \in [do : {"erase"}, at : Nat, works : BOOLEAN]
    <3>1. job' = [job EXCEPT !.at = job.at + 1, !.works = @ /\ works] /\ job.at + 1 \in Nat
          /\ image' = image
      BY <1>1, <1>2 DEF MnErasePage, ScanWord
    <3>2. job' \in [do : {"erase"}, at : {job.at + 1}, works : BOOLEAN]
      BY <1>1, <3>1, RoundMoves, Zenon
    <3> QED  BY <3>1, <3>2
  <2> QED  BY <1>1, <2>1, TornStep DEF Storing, ScanErases, WriteProgresses
<1>3. CASE ~(job.at < FlashWords)
  <2>1. flash' = flash /\ job'.do = "input" /\ image'.words = <<>>
    BY <1>1, <1>3 DEF MnErasePage, Input, TornImage
  <2>2. DOMAIN image'.words = 0 .. 0 - 1 /\ 0 \in 0 .. FlashWords - 1
    BY <2>1, FlashAssumption
  <2>3. ImageSized' /\ ImageKept'
    BY <2>2 DEF ImageSized, ImageKept
  <2> QED  BY <2>1, <2>3
           DEF StoreInv, Storing, ScanErases, WriteProgresses, CheckScans, CheckPrograms,
               StoredProgramSafe, BootsWholeImage, CheckTruthful
<1> QED  BY <1>2, <1>3

-----------------------------------------------------------------------------
(* The test of a page, and power cuts.                                     *)

\* While the test runs, the stored program lies below the page.
LEMMA ProgramBelow ==
    ASSUME ImageSized, LastStart \notin DOMAIN image.words
    PROVE  \A a \in DOMAIN image.words : a \in FlashPlaces /\ a < LastStart
<1>1. PICK n \in 0 .. FlashWords - 1 : DOMAIN image.words = 0 .. n - 1
  BY DEF ImageSized
<1> QED  BY <1>1, LastPage DEF FlashPlaces

\* One round of the test changes its own page only. Behind the first word the page
\* is erased up to where the round gets to, and in the end behind the test sequence.
LEMMA RoundKeeps ==
    ASSUME NEW works \in BOOLEAN,
           job \in [do : {"check"}, at : LastStart .. LastEnd, erased : BOOLEAN],
           \A a \in LastStart + 1 .. job.at - 1 : flash[a] = Erased,
           NEW r \in CheckRound(flash, job, works)
    PROVE  /\ \A a \in FlashPlaces : a < LastStart => r.flash[a] = flash[a]
           /\ \/ /\ r.job \in [do : {"check"}, at : LastStart .. LastEnd, erased : BOOLEAN]
                 /\ \A a \in LastStart + 1 .. r.job.at - 1 : r.flash[a] = Erased
              \/ /\ r.job.do = "verify"
                 /\ \A a \in LastStart + BlockWords .. LastEnd - 1 : r.flash[a] = Erased
              \/ r.job.do = "input"
<1>1. /\ LastStart \in Nat /\ LastEnd = LastStart + PageWords /\ LastEnd <= FlashWords
      /\ BlockWords \in Nat \ {0} /\ PageWords \in Nat \ {0} /\ FlashWords \in Nat
      /\ job.at \in Nat /\ job.at >= LastStart /\ job.at <= LastEnd
  BY LastPage
<1>2. CASE job.at = LastEnd
  <2>1. PICK f \in flashWrite(flash, LastStart, TestSource, works) :
            r = [flash |-> f, job |-> [do |-> "verify"]]
    BY <1>2 DEF CheckRound
  <2>2. \A a \in FlashPlaces :
            ~(a >= LastStart /\ a < LastStart + BlockWords) => f[a] = flash[a]
    <3> SUFFICES ASSUME NEW a \in FlashPlaces, ~(a >= LastStart /\ a < LastStart + BlockWords)
                 PROVE  f[a] = flash[a]
      OBVIOUS
    <3> DEFINE start == LastStart
    <3>1. start \in Nat /\ f \in flashWrite(flash, start, TestSource, works)
          /\ ~(a >= start /\ a < start + BlockWords)
      BY <1>1
    <3> HIDE DEF start
    <3> QED  BY <3>1, WriteChanges
  <2>3. r.flash = f /\ r.job.do = "verify"
    BY <2>1
  <2>4. \A a \in LastStart + BlockWords .. LastEnd - 1 :
            a \in FlashPlaces /\ ~(a < LastStart + BlockWords) /\ flash[a] = Erased
    BY <1>1, <1>2 DEF FlashPlaces
  <2>5. \A a \in FlashPlaces : a < LastStart => ~(a >= LastStart)
    BY <1>1 DEF FlashPlaces
  <2> QED  BY <2>2, <2>3, <2>4, <2>5
<1>3. CASE job.at # LastEnd /\ flash[job.at] = Erased
  <2>1. r = [flash |-> flash, job |-> [job EXCEPT !.at = @ + 1]]
    BY <1>3 DEF CheckRound
  <2>2. r.flash = flash /\ r.job.at = job.at + 1
        /\ r.job \in [do : {"check"}, at : LastStart .. LastEnd, erased : BOOLEAN]
    BY <1>1, <1>3, <2>1
  <2> QED  BY <1>1, <1>3, <2>2
<1>4. CASE job.at # LastEnd /\ flash[job.at] # Erased /\ job.erased
  BY <1>4 DEF CheckRound
<1>5. CASE job.at # LastEnd /\ flash[job.at] # Erased /\ ~job.erased
  <2>1. PICK f \in flashErase(flash, job.at, works) :
            r = [flash |-> f, job |-> [job EXCEPT !.at = LastStart + 1, !.erased = TRUE]]
    BY <1>5 DEF CheckRound
  <2>2. r.flash = f /\ r.job = [job EXCEPT !.at = LastStart + 1, !.erased = TRUE]
    BY <2>1
  <2>3. LastStart + 1 \in LastStart .. LastEnd
    BY <1>1
  <2>4. r.job.at = LastStart + 1
        /\ r.job \in [do : {"check"}, at : LastStart .. LastEnd, erased : BOOLEAN]
    BY <2>2, <2>3
  <2>5. \A a \in FlashPlaces : a < LastStart => a \div PageWords # job.at \div PageWords
    <3>1. job.at \in LastStart .. LastEnd - 1
      BY <1>1, <1>5
    <3>2. \A a \in FlashPlaces : a \in Nat /\ ~(a < LastStart /\ a >= LastStart)
      BY <1>1 DEF FlashPlaces
    <3> QED  BY <3>1, <3>2, LastPage, Zenon
  <2>6. \A a \in FlashPlaces : a < LastStart => f[a] = flash[a]
    BY <2>5, EraseChanges
  <2> QED  BY <1>1, <2>2, <2>4, <2>6
<1> QED  BY <1>2, <1>3, <1>4, <1>5

LEMMA CheckBegins == StoreInv /\ MnCheck => StoreInv'
<1> SUFFICES ASSUME StoreInv, MnCheck PROVE StoreInv'
  OBVIOUS
<1>1. /\ flash' = flash
      /\ job' = [do |-> "check", at |-> LastStart, erased |-> FALSE]
      /\ image' = IF LastStart \in DOMAIN image.words THEN TornImage ELSE image
  BY DEF MnCheck, CheckBegin
<1>2. ImageSized' /\ ImageKept' /\ LastStart \notin DOMAIN image'.words
  <2>1. CASE LastStart \in DOMAIN image.words
    <3>1. image'.words = <<>> /\ DOMAIN image'.words = 0 .. 0 - 1
      BY <1>1, <2>1 DEF TornImage
    <3>2. 0 \in 0 .. FlashWords - 1 /\ DOMAIN image'.words = {}
      BY <3>1, FlashAssumption
    <3>3. ImageSized'
      BY <3>1, <3>2 DEF ImageSized
    <3> QED  BY <3>2, <3>3 DEF ImageKept
  <2>2. CASE LastStart \notin DOMAIN image.words
    BY <1>1, <2>2 DEF StoreInv, StoredProgramSafe, ImageSized, ImageKept
  <2> QED  BY <2>1, <2>2
<1>3. CheckScans'
  BY <1>1, <1>2, LastPage DEF CheckScans
<1> QED  BY <1>1, <1>2, <1>3
         DEF StoreInv, Storing, ScanErases, WriteProgresses, CheckPrograms, StoredProgramSafe,
             BootsWholeImage, CheckTruthful

LEMMA CheckStep == StoreInv /\ (\E works \in BOOLEAN : MnCheckStep(works)) => StoreInv'
<1> SUFFICES ASSUME StoreInv, NEW works \in BOOLEAN, MnCheckStep(works) PROVE StoreInv'
  OBVIOUS
<1>1. image' = image /\ ImageSized'
  BY DEF StoreInv, ImageSized, MnCheckStep
<1>2. CASE job.do = "check" /\ \E r \in CheckRound(flash, job, works) :
                flash' = r.flash /\ job' = r.job
  <2>1. PICK r \in CheckRound(flash, job, works) : flash' = r.flash /\ job' = r.job
    BY <1>2
  <2>2. /\ job \in [do : {"check"}, at : LastStart .. LastEnd, erased : BOOLEAN]
        /\ LastStart \notin DOMAIN image.words
        /\ \A a \in LastStart + 1 .. job.at - 1 : flash[a] = Erased
    BY <1>2 DEF StoreInv, CheckScans
  <2>3. /\ \A a \in FlashPlaces : a < LastStart => flash'[a] = flash[a]
        /\ \/ /\ job' \in [do : {"check"}, at : LastStart .. LastEnd, erased : BOOLEAN]
              /\ \A a \in LastStart + 1 .. job'.at - 1 : flash'[a] = Erased
           \/ /\ job'.do = "verify"
              /\ \A a \in LastStart + BlockWords .. LastEnd - 1 : flash'[a] = Erased
           \/ job'.do = "input"
    BY <2>1, <2>2, RoundKeeps
  <2>4. ImageKept'
    BY <1>1, <2>2, <2>3, ProgramBelow DEF StoreInv, StoredProgramSafe, ImageKept
  <2>5. CheckScans' /\ CheckPrograms' /\ job'.do \in {"check", "verify", "input"}
    BY <1>1, <2>2, <2>3 DEF CheckScans, CheckPrograms
  <2> QED  BY <1>1, <2>4, <2>5
           DEF StoreInv, Storing, ScanErases, WriteProgresses, StoredProgramSafe,
               BootsWholeImage, CheckTruthful
<1>3. CASE /\ job.do = "verify"
           /\ job' = [do |-> "verdict", okay |-> TestOkay(flash)] /\ flash' = flash
  <2>1. CheckTruthful'
    <3> SUFFICES ASSUME TestOkay(flash), NEW a \in LastStart .. LastEnd - 1
                 PROVE  flash[a] = AfterTest[a]
      BY <1>3 DEF CheckTruthful
    <3>1. /\ a \in FlashPlaces /\ a \in Nat /\ LastStart \in Nat /\ BlockWords \in Nat \ {0}
          /\ LastEnd \in Nat
      BY LastPage DEF FlashPlaces
    <3>2. CASE a - LastStart \in 0 .. BlockWords - 1
      <4>1. flash[LastStart + (a - LastStart)] = TestWord(a - LastStart)
        BY <3>2 DEF TestOkay
      <4> QED  BY <3>1, <3>2, <4>1 DEF AfterTest
    <3>3. CASE ~(a - LastStart \in 0 .. BlockWords - 1)
      BY <1>3, <3>1, <3>3 DEF AfterTest, StoreInv, CheckPrograms
    <3> QED  BY <3>2, <3>3
  <2> QED  BY <1>1, <1>3, <2>1
           DEF StoreInv, Storing, ScanErases, WriteProgresses, CheckScans, CheckPrograms,
               StoredProgramSafe, ImageKept, BootsWholeImage
<1>4. CASE job' = Input /\ flash' = flash
  BY <1>1, <1>4, QuietStep DEF Input, Loops
<1> QED  BY <1>2, <1>3, <1>4 DEF MnCheckStep

\* The power fails: what is cut short is an erase or a write while no program
\* counts as stored, or one in the page of the test.
LEMMA PowerStep == StoreInv /\ MnPowerFails => StoreInv'
<1> SUFFICES ASSUME StoreInv, MnPowerFails PROVE StoreInv'
  OBVIOUS
<1>1. image' = image /\ job'.do = "reset" /\ flash' \in Interrupted
  BY DEF MnPowerFails
<1>2. ImageKept'
  <2>1. CASE job.do \in {"scan", "write", "erase"}
    BY <1>1, <2>1 DEF StoreInv, Storing, TornImage, ImageKept
  <2>2. CASE job.do = "check"
    <3>1. PICK r \in CheckRound(flash, job, FALSE) : flash' = r.flash
      BY <1>1, <2>2 DEF Interrupted
    <3>2. /\ job \in [do : {"check"}, at : LastStart .. LastEnd, erased : BOOLEAN]
          /\ LastStart \notin DOMAIN image.words
          /\ \A a \in LastStart + 1 .. job.at - 1 : flash[a] = Erased
      BY <2>2 DEF StoreInv, CheckScans
    <3>3. \A a \in FlashPlaces : a < LastStart => flash'[a] = flash[a]
      BY <3>1, <3>2, RoundKeeps
    <3> QED  BY <1>1, <3>2, <3>3, ProgramBelow DEF StoreInv, StoredProgramSafe, ImageKept
  <2>3. CASE job.do \notin {"scan", "write", "erase", "check"}
    BY <1>1, <2>3 DEF Interrupted, StoreInv, StoredProgramSafe, ImageKept
  <2> QED  BY <2>1, <2>2, <2>3
<1> QED  BY <1>1, <1>2
         DEF StoreInv, ImageSized, Storing, ScanErases, WriteProgresses, CheckScans, CheckPrograms,
             StoredProgramSafe, BootsWholeImage, CheckTruthful

-----------------------------------------------------------------------------
(* The monitor of the OR1420.                                              *)

LEMMA StoreStarts == MnInit => StoreInv
<1> SUFFICES ASSUME MnInit PROVE StoreInv
  OBVIOUS
<1>1. job.do = "reset" /\ image.words = <<>> /\ 0 \in 0 .. FlashWords - 1
  BY FlashAssumption DEF MnInit, NoImage
<1>2. DOMAIN image.words = 0 .. 0 - 1
  BY <1>1
<1> QED  BY <1>1, <1>2
         DEF StoreInv, ImageSized, Storing, ScanErases, WriteProgresses, CheckScans, CheckPrograms,
             StoredProgramSafe, ImageKept, BootsWholeImage, CheckTruthful

\* A reset, *h, *r and **.
LEMMA StartStep ==
    StoreInv /\ ((\E button \in BOOLEAN : MnBoot(button) \/ MnHelp(button)) \/ MnStart \/ MnRunFlash)
        => StoreInv'
<1> SUFFICES ASSUME StoreInv,
                    \/ \E button \in BOOLEAN : MnBoot(button) \/ MnHelp(button)
                    \/ MnStart \/ MnRunFlash
             PROVE  StoreInv'
  OBVIOUS
<1>1. flash' = flash /\ image' = image
  BY DEF MnBoot, MnHelp, MnStart, MnRunFlash
<1>2. CASE MnStart
  BY <1>1, <1>2, JumpStep DEF MnStart
<1>3. CASE RunFlash("sdram")
  <2>1. CASE flash[1] <= FlashWords
    BY <1>1, <1>3, <2>1, CopyStep DEF RunFlash, CopyToSdram
  <2>2. CASE ~(flash[1] <= FlashWords)
    BY <1>1, <1>3, <2>2, QuietStep DEF RunFlash, Loops
  <2> QED  BY <2>1, <2>2
<1>4. CASE job' = Input
  BY <1>1, <1>4, QuietStep DEF Input, Loops
<1> QED  BY <1>2, <1>3, <1>4 DEF MnBoot, MnHelp, MnRunFlash, helpscreen

\* The commands of a download, and the test of the memory.
LEMMA DownloadStep ==
    ASSUME StoreInv,
           \/ \E prog \in BOOLEAN : MnMode(prog)
           \/ MnToggle \/ MnMemcheck
           \/ \E address \in 0 .. LastAddress : MnAddress(address)
           \/ \E count \in Repeats : MnRepeat(count)
           \/ \E value \in Codes : MnCode(value)
           \/ MnByte
    PROVE  StoreInv'
<1>1. flash' = flash /\ image' = image
  BY DEF MnMode, MnToggle, MnMemcheck, MnAddress, MnRepeat, MnCode, MnByte
<1>2. CASE MnByte
  <2>1. job'.do \in {"input", "code"}
    BY <1>2 DEF MnByte, MnAbort, MnWord, Input
  <2> QED  BY <1>1, <2>1, QuietStep DEF Loops
<1>3. CASE job.do = "input" /\ job' = job
  BY <1>1, <1>3, QuietStep DEF Loops
<1>4. CASE \E value \in Codes : MnCode(value)
  <2>1. job'.do = "code"
    BY <1>4 DEF MnCode
  <2> QED  BY <1>1, <2>1, QuietStep DEF Loops
<1> QED  BY <1>2, <1>3, <1>4
         DEF MnMode, MnToggle, MnMemcheck, MnAddress, MnRepeat, Command, Asks

LEMMA StoreStep == StoreInv /\ [MnNext]_mnVars => StoreInv'
<1> SUFFICES ASSUME StoreInv, [MnNext]_mnVars PROVE StoreInv'
  OBVIOUS
<1>1. CASE UNCHANGED mnVars
  BY <1>1 DEF mnVars, StoreInv, ImageSized, Storing, ScanErases, WriteProgresses, CheckScans,
              CheckPrograms, StoredProgramSafe, ImageKept, BootsWholeImage, CheckTruthful
<1>2. CASE (\E button \in BOOLEAN : MnBoot(button) \/ MnHelp(button)) \/ MnStart \/ MnRunFlash
  BY <1>2, StartStep, Zenon
<1>3. CASE \/ \E prog \in BOOLEAN : MnMode(prog)
           \/ MnToggle \/ MnMemcheck
           \/ \E address \in 0 .. LastAddress : MnAddress(address)
           \/ \E count \in Repeats : MnRepeat(count)
           \/ \E value \in Codes : MnCode(value)
           \/ MnByte
  BY <1>3, DownloadStep, Zenon
<1>4. CASE MnStore \/ MnErase
  BY <1>4, StoreBegins, Zenon
<1>5. CASE MnCheck
  BY <1>5, CheckBegins, Zenon
<1>6. CASE \E works \in BOOLEAN : MnScan(works)
  BY <1>6, ScanStep, Zenon
<1>7. CASE \E works \in BOOLEAN : MnWrite(works)
  BY <1>7, WriteStep, Zenon
<1>8. CASE \E works \in BOOLEAN : MnErasePage(works)
  BY <1>8, EraseStep, Zenon
<1>9. CASE \E works \in BOOLEAN : MnCheckStep(works)
  BY <1>9, CheckStep, Zenon
<1>10. CASE MnPowerFails
  BY <1>10, PowerStep, Zenon
<1> QED  BY <1>1, <1>2, <1>3, <1>4, <1>5, <1>6, <1>7, <1>8, <1>9, <1>10, Zenon DEF MnNext

\* A program that was stored without a fault stays in the flash through resets,
\* power cuts and failures of the flash, and every command but *f, *e and an *s
\* whose page it reaches (ImageKept); a boot copies and starts the whole of it
\* (BootsWholeImage); and a page that passes the test holds what it should
\* (CheckTruthful).
THEOREM ProgramSafe == MnSpec => []StoredProgramSafe
<1>1. StoreInv => StoredProgramSafe
  BY DEF StoreInv
<1> QED  BY <1>1, StoreStarts, StoreStep, PTL DEF MnSpec

-----------------------------------------------------------------------------
(* The monitor of the OR1300.                                              *)

\* Its own ways to start a program.
LEMMA OrStartStep ==
    ASSUME StoreInv,
           \/ \E button \in BOOLEAN, delay \in 0 .. 4 : OrBoot(button, delay) \/ OrHelp(button, delay)
           \/ OrStart \/ OrRunFlash
    PROVE  StoreInv'
<1>1. flash' = flash /\ image' = image
  BY DEF OrBoot, OrHelp, OrStart, OrRunFlash
<1>2. CASE OrStart
  BY <1>1, <1>2, JumpStep DEF OrStart
<1>3. CASE OrRunFlash
  <2>1. CASE flash[1] <= FlashWords
    BY <1>1, <1>3, <2>1, CopyStep DEF OrRunFlash, RunFlash, CopyToSdram
  <2>2. CASE ~(flash[1] <= FlashWords)
    BY <1>1, <1>3, <2>2, QuietStep DEF OrRunFlash, RunFlash, Loops
  <2> QED  BY <2>1, <2>2
<1>4. CASE \E button \in BOOLEAN, delay \in 0 .. 4 : OrHelpscreen(button, delay)
  <2>1. CASE job' \in {[do |-> "broken"], Input, [do |-> "astray"]}
    BY <1>1, <2>1, QuietStep DEF Loops, Input
  <2>2. CASE /\ sdram' = [a \in SdramPlaces |-> IF a < flash[1] THEN flash[a] ELSE Adjusted[a]]
             /\ job' = Start("flash", "sdram", TRUE)
    BY <1>1, <2>2, CopyStep
  <2>3. PICK button \in BOOLEAN, delay \in 0 .. 4 : OrHelpscreen(button, delay)
    BY <1>4
  <2>4. \/ job' \in {[do |-> "broken"], Input, [do |-> "astray"]}
        \/ /\ sdram' = [a \in SdramPlaces |-> IF a < flash[1] THEN flash[a] ELSE Adjusted[a]]
           /\ job' = Start("flash", "sdram", TRUE)
    BY <2>3, Zenon DEF OrHelpscreen
  <2> QED  BY <2>1, <2>2, <2>4
<1> QED  BY <1>2, <1>3, <1>4 DEF OrBoot, OrHelp

\* Its own ways to download a program.
LEMMA OrDownloadStep ==
    ASSUME StoreInv, OrToggle \/ OrByte \/ \E address \in 0 .. LastAddress : OrAddress(address)
    PROVE  StoreInv'
<1>1. flash' = flash /\ image' = image
  BY DEF OrToggle, OrByte, OrAddress
<1>2. CASE OrByte
  <2>1. job'.do \in {"input", "code"}
    BY <1>2 DEF OrByte, OrTooBig, MnAbort, OrWord, Input
  <2> QED  BY <1>1, <2>1, QuietStep DEF Loops
<1>3. CASE job.do = "input" /\ job' = job
  BY <1>1, <1>3, QuietStep DEF Loops
<1> QED  BY <1>2, <1>3 DEF OrToggle, OrAddress, Command, Asks

LEMMA OrStoreStep == StoreInv /\ [OrNext]_orVars => StoreInv'
<1> SUFFICES ASSUME StoreInv, [OrNext]_orVars PROVE StoreInv'
  OBVIOUS
<1>1. CASE UNCHANGED orVars
  BY <1>1, StoreStep DEF orVars
<1>2. CASE \/ \E button \in BOOLEAN, delay \in 0 .. 4 : OrBoot(button, delay) \/ OrHelp(button, delay)
           \/ OrStart \/ OrRunFlash
  BY <1>2, OrStartStep, Zenon
<1>3. CASE OrToggle \/ OrByte \/ \E address \in 0 .. LastAddress : OrAddress(address)
  BY <1>3, OrDownloadStep, Zenon
<1>4. CASE \/ OrMemcheck
           \/ \E prog \in BOOLEAN : OrMode(prog)
           \/ \E count \in Repeats : OrRepeat(count)
           \/ \E value \in Codes : OrCode(value)
  <2>1. \/ MnMemcheck
        \/ \E prog \in BOOLEAN : MnMode(prog)
        \/ \E count \in Repeats : MnRepeat(count)
        \/ \E value \in Codes : MnCode(value)
    BY <1>4 DEF OrMemcheck, OrMode, OrRepeat, OrCode
  <2> QED  BY <2>1, DownloadStep, Zenon
<1>5. CASE \/ OrStore \/ OrErase \/ OrPowerFails
           \/ \E works \in BOOLEAN : OrStoring(works) \/ OrErasing(works) \/ OrCheck(works)
  <2>1. \/ MnStore \/ MnErase \/ MnPowerFails \/ MnCheck
        \/ \E works \in BOOLEAN : MnScan(works) \/ MnWrite(works) \/ MnErasePage(works)
                                    \/ MnCheckStep(works)
    BY <1>5 DEF OrStore, OrErase, OrPowerFails, OrStoring, OrErasing, OrCheck
  <2>2. MnNext
    BY <2>1, Zenon DEF MnNext
  <2> QED  BY <2>2, StoreStep, Zenon
<1> QED  BY <1>1, <1>2, <1>3, <1>4, <1>5, Zenon DEF OrNext

\* The same of the monitor of the OR1300, which writes over the SDRAM to adjust it
\* before it boots.
THEOREM Or1300ProgramSafe == OrSpec => []StoredProgramSafe
<1>1. OrInit => StoreInv
  BY StoreStarts DEF OrInit
<1>2. StoreInv => StoredProgramSafe
  BY DEF StoreInv
<1> QED  BY <1>1, <1>2, OrStoreStep, PTL DEF OrSpec

=============================================================================
