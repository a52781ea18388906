----------------------------- MODULE SdramProofs -----------------------------
(***************************************************************************)
(* Proofs about the SDRAM controller with the masters that use it.         *)
(***************************************************************************)
EXTENDS SdramTraffic, TLAPS

NoDistance == Distance = 0

StartStates == {"RESET_STATE", "WAIT_100_MICRO", "DO_PRECHARGE", "WAIT_PRECHARGE",
    "DO_AUTO_REFRESH1", "WAIT_AUTO_REFRESH1", "DO_AUTO_REFRESH2", "WAIT_AUTO_REFRESH2",
    "SET_MODE_REG", "WAIT_MODE_REG", "SET_EXTENDED_MODE_REG", "WAIT_EXTENDED_MODE_REG"}
RestStates == {"IDLE", "DO_AUTO_REFRESH", "WAIT_AUTO_REFRESH"}
RowStates == {"INIT_READ_WRITE", "INIT_READ_BURST1"}
LatencyStates == {"WAIT_READ_BURST2", "WAIT_READ_BURST3", "WAIT_READ_BURST4", "WAIT_READ_BURST5"}
OpeningStates == RowStates \cup LatencyStates \cup {"WAIT_READ_BURST1", "INIT_READ_BURST2"}
CloseStates == {"WRITE_PRECHARGE", "WAIT_WRITE_PRECHARGE"}
ReadStates == OpeningStates \cup CloseStates \cup {"DO_READ", "END_READ_TRANSACTION", "SECOND_BURST"}
WordStates == {"INIT_WORD_WRITE", "WRITE_LO", "WAIT_WRITE_LO", "WRITE_HI", "WAIT_WRITE_HI"}
WriteStates == RowStates \cup WordStates \cup CloseStates

-----------------------------------------------------------------------------
(* Quotients and remainders.                                               *)

LEMMA DivMod ==
    ASSUME NEW n \in Nat, NEW k \in Nat \ {0}
    PROVE  n \div k \in Nat /\ n % k \in 0 .. k - 1 /\ n = (n \div k) * k + (n % k)
<1>1. n \div k \in Nat /\ n % k \in 0 .. k - 1
  OBVIOUS
<1>2. PICK q \in Nat : q = n \div k
  BY <1>1
<1>3. PICK r \in 0 .. k - 1 : r = n % k
  BY <1>1
<1>4. n = q * k + r
  BY <1>2, <1>3, Z3
<1> QED BY <1>1, <1>2, <1>3, <1>4

LEMMA QuotientUnique ==
    ASSUME NEW k \in Nat \ {0}, NEW q \in Nat, NEW p \in Nat,
           NEW r \in 0 .. k - 1, NEW s \in 0 .. k - 1, q * k + r = p * k + s
    PROVE  q = p /\ r = s
<1>1. ASSUME NEW a \in Nat, NEW b \in Nat, a > b PROVE a * k >= b * k + k
  <2>1. a >= b + 1
    BY <1>1
  <2>2. a * k >= (b + 1) * k
    BY <2>1
  <2>3. (b + 1) * k = b * k + k
    OBVIOUS
  <2>4. a * k \in Nat /\ b * k \in Nat
    OBVIOUS
  <2> QED BY <2>2, <2>3, <2>4
<1>2. q * k \in Nat /\ p * k \in Nat
  OBVIOUS
<1>3. ~(q > p)
  <2> SUFFICES ASSUME q > p PROVE FALSE
    OBVIOUS
  <2>1. q * k >= p * k + k
    BY <1>1
  <2> QED BY <1>2, <2>1
<1>4. ~(p > q)
  <2> SUFFICES ASSUME p > q PROVE FALSE
    OBVIOUS
  <2>1. p * k >= q * k + k
    BY <1>1
  <2> QED BY <1>2, <2>1
<1>5. q = p
  BY <1>3, <1>4
<1> QED BY <1>2, <1>5

LEMMA RemainderOf ==
    ASSUME NEW n \in Nat, NEW k \in Nat \ {0}, NEW q \in Nat, NEW r \in 0 .. k - 1, n = q * k + r
    PROVE  n \div k = q /\ n % k = r
<1>1. n \div k \in Nat /\ n % k \in 0 .. k - 1 /\ n = (n \div k) * k + (n % k)
  BY DivMod
<1> DEFINE a == n \div k
           b == n % k
<1>2. a \in Nat /\ b \in 0 .. k - 1 /\ a * k + b = q * k + r
  BY <1>1
<1> HIDE DEF a, b
<1>3. a = q /\ b = r
  BY <1>2, QuotientUnique
<1> QED BY <1>3 DEF a, b

\* Counting on by one.
LEMMA CountOn ==
    ASSUME NEW n \in Nat, NEW k \in Nat \ {0}
    PROVE  /\ (n + 1) % k = IF n % k = k - 1 THEN 0 ELSE (n % k) + 1
           /\ (n + 1) \div k = IF n % k = k - 1 THEN (n \div k) + 1 ELSE n \div k
<1> DEFINE a == n \div k
           b == n % k
<1>1. a \in Nat /\ b \in 0 .. k - 1 /\ n = a * k + b
  BY DivMod
<1>2. CASE b = k - 1
  <2>1. n + 1 = (a + 1) * k + 0
    <3> HIDE DEF a, b
    <3>1. (a + 1) * k = a * k + k /\ a * k \in Nat
      BY <1>1
    <3> QED BY <1>1, <1>2, <3>1
  <2>2. n + 1 \in Nat /\ a + 1 \in Nat /\ 0 \in 0 .. k - 1
    BY <1>1
  <2>3. (n + 1) \div k = a + 1 /\ (n + 1) % k = 0
    <3> HIDE DEF a, b
    <3> QED BY <2>1, <2>2, RemainderOf
  <2> QED BY <1>2, <2>3
<1>3. CASE b # k - 1
  <2>1. n + 1 = a * k + (b + 1)
    <3> HIDE DEF a, b
    <3>1. a * k \in Nat
      BY <1>1
    <3> QED BY <1>1, <3>1
  <2>2. n + 1 \in Nat /\ b + 1 \in 0 .. k - 1
    BY <1>1, <1>3
  <2>3. (n + 1) \div k = a /\ (n + 1) % k = b + 1
    <3> HIDE DEF a, b
    <3> QED BY <1>1, <2>1, <2>2, RemainderOf
  <2> QED BY <1>3, <2>3
<1> QED BY <1>2, <1>3

-----------------------------------------------------------------------------
(* Addresses.                                                              *)

\* The place in the memory of the word that is n words behind an address, and its row and column.
WordPlace(n)  == n % (Columns * Rows)
WordColumn(n) == n % Columns
WordRow(n)    == (n \div Columns) % Rows

(* The row and the column of a word give its place, and the next word has the next
   column, at the end of a row the first one of the next row.                *)
LEMMA PlaceOfWord ==
    ASSUME NEW n \in Nat
    PROVE  /\ WordRow(n) \in 0 .. Rows - 1 /\ WordColumn(n) \in 0 .. Columns - 1
           /\ WordPlace(n) \in Nat
           /\ 2 * Columns * WordRow(n) + 2 * WordColumn(n) = 2 * WordPlace(n)
<1> DEFINE C == Columns
           R == Rows
           q == n \div C
           c == n % C
           b == q \div R
           r == q % R
<1>1. C \in Nat \ {0} /\ R \in Nat \ {0}
  BY SdramAssumption
<1>2. q \in Nat /\ c \in 0 .. C - 1 /\ n = q * C + c
  BY <1>1, DivMod
<1>3. b \in Nat /\ r \in 0 .. R - 1 /\ q = b * R + r
  <2> HIDE DEF q
  <2> QED BY <1>1, <1>2, DivMod
<1>4. C * R \in Nat \ {0}
  BY <1>1
<1>5. n = b * (C * R) + (C * r + c)
  <2> HIDE DEF q, c, b, r
  <2>1. n = (b * R + r) * C + c
    BY <1>2, <1>3
  <2>2. (b * R + r) * C + c = b * (C * R) + (C * r + c)
    BY <1>1, <1>2, <1>3, Z3
  <2> QED BY <2>1, <2>2
<1>6. C * r + c \in 0 .. (C * R) - 1
  <2> HIDE DEF q, c, b, r
  <2>1. C * r \in Nat /\ C * (r + 1) = C * r + C
    BY <1>1, <1>3
  <2>2. C * (r + 1) <= C * R
    BY <1>1, <1>3
  <2> QED BY <1>1, <1>2, <1>3, <1>4, <2>1, <2>2
<1>7. n % (C * R) = C * r + c
  <2> DEFINE k == C * R
             s == C * r + c
  <2>1. k \in Nat \ {0} /\ s \in 0 .. k - 1 /\ n = b * k + s
    BY <1>4, <1>5, <1>6
  <2> HIDE DEF k, s, b
  <2>2. n % k = s
    BY <1>3, <2>1, RemainderOf
  <2> QED BY <2>2 DEF k, s
<1>8. 2 * C * r + 2 * c = 2 * (C * r + c)
  <2> HIDE DEF q, c, b, r
  <2> QED BY <1>1, <1>2, <1>3
<1>9. WordRow(n) = r /\ WordColumn(n) = c /\ WordPlace(n) = C * r + c
  BY <1>7 DEF WordRow, WordColumn, WordPlace
<1>10. C * r + c \in Nat
  <2> HIDE DEF r, c
  <2> QED BY <1>4, <1>6
<1> HIDE DEF r, c
<1> QED BY <1>2, <1>3, <1>8, <1>9, <1>10

LEMMA NextWord ==
    ASSUME NEW n \in Nat
    PROVE  IF WordColumn(n) = Columns - 1
           THEN WordColumn(n + 1) = 0 /\ WordRow(n + 1) = (WordRow(n) + 1) % Rows
           ELSE WordColumn(n + 1) = WordColumn(n) + 1 /\ WordRow(n + 1) = WordRow(n)
<1>1. Columns \in Nat \ {0} /\ Rows \in Nat \ {0}
  BY SdramAssumption
<1> DEFINE q == n \div Columns
<1>2. q \in Nat
  BY <1>1, DivMod
<1>3. /\ (n + 1) % Columns = IF n % Columns = Columns - 1 THEN 0 ELSE (n % Columns) + 1
      /\ (n + 1) \div Columns = IF n % Columns = Columns - 1 THEN q + 1 ELSE q
  BY <1>1, CountOn
<1>4. (q + 1) % Rows = ((q % Rows) + 1) % Rows
  <2> HIDE DEF q
  <2> DEFINE r == q % Rows
  <2>1. r \in 0 .. Rows - 1 /\ r \in Nat
    BY <1>1, <1>2, DivMod
  <2>2. (q + 1) % Rows = IF r = Rows - 1 THEN 0 ELSE r + 1
    BY <1>1, <1>2, CountOn
  <2>3. r % Rows = r
    <3> HIDE DEF r
    <3>1. r = 0 * Rows + r
      BY <1>1, <2>1
    <3> QED BY <1>1, <2>1, <3>1, RemainderOf
  <2> HIDE DEF r
  <2>4. (r + 1) % Rows = IF r % Rows = Rows - 1 THEN 0 ELSE (r % Rows) + 1
    BY <1>1, <2>1, CountOn
  <2>5. (q + 1) % Rows = (r + 1) % Rows
    BY <2>2, <2>3, <2>4
  <2> QED BY <2>5 DEF r
<1>5. WordColumn(n + 1) = IF WordColumn(n) = Columns - 1 THEN 0 ELSE WordColumn(n) + 1
  BY <1>3 DEF WordColumn
<1>6. WordRow(n) = q % Rows
  BY DEF WordRow
<1>7. WordRow(n + 1) = IF WordColumn(n) = Columns - 1 THEN (q + 1) % Rows ELSE q % Rows
  BY <1>3 DEF WordRow, WordColumn
<1>8. WordRow(n + 1) = IF WordColumn(n) = Columns - 1 THEN (WordRow(n) + 1) % Rows ELSE WordRow(n)
  <2> HIDE DEF q
  <2> QED BY <1>4, <1>6, <1>7
<1> QED BY <1>5, <1>8

\* The word at a place.
HalfAt(place) == Reading(place, chipWatched, chipCell)
WordAt(n)     == <<HalfAt(2 * WordPlace(n)), HalfAt(2 * WordPlace(n) + 1)>>

\* The controller is at the lower, or at the upper half of a word.
AtLower(n) == sdRow = WordRow(n) /\ sdColumn = 2 * WordColumn(n)
AtUpper(n) == sdRow = WordRow(n) /\ sdColumn = 2 * WordColumn(n) + 1

-----------------------------------------------------------------------------

SdShape ==
    /\ sdState \in SdStates /\ trPhase \in Phases
    /\ trOp \in Transactions \cup {NoTransaction} 
    /\ trCount \in Nat /\ trLate \in Nat /\ sdRefresh \in Nat /\ sdWait \in Nat
    /\ rfPush \in Entries /\ rfPop \in Entries /\ rfMemory = [e \in Entries |-> rfMemory[e]]
    /\ sdRow \in 0 .. Rows - 1 /\ sdColumn \in 0 .. 2 * Columns - 1
    /\ sdShort \in 0 .. 2 * Columns - 1
    /\ chipCell \in {0, 1} /\ trExpected \in {0, 1}
    /\ trWord \in {NoWord32, WordOf(0), WordOf(1)}

SdFlags ==
    /\ sdActive \in BOOLEAN /\ sdBegun \in BOOLEAN /\ sdDataIn \in BOOLEAN
    /\ sdReadPending \in BOOLEAN /\ sdEndPending \in BOOLEAN /\ sdEnd \in BOOLEAN
    /\ sdWriteDone \in BOOLEAN /\ sdDataValid \in BOOLEAN /\ sdPushing \in BOOLEAN
    /\ rfEmpty \in BOOLEAN /\ sdValid[1] \in BOOLEAN /\ sdValid[2] \in BOOLEAN /\ sdInitBusy \in BOOLEAN

\* Without distance nothing is delayed, and the buffer never fills.
SdPlain ==
    /\ sdErrorShift = <<FALSE, FALSE>> /\ ~sdError /\ ~rfFull
    /\ sdDelayedDone = <<FALSE, FALSE>> /\ sdDistance = 0
    /\ sdWriteDone <=> sdState = "WRITE_PRECHARGE"

\* The transaction that the controller sees is the one on the bus.
SdTurn ==
    /\ trPhase \in {"idle", "begin"} => ~sdActive /\ ~sdBegun
    /\ trPhase \notin {"idle", "begin"} => sdActive /\ sdOp = trOp /\ trOp \in Transactions
    /\ sdBegun => trPhase \in {"send", "receive", "elsewhere"} /\ trCount = 0
    /\ trPhase = "elsewhere" => sdBegun
    /\ trPhase = "begin" => trOp \in Transactions /\ trCount = 0
    /\ trPhase \in {"send", "gap"} => trOp.mine /\ ~trOp.read
    /\ trPhase = "receive" => trOp.mine /\ trOp.read
    /\ trPhase = "elsewhere" => ~trOp.mine
    /\ trPhase = "end" => ~trOp.mine \/ ~trOp.read
    /\ sdInitBusy <=> sdState \in StartStates

NoReading ==
    /\ ~sdReadPending /\ ~sdEndPending /\ ~sdEnd
    /\ ~sdDataValid /\ ~sdPushing /\ rfEmpty /\ ~sdValid[1] /\ ~sdValid[2]
NoWriting == ~sdDataIn /\ sdWriteCount = -1

\* Between transactions, and during those of others, the controller rests; only the
\* row of the last word may still be closing.
SdBetween ==
    trPhase \notin {"send", "receive"} =>
        /\ NoReading /\ NoWriting
        /\ sdState \in CASE trPhase = "gap" -> {"WAIT_WRITE_PRECHARGE"}
                         [] trPhase = "end" -> RestStates \cup {"WAIT_WRITE_PRECHARGE"}
                         [] trPhase = "idle" -> RestStates \cup StartStates
                         [] OTHER -> RestStates

\* A word that is written: where it is between the bus and the chip.
SdSending ==
    trPhase = "send" =>
        /\ NoReading
        /\ trCount < trOp.words /\ trWord \in {WordOf(0), WordOf(1)}
        /\ sdState \in RestStates \cup WriteStates
        /\ sdBegun => sdState \in RestStates /\ ~sdDataIn /\ sdWriteCount = -1
        /\ ~sdBegun =>
              sdWriteCount = trOp.words - trCount - (IF sdState = "WRITE_PRECHARGE" THEN 2 ELSE 1)
        /\ sdDataIn \/ sdState \in RestStates \cup {"WRITE_PRECHARGE"}
        /\ sdState = "WRITE_PRECHARGE" => ~sdDataIn
        /\ sdDataIn /\ sdState # "WAIT_WRITE_PRECHARGE" => sdBusWord = trWord
        /\ sdState \in WordStates \ {"INIT_WORD_WRITE"} => sdToRam = trWord
        /\ sdState = "WRITE_LO" => "lo" \in trOp.lanes
        /\ sdState \in {"WRITE_HI", "WAIT_WRITE_HI"} => "hi" \in trOp.lanes

SdSendingPlace ==
    trPhase = "send" /\ ~sdBegun =>
        CASE sdState \in {"WRITE_HI", "WAIT_WRITE_HI"} -> AtUpper(trOp.address + trCount)
          [] sdState = "WRITE_PRECHARGE" ->
                "hi" \in trOp.lanes => AtLower(trOp.address + trCount + 1)
          [] OTHER -> AtLower(trOp.address + trCount)

SdSendingCell ==
    trPhase = "send" =>
        chipCell =
           CASE sdState \in {"WAIT_WRITE_LO", "WRITE_HI"} ->
                  IF chipWatched = LowerPlace /\ "lo" \in trOp.lanes THEN trWord[1].cell ELSE trExpected
             [] sdState \in {"WAIT_WRITE_HI", "WRITE_PRECHARGE"} -> Stored(trWord)
             [] OTHER -> trExpected

\* The number of words that have left the chip, and how many words the
\* burst under way ends after.
OneIf(b) == IF b THEN 1 ELSE 0
Sent == trCount + OneIf(sdValid[2])
Shown == Sent + OneIf(sdValid[1])
Buffered == Shown + OneIf(~rfEmpty)
Delivered == Buffered + OneIf(sdPushing)
FirstPart == RequiresTwoBursts /\ sdReadPending
PartEnd == IF FirstPart THEN WordsLeft ELSE sdOp.words

\* A read: which flags may meet in which state.
SdReceiving ==
    trPhase = "receive" =>
        /\ NoWriting
        /\ sdState \in RestStates \cup ReadStates
        /\ sdBegun => sdState \in RestStates /\ NoReading
        /\ ~sdBegun /\ sdState \in RestStates =>
               /\ ~sdDataValid /\ ~sdPushing /\ rfEmpty /\ ~sdValid[1] /\ ~sdValid[2] /\ ~sdEndPending
               /\ sdEnd = ~sdReadPending /\ (sdEnd => sdState = "IDLE")
        /\ sdState \in OpeningStates =>
               ~sdDataValid /\ ~sdPushing /\ rfEmpty /\ ~sdValid[1] /\ ~sdValid[2] /\ ~sdEndPending /\ ~sdEnd
        /\ sdState \notin RestStates => ~sdEnd /\ (sdReadPending => RequiresTwoBursts)
        /\ sdState = "DO_READ" =>
               /\ ~sdEndPending
               /\ ~sdDataValid => ~sdPushing /\ rfEmpty /\ ~sdValid[1] /\ ~sdValid[2]
               /\ sdDataValid => IF sdShort % 2 = 1 THEN ~sdPushing /\ ~sdValid[1]
                                 ELSE sdPushing /\ rfEmpty /\ ~sdValid[2]
        /\ sdState = "END_READ_TRANSACTION" =>
               ~sdReadPending /\ sdEndPending /\ ~sdDataValid /\ ~sdPushing /\ ~rfEmpty /\ ~sdValid[1]
        /\ sdState = "WRITE_PRECHARGE" =>
               /\ ~sdDataValid /\ ~sdPushing /\ sdEndPending = ~sdReadPending
               /\ IF sdEndPending THEN rfEmpty /\ sdValid[1] /\ ~sdValid[2] ELSE ~rfEmpty /\ ~sdValid[1]
        /\ sdState = "WAIT_WRITE_PRECHARGE" =>
               /\ ~sdDataValid /\ ~sdPushing /\ sdEndPending = ~sdReadPending /\ rfEmpty
               /\ sdValid[1] = ~sdEndPending /\ sdValid[2] = sdEndPending
        /\ sdState = "SECOND_BURST" =>
               /\ ~sdDataValid /\ ~sdPushing /\ ~sdEndPending /\ rfEmpty
               /\ ~sdValid[1] /\ sdValid[2] /\ ~sdReadPending /\ RequiresTwoBursts

SdReceivingCount ==
    trPhase = "receive" /\ ~sdBegun =>
        /\ Delivered <= trOp.words
        /\ sdState \in RestStates \cup OpeningStates =>
              trCount = IF sdReadPending \/ (sdState \notin RestStates /\ ~RequiresTwoBursts) THEN 0
                        ELSE IF sdState \in RestStates THEN trOp.words ELSE WordsLeft
        /\ sdState = "DO_READ" =>
              IF sdDataValid /\ sdShort % 2 = 0 THEN sdShort = 2 * (PartEnd - Delivered)
              ELSE sdShort = 2 * (PartEnd - Delivered) - 1
        /\ sdState \in LatencyStates => sdShort = 2 * (PartEnd - Delivered) - 1
        /\ sdState \in CloseStates \cup {"END_READ_TRANSACTION"} => Delivered = PartEnd
        /\ sdState = "SECOND_BURST" => Delivered = WordsLeft

SdReceivingPlace ==
    trPhase = "receive" /\ ~sdBegun =>
        /\ IF sdState = "DO_READ" /\ sdDataValid /\ sdShort % 2 = 0
           THEN AtUpper(trOp.address + Delivered - 1)
           ELSE AtLower(trOp.address + Delivered)
        /\ sdState \in LatencyStates \cup {"DO_READ"} =>
              /\ chipColumn = sdColumn /\ sdColumn + sdShort <= 2 * Columns - 1

SdReceivingWords ==
    trPhase = "receive" =>
        /\ sdValid[2] => sdOut = WordAt(trOp.address + trCount)
        /\ sdValid[1] => rfOut = WordAt(trOp.address + Sent)
        /\ ~rfEmpty => rfMemory[rfPop] = WordAt(trOp.address + Shown)
        /\ sdPushing => <<sdWordLo, sdWordHi>> = WordAt(trOp.address + Buffered)
        /\ sdState = "DO_READ" /\ sdDataValid /\ sdShort % 2 = 1 =>
               sdWordLo = HalfAt(2 * WordPlace(trOp.address + Delivered))

SdBuffer == rfPush = IF rfEmpty THEN rfPop ELSE RfAfter(rfPop)

\* The row that is open is the one of the word.
SdRowOpen ==
    /\ sdState \in StartStates \cup RestStates \cup RowStates \cup {"WAIT_WRITE_PRECHARGE", "SECOND_BURST"}
          => chipRow = Closed
    /\ sdState \in {"WAIT_READ_BURST1", "INIT_READ_BURST2", "DO_READ"} \cup LatencyStates \cup WordStates
          => chipRow = sdRow
    /\ chipRow \in Closed .. Rows - 1

\* The clocks until the controller rests, where a refresh that is due begins: those
\* after a part of a read, with another part of so many words or without, those of a
\* read and those of a word that is written.
AfterPart(first, rest) == IF first THEN 16 + 2 * rest ELSE 4

ReadClocks(state, first, rest, part, short, valid) ==
    CASE state = "INIT_READ_WRITE"  -> 2 * part + 9 + AfterPart(first, rest)
      [] state = "INIT_READ_BURST1" -> 2 * part + 8 + AfterPart(first, rest)
      [] state = "WAIT_READ_BURST1" -> 2 * part + 7 + AfterPart(first, rest)
      [] state = "INIT_READ_BURST2" -> 2 * part + 6 + AfterPart(first, rest)
      [] state = "WAIT_READ_BURST2" -> short + 6 + AfterPart(first, rest)
      [] state = "WAIT_READ_BURST3" -> short + 5 + AfterPart(first, rest)
      [] state = "WAIT_READ_BURST4" -> short + 4 + AfterPart(first, rest)
      [] state = "WAIT_READ_BURST5" -> short + 3 + AfterPart(first, rest)
      [] state = "DO_READ" -> short + (IF valid THEN 1 ELSE 2) + AfterPart(first, rest)
      [] state = "END_READ_TRANSACTION" -> 4
      [] state = "WRITE_PRECHARGE"      -> IF first THEN 16 + 2 * rest ELSE 3
      [] state = "WAIT_WRITE_PRECHARGE" -> IF first THEN 15 + 2 * rest ELSE 2
      [] state = "SECOND_BURST" -> 14 + 2 * rest
      [] state = "IDLE" -> 1
      [] OTHER -> 0

WordClocks(state) ==
    CASE state = "INIT_READ_WRITE" -> 10
      [] state = "INIT_READ_BURST1" -> 9
      [] state = "INIT_WORD_WRITE" -> 8
      [] state = "WRITE_LO" -> 7
      [] state = "WAIT_WRITE_LO" -> 6
      [] state = "WRITE_HI" -> 5
      [] state = "WAIT_WRITE_HI" -> 4
      [] state = "WRITE_PRECHARGE" -> 3
      [] state = "WAIT_WRITE_PRECHARGE" -> 2
      [] state = "IDLE" -> 1
      [] OTHER -> 0

ClocksToIdle ==
    IF trPhase = "receive"
    THEN ReadClocks(sdState, FirstPart, sdOp.words - WordsLeft, PartEnd - trCount, sdShort, sdDataValid)
    ELSE WordClocks(sdState)

SdLate ==
    /\ trLate + ClocksToIdle <= LongestAccess
    /\ sdState \in StartStates => trLate = 0

SdCells == trPhase # "send" => chipCell = trExpected

SdInv ==
    /\ SdShape /\ SdFlags /\ SdPlain /\ SdTurn /\ SdBetween
    /\ SdSending /\ SdSendingPlace /\ SdSendingCell /\ SdCells
    /\ SdReceiving /\ SdReceivingCount /\ SdReceivingPlace /\ SdReceivingWords
    /\ SdBuffer /\ SdRowOpen /\ SdLate

-----------------------------------------------------------------------------
(* The state machine, as a table.                                          *)

Along(here, next) == sdState = here => sdState' = next

LEMMA PathOf2 ==
    ASSUME NEW a, NEW b, Follows(<<a, b>>)
    PROVE  sdState = a /\ sdState' = b
BY DEF Follows

LEMMA PathOf3 ==
    ASSUME NEW a, NEW b, NEW c, Follows(<<a, b, c>>)
    PROVE  \/ sdState = a /\ sdState' = b
           \/ sdState = b /\ sdState' = c
<1> DEFINE p == <<a, b, c>>
<1>1. Len(p) = 3 /\ p[1] = a /\ p[2] = b /\ p[3] = c
  OBVIOUS
<1>2. PICK i \in 1 .. Len(p) - 1 : sdState = p[i] /\ sdState' = p[i + 1]
  BY DEF Follows
<1> HIDE DEF p
<1>3. i = 1 \/ i = 2
  BY <1>1
<1> QED BY <1>1, <1>2, <1>3

LEMMA PathOf4 ==
    ASSUME NEW a, NEW b, NEW c, NEW d, Follows(<<a, b, c, d>>)
    PROVE  \/ sdState = a /\ sdState' = b
           \/ sdState = b /\ sdState' = c
           \/ sdState = c /\ sdState' = d
<1> DEFINE p == <<a, b, c, d>>
<1>1. Len(p) = 4 /\ p[1] = a /\ p[2] = b /\ p[3] = c /\ p[4] = d
  OBVIOUS
<1>2. PICK i \in 1 .. Len(p) - 1 : sdState = p[i] /\ sdState' = p[i + 1]
  BY DEF Follows
<1> HIDE DEF p
<1>3. i = 1 \/ i = 2 \/ i = 3
  BY <1>1
<1> QED BY <1>1, <1>2, <1>3

LEMMA PathOf5 ==
    ASSUME NEW a, NEW b, NEW c, NEW d, NEW e, Follows(<<a, b, c, d, e>>)
    PROVE  \/ sdState = a /\ sdState' = b
           \/ sdState = b /\ sdState' = c
           \/ sdState = c /\ sdState' = d
           \/ sdState = d /\ sdState' = e
<1> DEFINE p == <<a, b, c, d, e>>
<1>1. Len(p) = 5 /\ p[1] = a /\ p[2] = b /\ p[3] = c /\ p[4] = d /\ p[5] = e
  OBVIOUS
<1>2. PICK i \in 1 .. Len(p) - 1 : sdState = p[i] /\ sdState' = p[i + 1]
  BY DEF Follows
<1> HIDE DEF p
<1>3. i = 1 \/ i = 2 \/ i = 3 \/ i = 4
  BY <1>1
<1> QED BY <1>1, <1>2, <1>3

LEMMA PathOf7 ==
    ASSUME NEW a, NEW b, NEW c, NEW d, NEW e, NEW f, NEW g, Follows(<<a, b, c, d, e, f, g>>)
    PROVE  \/ sdState = a /\ sdState' = b
           \/ sdState = b /\ sdState' = c
           \/ sdState = c /\ sdState' = d
           \/ sdState = d /\ sdState' = e
           \/ sdState = e /\ sdState' = f
           \/ sdState = f /\ sdState' = g
<1> DEFINE p == <<a, b, c, d, e, f, g>>
<1>1. /\ Len(p) = 7 /\ p[1] = a /\ p[2] = b /\ p[3] = c /\ p[4] = d /\ p[5] = e
      /\ p[6] = f /\ p[7] = g
  OBVIOUS
<1>2. PICK i \in 1 .. Len(p) - 1 : sdState = p[i] /\ sdState' = p[i + 1]
  BY DEF Follows
<1> HIDE DEF p
<1>3. i = 1 \/ i = 2 \/ i = 3 \/ i = 4 \/ i = 5 \/ i = 6
  BY <1>1
<1> QED BY <1>1, <1>2, <1>3

LEMMA StateTable ==
    ASSUME MidClock
    PROVE  /\ sdState \in StartStates => sdState' \in StartStates \cup {"IDLE"}
           /\ SdIdle \/ sdState # "IDLE"
           /\ Along("DO_AUTO_REFRESH", "WAIT_AUTO_REFRESH")
           /\ sdState = "WAIT_AUTO_REFRESH" => sdState' \in {"WAIT_AUTO_REFRESH", "IDLE"}
           /\ Along("SECOND_BURST", "INIT_READ_WRITE")
           /\ Along("INIT_READ_WRITE", "INIT_READ_BURST1")
           /\ Along("INIT_READ_BURST1", IF sdDataIn THEN "INIT_WORD_WRITE" ELSE "WAIT_READ_BURST1")
           /\ Along("WAIT_READ_BURST1", "INIT_READ_BURST2")
           /\ Along("INIT_READ_BURST2", "WAIT_READ_BURST2")
           /\ Along("WAIT_READ_BURST2", "WAIT_READ_BURST3")
           /\ Along("WAIT_READ_BURST3", "WAIT_READ_BURST4")
           /\ Along("WAIT_READ_BURST4", "WAIT_READ_BURST5")
           /\ Along("WAIT_READ_BURST5", "DO_READ")
           /\ Along("DO_READ", IF sdShort # 0 THEN "DO_READ"
                               ELSE IF sdReadPending /\ RequiresTwoBursts THEN "WRITE_PRECHARGE"
                               ELSE "END_READ_TRANSACTION")
           /\ Along("END_READ_TRANSACTION", "WRITE_PRECHARGE")
           /\ Along("WRITE_PRECHARGE", "WAIT_WRITE_PRECHARGE")
           /\ Along("WAIT_WRITE_PRECHARGE",
                    IF sdReadPending /\ RequiresTwoBursts THEN "SECOND_BURST" ELSE "IDLE")
           /\ Along("INIT_WORD_WRITE", IF "lo" \in sdOp.lanes THEN "WRITE_LO" ELSE "WAIT_WRITE_LO")
           /\ Along("WRITE_LO", "WAIT_WRITE_LO")
           /\ Along("WAIT_WRITE_LO", IF "hi" \in sdOp.lanes THEN "WRITE_HI" ELSE "WRITE_PRECHARGE")
           /\ Along("WRITE_HI", "WAIT_WRITE_HI")
           /\ Along("WAIT_WRITE_HI", "WRITE_PRECHARGE")
<1> USE DEF Along
<1>1. CASE SdInitialise
  <2>1. sdState \in StartStates /\ sdState' \in StartStates \cup {"IDLE"}
    BY <1>1, PathOf2, PathOf4, PathOf5 DEF SdInitialise, WaitsIn, StartStates
  <2> QED BY <2>1 DEF StartStates
<1>2. CASE SdAutoRefresh
  <2>1. \/ sdState = "DO_AUTO_REFRESH" /\ sdState' = "WAIT_AUTO_REFRESH"
        \/ sdState = "WAIT_AUTO_REFRESH" /\ sdState' \in {"WAIT_AUTO_REFRESH", "IDLE"}
    BY <1>2, PathOf2 DEF SdAutoRefresh, WaitsIn
  <2> QED BY <2>1 DEF StartStates
<1>3. CASE SdIdle
  BY <1>3 DEF SdIdle, StartStates
<1>4. CASE SdActivate
  <2>1. \/ sdState = "SECOND_BURST" /\ sdState' = "INIT_READ_WRITE"
        \/ sdState = "INIT_READ_WRITE" /\ sdState' = "INIT_READ_BURST1"
        \/ /\ sdState = "INIT_READ_BURST1"
           /\ sdState' = IF sdDataIn THEN "INIT_WORD_WRITE" ELSE "WAIT_READ_BURST1"
    BY <1>4, PathOf3 DEF SdActivate
  <2> QED BY <2>1 DEF StartStates
<1>5. CASE SdRead
  <2>1. \/ sdState = "WAIT_READ_BURST1" /\ sdState' = "INIT_READ_BURST2"
        \/ sdState = "INIT_READ_BURST2" /\ sdState' = "WAIT_READ_BURST2"
        \/ sdState = "WAIT_READ_BURST2" /\ sdState' = "WAIT_READ_BURST3"
        \/ sdState = "WAIT_READ_BURST3" /\ sdState' = "WAIT_READ_BURST4"
        \/ sdState = "WAIT_READ_BURST4" /\ sdState' = "WAIT_READ_BURST5"
        \/ sdState = "WAIT_READ_BURST5" /\ sdState' = "DO_READ"
        \/ /\ sdState = "DO_READ"
           /\ sdState' = IF sdShort # 0 THEN "DO_READ"
                         ELSE IF sdReadPending /\ RequiresTwoBursts THEN "WRITE_PRECHARGE"
                         ELSE "END_READ_TRANSACTION"
    BY <1>5, PathOf7 DEF SdRead
  <2> QED BY <2>1 DEF StartStates
<1>6. CASE SdWrite
  <2>1. \/ /\ sdState = "INIT_WORD_WRITE"
           /\ sdState' = IF "lo" \in sdOp.lanes THEN "WRITE_LO" ELSE "WAIT_WRITE_LO"
        \/ /\ sdState = "WAIT_WRITE_LO"
           /\ sdState' = IF "hi" \in sdOp.lanes THEN "WRITE_HI" ELSE "WRITE_PRECHARGE"
        \/ sdState = "WRITE_LO" /\ sdState' = "WAIT_WRITE_LO"
        \/ sdState = "WRITE_HI" /\ sdState' = "WAIT_WRITE_HI"
        \/ sdState = "WAIT_WRITE_HI" /\ sdState' = "WRITE_PRECHARGE"
    BY <1>6, PathOf2, PathOf3 DEF SdWrite
  <2> QED BY <2>1 DEF StartStates
<1>7. CASE SdPrecharge
  <2>1. \/ sdState = "END_READ_TRANSACTION" /\ sdState' = "WRITE_PRECHARGE"
        \/ sdState = "WRITE_PRECHARGE" /\ sdState' = "WAIT_WRITE_PRECHARGE"
        \/ /\ sdState = "WAIT_WRITE_PRECHARGE"
           /\ sdState' = IF sdReadPending /\ RequiresTwoBursts THEN "SECOND_BURST" ELSE "IDLE"
    BY <1>7, PathOf3 DEF SdPrecharge
  <2> QED BY <2>1 DEF StartStates
<1> QED BY <1>1, <1>2, <1>3, <1>4, <1>5, <1>6, <1>7 DEF MidClock

-----------------------------------------------------------------------------
(* Transactions and wires.                                                 *)

BusValid == trPhase \in {"send", "elsewhere"} \/ sdValid[2]
BusWord == IF sdValid[2] THEN sdOut ELSE trWord

LEMMA LongestIsLongest ==
    /\ LongestBurst \in 1 .. Columns + 1
    /\ \A m \in Lengths : m <= LongestBurst
<1>1. PICK n \in Lengths : \A m \in Lengths : m <= n
  BY TrafficAssumption
<1>2. LongestBurst \in Lengths /\ \A m \in Lengths : m <= LongestBurst
  BY <1>1 DEF LongestBurst
<1> QED BY <1>2, TrafficAssumption

LEMMA OpFacts ==
    ASSUME NEW op \in Transactions
    PROVE  /\ op.mine \in BOOLEAN /\ op.read \in BOOLEAN
           /\ op.words \in 1 .. LongestBurst /\ op.words <= Columns + 1
           /\ op.address \in Nat
           /\ op.words > 1 => op.lanes = {"lo", "hi"}
<1>1. LongestBurst \in 1 .. Columns + 1 /\ (\A m \in Lengths : m <= LongestBurst)
      /\ Lengths \subseteq 1 .. Columns + 1
  BY LongestIsLongest, TrafficAssumption
<1>2. Columns \in Nat \ {0} /\ Rows \in Nat \ {0}
  BY SdramAssumption
<1>3. Places \subseteq Nat
  BY <1>2 DEF Places
<1>4. /\ \A n \in Lengths : n \in 1 .. LongestBurst /\ n <= Columns + 1
      /\ 1 \in 1 .. LongestBurst /\ 1 <= Columns + 1
  BY <1>1, <1>2
<1>5. op.mine \in BOOLEAN /\ op.read \in BOOLEAN
  BY DEF Transactions, Reads, Bursts, Stores, Others
<1>6. op.words \in Lengths \cup {1} /\ op.address \in Nat
  <2>1. op.words \in Lengths \cup {1}
    BY DEF Transactions, Reads, Bursts, Stores, Others
  <2>2. op.address \in Places \cup {0}
    BY DEF Transactions, Reads, Bursts, Stores, Others
  <2>3. op.address \in Nat
    <3>1. \A a \in Places \cup {0} : a \in Nat
      BY <1>3
    <3> QED BY <2>2, <3>1, Zenon
  <2> QED BY <2>1, <2>3, Zenon
<1>7. op.words # 1 => op.lanes = {"lo", "hi"}
  BY DEF Transactions, Reads, Bursts, Stores, Others
<1>8. op.words \in 1 .. LongestBurst /\ op.words <= Columns + 1
  BY <1>4, <1>6
<1> QED BY <1>5, <1>6, <1>7, <1>8

LEMMA Wires ==
    ASSUME NoDistance, SdInv
    PROVE  /\ SdMine <=> sdActive /\ trOp.mine
           /\ trPhase \in {"send", "gap", "receive"} => SdMine
           /\ SdBegins <=> sdBegun /\ trPhase # "elsewhere"
           /\ SdClearFifo <=> SdBegins
           /\ SdBusy(BusValid) <=> trPhase = "send" /\ sdState # "WRITE_PRECHARGE"
           /\ SdBusy(TRUE) <=> SdMine /\ ~trOp.read /\ sdState # "WRITE_PRECHARGE"
           /\ SdPop(BusValid) <=> ~rfEmpty
           /\ sdPushing \/ ~rfEmpty \/ sdValid[1] \/ sdValid[2] \/ sdReadPending \/ sdEndPending \/ sdDataValid
                 => trPhase = "receive" /\ ~sdBegun
           /\ sdPushing => rfEmpty
<1>1. SdFlags /\ SdTurn /\ SdPlain /\ SdShape /\ SdBetween /\ SdSending /\ SdReceiving
  BY DEF SdInv
<1>2. SdMine <=> sdActive /\ trOp.mine
  BY <1>1 DEF SdMine, SdTurn, Phases, SdShape
<1>3. trPhase \in {"send", "gap", "receive"} => SdMine
  BY <1>1, <1>2 DEF SdTurn
<1>4. SdBegins <=> sdBegun /\ trPhase # "elsewhere"
  BY <1>1, <1>2, <1>3 DEF SdTurn, SdBegins
<1>5. SdClearFifo <=> SdBegins
  <2>1. ~sdErrorShift[1]
    BY <1>1 DEF SdPlain
  <2> QED BY <2>1 DEF SdClearFifo
<1>6. sdActive => sdOp = trOp
  BY <1>1 DEF SdTurn
<1>7. SdBusy(TRUE) <=> SdMine /\ ~trOp.read /\ sdState # "WRITE_PRECHARGE"
  BY <1>1, <1>6 DEF SdBusy, SdPlain, SdMine
<1>8. SdBusy(BusValid) <=> trPhase = "send" /\ sdState # "WRITE_PRECHARGE"
  <2>1. CASE trPhase = "send"
    BY <1>1, <1>3, <1>6, <2>1 DEF SdBusy, SdPlain, SdMine, BusValid, SdTurn
  <2>2. CASE trPhase = "receive"
    BY <1>1, <1>3, <1>6, <2>2 DEF SdBusy, SdPlain, SdMine, BusValid, SdTurn
  <2>3. CASE trPhase \notin {"send", "receive"}
    <3>0. NoReading
      BY <1>1, <2>3 DEF SdBetween
    <3>1. ~sdValid[2]
      BY <3>0 DEF NoReading
    <3>2. BusValid => trPhase = "elsewhere"
      BY <3>1, <2>3 DEF BusValid
    <3>3. trPhase = "elsewhere" => ~SdMine
      BY <1>1, <1>2 DEF SdTurn
    <3> QED BY <2>3, <3>2, <3>3 DEF SdBusy
  <2> QED BY <2>1, <2>2, <2>3
<1>9. /\ sdPushing \/ ~rfEmpty \/ sdValid[1] \/ sdValid[2] \/ sdReadPending \/ sdEndPending \/ sdDataValid
           => trPhase = "receive" /\ ~sdBegun
      /\ sdPushing => rfEmpty
  <2>1. CASE trPhase = "send"
    BY <1>1, <2>1 DEF SdSending, NoReading
  <2>2. CASE trPhase = "receive"
    <3>1. sdBegun => NoReading
      BY <1>1, <2>2 DEF SdReceiving
    <3>2. sdPushing => rfEmpty
      <4>1. sdPushing => sdState = "DO_READ" \/ sdBegun
        BY <1>1, <2>2 DEF SdReceiving, RestStates, ReadStates, OpeningStates, CloseStates
      <4> QED BY <1>1, <2>2, <3>1, <4>1 DEF SdReceiving, NoReading
    <3> QED BY <2>2, <3>1, <3>2 DEF NoReading
  <2>3. CASE trPhase \notin {"send", "receive"}
    BY <1>1, <2>3 DEF SdBetween, NoReading
  <2> QED BY <2>1, <2>2, <2>3
<1>10. SdPop(BusValid) <=> ~rfEmpty
  <2>1. ~rfEmpty => SdMine /\ sdOp.read /\ ~SdBusy(BusValid)
    BY <1>1, <1>3, <1>6, <1>8, <1>9 DEF SdTurn, SdMine
  <2> QED BY <1>1, <2>1 DEF SdPop, SdPlain
<1> QED BY <1>2, <1>3, <1>4, <1>5, <1>7, <1>8, <1>9, <1>10

-----------------------------------------------------------------------------
(* A clock, part by part.                                                  *)

TrPhaseStep == TrIdle \/ TrBegin \/ TrSend \/ TrGap \/ TrReceive \/ TrElsewhere \/ TrEnd

LEMMA ClockParts ==
    ASSUME TrNext
    PROVE  /\ TrPhaseStep /\ MidClock
           /\ SdTransaction(trPhase = "begin", trPhase = "end" \/ sdEnd, FALSE, trOp)
           /\ SdWriteSide(BusValid, BusWord) /\ SdAcknowledge(BusValid) /\ SdReadSide(BusValid)
           /\ SdCounters
           /\ trLate' = IF \/ sdRefresh # 0 \/ sdState \in {"DO_AUTO_REFRESH", "WAIT_AUTO_REFRESH"}
                           \/ sdInitBusy
                        THEN 0 ELSE trLate + 1
BY DEF TrNext, SdClock, EndClock, BusValid, BusWord, TrPhaseStep

LEMMA TransactionStep ==
    ASSUME NoDistance, SdInv, TrNext
    PROVE  /\ sdBegun' = (trPhase = "begin")
           /\ sdActive' <=> ~(trPhase = "end" \/ sdEnd) /\ (trPhase = "begin" \/ sdActive)
           /\ sdOp' = IF trPhase = "begin" THEN trOp ELSE sdOp
           /\ sdErrorShift' = <<FALSE, FALSE>>
           /\ sdEnd' <=> sdEndPending /\ rfEmpty /\ ~sdValid[1]
           /\ sdEndPending' <=> ~sdEnd' /\ (sdEndPending \/ sdState' = "END_READ_TRANSACTION")
           /\ sdInitBusy' <=> sdInitBusy /\ sdState' # "IDLE"
           /\ sdActive' \in BOOLEAN /\ sdEnd' \in BOOLEAN /\ sdEndPending' \in BOOLEAN
           /\ sdInitBusy' \in BOOLEAN /\ sdBegun' \in BOOLEAN
<1>1. SdTransaction(trPhase = "begin", trPhase = "end" \/ sdEnd, FALSE, trOp)
  BY ClockParts
<1>2. sdErrorShift = <<FALSE, FALSE>>
  BY DEF SdInv, SdPlain
<1>3. sdErrorShift' = <<FALSE, FALSE>>
  <2>1. sdErrorShift' = <<SdMine /\ FALSE, sdErrorShift[1]>>
    BY <1>1 DEF SdTransaction
  <2>2. (SdMine /\ FALSE) = FALSE /\ sdErrorShift[1] = FALSE
    BY <1>2
  <2> QED BY <2>1, <2>2
<1>4. SdEndNext(FALSE) <=> sdEndPending /\ rfEmpty /\ ~sdValid[1]
  BY DEF SdEndNext
<1>5. /\ sdBegun' = (trPhase = "begin")
      /\ sdActive' = (~(trPhase = "end" \/ sdEnd) /\ (trPhase = "begin" \/ sdActive))
      /\ sdOp' = IF trPhase = "begin" THEN trOp ELSE sdOp
      /\ sdEnd' = SdEndNext(FALSE)
      /\ sdEndPending' = (~SdEndNext(FALSE) /\ (sdEndPending \/ sdState' = "END_READ_TRANSACTION"))
      /\ sdInitBusy' = (sdInitBusy /\ sdState' # "IDLE")
  BY <1>1 DEF SdTransaction
<1>6. SdEndNext(FALSE) \in BOOLEAN
  BY DEF SdEndNext
<1> QED BY <1>3, <1>4, <1>5, <1>6

LEMMA WriteStep ==
    ASSUME NoDistance, SdInv, TrNext
    PROVE  /\ sdDataIn' <=> /\ SdMine /\ ~sdOp.read /\ sdWriteCount >= 0 /\ BusValid
                            /\ sdState' # "WRITE_PRECHARGE"
           /\ sdDataIn' \in BOOLEAN
           /\ sdBusWord' = IF BusValid THEN BusWord ELSE sdBusWord
           /\ sdWriteCount' = IF ~SdMine THEN -1
                              ELSE IF sdOp.read THEN sdWriteCount
                              ELSE IF sdBegun THEN sdOp.words - 1
                              ELSE IF sdState' = "WRITE_PRECHARGE" THEN sdWriteCount - 1
                              ELSE sdWriteCount
           /\ sdDelayedDone' = <<FALSE, FALSE>> /\ sdDistance' = 0
           /\ sdWriteDone' <=> sdState' = "WRITE_PRECHARGE"
           /\ sdWriteDone' \in BOOLEAN
<1>1. SdWriteSide(BusValid, BusWord) /\ SdAcknowledge(BusValid)
  BY ClockParts
<1>2. sdDelayedDone = <<FALSE, FALSE>> /\ sdDistance = 0 /\ Distance = 0
  BY DEF SdInv, SdPlain, NoDistance
<1>3. sdDelayedDone[1] = FALSE /\ sdDelayedDone[2] = FALSE
  BY <1>2
<1>4. sdDelayedDone' = <<FALSE, FALSE>>
  <2>1. sdDelayedDone' = <<sdDistance > 1 /\ (sdState' = "WRITE_PRECHARGE" \/ sdDelayedDone[1]),
                          sdDelayedDone[1]>>
    BY <1>1 DEF SdAcknowledge
  <2>2. ~(sdDistance > 1)
    BY <1>2
  <2>3. (sdDistance > 1 /\ (sdState' = "WRITE_PRECHARGE" \/ sdDelayedDone[1])) = FALSE
    BY <2>2
  <2> QED BY <1>3, <2>1, <2>3
<1>5. sdDistance' = 0
  <2>1. sdDistance' = IF SdBegins THEN 6 * Distance + (CASE Distance < 2 -> 0
                                                        [] Distance = 2 -> 3
                                                        [] OTHER -> Distance - 1)
                     ELSE IF SdPop(BusValid) THEN Distance
                     ELSE IF sdDistance # 0 THEN sdDistance - 1 ELSE 0
    BY <1>1 DEF SdAcknowledge
  <2>2. Distance < 2 /\ 6 * Distance = 0
    BY <1>2
  <2> QED BY <1>2, <2>1, <2>2
<1>6. sdWriteDone' <=> sdState' = "WRITE_PRECHARGE"
  BY <1>1, <1>2, <1>3 DEF SdAcknowledge
<1>7. sdWriteDone' \in BOOLEAN
  BY <1>1, <1>2, <1>3 DEF SdAcknowledge
<1> QED BY <1>1, <1>3, <1>4, <1>5, <1>6, <1>7 DEF SdWriteSide

LEMMA BufferStep ==
    ASSUME NoDistance, SdInv, TrNext
    PROVE  /\ rfEmpty' = (~sdPushing) /\ ~rfFull' /\ ~sdError' /\ SdBuffer'
           /\ rfOut' = rfMemory[rfPop]
           /\ sdPushing => rfMemory'[rfPop'] = <<sdWordLo, sdWordHi>>
           /\ rfPush' \in Entries /\ rfPop' \in Entries /\ rfMemory' = [e \in Entries |-> rfMemory'[e]]
<1>1. /\ RfFlags(SdClearFifo, sdPushing, SdPop(BusValid))
      /\ RfPointers(SdClearFifo, sdPushing, SdPop(BusValid))
      /\ RfData(sdPushing, <<sdWordLo, sdWordHi>>)
      /\ sdError' = (SdMine /\ rfFull)
  BY ClockParts DEF SdReadSide, RfClock
<1>2. /\ ~rfFull /\ rfPush \in Entries /\ rfPop \in Entries
      /\ rfMemory = [e \in Entries |-> rfMemory[e]]
      /\ rfEmpty \in BOOLEAN /\ sdPushing \in BOOLEAN
      /\ rfPush = IF rfEmpty THEN rfPop ELSE RfAfter(rfPop)
  BY DEF SdInv, SdPlain, SdShape, SdFlags, SdBuffer
<1>3. /\ SdPop(BusValid) <=> ~rfEmpty
      /\ sdPushing => rfEmpty
      /\ SdClearFifo => ~sdPushing /\ rfEmpty
  BY Wires
<1>4. \A e \in Entries : RfAfter(e) \in Entries /\ RfAfter(e) # e
  BY DepthAssumption DEF RfAfter, Entries
<1>5. /\ RfDoPush(sdPushing) <=> sdPushing
      /\ RfDoPop(SdPop(BusValid)) <=> ~rfEmpty
  BY <1>2, <1>3 DEF RfDoPush, RfDoPop
<1>6. rfEmpty' = ~sdPushing /\ ~rfFull'
  BY <1>1, <1>2, <1>3, <1>4, <1>5 DEF RfFlags
<1>7. SdBuffer' /\ rfPush' \in Entries /\ rfPop' \in Entries /\ (sdPushing => rfPop' = rfPush)
  <2>0. 0 \in Entries
    BY DepthAssumption DEF Entries
  <2>1. CASE SdClearFifo
    BY <1>1, <1>3, <1>6, <2>0, <2>1 DEF RfPointers, SdBuffer
  <2>2. CASE ~SdClearFifo
    <3>1. /\ rfPush' = IF sdPushing THEN RfAfter(rfPush) ELSE rfPush
          /\ rfPop' = IF ~rfEmpty THEN RfAfter(rfPop) ELSE rfPop
      BY <1>1, <1>5, <2>2 DEF RfPointers
    <3>2. RfAfter(rfPop)' = RfAfter(rfPop')
      BY DEF RfAfter
    <3> QED BY <1>2, <1>3, <1>4, <1>6, <3>1, <3>2 DEF SdBuffer
  <2> QED BY <2>1, <2>2
<1>8. /\ rfOut' = rfMemory[rfPop]
      /\ rfMemory' = IF sdPushing THEN [rfMemory EXCEPT ![rfPush] = <<sdWordLo, sdWordHi>>] ELSE rfMemory
  BY <1>1, <1>5 DEF RfData
<1>9. rfMemory' = [e \in Entries |-> rfMemory'[e]] /\ (sdPushing => rfMemory'[rfPush] = <<sdWordLo, sdWordHi>>)
  BY <1>2, <1>8
<1> QED BY <1>1, <1>2, <1>6, <1>7, <1>8, <1>9

LEMMA ReadStep ==
    ASSUME NoDistance, SdInv, TrNext
    PROVE  /\ sdValid'[1] = ~rfEmpty /\ sdValid'[2] = sdValid[1]
           /\ sdValid[1] => sdOut' = rfOut
           /\ sdReadPending' <=> /\ sdState' # "SECOND_BURST"
                                 /\ ~(sdState' = "INIT_READ_WRITE" /\ ~RequiresTwoBursts)
                                 /\ sdReadPending \/ (SdBegins /\ sdOp.read)
           /\ sdReadPending' \in BOOLEAN
           /\ sdPushing' <=> sdDataValid' /\ sdShort' % 2 # 1
           /\ sdPushing' \in BOOLEAN
           /\ sdDataValid' /\ sdShort' % 2 = 1 =>
                 sdWordLo' = Reading(2 * Columns * chipRow + chipColumn', chipWatched, chipCell)
           /\ ~(sdDataValid' /\ sdShort' % 2 = 1) => sdWordLo' = sdWordLo
           /\ sdDataValid' /\ sdShort' % 2 # 1 =>
                 sdWordHi' = Reading(2 * Columns * chipRow + chipColumn', chipWatched, chipCell)
<1>1. SdReadSide(BusValid)
  BY ClockParts
<1>2. SdPop(BusValid) <=> ~rfEmpty
  BY Wires
<1>3. SdBusy(BusValid) => rfEmpty /\ ~sdValid[1] /\ ~sdValid[2]
  <2>1. SdBusy(BusValid) => trPhase = "send"
    BY Wires
  <2>2. trPhase = "send" => NoReading
    BY DEF SdInv, SdSending
  <2> QED BY <2>1, <2>2 DEF NoReading
<1>4. rfEmpty \in BOOLEAN /\ SdPop(BusValid) \in BOOLEAN
  BY DEF SdInv, SdFlags, SdPop
<1>5. sdValid'[1] = ~rfEmpty /\ sdValid'[2] = sdValid[1]
  <2>1. CASE SdBusy(BusValid)
    <3>1. sdValid' = sdValid
      BY <1>1, <2>1 DEF SdReadSide
    <3>2. sdValid[1] = FALSE /\ sdValid[2] = FALSE /\ rfEmpty = TRUE
      BY <1>3, <1>4, <2>1 DEF SdInv, SdFlags
    <3> QED BY <3>1, <3>2
  <2>2. CASE ~SdBusy(BusValid)
    <3>1. sdValid' = <<SdPop(BusValid), sdValid[1]>>
      BY <1>1, <2>2 DEF SdReadSide
    <3>2. SdPop(BusValid) = ~rfEmpty
      BY <1>2, <1>4
    <3> QED BY <3>1, <3>2
  <2> QED BY <2>1, <2>2
<1>6. sdValid[1] => sdOut' = rfOut
  <2>1. sdValid[1] => ~SdBusy(BusValid)
    BY <1>3
  <2> QED BY <1>1, <2>1 DEF SdReadSide
<1>7. /\ sdPushing' = (sdDataValid' /\ ~(sdShort' % 2 = 1))
      /\ sdReadPending' =
            (/\ sdState' # "SECOND_BURST"
             /\ ~(sdState' = "INIT_READ_WRITE" /\ ~RequiresTwoBursts)
             /\ sdReadPending \/ (SdBegins /\ sdOp.read))
  BY <1>1 DEF SdReadSide
<1>8. LET half == Reading(2 * Columns * chipRow + chipColumn', chipWatched, chipCell)
      IN /\ sdWordLo' = IF sdDataValid' /\ sdShort' % 2 = 1 THEN half ELSE sdWordLo
         /\ sdWordHi' = IF sdDataValid' /\ ~(sdShort' % 2 = 1) THEN half ELSE sdWordHi
  BY <1>1 DEF SdReadSide
<1> QED BY <1>5, <1>6, <1>7, <1>8

(* Where the controller is: it begins at the lower half of the word that was asked
   for, and goes on to the upper half and to the next word.                  *)
Counts == sdDataValid \/ sdState \in {"WAIT_WRITE_LO", "WAIT_WRITE_HI"}

LEMMA PlaceOfHalf ==
    ASSUME NEW n \in Nat
    PROVE  /\ AtLower(n) => 2 * Columns * sdRow + sdColumn = 2 * WordPlace(n)
           /\ AtUpper(n) => 2 * Columns * sdRow + sdColumn = 2 * WordPlace(n) + 1
<1> DEFINE r == WordRow(n)
           c == WordColumn(n)
           p == WordPlace(n)
<1>1. r \in Nat /\ c \in Nat /\ p \in Nat /\ 2 * Columns * r + 2 * c = 2 * p /\ Columns \in Nat
  <2>1. Columns \in Nat \ {0} /\ Rows \in Nat \ {0}
    BY SdramAssumption
  <2>2. r \in 0 .. Rows - 1 /\ c \in 0 .. Columns - 1 /\ p \in Nat /\ 2 * Columns * r + 2 * c = 2 * p
    BY PlaceOfWord
  <2> HIDE DEF r, c, p
  <2> QED BY <2>1, <2>2
<1>2. /\ AtLower(n) => sdRow = r /\ sdColumn = 2 * c
      /\ AtUpper(n) => sdRow = r /\ sdColumn = 2 * c + 1
  BY DEF AtLower, AtUpper
<1> HIDE DEF r, c, p
<1>3. 2 * Columns * r \in Nat
  BY <1>1
<1>4. AtLower(n) => 2 * Columns * sdRow + sdColumn = 2 * p
  BY <1>1, <1>2
<1>5. AtUpper(n) => 2 * Columns * sdRow + sdColumn = 2 * p + 1
  BY <1>1, <1>2, <1>3
<1> QED BY <1>4, <1>5 DEF p

LEMMA AddressStep ==
    ASSUME NoDistance, SdInv, TrNext, NEW n \in Nat
    PROVE  /\ sdRow' \in 0 .. Rows - 1 /\ sdColumn' \in 0 .. 2 * Columns - 1
           /\ SdBegins /\ sdOp.address = n => AtLower(n)'
           /\ ~SdBegins /\ ~Counts => sdRow' = sdRow /\ sdColumn' = sdColumn
           /\ ~SdBegins /\ Counts /\ AtLower(n) => AtUpper(n)'
           /\ ~SdBegins /\ Counts /\ AtUpper(n) => AtLower(n + 1)'
<1> DEFINE C == Columns
           R == Rows
           r == WordRow(n)
           c == WordColumn(n)
<1>1. SdAddress
  BY ClockParts DEF MidClock
<1>2. C \in Nat \ {0} /\ R \in Nat \ {0} /\ sdRow \in 0 .. R - 1 /\ sdColumn \in 0 .. 2 * C - 1
  BY SdramAssumption DEF SdInv, SdShape
<1>3. r \in 0 .. R - 1 /\ c \in 0 .. C - 1
  BY PlaceOfWord
<1>4. SdBegins => sdRow' = WordRow(sdOp.address) /\ sdColumn' = 2 * WordColumn(sdOp.address)
  BY <1>1 DEF SdAddress, WordRow, WordColumn
<1>5. ~SdBegins =>
         /\ sdColumn' = IF ~Counts THEN sdColumn ELSE IF sdColumn = 2 * C - 1 THEN 0 ELSE sdColumn + 1
         /\ sdRow' = IF Counts /\ sdColumn = 2 * C - 1 THEN (sdRow + 1) % R ELSE sdRow
  BY <1>1 DEF SdAddress, Counts
<1>6. SdBegins => sdRow' \in 0 .. R - 1 /\ sdColumn' \in 0 .. 2 * C - 1
  <2> SUFFICES ASSUME SdBegins PROVE sdRow' \in 0 .. R - 1 /\ sdColumn' \in 0 .. 2 * C - 1
    OBVIOUS
  <2> DEFINE a == sdOp.address
  <2>1. a \in Nat
    <3>1. sdOp = trOp /\ trOp \in Transactions
      <4>1. sdActive
        BY DEF SdBegins, SdMine
      <4> QED BY <4>1 DEF SdInv, SdTurn
    <3> QED BY <3>1, OpFacts
  <2> HIDE DEF a
  <2>2. WordRow(a) \in 0 .. R - 1 /\ WordColumn(a) \in 0 .. C - 1
    BY <2>1, PlaceOfWord
  <2>3. sdRow' = WordRow(a) /\ sdColumn' = 2 * WordColumn(a)
    BY <1>4 DEF a
  <2> QED BY <1>2, <2>2, <2>3
<1>7. ~SdBegins => sdRow' \in 0 .. R - 1 /\ sdColumn' \in 0 .. 2 * C - 1
  <2>1. (sdRow + 1) % R \in 0 .. R - 1
    BY <1>2
  <2> QED BY <1>2, <1>5, <2>1
<1>8. SdBegins /\ sdOp.address = n => AtLower(n)'
  BY <1>4 DEF AtLower
<1>9. ~SdBegins /\ Counts /\ AtLower(n) => AtUpper(n)'
  <2> SUFFICES ASSUME ~SdBegins, Counts, AtLower(n) PROVE sdRow' = r /\ sdColumn' = 2 * c + 1
    BY DEF AtUpper
  <2>1. sdRow = r /\ sdColumn = 2 * c
    BY DEF AtLower
  <2> HIDE DEF r, c
  <2> QED BY <1>2, <1>3, <1>5, <2>1
<1>10. ~SdBegins /\ Counts /\ AtUpper(n) => AtLower(n + 1)'
  <2> SUFFICES ASSUME ~SdBegins, Counts, AtUpper(n)
               PROVE  sdRow' = WordRow(n + 1) /\ sdColumn' = 2 * WordColumn(n + 1)
    BY DEF AtLower
  <2>1. sdRow = r /\ sdColumn = 2 * c + 1
    BY DEF AtUpper
  <2> DEFINE r1 == WordRow(n + 1)
             c1 == WordColumn(n + 1)
  <2>2. IF c = C - 1 THEN c1 = 0 /\ r1 = (r + 1) % R ELSE c1 = c + 1 /\ r1 = r
    BY NextWord
  <2> HIDE DEF r, c, r1, c1
  <2>3. sdRow' = r1 /\ sdColumn' = 2 * c1
    BY <1>2, <1>3, <1>5, <2>1, <2>2
  <2> QED BY <2>3 DEF r1, c1
<1> QED BY <1>5, <1>6, <1>7, <1>8, <1>9, <1>10

(* Which state belongs to which kind of transaction.                        *)
OnlyRead == {"WAIT_READ_BURST1", "INIT_READ_BURST2", "WAIT_READ_BURST2", "WAIT_READ_BURST3",
             "WAIT_READ_BURST4", "WAIT_READ_BURST5", "DO_READ", "END_READ_TRANSACTION", "SECOND_BURST"}
OnlyWrite == {"INIT_WORD_WRITE", "WRITE_LO", "WAIT_WRITE_LO", "WRITE_HI", "WAIT_WRITE_HI"}

LEMMA StateBelongs ==
    ASSUME SdInv
    PROVE  /\ sdBegun => sdState \in RestStates
           /\ sdState \in OnlyRead => trPhase = "receive"
           /\ sdState \in OnlyWrite => trPhase = "send"
           /\ sdState \in RowStates \cup {"WRITE_PRECHARGE"} => trPhase \in {"send", "receive"}
           /\ sdState = "INIT_READ_BURST1" => (sdDataIn <=> trPhase = "send")
           /\ sdDataValid => sdState = "DO_READ"
           /\ sdDataIn => trPhase = "send"
           /\ sdState \in StartStates => trPhase = "idle"
           /\ sdState \notin RestStates => ~sdBegun
<1>1. SdTurn /\ SdBetween /\ SdSending /\ SdReceiving /\ SdShape
  BY DEF SdInv
<1> USE DEF RestStates, OnlyRead, OnlyWrite, RowStates
<1>2. CASE trPhase = "send"
  <2>1. /\ NoReading /\ sdState \in RestStates \cup WriteStates
        /\ sdBegun => sdState \in RestStates
        /\ sdDataIn \/ sdState \in RestStates \cup {"WRITE_PRECHARGE"}
    BY <1>1, <1>2 DEF SdSending
  <2> QED BY <1>2, <2>1 DEF NoReading, WriteStates, WordStates, CloseStates, StartStates
<1>3. CASE trPhase = "receive"
  <2>1. /\ NoWriting /\ sdState \in RestStates \cup ReadStates
        /\ sdBegun => sdState \in RestStates
    BY <1>1, <1>3 DEF SdReceiving
  <2>2. sdDataValid => sdState = "DO_READ"
    <3>1. CASE sdState \in RestStates
      BY <1>1, <1>3, <3>1 DEF SdReceiving, NoReading
    <3>2. CASE sdState \in OpeningStates
      BY <1>1, <1>3, <3>2 DEF SdReceiving
    <3>3. CASE sdState \in CloseStates \cup {"END_READ_TRANSACTION", "SECOND_BURST"}
      BY <1>1, <1>3, <3>3 DEF SdReceiving, CloseStates
    <3> QED BY <2>1, <3>1, <3>2, <3>3 DEF ReadStates
  <2>3. ~sdDataIn
    BY <2>1 DEF NoWriting
  <2> QED BY <1>3, <2>1, <2>2, <2>3 DEF ReadStates, OpeningStates, LatencyStates, CloseStates, StartStates
<1>4. CASE trPhase \notin {"send", "receive"}
  <2>1. NoReading /\ NoWriting
    BY <1>1, <1>4 DEF SdBetween
  <2>2. sdState \in RestStates \cup StartStates \cup {"WAIT_WRITE_PRECHARGE"}
    BY <1>1, <1>4 DEF SdBetween
  <2>3. sdState \in StartStates => trPhase = "idle"
    BY <1>1, <1>4 DEF SdBetween, StartStates
  <2>4. sdState = "WAIT_WRITE_PRECHARGE" => ~sdBegun
    BY <1>1, <1>4 DEF SdBetween, StartStates, SdTurn
  <2>5. sdState \in StartStates => ~sdBegun
    BY <1>1, <2>3 DEF SdTurn
  <2> QED BY <1>4, <2>1, <2>2, <2>3, <2>4, <2>5 DEF NoReading, NoWriting, StartStates
<1> QED BY <1>2, <1>3, <1>4

LEMMA ChipStep ==
    ASSUME NoDistance, SdInv, TrNext
    PROVE  /\ chipWatched' = chipWatched
           /\ chipColumn' = IF sdState = "INIT_READ_BURST2" THEN sdColumn
                            ELSE IF sdDataValid THEN (chipColumn + 1) % (2 * Columns) ELSE chipColumn
           /\ sdState \notin {"WRITE_LO", "WRITE_HI"} => chipCell' = chipCell
           /\ sdState = "WRITE_LO" =>
                 chipCell' = IF chipWatched = 2 * Columns * sdRow + sdColumn THEN sdToRam[1].cell ELSE chipCell
           /\ sdState = "WRITE_HI" =>
                 chipCell' = IF chipWatched = 2 * Columns * sdRow + sdColumn THEN sdToRam[2].cell ELSE chipCell
           /\ sdToRam' = IF sdState = "INIT_WORD_WRITE" THEN sdBusWord ELSE sdToRam
           /\ SdRowOpen'
<1>1. ChipCommand /\ SdAddress /\ MidClock
  BY ClockParts DEF MidClock
<1>2. SdRowOpen /\ SdShape /\ SdTurn
  BY DEF SdInv
<1>3. sdState \in {"WRITE_LO", "WRITE_HI"} => chipRow = sdRow
  BY <1>2 DEF SdRowOpen, WordStates
<1>4. /\ chipRow' = CASE sdState = "INIT_READ_BURST1" -> sdRow
                      [] sdState \in {"DO_PRECHARGE", "WRITE_PRECHARGE"} -> Closed
                      [] OTHER -> chipRow
      /\ chipRow' = IF sdState = "INIT_READ_BURST1" THEN sdRow
                    ELSE IF sdState \in {"DO_PRECHARGE", "WRITE_PRECHARGE"} THEN Closed ELSE chipRow
  BY <1>1 DEF ChipCommand
<1>5. /\ ~SdBegins /\ (~Counts \/ sdColumn # 2 * Columns - 1) => sdRow' = sdRow
      /\ sdState \notin RestStates => ~SdBegins
  <2>1. ~SdBegins /\ (~Counts \/ sdColumn # 2 * Columns - 1) => sdRow' = sdRow
    BY <1>1 DEF SdAddress, Counts
  <2> QED BY <2>1, StateBelongs DEF SdBegins
<1>6. sdState' \in {"WAIT_READ_BURST1", "INIT_READ_BURST2", "DO_READ"} \cup LatencyStates \cup WordStates
        => chipRow' = sdRow'
  <2> DEFINE opens == {"WAIT_READ_BURST1", "INIT_READ_BURST2", "WAIT_READ_BURST2", "WAIT_READ_BURST3",
                       "WAIT_READ_BURST4", "WAIT_READ_BURST5", "DO_READ", "INIT_WORD_WRITE", "WRITE_LO",
                       "WAIT_WRITE_LO", "WRITE_HI", "WAIT_WRITE_HI"}
  <2>1. opens = {"WAIT_READ_BURST1", "INIT_READ_BURST2", "DO_READ"} \cup LatencyStates \cup WordStates
    BY DEF LatencyStates, WordStates
  <2> SUFFICES ASSUME sdState' \in opens PROVE chipRow' = sdRow'
    BY <2>1
  <2>2. /\ sdState = "INIT_READ_BURST1" \/ sdState \in opens
        /\ sdState = "DO_READ" => sdShort # 0
        /\ sdState # "WAIT_WRITE_HI"
    BY <1>1, <1>2, StateTable DEF Along, SdShape, SdStates, StartStates, SdIdle
  <2>3. CASE sdState = "INIT_READ_BURST1"
    <3>1. ~Counts /\ ~SdBegins
      BY <1>5, <2>3, StateBelongs DEF Counts, RestStates
    <3> QED BY <1>4, <1>5, <2>3, <3>1
  <2>4. CASE sdState \in opens
    <3>1. chipRow = sdRow /\ chipRow' = chipRow
      BY <1>2, <1>4, <2>1, <2>4 DEF SdRowOpen
    <3>2. ~SdBegins
      BY <1>5, <2>4 DEF RestStates
    <3>3. Counts => sdColumn # 2 * Columns - 1
      <4>1. CASE sdState = "DO_READ"
        <5>1. trPhase = "receive" /\ ~sdBegun
          BY <4>1, StateBelongs DEF OnlyRead, RestStates
        <5>2. sdColumn + sdShort <= 2 * Columns - 1
          BY <4>1, <5>1 DEF SdInv, SdReceivingPlace
        <5> QED BY <1>2, <2>2, <4>1, <5>2, SdramAssumption DEF SdShape
      <4>2. CASE sdState = "WAIT_WRITE_LO"
        <5>1. trPhase = "send" /\ ~sdBegun
          BY <4>2, StateBelongs DEF OnlyWrite, RestStates
        <5>2. AtLower(trOp.address + trCount)
          BY <4>2, <5>1 DEF SdInv, SdSendingPlace
        <5>3. trOp.address + trCount \in Nat
          BY <1>2, <5>1, OpFacts DEF SdTurn, SdShape
        <5> DEFINE c == WordColumn(trOp.address + trCount)
        <5>4. c \in 0 .. Columns - 1 /\ sdColumn = 2 * c
          BY <5>2, <5>3, PlaceOfWord DEF AtLower
        <5> HIDE DEF c
        <5> QED BY <5>4, SdramAssumption
      <4>3. CASE sdState \notin {"DO_READ", "WAIT_WRITE_LO"}
        BY <2>2, <4>3, StateBelongs DEF Counts
      <4> QED BY <4>1, <4>2, <4>3
    <3> QED BY <1>5, <3>1, <3>2, <3>3
  <2> QED BY <2>2, <2>3, <2>4
<1>7. sdState' \in StartStates \cup RestStates \cup RowStates \cup {"WAIT_WRITE_PRECHARGE", "SECOND_BURST"}
        => chipRow' = Closed
  <2> DEFINE shut == StartStates \cup RestStates \cup {"INIT_READ_WRITE", "WAIT_WRITE_PRECHARGE", "SECOND_BURST"}
  <2>1. sdState' \in StartStates \cup RestStates \cup RowStates \cup {"WAIT_WRITE_PRECHARGE", "SECOND_BURST"}
          => sdState \in shut \cup {"WRITE_PRECHARGE"}
    BY <1>1, <1>2, StateTable DEF Along, SdShape, SdStates, StartStates, RestStates, RowStates, SdIdle
  <2>2. sdState \in shut => chipRow = Closed
    BY <1>2 DEF SdRowOpen, RowStates
  <2>3. sdState \in shut \cup {"WRITE_PRECHARGE"} => sdState # "INIT_READ_BURST1"
    BY DEF StartStates, RestStates
  <2> QED BY <1>4, <2>1, <2>2, <2>3
<1>8. chipRow' \in Closed .. Rows - 1
  <2>1. chipRow \in Closed .. Rows - 1 /\ sdRow \in 0 .. Rows - 1
    BY <1>2 DEF SdRowOpen, SdShape
  <2>2. Closed \in Closed .. Rows - 1 /\ sdRow \in Closed .. Rows - 1
    BY <2>1, SdramAssumption DEF Closed
  <2> QED BY <1>4, <2>1, <2>2
<1>9. sdToRam' = IF sdState = "INIT_WORD_WRITE" THEN sdBusWord ELSE sdToRam
  BY <1>1 DEF MidClock
<1>10. SdRowOpen'
  BY <1>6, <1>7, <1>8 DEF SdRowOpen
<1> QED BY <1>1, <1>3, <1>9, <1>10 DEF ChipCommand

-----------------------------------------------------------------------------
(* Clocks in which no word of a transaction of the memory is on its way.   *)

\* What the phases say of the controller.
SdWork ==
    /\ SdTurn /\ SdBetween /\ SdCells
    /\ SdSending /\ SdSendingPlace /\ SdSendingCell
    /\ SdReceiving /\ SdReceivingCount /\ SdReceivingPlace /\ SdReceivingWords

LEMMA StartBusyStep ==
    ASSUME NoDistance, SdInv, TrNext
    PROVE  (sdInitBusy <=> sdState \in StartStates)'
<1>1. sdInitBusy <=> sdState \in StartStates
  BY DEF SdInv, SdTurn
<1>2. sdInitBusy' <=> sdInitBusy /\ sdState' # "IDLE"
  BY TransactionStep
<1>3. sdState \in StartStates => sdState' \in StartStates \cup {"IDLE"}
  BY ClockParts, StateTable
<1>4. sdState \notin StartStates => sdState' \notin StartStates
  BY ClockParts, StateTable DEF Along, SdInv, SdShape, SdStates, StartStates, SdIdle
<1>5. "IDLE" \notin StartStates
  BY DEF StartStates
<1> QED BY <1>1, <1>2, <1>3, <1>4, <1>5

LEMMA QuietStep ==
    ASSUME NoDistance, SdInv, TrNext, trPhase \notin {"send", "receive"}
    PROVE  /\ NoReading' /\ NoWriting'
           /\ sdState \in RestStates => sdState' \in RestStates
           /\ sdState = "WAIT_WRITE_PRECHARGE" => sdState' = "IDLE"
           /\ sdState \in StartStates => sdState' \in StartStates \cup {"IDLE"}
           /\ chipCell' = chipCell /\ chipWatched' = chipWatched
<1>1. NoReading /\ NoWriting /\ ~SdBegins
  <2>1. NoReading /\ NoWriting
    BY DEF SdInv, SdBetween
  <2>2. ~SdBegins
    <3>1. sdBegun => trPhase \in {"send", "receive", "elsewhere"}
      BY DEF SdInv, SdTurn
    <3> QED BY <3>1, Wires
  <2> QED BY <2>1, <2>2
<1>2. sdState \in RestStates \cup StartStates \cup {"WAIT_WRITE_PRECHARGE"}
  BY DEF SdInv, SdBetween
<1>3. /\ sdState \in RestStates => sdState' \in RestStates
      /\ sdState = "WAIT_WRITE_PRECHARGE" => sdState' = "IDLE"
      /\ sdState \in StartStates => sdState' \in StartStates \cup {"IDLE"}
  BY <1>1, ClockParts, StateTable DEF Along, RestStates, StartStates, SdIdle, NoReading, NoWriting
<1>4. sdState' \notin {"WRITE_PRECHARGE", "END_READ_TRANSACTION", "INIT_READ_WRITE"} /\ sdState # "DO_READ"
  BY <1>2, <1>3 DEF RestStates, StartStates
<1>5. ~sdDataValid'
  <2>1. SdShorts
    BY ClockParts DEF MidClock
  <2> QED BY <1>4, <2>1 DEF SdShorts
<1>6. ~sdReadPending' /\ ~sdPushing' /\ ~sdValid'[1] /\ ~sdValid'[2]
  <2>1. ~sdReadPending'
    BY <1>1, ReadStep DEF NoReading
  <2>2. ~sdPushing'
    BY <1>5, ReadStep
  <2>3. ~sdValid'[1] /\ ~sdValid'[2]
    BY <1>1, ReadStep DEF NoReading
  <2> QED BY <2>1, <2>2, <2>3
<1>7. ~sdEndPending' /\ ~sdEnd'
  BY <1>1, <1>4, TransactionStep DEF NoReading
<1>8. rfEmpty'
  BY <1>1, BufferStep DEF NoReading
<1>9. NoReading'
  BY <1>5, <1>6, <1>7, <1>8 DEF NoReading
<1>10. NoWriting'
  <2>1. sdWriteCount = -1
    BY <1>1 DEF NoWriting
  <2>2. sdBegun /\ SdMine => SdBegins
    BY DEF SdBegins
  <2>3. ~sdDataIn'
    BY <2>1, WriteStep
  <2>4. sdWriteCount' = -1
    <3>1. sdState' # "WRITE_PRECHARGE"
      BY <1>4
    <3> QED BY <1>1, <2>1, <2>2, <3>1, WriteStep
  <2> QED BY <2>3, <2>4 DEF NoWriting
<1>11. chipCell' = chipCell /\ chipWatched' = chipWatched
  BY <1>2, ChipStep DEF RestStates, StartStates
<1> QED BY <1>3, <1>9, <1>10, <1>11

LEMMA PhaseStep ==
    ASSUME TrNext
    PROVE  /\ trPhase = "idle" => TrIdle
           /\ trPhase = "begin" => TrBegin
           /\ trPhase = "send" => TrSend
           /\ trPhase = "gap" => TrGap
           /\ trPhase = "receive" => TrReceive
           /\ trPhase = "elsewhere" => TrElsewhere
           /\ trPhase = "end" => TrEnd
<1>1. TrPhaseStep
  BY ClockParts
<1> QED BY <1>1 DEF TrPhaseStep, TrIdle, TrBegin, TrSend, TrGap, TrReceive, TrElsewhere, TrEnd

\* Between transactions nothing is said about words.
LEMMA BetweenWork ==
    ASSUME trPhase' \notin {"send", "receive"}, SdTurn', SdBetween', SdCells'
    PROVE  SdWork'
BY DEF SdWork, SdSending, SdSendingPlace, SdSendingCell, SdReceiving, SdReceivingCount,
       SdReceivingPlace, SdReceivingWords

LEMMA QuietWork ==
    ASSUME NoDistance, SdInv, TrNext, trPhase \in {"idle", "gap", "end", "elsewhere"}
    PROVE  SdWork'
<1>1. SdTurn /\ SdBetween /\ SdCells
  BY DEF SdInv
<1>2. /\ NoReading' /\ NoWriting'
      /\ sdState \in RestStates => sdState' \in RestStates
      /\ sdState = "WAIT_WRITE_PRECHARGE" => sdState' = "IDLE"
      /\ sdState \in StartStates => sdState' \in StartStates \cup {"IDLE"}
      /\ chipCell' = chipCell
  BY QuietStep
<1>3. ~sdBegun' /\ (sdInitBusy <=> sdState \in StartStates)' /\ sdOp' = sdOp
      /\ (sdActive' <=> trPhase # "end" /\ sdActive)
  <2>1. ~sdEnd
    BY <1>1 DEF SdBetween, NoReading
  <2> QED BY <2>1, StartBusyStep, TransactionStep
<1>4. SdCells'
  <2>1. trExpected' = trExpected
    BY PhaseStep DEF TrIdle, TrGap, TrEnd, TrElsewhere
  <2> QED BY <1>1, <1>2, <2>1 DEF SdCells
<1>5. CASE trPhase = "idle"
  <2>1. /\ trPhase' \in {"idle", "begin"} /\ trCount' = 0
        /\ trPhase' = "begin" => ~sdInitBusy /\ trOp' \in Transactions
    BY <1>5, PhaseStep DEF TrIdle
  <2>2. SdTurn'
    <3>1. ~sdActive'
      BY <1>1, <1>3, <1>5 DEF SdTurn
    <3> QED BY <1>3, <2>1, <3>1 DEF SdTurn
  <2>3. SdBetween'
    <3>1. sdState \in RestStates \cup StartStates
      BY <1>1, <1>5 DEF SdBetween
    <3>2. trPhase' = "begin" => sdState \in RestStates
      BY <1>1, <2>1, <3>1 DEF SdTurn
    <3>3. trPhase' = "begin" => sdState' \in RestStates
      BY <1>2, <3>2
    <3>4. sdState' \in RestStates \cup StartStates
      BY <1>2, <3>1 DEF RestStates
    <3> QED BY <1>2, <2>1, <3>3, <3>4 DEF SdBetween
  <2> QED BY <1>4, <2>1, <2>2, <2>3, BetweenWork
<1>6. CASE trPhase = "gap"
  <2>1. trPhase' = "end" /\ trOp' = trOp
    BY <1>6, PhaseStep DEF TrGap
  <2>2. SdTurn'
    BY <1>1, <1>3, <1>6, <2>1 DEF SdTurn
  <2>3. SdBetween'
    <3>1. sdState = "WAIT_WRITE_PRECHARGE"
      BY <1>1, <1>6 DEF SdBetween
    <3>2. sdState' \in RestStates \cup {"WAIT_WRITE_PRECHARGE"}
      BY <1>2, <3>1 DEF RestStates
    <3> QED BY <1>2, <2>1, <3>2 DEF SdBetween
  <2> QED BY <1>4, <2>1, <2>2, <2>3, BetweenWork
<1>7. CASE trPhase = "elsewhere"
  <2>1. trPhase' = "end" /\ trOp' = trOp
    BY <1>7, PhaseStep DEF TrElsewhere
  <2>2. SdTurn'
    BY <1>1, <1>3, <1>7, <2>1 DEF SdTurn
  <2>3. SdBetween'
    <3>1. sdState \in RestStates
      BY <1>1, <1>7 DEF SdBetween
    <3> QED BY <1>2, <2>1, <3>1 DEF SdBetween
  <2> QED BY <1>4, <2>1, <2>2, <2>3, BetweenWork
<1>8. CASE trPhase = "end"
  <2>1. trPhase' = "idle" /\ trOp' = trOp
    BY <1>8, PhaseStep DEF TrEnd
  <2>2. SdTurn'
    BY <1>1, <1>3, <1>8, <2>1 DEF SdTurn
  <2>3. SdBetween'
    <3>1. sdState \in RestStates \cup {"WAIT_WRITE_PRECHARGE"}
      BY <1>1, <1>8 DEF SdBetween
    <3>2. sdState' \in RestStates \cup StartStates
      BY <1>2, <3>1 DEF RestStates
    <3> QED BY <1>2, <2>1, <3>2 DEF SdBetween
  <2> QED BY <1>4, <2>1, <2>2, <2>3, BetweenWork
<1> QED BY <1>5, <1>6, <1>7, <1>8

LEMMA BeginWork ==
    ASSUME NoDistance, SdInv, TrNext, trPhase = "begin"
    PROVE  SdWork'
<1>1. SdTurn /\ SdBetween /\ SdCells
  BY DEF SdInv
<1>2. /\ NoReading' /\ NoWriting' /\ sdState' \in RestStates /\ chipCell' = chipCell
  <2>1. sdState \in RestStates
    BY <1>1 DEF SdBetween
  <2> QED BY <2>1, QuietStep
<1>3. sdBegun' /\ (sdInitBusy <=> sdState \in StartStates)' /\ sdOp' = trOp /\ sdActive'
  <2>1. ~sdEnd
    BY <1>1 DEF SdBetween, NoReading
  <2> QED BY <2>1, StartBusyStep, TransactionStep
<1>4. /\ trPhase' = IF ~trOp.mine THEN "elsewhere" ELSE IF trOp.read THEN "receive" ELSE "send"
      /\ trOp' = trOp /\ trCount' = trCount /\ trExpected' = trExpected
      /\ trWord' \in IF trOp.mine /\ ~trOp.read THEN WrittenWords(0) ELSE {NoWord32}
  BY PhaseStep DEF TrBegin
<1>5. trOp \in Transactions /\ trCount = 0
  BY <1>1 DEF SdTurn
<1>6. SdCells' /\ chipCell' = trExpected'
  <2>1. chipCell = trExpected
    BY <1>1 DEF SdCells
  <2> QED BY <1>2, <1>4, <2>1 DEF SdCells
<1>7. SdTurn'
  BY <1>3, <1>4, <1>5 DEF SdTurn
<1>8. CASE ~trOp.mine
  <2>1. trPhase' = "elsewhere"
    BY <1>4, <1>8
  <2>2. SdBetween'
    BY <1>2, <2>1 DEF SdBetween
  <2> QED BY <1>6, <1>7, <2>1, <2>2, BetweenWork
<1>9. CASE trOp.mine /\ ~trOp.read
  <2>1. trPhase' = "send"
    BY <1>4, <1>9
  <2>2. trWord' \in {WordOf(0), WordOf(1)} /\ trCount' < trOp'.words
    <3>1. trWord' \in {WordOf(0), WordOf(1)}
      BY <1>4, <1>9 DEF WrittenWords
    <3>2. trOp.words \in Nat \ {0}
      BY <1>5, OpFacts, LongestIsLongest, SdramAssumption
    <3> QED BY <1>4, <1>5, <3>1, <3>2
  <2>3. ~sdDataIn' /\ sdWriteCount' = -1
    BY <1>2 DEF NoWriting
  <2>4. SdSending'
    BY <1>2, <1>3, <2>1, <2>2, <2>3 DEF SdSending, RestStates, WordStates
  <2>5. SdSendingPlace' /\ SdReceivingCount' /\ SdReceivingPlace' /\ SdReceiving' /\ SdReceivingWords'
        /\ SdBetween'
    BY <1>3, <2>1 DEF SdSendingPlace, SdReceivingCount, SdReceivingPlace, SdReceiving, SdReceivingWords,
       SdBetween
  <2>6. SdSendingCell'
    BY <1>2, <1>6, <2>1 DEF SdSendingCell, RestStates
  <2> QED BY <1>6, <1>7, <2>4, <2>5, <2>6 DEF SdWork
<1>10. CASE trOp.mine /\ trOp.read
  <2>1. trPhase' = "receive"
    BY <1>4, <1>10
  <2>2. SdSending' /\ SdSendingPlace' /\ SdSendingCell' /\ SdReceivingCount' /\ SdReceivingPlace' /\ SdBetween'
    BY <1>3, <2>1 DEF SdSending, SdSendingPlace, SdSendingCell, SdReceivingCount, SdReceivingPlace, SdBetween
  <2>3. SdReceiving'
    BY <1>2, <1>3, <2>1 DEF SdReceiving, RestStates, OpeningStates, RowStates, LatencyStates
  <2>4. SdReceivingWords'
    BY <1>2, <2>1 DEF SdReceivingWords, NoReading
  <2> QED BY <1>6, <1>7, <2>2, <2>3, <2>4 DEF SdWork
<1> QED BY <1>8, <1>9, <1>10

-----------------------------------------------------------------------------
(* Clocks in which a word is written.                                      *)

LEMMA SendFacts ==
    ASSUME NoDistance, SdInv, TrNext, trPhase = "send"
    PROVE  /\ NoReading' /\ ~sdBegun' /\ sdActive' /\ sdOp' = sdOp /\ sdOp = trOp /\ trOp' = trOp
           /\ trOp \in Transactions /\ trOp.mine /\ ~trOp.read /\ SdMine
           /\ trCount \in Nat /\ trCount < trOp.words /\ trOp.words \in Nat /\ trOp.address \in Nat
           /\ SdBegins <=> sdBegun
           /\ sdBusWord' = trWord
           /\ sdDataIn' <=> sdWriteCount >= 0 /\ sdState' # "WRITE_PRECHARGE"
           /\ sdWriteCount' = IF sdBegun THEN trOp.words - 1
                              ELSE IF sdState' = "WRITE_PRECHARGE" THEN sdWriteCount - 1
                              ELSE sdWriteCount
           /\ sdState' # "END_READ_TRANSACTION"
<1>1. SdTurn /\ SdSending /\ SdShape /\ NoReading
  BY DEF SdInv, SdSending
<1>2. sdActive /\ sdOp = trOp /\ trOp \in Transactions /\ trOp.mine /\ ~trOp.read
  BY <1>1 DEF SdTurn
<1>3. trCount \in Nat /\ trCount < trOp.words
  BY <1>1 DEF SdShape, SdSending
<1>4. trOp.words \in Nat /\ trOp.address \in Nat
  BY <1>2, OpFacts, LongestIsLongest, SdramAssumption
<1>5. SdMine /\ (SdBegins <=> sdBegun)
  BY Wires
<1>6. trOp' = trOp
  BY PhaseStep DEF TrSend
<1>7. ~sdBegun' /\ sdActive' /\ sdOp' = sdOp
  BY <1>1, <1>2, TransactionStep DEF NoReading
<1>8. BusValid /\ BusWord = trWord
  BY <1>1 DEF BusValid, BusWord, NoReading
<1>9. sdState # "DO_READ" /\ sdState' # "END_READ_TRANSACTION"
  <2>1. sdState \in RestStates \cup WriteStates
    BY <1>1 DEF SdSending
  <2>2. sdState # "DO_READ"
    BY <2>1 DEF RestStates, WriteStates, RowStates, WordStates, CloseStates
  <2> QED BY <2>1, <2>2, ClockParts, StateTable DEF Along, RestStates, WriteStates, RowStates, WordStates, CloseStates,
      SdIdle
<1>10. ~sdDataValid'
  BY <1>9, ClockParts DEF MidClock, SdShorts
<1>11. NoReading'
  <2>1. ~sdReadPending'
    BY <1>1, <1>2, ReadStep DEF NoReading
  <2>2. ~sdPushing'
    BY <1>10, ReadStep
  <2>3. ~sdValid'[1] /\ ~sdValid'[2] /\ rfEmpty'
    BY <1>1, ReadStep, BufferStep DEF NoReading
  <2>4. ~sdEndPending' /\ ~sdEnd'
    BY <1>1, <1>9, TransactionStep DEF NoReading
  <2> QED BY <1>10, <2>1, <2>2, <2>3, <2>4 DEF NoReading
<1> QED BY <1>2, <1>3, <1>4, <1>5, <1>6, <1>7, <1>8, <1>9, <1>11, WriteStep

\* The states of a word, one after the other.
LEMMA SendStates ==
    ASSUME NoDistance, SdInv, TrNext, trPhase = "send"
    PROVE  /\ sdState = "IDLE" => sdState' \in RestStates \/ (sdState' = "INIT_READ_WRITE" /\ sdDataIn)
           /\ sdState \in RestStates \ {"IDLE"} => sdState' \in RestStates
           /\ sdBegun => sdState' \in RestStates
           /\ Along("INIT_READ_WRITE", "INIT_READ_BURST1")
           /\ Along("INIT_READ_BURST1", "INIT_WORD_WRITE")
           /\ Along("INIT_WORD_WRITE", IF "lo" \in trOp.lanes THEN "WRITE_LO" ELSE "WAIT_WRITE_LO")
           /\ Along("WRITE_LO", "WAIT_WRITE_LO")
           /\ Along("WAIT_WRITE_LO", IF "hi" \in trOp.lanes THEN "WRITE_HI" ELSE "WRITE_PRECHARGE")
           /\ Along("WRITE_HI", "WAIT_WRITE_HI")
           /\ Along("WAIT_WRITE_HI", "WRITE_PRECHARGE")
           /\ Along("WRITE_PRECHARGE", "WAIT_WRITE_PRECHARGE")
           /\ Along("WAIT_WRITE_PRECHARGE", "IDLE")
           /\ sdState \in RestStates \cup {"INIT_READ_WRITE", "INIT_READ_BURST1", "INIT_WORD_WRITE", "WRITE_LO",
                 "WAIT_WRITE_LO", "WRITE_HI", "WAIT_WRITE_HI", "WRITE_PRECHARGE", "WAIT_WRITE_PRECHARGE"}
<1>1. NoReading /\ sdState \in RestStates \cup WriteStates /\ (sdBegun => sdState \in RestStates /\ ~sdDataIn)
      /\ (sdState = "INIT_READ_BURST1" => sdDataIn)
  BY DEF SdInv, SdSending, RestStates
<1>2. ~sdReadPending /\ sdOp = trOp
  BY <1>1, SendFacts DEF NoReading
<1> QED BY <1>1, <1>2, ClockParts, StateTable DEF Along, SdIdle, RestStates, WriteStates, RowStates, WordStates, CloseStates

LEMMA SendControl ==
    ASSUME NoDistance, SdInv, TrNext, trPhase = "send", sdState # "WRITE_PRECHARGE"
    PROVE  SdTurn' /\ SdSending' /\ trPhase' = "send" /\ trWord' = trWord /\ trCount' = trCount
           /\ trExpected' = trExpected
<1>1. SdTurn /\ SdSending
  BY DEF SdInv
<1>2. trPhase' = "send" /\ trWord' = trWord /\ trCount' = trCount /\ trExpected' = trExpected
  <2>1. SdBusy(TRUE)
    BY Wires, SendFacts
  <2> QED BY <2>1, PhaseStep DEF TrSend
<1>3. SdTurn'
  BY <1>2, SendFacts, StartBusyStep DEF SdTurn
<1>4. SdSending'
  <2>1. sdState' \in RestStates \cup WriteStates
    BY SendStates DEF Along, RestStates, WriteStates, RowStates, WordStates, CloseStates
  <2>2. sdWriteCount' = trOp.words - trCount - (IF sdState' = "WRITE_PRECHARGE" THEN 2 ELSE 1)
    <3>1. CASE sdBegun
      <4>1. sdState' # "WRITE_PRECHARGE" /\ trCount = 0
        BY <1>1, <3>1, SendStates DEF RestStates, SdTurn
      <4> QED BY <3>1, <4>1, SendFacts
    <3>2. CASE ~sdBegun
      <4>1. sdWriteCount = trOp.words - trCount - 1
        BY <1>1, <3>2 DEF SdSending
      <4> QED BY <3>2, <4>1, SendFacts
    <3> QED BY <3>1, <3>2
  <2>3. sdBegun \/ (sdDataIn' <=> sdState' # "WRITE_PRECHARGE")
    <3>1. ~sdBegun => sdWriteCount = trOp.words - trCount - 1
      BY <1>1 DEF SdSending
    <3>2. ~sdBegun => sdWriteCount >= 0
      BY <3>1, SendFacts
    <3> QED BY <3>2, SendFacts
  <2>4. sdDataIn' \/ sdState' \in RestStates \cup {"WRITE_PRECHARGE"}
    BY <2>3, SendStates
  <2>5. sdState' = "WRITE_PRECHARGE" => ~sdDataIn'
    BY SendFacts
  <2>6. sdState' \in WordStates \ {"INIT_WORD_WRITE"} => sdToRam' = trWord
    <3>1. CASE sdState = "INIT_WORD_WRITE"
      <4>1. sdBusWord = trWord
        BY <1>1, <3>1 DEF SdSending, RestStates
      <4> QED BY <3>1, <4>1, ChipStep
    <3>2. CASE sdState # "INIT_WORD_WRITE"
      <4>1. sdState' \in WordStates \ {"INIT_WORD_WRITE"} => sdState \in WordStates \ {"INIT_WORD_WRITE"}
        BY <3>2, SendStates DEF Along, WordStates, RestStates
      <4>2. sdState \in WordStates \ {"INIT_WORD_WRITE"} => sdToRam = trWord
        BY <1>1 DEF SdSending
      <4> QED BY <3>2, <4>1, <4>2, ChipStep
    <3> QED BY <3>1, <3>2
  <2>7. /\ sdState' = "WRITE_LO" => "lo" \in trOp.lanes
        /\ sdState' \in {"WRITE_HI", "WAIT_WRITE_HI"} => "hi" \in trOp.lanes
    BY <1>1, SendStates DEF Along, RestStates, SdSending
  <2>8. trCount < trOp.words /\ trWord \in {WordOf(0), WordOf(1)}
    BY <1>1 DEF SdSending
  <2> QED BY <1>2, <2>1, <2>2, <2>4, <2>5, <2>6, <2>7, <2>8, SendFacts DEF SdSending
<1> QED BY <1>2, <1>3, <1>4

LEMMA SendPlace ==
    ASSUME NoDistance, SdInv, TrNext, trPhase = "send", sdState # "WRITE_PRECHARGE"
    PROVE  SdSendingPlace'
<1>1. trCount \in Nat /\ trOp.address \in Nat /\ sdOp = trOp /\ trOp' = trOp /\ trCount' = trCount
      /\ (SdBegins <=> sdBegun)
  BY SendFacts, SendControl
<1>0. PICK n \in Nat : n = trOp.address + trCount
  BY <1>1
<1>2. trOp'.address + trCount' = n
  BY <1>0, <1>1
<1>3. SdSendingPlace /\ SdTurn
  BY DEF SdInv
<1>4. ~sdDataValid
  BY Wires, SendFacts
<1>5. CASE sdBegun
  <2>1. trOp.address = n
    BY <1>0, <1>1, <1>3, <1>5 DEF SdTurn
  <2>2. AtLower(n)'
    BY <1>1, <1>5, <2>1, AddressStep
  <2>3. sdState' \in RestStates
    BY <1>5, SendStates
  <2> QED BY <1>2, <2>2, <2>3 DEF SdSendingPlace, RestStates
<1>6. CASE ~sdBegun /\ sdState \in {"WAIT_WRITE_HI"}
  <2>1. AtUpper(n) /\ Counts
    BY <1>0, <1>3, <1>6 DEF SdSendingPlace, Counts
  <2>2. AtLower(n + 1)'
    BY <1>1, <1>6, <2>1, AddressStep
  <2>3. sdState' = "WRITE_PRECHARGE"
    BY <1>6, SendStates DEF Along
  <2> QED BY <1>2, <2>2, <2>3 DEF SdSendingPlace
<1>7. CASE ~sdBegun /\ sdState = "WAIT_WRITE_LO"
  <2>1. AtLower(n) /\ Counts
    BY <1>0, <1>3, <1>7 DEF SdSendingPlace, Counts
  <2>2. AtUpper(n)'
    BY <1>1, <1>7, <2>1, AddressStep
  <2>3. sdState' = IF "hi" \in trOp.lanes THEN "WRITE_HI" ELSE "WRITE_PRECHARGE"
    BY <1>7, SendStates DEF Along
  <2> QED BY <1>1, <1>2, <2>2, <2>3 DEF SdSendingPlace
<1>8. CASE ~sdBegun /\ sdState = "WRITE_HI"
  <2>1. AtUpper(n) /\ ~Counts
    BY <1>0, <1>3, <1>4, <1>8 DEF SdSendingPlace, Counts
  <2>2. sdRow' = sdRow /\ sdColumn' = sdColumn
    BY <1>1, <1>8, <2>1, AddressStep
  <2>3. AtUpper(n)'
    BY <2>1, <2>2 DEF AtUpper
  <2>4. sdState' = "WAIT_WRITE_HI"
    BY <1>8, SendStates DEF Along
  <2> QED BY <1>2, <2>3, <2>4 DEF SdSendingPlace
<1>9. CASE ~sdBegun /\ sdState \notin {"WAIT_WRITE_HI", "WAIT_WRITE_LO", "WRITE_HI"}
  <2>1. AtLower(n) /\ ~Counts
    BY <1>0, <1>3, <1>4, <1>9 DEF SdSendingPlace, Counts
  <2>2. sdRow' = sdRow /\ sdColumn' = sdColumn
    BY <1>1, <1>9, <2>1, AddressStep
  <2>3. AtLower(n)'
    BY <2>1, <2>2 DEF AtLower
  <2>4. sdState' \notin {"WRITE_HI", "WAIT_WRITE_HI", "WRITE_PRECHARGE"}
    BY <1>9, SendStates DEF Along, RestStates
  <2> QED BY <1>2, <2>3, <2>4 DEF SdSendingPlace
<1> QED BY <1>5, <1>6, <1>7, <1>8, <1>9

LEMMA SendCell ==
    ASSUME NoDistance, SdInv, TrNext, trPhase = "send", sdState # "WRITE_PRECHARGE"
    PROVE  SdSendingCell'
<1> DEFINE n == trOp.address + trCount
           half == 2 * Columns * sdRow + sdColumn
<1>1. n \in Nat /\ trOp' = trOp /\ trCount' = trCount /\ trWord' = trWord /\ trExpected' = trExpected
      /\ trPhase' = "send"
  BY SendFacts, SendControl
<1>2. LowerPlace = 2 * WordPlace(n) /\ UpperPlace = 2 * WordPlace(n) + 1
  BY DEF LowerPlace, UpperPlace, WordPlace
<1>3. LowerPlace' = LowerPlace /\ UpperPlace' = UpperPlace /\ Stored(trWord)' = Stored(trWord)
  <2>1. chipWatched' = chipWatched
    BY ChipStep
  <2> QED BY <1>1, <2>1 DEF LowerPlace, UpperPlace, Stored
<1>4. SdSendingCell /\ SdSendingPlace /\ SdSending
  BY DEF SdInv
<1>5. sdState \notin RestStates => ~sdBegun
  BY StateBelongs
<1>6. chipWatched' = chipWatched
  BY ChipStep
<1>7. CASE sdState = "WRITE_LO"
  <2>1. half = LowerPlace
    <3>1. AtLower(n)
      BY <1>4, <1>5, <1>7 DEF SdSendingPlace, RestStates
    <3> QED BY <1>1, <1>2, <3>1, PlaceOfHalf
  <2>2. chipCell' = IF chipWatched = LowerPlace THEN trWord[1].cell ELSE chipCell
    <3>1. sdToRam = trWord
      BY <1>4, <1>7 DEF SdSending, WordStates
    <3> QED BY <1>7, <2>1, <3>1, ChipStep
  <2>3. chipCell = trExpected /\ "lo" \in trOp.lanes
    BY <1>4, <1>7 DEF SdSendingCell, SdSending
  <2>4. sdState' = "WAIT_WRITE_LO"
    BY <1>7, SendStates DEF Along
  <2> QED BY <1>1, <1>3, <1>6, <2>2, <2>3, <2>4 DEF SdSendingCell
<1>8. CASE sdState = "WRITE_HI"
  <2>1. half = UpperPlace
    <3>1. AtUpper(n)
      BY <1>4, <1>5, <1>8 DEF SdSendingPlace, RestStates
    <3> QED BY <1>1, <1>2, <3>1, PlaceOfHalf
  <2>2. chipCell' = IF chipWatched = UpperPlace THEN trWord[2].cell ELSE chipCell
    <3>1. sdToRam = trWord
      BY <1>4, <1>8 DEF SdSending, WordStates
    <3> QED BY <1>8, <2>1, <3>1, ChipStep
  <2>3. /\ chipCell = IF chipWatched = LowerPlace /\ "lo" \in trOp.lanes THEN trWord[1].cell ELSE trExpected
        /\ "hi" \in trOp.lanes
    BY <1>4, <1>8 DEF SdSendingCell, SdSending
  <2>4. LowerPlace # UpperPlace
    <3>1. WordPlace(n) \in Nat
      BY <1>1, PlaceOfWord
    <3> QED BY <1>2, <3>1
  <2>5. chipCell' = Stored(trWord)
    BY <2>2, <2>3, <2>4 DEF Stored
  <2>6. sdState' = "WAIT_WRITE_HI"
    BY <1>8, SendStates DEF Along
  <2> QED BY <1>1, <1>3, <2>5, <2>6 DEF SdSendingCell
<1>9. CASE sdState \notin {"WRITE_LO", "WRITE_HI"}
  <2>1. chipCell' = chipCell
    BY <1>9, ChipStep
  <2>2. CASE sdState = "WAIT_WRITE_LO"
    <3>1. chipCell = IF chipWatched = LowerPlace /\ "lo" \in trOp.lanes THEN trWord[1].cell ELSE trExpected
      BY <1>4, <2>2 DEF SdSendingCell
    <3>2. sdState' = IF "hi" \in trOp.lanes THEN "WRITE_HI" ELSE "WRITE_PRECHARGE"
      BY <2>2, SendStates DEF Along
    <3>3. "hi" \notin trOp.lanes => chipCell = Stored(trWord)
      BY <3>1 DEF Stored
    <3> QED BY <1>1, <1>3, <1>6, <2>1, <3>1, <3>2, <3>3 DEF SdSendingCell
  <2>3. CASE sdState = "WAIT_WRITE_HI"
    <3>1. chipCell = Stored(trWord)
      BY <1>4, <2>3 DEF SdSendingCell
    <3>2. sdState' = "WRITE_PRECHARGE"
      BY <2>3, SendStates DEF Along
    <3> QED BY <1>1, <1>3, <2>1, <3>1, <3>2 DEF SdSendingCell
  <2>4. CASE sdState = "INIT_WORD_WRITE"
    <3>1. chipCell = trExpected
      BY <1>4, <2>4 DEF SdSendingCell
    <3>2. sdState' = IF "lo" \in trOp.lanes THEN "WRITE_LO" ELSE "WAIT_WRITE_LO"
      BY <2>4, SendStates DEF Along
    <3>3. "lo" \notin trOp.lanes => chipCell = IF chipWatched = LowerPlace /\ "lo" \in trOp.lanes
                                              THEN trWord[1].cell ELSE trExpected
      BY <3>1
    <3> QED BY <1>1, <1>3, <1>6, <2>1, <3>1, <3>2, <3>3 DEF SdSendingCell
  <2>5. CASE sdState \notin {"WAIT_WRITE_LO", "WAIT_WRITE_HI", "INIT_WORD_WRITE"}
    <3>1. chipCell = trExpected
      BY <1>4, <1>9, <2>5 DEF SdSendingCell
    <3>2. sdState' \notin {"WAIT_WRITE_LO", "WRITE_HI", "WAIT_WRITE_HI", "WRITE_PRECHARGE"}
      BY <1>9, <2>5, SendStates DEF Along, RestStates
    <3> QED BY <1>1, <2>1, <3>1, <3>2 DEF SdSendingCell
  <2> QED BY <2>2, <2>3, <2>4, <2>5
<1> QED BY <1>7, <1>8, <1>9

\* The word is in the chip, and the master goes on.
LEMMA SendNext ==
    ASSUME NoDistance, SdInv, TrNext, trPhase = "send", sdState = "WRITE_PRECHARGE"
    PROVE  SdWork'
<1>1. SdSending /\ SdSendingPlace /\ SdSendingCell /\ SdTurn
  BY DEF SdInv
<1>2. /\ sdState' = "WAIT_WRITE_PRECHARGE" /\ chipCell' = chipCell
      /\ ~sdBegun /\ sdWriteCount = trOp.words - trCount - 2
  <2>1. ~sdBegun
    BY StateBelongs DEF RestStates
  <2> QED BY <1>1, <2>1, SendStates, ChipStep DEF Along, SdSending
<1>3. /\ trExpected' = Stored(trWord) /\ trCount' = trCount + 1 /\ trOp' = trOp
      /\ IF trCount + 1 = trOp.words
         THEN trPhase' \in {"gap", "end"} ELSE trWord' \in WrittenWords(trCount + 1) /\ trPhase' = "send"
  <2>1. ~SdBusy(TRUE)
    BY Wires
  <2> QED BY <2>1, PhaseStep DEF TrSend
<1>4. chipCell' = trExpected'
  BY <1>1, <1>2, <1>3 DEF SdSendingCell
<1>5. NoReading' /\ sdWriteCount' = sdWriteCount /\ (sdDataIn' <=> sdWriteCount >= 0)
      /\ ~sdBegun' /\ sdActive' /\ sdOp' = trOp' /\ trOp \in Transactions /\ trOp.mine /\ ~trOp.read
      /\ sdBusWord' = trWord /\ trOp.address \in Nat /\ trCount \in Nat /\ trOp.words \in Nat /\ trCount < trOp.words
  BY <1>2, <1>3, SendFacts
<1>6. SdTurn' /\ SdCells'
  BY <1>3, <1>4, <1>5, StartBusyStep DEF SdTurn, SdCells
<1>7. CASE trCount + 1 = trOp.words
  <2>1. sdWriteCount' = -1 /\ ~sdDataIn'
    BY <1>2, <1>5, <1>7
  <2>2. trPhase' \in {"gap", "end"}
    BY <1>3, <1>7
  <2>3. SdBetween'
    BY <1>2, <1>5, <2>1, <2>2 DEF SdBetween, NoWriting
  <2> QED BY <1>6, <2>2, <2>3, BetweenWork
<1>8. CASE trCount + 1 # trOp.words
  <2>1. trPhase' = "send" /\ trWord' \in {WordOf(0), WordOf(1)}
    BY <1>3, <1>8 DEF WrittenWords
  <2>2. trCount' < trOp'.words /\ sdWriteCount' = trOp'.words - trCount' - 1 /\ sdDataIn'
    BY <1>2, <1>3, <1>5, <1>8
  <2>3. SdSending'
    BY <1>2, <1>5, <2>1, <2>2 DEF SdSending, WriteStates, CloseStates, RestStates, WordStates
  <2>4. SdSendingPlace'
    <3>1. "hi" \in trOp.lanes
      <4>1. trOp.words > 1
        BY <1>5, <1>8
      <4> QED BY <1>5, <4>1, OpFacts
    <3>2. PICK m \in Nat : m = trOp.address + trCount + 1
      BY <1>5
    <3>3. AtLower(m)
      BY <1>1, <1>2, <3>1, <3>2 DEF SdSendingPlace
    <3>4. ~SdBegins /\ ~Counts
      BY <1>2, SendFacts, StateBelongs, Wires DEF Counts
    <3>5. sdRow' = sdRow /\ sdColumn' = sdColumn
      BY <3>2, <3>4, AddressStep
    <3>6. AtLower(m)'
      BY <3>3, <3>5 DEF AtLower
    <3>7. trOp'.address + trCount' = m
      BY <1>3, <1>5, <3>2
    <3> QED BY <1>2, <3>6, <3>7 DEF SdSendingPlace
  <2>5. SdSendingCell'
    BY <1>2, <1>4 DEF SdSendingCell
  <2>6. SdBetween' /\ SdReceiving' /\ SdReceivingCount' /\ SdReceivingPlace' /\ SdReceivingWords'
    BY <2>1 DEF SdBetween, SdReceiving, SdReceivingCount, SdReceivingPlace, SdReceivingWords
  <2> QED BY <1>6, <2>3, <2>4, <2>5, <2>6 DEF SdWork
<1> QED BY <1>7, <1>8

LEMMA SendWork ==
    ASSUME NoDistance, SdInv, TrNext, trPhase = "send"
    PROVE  SdWork'
<1>1. CASE sdState = "WRITE_PRECHARGE"
  BY <1>1, SendNext
<1>2. CASE sdState # "WRITE_PRECHARGE"
  <2>1. SdTurn' /\ SdSending' /\ trPhase' = "send" /\ SdSendingPlace' /\ SdSendingCell'
    BY <1>2, SendControl, SendPlace, SendCell
  <2>2. SdBetween' /\ SdCells' /\ SdReceiving' /\ SdReceivingCount' /\ SdReceivingPlace' /\ SdReceivingWords'
    BY <2>1 DEF SdBetween, SdCells, SdReceiving, SdReceivingCount, SdReceivingPlace, SdReceivingWords
  <2> QED BY <2>1, <2>2 DEF SdWork
<1> QED BY <1>1, <1>2

-----------------------------------------------------------------------------
(* Clocks in which words are read.                                         *)

LEMMA ReceiveFacts ==
    ASSUME NoDistance, SdInv, TrNext, trPhase = "receive"
    PROVE  /\ trOp' = trOp /\ sdOp = trOp /\ sdOp' = sdOp /\ trExpected' = trExpected
           /\ trOp \in Transactions /\ trOp.mine /\ trOp.read /\ SdMine /\ sdActive
           /\ trCount' = trCount + OneIf(sdValid[2])
           /\ trPhase' = IF sdEnd THEN "idle" ELSE "receive"
           /\ ~sdBegun' /\ (sdActive' <=> ~sdEnd) /\ (SdBegins <=> sdBegun)
           /\ NoWriting' /\ chipCell' = chipCell /\ chipWatched' = chipWatched
           /\ sdDataValid' <=> sdState = "DO_READ" /\ sdShort # 0
           /\ sdDataValid' \in BOOLEAN
           /\ sdState # "INIT_READ_BURST2" =>
                 sdShort' = IF sdDataValid /\ sdShort # 0 THEN sdShort - 1 ELSE sdShort
           /\ sdReadPending' <=> /\ sdState' # "SECOND_BURST"
                                 /\ ~(sdState' = "INIT_READ_WRITE" /\ ~RequiresTwoBursts)
                                 /\ sdReadPending \/ sdBegun
           /\ sdShort \in Nat /\ trCount \in Nat
<1>1. SdTurn /\ SdReceiving /\ SdShape /\ NoWriting
  BY DEF SdInv, SdReceiving
<1>2. sdActive /\ sdOp = trOp /\ trOp \in Transactions /\ trOp.mine /\ trOp.read
  BY <1>1 DEF SdTurn
<1>3. SdMine /\ (SdBegins <=> sdBegun)
  BY Wires
<1>4. /\ trOp' = trOp /\ trExpected' = trExpected
      /\ trPhase' = IF sdEnd THEN "idle" ELSE "receive"
      /\ trCount' = trCount + OneIf(sdValid[2])
  <2>1. trCount \in Nat
    BY <1>1 DEF SdShape
  <2>2. trCount' = IF sdValid[2] THEN trCount + 1 ELSE trCount
    BY PhaseStep DEF TrReceive
  <2>3. trCount' = trCount + OneIf(sdValid[2])
    BY <2>1, <2>2 DEF OneIf
  <2> QED BY <2>3, PhaseStep DEF TrReceive
<1>5. ~sdBegun' /\ (sdActive' <=> ~sdEnd) /\ sdOp' = sdOp
  BY <1>2, TransactionStep
<1>6. NoWriting'
  <2>1. ~sdDataIn'
    BY <1>2, WriteStep
  <2>2. sdWriteCount' = -1
    BY <1>1, <1>2, <1>3, WriteStep DEF NoWriting
  <2> QED BY <2>1, <2>2 DEF NoWriting
<1>7. chipCell' = chipCell /\ chipWatched' = chipWatched
  <2>1. sdState \notin {"WRITE_LO", "WRITE_HI"}
    BY StateBelongs DEF OnlyWrite
  <2> QED BY <2>1, ChipStep
<1>8. /\ sdDataValid' = (sdState = "DO_READ" /\ sdShort # 0)
      /\ sdState # "INIT_READ_BURST2" =>
            sdShort' = IF sdDataValid /\ sdShort # 0 THEN sdShort - 1 ELSE sdShort
  BY ClockParts DEF MidClock, SdShorts
<1>9. sdShort \in Nat
  BY <1>1, SdramAssumption DEF SdShape
<1>10. trCount \in Nat
  BY <1>1 DEF SdShape
<1>11. sdReadPending' <=> /\ sdState' # "SECOND_BURST"
                          /\ ~(sdState' = "INIT_READ_WRITE" /\ ~RequiresTwoBursts)
                          /\ sdReadPending \/ sdBegun
  BY <1>2, <1>3, ReadStep
<1> QED BY <1>2, <1>3, <1>4, <1>5, <1>6, <1>7, <1>8, <1>9, <1>10, <1>11

\* The states of a read, one after the other.
LEMMA ReceiveStates ==
    ASSUME NoDistance, SdInv, TrNext, trPhase = "receive"
    PROVE  /\ sdState = "IDLE" => sdState' \in RestStates \/ (sdState' = "INIT_READ_WRITE" /\ sdReadPending)
           /\ sdState \in RestStates \ {"IDLE"} => sdState' \in RestStates
           /\ sdBegun => sdState' \in RestStates
           /\ Along("SECOND_BURST", "INIT_READ_WRITE")
           /\ Along("INIT_READ_WRITE", "INIT_READ_BURST1")
           /\ Along("INIT_READ_BURST1", "WAIT_READ_BURST1")
           /\ Along("WAIT_READ_BURST1", "INIT_READ_BURST2")
           /\ Along("INIT_READ_BURST2", "WAIT_READ_BURST2")
           /\ Along("WAIT_READ_BURST2", "WAIT_READ_BURST3")
           /\ Along("WAIT_READ_BURST3", "WAIT_READ_BURST4")
           /\ Along("WAIT_READ_BURST4", "WAIT_READ_BURST5")
           /\ Along("WAIT_READ_BURST5", "DO_READ")
           /\ Along("DO_READ", IF sdShort # 0 THEN "DO_READ"
                               ELSE IF FirstPart THEN "WRITE_PRECHARGE" ELSE "END_READ_TRANSACTION")
           /\ Along("END_READ_TRANSACTION", "WRITE_PRECHARGE")
           /\ Along("WRITE_PRECHARGE", "WAIT_WRITE_PRECHARGE")
           /\ Along("WAIT_WRITE_PRECHARGE", IF FirstPart THEN "SECOND_BURST" ELSE "IDLE")
           /\ sdState \in RestStates \cup ReadStates
<1>1. sdState \in RestStates \cup ReadStates /\ NoWriting
      /\ (sdBegun => sdState \in RestStates /\ ~sdReadPending)
  BY DEF SdInv, SdReceiving, NoReading
<1>2. ~sdDataIn
  BY <1>1 DEF NoWriting
<1>3. MidClock
  BY ClockParts
<1>4. FirstPart <=> sdReadPending /\ RequiresTwoBursts
  BY DEF FirstPart
<1>5. sdState = "DO_READ" =>
         sdState' = IF sdShort # 0 THEN "DO_READ"
                    ELSE IF FirstPart THEN "WRITE_PRECHARGE" ELSE "END_READ_TRANSACTION"
  BY <1>3, <1>4, StateTable DEF Along
<1>6. sdState = "WAIT_WRITE_PRECHARGE" => sdState' = IF FirstPart THEN "SECOND_BURST" ELSE "IDLE"
  BY <1>3, <1>4, StateTable DEF Along
<1>7. sdState = "IDLE" => sdState' \in RestStates \/ (sdState' = "INIT_READ_WRITE" /\ sdReadPending)
  BY <1>2, <1>3, StateTable DEF SdIdle, RestStates
<1>8. sdState \in RestStates \ {"IDLE"} => sdState' \in RestStates
  BY <1>3, StateTable DEF Along, RestStates
<1>9. sdBegun => sdState' \in RestStates
  BY <1>1, <1>7, <1>8
<1> QED BY <1>1, <1>2, <1>3, <1>5, <1>6, <1>7, <1>8, <1>9, StateTable DEF Along

\* The words of one part of a read.
LEMMA PartFacts ==
    ASSUME NoDistance, SdInv, TrNext, trPhase = "receive"
    PROVE  /\ trOp.words \in Nat /\ trOp.address \in Nat /\ WordsLeft \in 1 .. Columns
           /\ WordsLeft = Columns - WordColumn(trOp.address)
           /\ 1 <= trOp.words /\ trOp.words <= Columns + 1 /\ trOp.words <= LongestBurst
           /\ RequiresTwoBursts <=> trOp.words > WordsLeft
           /\ WordsLeft' = WordsLeft /\ (RequiresTwoBursts' <=> RequiresTwoBursts)
           /\ FirstPart <=> RequiresTwoBursts /\ sdReadPending
           /\ PartEnd = (IF FirstPart THEN WordsLeft ELSE trOp.words)
           /\ PartEnd \in Nat /\ PartEnd <= trOp.words
<1>1. sdOp = trOp /\ sdOp' = sdOp /\ trOp \in Transactions
  BY ReceiveFacts
<1>2. Columns \in Nat \ {0}
  BY SdramAssumption
<1>3. /\ trOp.words \in 1 .. LongestBurst /\ trOp.words <= Columns + 1 /\ trOp.address \in Nat
      /\ LongestBurst \in 1 .. Columns + 1
  BY <1>1, OpFacts, LongestIsLongest
<1>4. PICK c \in 0 .. Columns - 1 : c = trOp.address % Columns
  BY <1>2, <1>3, DivMod
<1>5. WordsLeft = Columns - c
  BY <1>1, <1>4 DEF WordsLeft
<1>6. WordsLeft \in 1 .. Columns /\ WordsLeft = Columns - WordColumn(trOp.address)
  BY <1>2, <1>4, <1>5 DEF WordColumn
<1>7. RequiresTwoBursts <=> trOp.words > WordsLeft
  BY <1>1 DEF RequiresTwoBursts
<1>8. WordsLeft' = WordsLeft /\ (RequiresTwoBursts' <=> RequiresTwoBursts)
  BY <1>1 DEF RequiresTwoBursts, WordsLeft
<1>9. PartEnd = (IF FirstPart THEN WordsLeft ELSE trOp.words) /\ (FirstPart <=> RequiresTwoBursts /\ sdReadPending)
  BY <1>1 DEF PartEnd, FirstPart
<1> QED BY <1>2, <1>3, <1>6, <1>7, <1>8, <1>9

\* Each clock moves every word on its way by one place.
LEMMA PipelineStep ==
    ASSUME NoDistance, SdInv, TrNext, trPhase = "receive"
    PROVE  /\ trCount' = Sent /\ Sent' = Shown /\ Shown' = Buffered /\ Buffered' = Delivered
           /\ Delivered' = Delivered + OneIf(sdPushing')
           /\ trCount \in Nat /\ Sent \in Nat /\ Shown \in Nat /\ Buffered \in Nat /\ Delivered \in Nat
           /\ trCount <= Delivered
<1>1. trCount \in Nat /\ trCount' = trCount + OneIf(sdValid[2])
  BY ReceiveFacts
<1>2. \A b : OneIf(b) \in {0, 1}
  BY DEF OneIf
<1>3. sdValid'[1] = ~rfEmpty /\ sdValid'[2] = sdValid[1] /\ rfEmpty' = ~sdPushing
  BY ReadStep, BufferStep
<1>4. sdPushing \in BOOLEAN
  BY DEF SdInv, SdFlags
<1>5. trCount' = Sent
  BY <1>1 DEF Sent
<1>6. Sent' = Shown
  <2>1. Sent' = trCount' + OneIf(sdValid'[2])
    BY DEF Sent, OneIf
  <2> QED BY <1>3, <1>5, <2>1 DEF Shown
<1>7. Shown' = Buffered
  <2>1. Shown' = Sent' + OneIf(sdValid'[1])
    BY DEF Shown, OneIf
  <2> QED BY <1>3, <1>6, <2>1 DEF Buffered
<1>8. Buffered' = Delivered
  <2>1. Buffered' = Shown' + OneIf(~rfEmpty')
    BY DEF Buffered, OneIf
  <2>2. (~rfEmpty') = sdPushing
    BY <1>3, <1>4
  <2> QED BY <1>7, <2>1, <2>2 DEF Delivered
<1>9. Delivered' = Delivered + OneIf(sdPushing')
  <2>1. Delivered' = Buffered' + OneIf(sdPushing')
    BY DEF Delivered, OneIf
  <2> QED BY <1>8, <2>1
<1>10. Sent \in Nat /\ trCount <= Sent
  BY <1>1, <1>2 DEF Sent
<1>11. Shown \in Nat /\ Sent <= Shown
  BY <1>2, <1>10 DEF Shown
<1>12. Buffered \in Nat /\ Shown <= Buffered
  BY <1>2, <1>11 DEF Buffered
<1>13. Delivered \in Nat /\ Buffered <= Delivered
  BY <1>2, <1>12 DEF Delivered
<1>14. trCount <= Delivered
  BY <1>1, <1>10, <1>11, <1>12, <1>13
<1> QED BY <1>1, <1>5, <1>6, <1>7, <1>8, <1>9, <1>10, <1>11, <1>12, <1>13, <1>14

\* The end of a read: the controller rests.
LEMMA ReceiveLast ==
    ASSUME NoDistance, SdInv, TrNext, trPhase = "receive", sdEnd
    PROVE  SdWork'
<1>1. SdTurn /\ SdReceiving /\ SdCells
  BY DEF SdInv
<1>2. ~sdBegun /\ sdState = "IDLE" /\ ~sdReadPending
  <2>1. sdState \in RestStates
    BY <1>1 DEF SdReceiving
  <2>2. ~sdBegun
    BY <1>1 DEF SdReceiving, NoReading
  <2> QED BY <1>1, <2>1, <2>2 DEF SdReceiving
<1>3. ~sdDataValid /\ ~sdPushing /\ rfEmpty /\ ~sdValid[1] /\ ~sdValid[2] /\ ~sdEndPending
  BY <1>1, <1>2 DEF SdReceiving, RestStates
<1>4. sdState' \in RestStates
  BY <1>2, ReceiveStates
<1>5. NoReading'
  <2>1. ~sdReadPending' /\ ~sdDataValid'
    BY <1>2, ReceiveFacts
  <2>2. ~sdPushing' /\ ~sdValid'[1] /\ ~sdValid'[2]
    BY <1>3, <2>1, ReadStep
  <2>3. ~sdEndPending' /\ ~sdEnd' /\ rfEmpty'
    BY <1>3, <1>4, TransactionStep, BufferStep DEF RestStates
  <2> QED BY <2>1, <2>2, <2>3 DEF NoReading
<1>6. trPhase' = "idle" /\ NoWriting' /\ ~sdBegun' /\ ~sdActive'
  BY ReceiveFacts
<1>7. SdTurn' /\ SdCells'
  BY <1>1, <1>6, StartBusyStep, ReceiveFacts DEF SdTurn, SdCells
<1>8. SdBetween'
  BY <1>4, <1>5, <1>6 DEF SdBetween
<1> QED BY <1>6, <1>7, <1>8, BetweenWork

\* The flags, from state to state.
LEMMA ReceiveFlags ==
    ASSUME NoDistance, SdInv, TrNext, trPhase = "receive", ~sdEnd
    PROVE  SdReceiving'
<1>1. SdReceiving /\ SdFlags
  BY DEF SdInv
<1>2. trPhase' = "receive" /\ NoWriting' /\ ~sdBegun' /\ (RequiresTwoBursts' <=> RequiresTwoBursts)
      /\ (FirstPart <=> RequiresTwoBursts /\ sdReadPending) /\ sdShort \in Nat
  BY ReceiveFacts, PartFacts
<1>3. /\ sdDataValid' <=> sdState = "DO_READ" /\ sdShort # 0
      /\ sdState # "INIT_READ_BURST2" =>
            sdShort' = IF sdDataValid /\ sdShort # 0 THEN sdShort - 1 ELSE sdShort
      /\ sdReadPending' <=> /\ sdState' # "SECOND_BURST"
                            /\ ~(sdState' = "INIT_READ_WRITE" /\ ~RequiresTwoBursts)
                            /\ sdReadPending \/ sdBegun
  BY ReceiveFacts
<1>4. /\ sdEnd' <=> sdEndPending /\ rfEmpty /\ ~sdValid[1]
      /\ sdEndPending' <=> ~sdEnd' /\ (sdEndPending \/ sdState' = "END_READ_TRANSACTION")
      /\ sdEnd' \in BOOLEAN /\ sdEndPending' \in BOOLEAN
  BY TransactionStep
<1>5. /\ sdValid'[1] = ~rfEmpty /\ sdValid'[2] = sdValid[1] /\ rfEmpty' = ~sdPushing
      /\ sdPushing' <=> sdDataValid' /\ sdShort' % 2 # 1
      /\ sdPushing' \in BOOLEAN /\ sdReadPending' \in BOOLEAN
  BY ReadStep, BufferStep
<1>6. /\ sdValid[1] \in BOOLEAN /\ rfEmpty \in BOOLEAN /\ sdPushing \in BOOLEAN
      /\ sdReadPending \in BOOLEAN /\ sdEndPending \in BOOLEAN
  BY <1>1 DEF SdFlags
<1> DEFINE Calm == ~sdDataValid /\ ~sdPushing /\ rfEmpty /\ ~sdValid[1] /\ ~sdValid[2] /\ ~sdEndPending
<1>7. Calm /\ sdState # "DO_READ" /\ sdState' # "END_READ_TRANSACTION" => Calm' /\ ~sdEnd'
  BY <1>3, <1>4, <1>5
<1> HIDE DEF Calm
<1>8. SdReceiving' <=>
        /\ sdState' \in RestStates \cup ReadStates
        /\ sdState' \in RestStates =>
               /\ ~sdDataValid' /\ ~sdPushing' /\ rfEmpty' /\ ~sdValid'[1] /\ ~sdValid'[2] /\ ~sdEndPending'
               /\ sdEnd' = (~sdReadPending') /\ (sdEnd' => sdState' = "IDLE")
        /\ sdState' \in OpeningStates =>
               ~sdDataValid' /\ ~sdPushing' /\ rfEmpty' /\ ~sdValid'[1] /\ ~sdValid'[2] /\ ~sdEndPending' /\ ~sdEnd'
        /\ sdState' \notin RestStates => ~sdEnd' /\ (sdReadPending' => RequiresTwoBursts)
        /\ sdState' = "DO_READ" =>
               /\ ~sdEndPending'
               /\ ~sdDataValid' => ~sdPushing' /\ rfEmpty' /\ ~sdValid'[1] /\ ~sdValid'[2]
               /\ sdDataValid' => IF sdShort' % 2 = 1 THEN ~sdPushing' /\ ~sdValid'[1]
                                 ELSE sdPushing' /\ rfEmpty' /\ ~sdValid'[2]
        /\ sdState' = "END_READ_TRANSACTION" =>
               ~sdReadPending' /\ sdEndPending' /\ ~sdDataValid' /\ ~sdPushing' /\ ~rfEmpty' /\ ~sdValid'[1]
        /\ sdState' = "WRITE_PRECHARGE" =>
               /\ ~sdDataValid' /\ ~sdPushing' /\ sdEndPending' = (~sdReadPending')
               /\ IF sdEndPending' THEN rfEmpty' /\ sdValid'[1] /\ ~sdValid'[2] ELSE ~rfEmpty' /\ ~sdValid'[1]
        /\ sdState' = "WAIT_WRITE_PRECHARGE" =>
               /\ ~sdDataValid' /\ ~sdPushing' /\ sdEndPending' = (~sdReadPending') /\ rfEmpty'
               /\ sdValid'[1] = (~sdEndPending') /\ sdValid'[2] = sdEndPending'
        /\ sdState' = "SECOND_BURST" =>
               /\ ~sdDataValid' /\ ~sdPushing' /\ ~sdEndPending' /\ rfEmpty'
               /\ ~sdValid'[1] /\ sdValid'[2] /\ ~sdReadPending' /\ RequiresTwoBursts
  BY <1>2 DEF SdReceiving
<1>9. CASE sdState \in RestStates
  <2>1. Calm /\ (sdReadPending \/ sdBegun)
    <3>1. sdBegun => NoReading
      BY <1>1 DEF SdReceiving
    <3>2. ~sdBegun => Calm /\ sdEnd = ~sdReadPending
      BY <1>1, <1>9 DEF SdReceiving, Calm
    <3> QED BY <3>1, <3>2 DEF NoReading, Calm
  <2>2. sdState' \in RestStates \cup {"INIT_READ_WRITE"} /\ sdState # "DO_READ"
    BY <1>9, ReceiveStates DEF RestStates
  <2>3. Calm' /\ ~sdEnd'
    BY <1>7, <2>1, <2>2 DEF RestStates
  <2>4. sdReadPending' <=> sdState' # "INIT_READ_WRITE" \/ RequiresTwoBursts
    BY <1>3, <2>1, <2>2 DEF RestStates
  <2>5. CASE sdState' \in RestStates
    <3>1. sdReadPending' /\ ~sdEnd'
      BY <2>3, <2>4, <2>5 DEF RestStates
    <3>2. sdEnd' = ~sdReadPending'
      BY <1>4, <1>5, <3>1
    <3> QED BY <1>8, <2>3, <2>5, <3>2 DEF Calm, RestStates, OpeningStates, RowStates, LatencyStates
  <2>6. CASE sdState' = "INIT_READ_WRITE"
    BY <1>8, <2>3, <2>4, <2>6 DEF Calm, RestStates, ReadStates, OpeningStates, RowStates
  <2> QED BY <2>2, <2>5, <2>6
<1>10. CASE sdState \in OpeningStates
  <2>1. Calm /\ ~sdBegun /\ (sdReadPending => RequiresTwoBursts) /\ sdState # "DO_READ"
    <3>1. sdState \notin RestStates
      BY <1>10 DEF OpeningStates, RowStates, LatencyStates, RestStates
    <3>2. sdState # "DO_READ"
      BY <1>10 DEF OpeningStates, RowStates, LatencyStates
    <3> QED BY <1>1, <1>10, <3>1, <3>2, StateBelongs DEF SdReceiving, Calm
  <2>2. sdState' \in {"INIT_READ_BURST1", "WAIT_READ_BURST1", "INIT_READ_BURST2", "DO_READ"} \cup LatencyStates
    BY <1>10, ReceiveStates DEF Along, OpeningStates, RowStates, LatencyStates
  <2>3. Calm' /\ ~sdEnd'
    BY <1>7, <2>1, <2>2 DEF LatencyStates
  <2>4. sdReadPending' <=> sdReadPending
    BY <1>3, <2>1, <2>2 DEF LatencyStates
  <2>5. ~sdDataValid'
    BY <2>3 DEF Calm
  <2> QED BY <1>8, <2>1, <2>2, <2>3, <2>4, <2>5
      DEF Calm, ReadStates, OpeningStates, RowStates, LatencyStates, RestStates
<1>11. CASE sdState = "DO_READ"
  <2>1. ~sdBegun /\ ~sdEndPending /\ (sdReadPending => RequiresTwoBursts)
    BY <1>1, <1>11, StateBelongs DEF SdReceiving, RestStates
  <2>2. sdState' = IF sdShort # 0 THEN "DO_READ"
                   ELSE IF FirstPart THEN "WRITE_PRECHARGE" ELSE "END_READ_TRANSACTION"
    BY <1>11, ReceiveStates DEF Along
  <2>3. (sdReadPending' <=> sdReadPending) /\ ~sdEnd'
    BY <1>3, <1>4, <2>1, <2>2
  <2>4. CASE sdShort # 0
    <3>1. sdState' = "DO_READ" /\ sdDataValid' /\ ~sdEndPending' /\ (sdPushing' <=> sdShort' % 2 # 1)
          /\ sdShort' = IF sdDataValid THEN sdShort - 1 ELSE sdShort
      BY <1>3, <1>4, <1>5, <1>11, <2>1, <2>2, <2>4
    <3>2. IF sdShort' % 2 = 1 THEN ~sdPushing' /\ ~sdValid'[1]
          ELSE sdPushing' /\ rfEmpty' /\ ~sdValid'[2]
      <4>1. CASE ~sdDataValid
        <5>1. ~sdPushing /\ rfEmpty /\ ~sdValid[1]
          BY <1>1, <1>11, <4>1 DEF SdReceiving
        <5> QED BY <1>5, <3>1, <5>1
      <4>2. CASE sdDataValid /\ sdShort % 2 = 1
        <5>1. ~sdPushing /\ ~sdValid[1] /\ sdShort' = sdShort - 1
          BY <1>1, <1>11, <3>1, <4>2 DEF SdReceiving
        <5>2. sdShort' % 2 # 1
          BY <1>2, <4>2, <5>1
        <5> QED BY <1>5, <3>1, <5>1, <5>2
      <4>3. CASE sdDataValid /\ sdShort % 2 # 1
        <5>1. rfEmpty /\ sdShort' = sdShort - 1
          BY <1>1, <1>11, <3>1, <4>3 DEF SdReceiving
        <5>2. sdShort' % 2 = 1
          BY <1>2, <2>4, <4>3, <5>1
        <5> QED BY <1>5, <3>1, <5>1, <5>2
      <4> QED BY <4>1, <4>2, <4>3
    <3> QED BY <1>8, <2>1, <2>3, <3>1, <3>2 DEF ReadStates, OpeningStates, RowStates, LatencyStates, RestStates
  <2>5. CASE sdShort = 0
    <3>1. sdDataValid /\ sdPushing /\ rfEmpty
      <4>1. sdShort % 2 # 1
        BY <2>5
      <4>2. sdDataValid
        <5>1. ~(sdShort = 2 * (PartEnd - Delivered) - 1)
          BY <2>5, PartFacts, PipelineStep
        <5> QED BY <1>11, <2>1, <5>1 DEF SdInv, SdReceivingCount
      <4> QED BY <1>1, <1>11, <4>1, <4>2 DEF SdReceiving
    <3>2. ~sdDataValid' /\ ~sdPushing' /\ ~rfEmpty' /\ ~sdValid'[1]
      BY <1>3, <1>5, <1>6, <2>5, <3>1
    <3>3. CASE FirstPart
      <4>1. sdState' = "WRITE_PRECHARGE" /\ sdReadPending' /\ ~sdEndPending'
        BY <1>2, <1>4, <2>1, <2>2, <2>3, <2>5, <3>3
      <4>2. sdEndPending' = ~sdReadPending'
        BY <1>4, <1>5, <4>1
      <4> QED BY <1>8, <2>1, <2>3, <3>2, <4>1, <4>2
          DEF ReadStates, OpeningStates, CloseStates, RowStates, LatencyStates, RestStates
    <3>4. CASE ~FirstPart
      <4>1. sdState' = "END_READ_TRANSACTION" /\ ~sdReadPending' /\ sdEndPending'
        BY <1>2, <1>4, <2>1, <2>2, <2>3, <2>5, <3>4
      <4> QED BY <1>8, <2>3, <3>2, <4>1
          DEF ReadStates, OpeningStates, CloseStates, RowStates, LatencyStates, RestStates
    <3> QED BY <3>3, <3>4
  <2> QED BY <2>4, <2>5
<1>12. CASE sdState = "END_READ_TRANSACTION"
  <2>1. ~sdReadPending /\ sdEndPending /\ ~sdDataValid /\ ~sdPushing /\ ~rfEmpty /\ ~sdValid[1] /\ ~sdBegun
    BY <1>1, <1>12, StateBelongs DEF SdReceiving, RestStates
  <2>2. sdState' = "WRITE_PRECHARGE"
    BY <1>12, ReceiveStates DEF Along
  <2>3. ~sdReadPending' /\ sdEndPending' /\ ~sdEnd' /\ ~sdDataValid' /\ ~sdPushing'
        /\ rfEmpty' /\ sdValid'[1] /\ ~sdValid'[2]
    BY <1>3, <1>4, <1>5, <1>12, <2>1, <2>2
  <2>4. sdEndPending' = ~sdReadPending'
    BY <1>4, <1>5, <2>3
  <2> QED BY <1>8, <2>2, <2>3, <2>4 DEF ReadStates, OpeningStates, CloseStates, RowStates, LatencyStates, RestStates
<1>13. CASE sdState = "WRITE_PRECHARGE"
  <2>1. /\ ~sdDataValid /\ ~sdPushing /\ sdEndPending = ~sdReadPending /\ ~sdBegun
        /\ IF sdEndPending THEN rfEmpty /\ sdValid[1] /\ ~sdValid[2] ELSE ~rfEmpty /\ ~sdValid[1]
        /\ sdReadPending => RequiresTwoBursts
    BY <1>1, <1>13, StateBelongs DEF SdReceiving, RestStates
  <2>2. sdState' = "WAIT_WRITE_PRECHARGE"
    BY <1>13, ReceiveStates DEF Along
  <2>3. (sdReadPending' <=> sdReadPending) /\ ~sdEnd' /\ (sdEndPending' <=> sdEndPending)
        /\ ~sdDataValid' /\ ~sdPushing' /\ rfEmpty' /\ (sdValid'[1] <=> ~sdEndPending) /\ (sdValid'[2] <=> sdEndPending)
    BY <1>3, <1>4, <1>5, <1>13, <2>1, <2>2
  <2>4. sdEndPending' = ~sdReadPending'
    BY <1>4, <1>5, <2>1, <2>3
  <2>5. sdValid'[1] = (~sdEndPending') /\ sdValid'[2] = sdEndPending'
    BY <1>4, <1>5, <1>6, <2>3
  <2> QED BY <1>8, <2>1, <2>2, <2>3, <2>4, <2>5
      DEF ReadStates, OpeningStates, CloseStates, RowStates, LatencyStates, RestStates
<1>14. CASE sdState = "WAIT_WRITE_PRECHARGE"
  <2>1. /\ ~sdDataValid /\ ~sdPushing /\ sdEndPending = ~sdReadPending /\ rfEmpty /\ ~sdBegun
        /\ sdValid[1] = ~sdEndPending /\ sdValid[2] = sdEndPending
        /\ sdReadPending => RequiresTwoBursts
    BY <1>1, <1>14, StateBelongs DEF SdReceiving, RestStates
  <2>2. sdState' = IF FirstPart THEN "SECOND_BURST" ELSE "IDLE"
    BY <1>14, ReceiveStates DEF Along
  <2>3. FirstPart <=> sdReadPending
    BY <1>2, <2>1
  <2>4. ~sdReadPending' /\ (sdEnd' <=> ~FirstPart) /\ ~sdEndPending' /\ ~sdDataValid' /\ ~sdPushing' /\ rfEmpty'
        /\ ~sdValid'[1] /\ (sdValid'[2] <=> FirstPart)
    BY <1>3, <1>4, <1>5, <1>14, <2>1, <2>2, <2>3
  <2>5. ~FirstPart => sdEnd' = ~sdReadPending'
    BY <1>4, <1>5, <2>4
  <2>6. CASE FirstPart
    BY <1>2, <1>8, <2>2, <2>4, <2>6
       DEF ReadStates, OpeningStates, CloseStates, RowStates, LatencyStates, RestStates
  <2>7. CASE ~FirstPart
    BY <1>8, <2>2, <2>4, <2>5, <2>7
       DEF ReadStates, OpeningStates, CloseStates, RowStates, LatencyStates, RestStates
  <2> QED BY <2>6, <2>7
<1>15. CASE sdState = "SECOND_BURST"
  <2>1. /\ ~sdDataValid /\ ~sdPushing /\ ~sdEndPending /\ rfEmpty /\ ~sdBegun
        /\ ~sdValid[1] /\ ~sdReadPending /\ RequiresTwoBursts
    BY <1>1, <1>15, StateBelongs DEF SdReceiving, RestStates
  <2>2. sdState' = "INIT_READ_WRITE"
    BY <1>15, ReceiveStates DEF Along
  <2>3. ~sdReadPending' /\ ~sdEnd' /\ ~sdEndPending' /\ ~sdDataValid' /\ ~sdPushing' /\ rfEmpty'
        /\ ~sdValid'[1] /\ ~sdValid'[2]
    BY <1>3, <1>4, <1>5, <1>15, <2>1, <2>2
  <2> QED BY <1>8, <2>2, <2>3 DEF ReadStates, OpeningStates, CloseStates, RowStates, LatencyStates, RestStates
<1> QED BY <1>9, <1>10, <1>11, <1>12, <1>13, <1>14, <1>15, ReceiveStates DEF ReadStates, CloseStates

\* Without words on their way a clock delivers none.
LEMMA NothingDelivered ==
    ASSUME NoDistance, SdInv, TrNext, trPhase = "receive",
           ~sdPushing, rfEmpty, ~sdValid[1], ~sdValid[2], sdState # "DO_READ"
    PROVE  Delivered = trCount /\ trCount' = trCount /\ Delivered' = Delivered /\ ~sdPushing'
<1>1. trCount \in Nat
  BY PipelineStep
<1>2. Delivered = trCount /\ Sent = trCount
  BY <1>1 DEF Delivered, Buffered, Shown, Sent, OneIf
<1>3. ~sdPushing'
  BY ReceiveFacts, ReadStep
<1>4. OneIf(sdPushing') = 0
  BY <1>3 DEF OneIf
<1> QED BY <1>1, <1>2, <1>3, <1>4, PipelineStep

\* The half words that are still to come, and the words that have come.
LEMMA ReceiveCount ==
    ASSUME NoDistance, SdInv, TrNext, trPhase = "receive", ~sdEnd
    PROVE  SdReceivingCount'
<1>1. SdReceiving /\ SdFlags /\ (~sdBegun => SdReceivingCount) /\ SdTurn
  BY DEF SdInv
<1>2. PICK w \in Nat : w = trOp.words
  BY PartFacts
<1>3. PICK l \in Nat : l = WordsLeft
  BY PartFacts, SdramAssumption
<1>4. PICK d \in Nat : d = Delivered
  BY PipelineStep
<1>5. PICK e \in Nat : e = PartEnd
  BY PartFacts
<1>6. PICK s \in Nat : s = sdShort
  BY ReceiveFacts
<1>7. /\ trPhase' = "receive" /\ trOp' = trOp /\ WordsLeft' = l /\ e <= w /\ 1 <= l
      /\ (RequiresTwoBursts' <=> RequiresTwoBursts) /\ (RequiresTwoBursts <=> w > l)
      /\ e = (IF RequiresTwoBursts /\ sdReadPending THEN l ELSE w)
      /\ sdOp' = sdOp /\ sdOp = trOp /\ ~sdBegun'
  BY <1>2, <1>3, <1>5, ReceiveFacts, PartFacts
<1>8. PartEnd' = IF RequiresTwoBursts /\ sdReadPending' THEN l ELSE w
  BY <1>2, <1>7 DEF PartEnd, FirstPart
<1>9. Delivered' = d + OneIf(sdPushing')
  BY <1>4, PipelineStep
<1>10. /\ sdDataValid' <=> sdState = "DO_READ" /\ s # 0
       /\ sdState # "INIT_READ_BURST2" => sdShort' = IF sdDataValid /\ s # 0 THEN s - 1 ELSE s
       /\ sdReadPending' <=> /\ sdState' # "SECOND_BURST"
                             /\ ~(sdState' = "INIT_READ_WRITE" /\ ~RequiresTwoBursts)
                             /\ sdReadPending \/ sdBegun
       /\ sdPushing' <=> sdDataValid' /\ sdShort' % 2 # 1
  BY <1>6, ReceiveFacts, ReadStep
<1> DEFINE Counted(i, dv, rd, st, sh, c, pe) ==
        /\ i <= w
        /\ st \in RestStates \cup OpeningStates =>
              c = IF rd \/ (st \notin RestStates /\ ~RequiresTwoBursts) THEN 0
                  ELSE IF st \in RestStates THEN w ELSE l
        /\ st = "DO_READ" => IF dv /\ sh % 2 = 0 THEN sh = 2 * (pe - i) ELSE sh = 2 * (pe - i) - 1
        /\ st \in LatencyStates => sh = 2 * (pe - i) - 1
        /\ st \in CloseStates \cup {"END_READ_TRANSACTION"} => i = pe
        /\ st = "SECOND_BURST" => i = l
<1>11. ~sdBegun => Counted(d, sdDataValid, sdReadPending, sdState, s, trCount, e)
  BY <1>1, <1>2, <1>3, <1>4, <1>5, <1>6 DEF SdReceivingCount
<1>12. Counted(Delivered', sdDataValid', sdReadPending', sdState', sdShort', trCount', PartEnd')
         => SdReceivingCount'
  BY <1>2, <1>7 DEF SdReceivingCount
<1> USE DEF RestStates, OpeningStates, RowStates, LatencyStates, CloseStates
<1>13. CASE sdState \in RestStates
  <2>1. ~sdPushing /\ rfEmpty /\ ~sdValid[1] /\ ~sdValid[2] /\ (sdReadPending \/ sdBegun) /\ sdState # "DO_READ"
    <3>1. sdBegun => NoReading
      BY <1>1 DEF SdReceiving
    <3>2. ~sdBegun => ~sdPushing /\ rfEmpty /\ ~sdValid[1] /\ ~sdValid[2] /\ sdEnd = ~sdReadPending
      BY <1>1, <1>13 DEF SdReceiving
    <3> QED BY <1>13, <3>1, <3>2 DEF NoReading
  <2>2. Delivered = trCount /\ trCount' = trCount /\ Delivered' = Delivered
    BY <2>1, NothingDelivered
  <2>3. trCount = 0
    <3>1. sdBegun => trCount = 0
      BY <1>1 DEF SdTurn
    <3>2. ~sdBegun => trCount = 0
      BY <1>11, <1>13, <2>1
    <3> QED BY <3>1, <3>2
  <2>4. sdState' \in RestStates \cup {"INIT_READ_WRITE"}
    BY <1>13, ReceiveStates
  <2>5. sdReadPending' <=> sdState' # "INIT_READ_WRITE" \/ RequiresTwoBursts
    BY <1>10, <2>1, <2>4
  <2>6. Counted(Delivered', sdDataValid', sdReadPending', sdState', sdShort', trCount', PartEnd')
    BY <2>2, <2>3, <2>4, <2>5
  <2> QED BY <1>12, <2>6
<1>14. CASE sdState \in OpeningStates
  <2>1. ~sdPushing /\ rfEmpty /\ ~sdValid[1] /\ ~sdValid[2] /\ sdState # "DO_READ" /\ ~sdBegun
        /\ ~sdDataValid
    BY <1>1, <1>14, StateBelongs DEF SdReceiving
  <2>2. Delivered = trCount /\ trCount' = trCount /\ Delivered' = d /\ trCount = d
    BY <1>4, <2>1, NothingDelivered
  <2>3. sdState' \in {"INIT_READ_BURST1", "WAIT_READ_BURST1", "INIT_READ_BURST2", "DO_READ"} \cup LatencyStates
    BY <1>14, ReceiveStates DEF Along
  <2>4. (sdReadPending' <=> sdReadPending) /\ ~sdDataValid'
    BY <1>10, <2>1, <2>3
  <2>5. PartEnd' = e
    BY <1>7, <1>8, <2>4
  <2>6. d = IF sdReadPending \/ ~RequiresTwoBursts THEN 0 ELSE l
    BY <1>11, <1>14, <2>1, <2>2
  <2>7. d <= e /\ e <= w
    BY <1>7, <2>6
  <2>8. CASE sdState \in OpeningStates \ (LatencyStates \cup {"INIT_READ_BURST2"})
    <3>1. sdState' \in {"INIT_READ_BURST1", "WAIT_READ_BURST1", "INIT_READ_BURST2"}
      BY <2>8, ReceiveStates DEF Along
    <3>2. Counted(Delivered', sdDataValid', sdReadPending', sdState', sdShort', trCount', PartEnd')
      BY <2>2, <2>4, <2>6, <2>7, <3>1
    <3> QED BY <1>12, <3>2
  <2>9. CASE sdState = "INIT_READ_BURST2"
    <3>1. sdShort' = 1 + 2 * (IF ~RequiresTwoBursts THEN w - 1
                              ELSE IF sdReadPending THEN l - 1 ELSE w - l - 1)
      <4>1. SdShorts
        BY ClockParts DEF MidClock
      <4> QED BY <1>2, <1>3, <1>7, <2>9, <4>1 DEF SdShorts
    <3>2. sdShort' = 2 * (e - d) - 1
      <4>1. CASE ~RequiresTwoBursts
        BY <1>7, <2>6, <3>1, <4>1
      <4>2. CASE RequiresTwoBursts /\ sdReadPending
        BY <1>7, <2>6, <3>1, <4>2
      <4>3. CASE RequiresTwoBursts /\ ~sdReadPending
        BY <1>7, <2>6, <3>1, <4>3
      <4> QED BY <4>1, <4>2, <4>3
    <3>3. sdState' = "WAIT_READ_BURST2"
      BY <2>9, ReceiveStates DEF Along
    <3>4. Counted(Delivered', sdDataValid', sdReadPending', sdState', sdShort', trCount', PartEnd')
      BY <2>2, <2>4, <2>5, <2>6, <2>7, <3>2, <3>3
    <3> QED BY <1>12, <3>4
  <2>10. CASE sdState \in LatencyStates
    <3>1. sdState' \in {"DO_READ"} \cup LatencyStates
      BY <2>10, ReceiveStates DEF Along
    <3>2. sdShort' = s
      BY <1>10, <2>1, <2>10
    <3>3. s = 2 * (e - d) - 1
      BY <1>11, <2>1, <2>10
    <3>4. Counted(Delivered', sdDataValid', sdReadPending', sdState', sdShort', trCount', PartEnd')
      BY <2>2, <2>4, <2>5, <2>6, <2>7, <3>1, <3>2, <3>3
    <3> QED BY <1>12, <3>4
  <2> QED BY <1>14, <2>8, <2>9, <2>10
<1>15. CASE sdState = "DO_READ"
  <2>1. ~sdBegun
    BY <1>15, StateBelongs
  <2>2. sdState' = IF s # 0 THEN "DO_READ" ELSE IF FirstPart THEN "WRITE_PRECHARGE" ELSE "END_READ_TRANSACTION"
    BY <1>6, <1>15, ReceiveStates DEF Along
  <2>3. (sdReadPending' <=> sdReadPending) /\ PartEnd' = e
    <3>1. sdReadPending' <=> sdReadPending
      BY <1>10, <2>1, <2>2
    <3> QED BY <1>7, <1>8, <3>1
  <2>4. d <= w /\ IF sdDataValid /\ s % 2 = 0 THEN s = 2 * (e - d) ELSE s = 2 * (e - d) - 1
    BY <1>11, <1>15, <2>1
  <2>5. CASE s # 0
    <3>1. sdState' = "DO_READ" /\ sdDataValid' /\ sdShort' = IF sdDataValid THEN s - 1 ELSE s
      BY <1>10, <1>15, <2>2, <2>5
    <3>2. CASE ~sdDataValid
      <4>1. sdShort' = s /\ s = 2 * (e - d) - 1
        BY <2>4, <3>1, <3>2
      <4>2. s % 2 = 1
        BY <1>4, <1>5, <1>6, <4>1
      <4>3. Delivered' = d
        BY <1>9, <1>10, <4>1, <4>2 DEF OneIf
      <4>4. Counted(Delivered', sdDataValid', sdReadPending', sdState', sdShort', trCount', PartEnd')
        BY <2>3, <2>4, <3>1, <4>1, <4>2, <4>3
      <4> QED BY <1>12, <4>4
    <3>3. CASE sdDataValid /\ s % 2 # 0
      <4>1. sdShort' = s - 1 /\ s = 2 * (e - d) - 1
        BY <2>4, <3>1, <3>3
      <4>2. (s - 1) % 2 = 0
        BY <1>6, <2>5, <3>3
      <4>3. Delivered' = d + 1
        BY <1>9, <1>10, <3>1, <4>1, <4>2 DEF OneIf
      <4>4. d + 1 <= w /\ s - 1 = 2 * (e - (d + 1))
        BY <1>7, <2>5, <4>1
      <4>5. Counted(Delivered', sdDataValid', sdReadPending', sdState', sdShort', trCount', PartEnd')
        BY <2>3, <3>1, <4>1, <4>2, <4>3, <4>4
      <4> QED BY <1>12, <4>5
    <3>4. CASE sdDataValid /\ s % 2 = 0
      <4>1. sdShort' = s - 1 /\ s = 2 * (e - d)
        BY <2>4, <3>1, <3>4
      <4>2. (s - 1) % 2 = 1
        BY <1>6, <2>5, <3>4
      <4>3. Delivered' = d
        BY <1>9, <1>10, <4>1, <4>2 DEF OneIf
      <4>4. Counted(Delivered', sdDataValid', sdReadPending', sdState', sdShort', trCount', PartEnd')
        BY <2>3, <2>4, <3>1, <4>1, <4>2, <4>3
      <4> QED BY <1>12, <4>4
    <3> QED BY <3>2, <3>3, <3>4
  <2>6. CASE s = 0
    <3>1. e = d
      BY <2>4, <2>6
    <3>2. ~sdPushing'
      BY <1>10, <2>6
    <3>3. Delivered' = d
      BY <1>9, <3>2 DEF OneIf
    <3>4. sdState' \in {"WRITE_PRECHARGE", "END_READ_TRANSACTION"}
      BY <2>2, <2>6
    <3>5. Counted(Delivered', sdDataValid', sdReadPending', sdState', sdShort', trCount', PartEnd')
      BY <2>3, <2>4, <3>1, <3>3, <3>4
    <3> QED BY <1>12, <3>5
  <2> QED BY <2>5, <2>6
<1>16. CASE sdState \in CloseStates \cup {"END_READ_TRANSACTION", "SECOND_BURST"}
  <2>1. ~sdBegun /\ ~sdPushing' /\ Delivered' = d /\ d <= w
    <3>1. ~sdBegun
      BY <1>16, StateBelongs
    <3>2. ~sdPushing'
      BY <1>10, <1>16
    <3> QED BY <1>9, <1>11, <3>1, <3>2 DEF OneIf
  <2>2. CASE sdState \in {"END_READ_TRANSACTION", "WRITE_PRECHARGE"}
    <3>1. sdState' \in CloseStates
      BY <2>2, ReceiveStates DEF Along
    <3>2. (sdReadPending' <=> sdReadPending) /\ PartEnd' = e
      <4>1. sdReadPending' <=> sdReadPending
        BY <1>10, <2>1, <3>1
      <4> QED BY <1>7, <1>8, <4>1
    <3>3. d = e
      BY <1>11, <2>1, <2>2
    <3>4. Counted(Delivered', sdDataValid', sdReadPending', sdState', sdShort', trCount', PartEnd')
      BY <2>1, <3>1, <3>2, <3>3
    <3> QED BY <1>12, <3>4
  <2>3. CASE sdState = "WAIT_WRITE_PRECHARGE"
    <3>1. /\ ~sdPushing /\ rfEmpty /\ sdValid[1] = ~sdEndPending /\ sdValid[2] = sdEndPending
          /\ sdEndPending = ~sdReadPending /\ (sdReadPending => RequiresTwoBursts)
      BY <1>1, <2>3 DEF SdReceiving
    <3>2. d = e
      BY <1>11, <2>1, <2>3
    <3>3. sdState' = IF sdReadPending THEN "SECOND_BURST" ELSE "IDLE"
      BY <2>3, <3>1, ReceiveStates DEF Along, FirstPart
    <3>4. CASE sdReadPending
      <4>1. d = l
        BY <1>7, <3>1, <3>2, <3>4
      <4>2. Counted(Delivered', sdDataValid', sdReadPending', sdState', sdShort', trCount', PartEnd')
        BY <2>1, <3>3, <3>4, <4>1
      <4> QED BY <1>12, <4>2
    <3>5. CASE ~sdReadPending
      <4>1. ~sdValid[1] /\ sdValid[2]
        BY <1>1, <3>1, <3>5 DEF SdFlags
      <4>2. trCount' = d
        <5>1. Delivered = Sent
          <6>1. Sent \in Nat
            BY PipelineStep
          <6> QED BY <3>1, <4>1, <6>1 DEF Delivered, Buffered, Shown, OneIf
        <5> QED BY <1>4, <5>1, PipelineStep
      <4>3. d = w /\ ~sdReadPending'
        BY <1>7, <1>10, <2>1, <3>2, <3>5
      <4>4. Counted(Delivered', sdDataValid', sdReadPending', sdState', sdShort', trCount', PartEnd')
        BY <2>1, <3>3, <3>5, <4>2, <4>3
      <4> QED BY <1>12, <4>4
    <3> QED BY <3>4, <3>5
  <2>4. CASE sdState = "SECOND_BURST"
    <3>1. ~sdPushing /\ rfEmpty /\ ~sdValid[1] /\ sdValid[2] /\ ~sdReadPending /\ RequiresTwoBursts
      BY <1>1, <2>4 DEF SdReceiving
    <3>2. trCount' = d
      <4>1. Delivered = Sent
        <5>1. Sent \in Nat
          BY PipelineStep
        <5> QED BY <3>1, <5>1 DEF Delivered, Buffered, Shown, OneIf
      <4> QED BY <1>4, <4>1, PipelineStep
    <3>3. d = l
      BY <1>11, <2>1, <2>4
    <3>4. sdState' = "INIT_READ_WRITE" /\ ~sdReadPending'
      BY <1>10, <2>1, <2>4, <3>1, ReceiveStates DEF Along
    <3>5. Counted(Delivered', sdDataValid', sdReadPending', sdState', sdShort', trCount', PartEnd')
      BY <2>1, <3>1, <3>2, <3>3, <3>4
    <3> QED BY <1>12, <3>5
  <2> QED BY <1>16, <2>2, <2>3, <2>4
<1> QED BY <1>13, <1>14, <1>15, <1>16, ReceiveStates DEF ReadStates

\* Before the end of a row the next half word is in the next column.
LEMMA ColumnStep ==
    ASSUME NoDistance, SdInv, TrNext, ~SdBegins, Counts, sdColumn # 2 * Columns - 1
    PROVE  sdColumn' = sdColumn + 1 /\ sdRow' = sdRow
<1>1. SdAddress
  BY ClockParts DEF MidClock
<1> QED BY <1>1 DEF SdAddress, Counts

\* The columns that a part of a read needs are in the row.
LEMMA PartFits ==
    ASSUME NoDistance, SdInv, TrNext, trPhase = "receive", sdState = "INIT_READ_BURST2"
    PROVE  sdColumn + sdShort' <= 2 * Columns - 1
<1>1. ~sdBegun /\ SdReceivingCount /\ SdReceivingPlace /\ SdReceiving
  BY StateBelongs DEF SdInv, RestStates
<1>2. ~sdPushing /\ rfEmpty /\ ~sdValid[1] /\ ~sdValid[2]
  BY <1>1 DEF SdReceiving, OpeningStates
<1>3. Delivered = trCount
  BY <1>2, NothingDelivered
<1>4. trCount = IF sdReadPending \/ ~RequiresTwoBursts THEN 0 ELSE WordsLeft
  BY <1>1 DEF SdReceivingCount, OpeningStates, RestStates
<1>5. PICK w \in Nat : w = trOp.words
  BY PartFacts
<1>6. PICK c \in Nat : c = Columns
  BY SdramAssumption
<1>7. PICK l \in 1 .. c : l = WordsLeft
  BY <1>6, PartFacts
<1>8. PICK a \in Nat : a = trOp.address
  BY PartFacts
<1>9. PICK n \in Nat : n = a + trCount
  BY <1>8, PipelineStep
<1>10. /\ w <= c + 1 /\ l = c - WordColumn(a) /\ (RequiresTwoBursts <=> w > l)
       /\ sdOp = trOp
  BY <1>5, <1>6, <1>7, <1>8, ReceiveFacts, PartFacts
<1>11. PICK k \in 0 .. c - 1 : k = WordColumn(n)
  BY <1>6, PlaceOfWord
<1>12. sdColumn = 2 * k
  <2>1. AtLower(n)
    BY <1>1, <1>3, <1>8, <1>9 DEF SdReceivingPlace
  <2> QED BY <1>11, <2>1 DEF AtLower
<1>13. sdShort' = 1 + 2 * (IF ~RequiresTwoBursts THEN w - 1
                           ELSE IF sdReadPending THEN l - 1 ELSE w - l - 1)
  <2>1. SdShorts
    BY ClockParts DEF MidClock
  <2> QED BY <1>5, <1>7, <1>10, <2>1 DEF SdShorts
<1>14. CASE ~RequiresTwoBursts
  <2>1. n = a
    BY <1>4, <1>8, <1>9, <1>14
  <2>2. k = c - l
    BY <1>6, <1>7, <1>10, <1>11, <2>1
  <2> QED BY <1>6, <1>10, <1>12, <1>13, <1>14, <2>2
<1>15. CASE RequiresTwoBursts /\ sdReadPending
  <2>1. n = a
    BY <1>4, <1>8, <1>9, <1>15
  <2>2. k = c - l
    BY <1>6, <1>7, <1>10, <1>11, <2>1
  <2> QED BY <1>6, <1>12, <1>13, <1>15, <2>2
<1>16. CASE RequiresTwoBursts /\ ~sdReadPending
  <2>1. n = a + l
    BY <1>4, <1>7, <1>9, <1>16
  <2>2. k = 0
    <3>1. PICK q \in Nat : q = a \div c
      BY <1>6, <1>8, SdramAssumption, DivMod
    <3>2. PICK r \in 0 .. c - 1 : r = a % c
      BY <1>6, <1>8, SdramAssumption, DivMod
    <3>3. a = q * c + r
      <4>1. a = (a \div c) * c + (a % c)
        BY <1>6, <1>8, SdramAssumption, DivMod
      <4> QED BY <3>1, <3>2, <4>1
    <3>4. r = c - l
      <4>1. WordColumn(a) = r
        BY <1>6, <3>2 DEF WordColumn
      <4> QED BY <1>6, <1>7, <1>10, <3>2, <4>1
    <3>5. n = (q + 1) * c + 0
      <4>1. (q + 1) * c = q * c + c /\ q * c \in Nat
        BY <1>6, <3>1
      <4> QED BY <1>6, <1>7, <2>1, <3>3, <3>4, <4>1
    <3>6. c \in Nat \ {0} /\ q + 1 \in Nat /\ 0 \in 0 .. c - 1
      BY <1>6, <3>1, SdramAssumption
    <3>7. n % c = 0
      BY <3>5, <3>6, RemainderOf
    <3> QED BY <1>6, <1>11, <3>7 DEF WordColumn
  <2> QED BY <1>6, <1>7, <1>10, <1>12, <1>13, <1>16, <2>2
<1> QED BY <1>14, <1>15, <1>16

LEMMA ReceivePlace ==
    ASSUME NoDistance, SdInv, TrNext, trPhase = "receive", ~sdEnd
    PROVE  SdReceivingPlace'
<1>1. SdReceiving /\ SdTurn /\ (~sdBegun => SdReceivingCount /\ SdReceivingPlace)
  BY DEF SdInv
<1>2. PICK a \in Nat : a = trOp.address
  BY PartFacts
<1>3. PICK d \in Nat : d = Delivered
  BY PipelineStep
<1>4. PICK s \in Nat : s = sdShort
  BY ReceiveFacts
<1>5. PICK n \in Nat : n = a + d
  OBVIOUS
<1>6. trOp' = trOp /\ sdOp = trOp /\ (SdBegins <=> sdBegun) /\ Delivered' = d + OneIf(sdPushing')
  BY <1>3, ReceiveFacts, PipelineStep
<1>7. /\ sdDataValid' <=> sdState = "DO_READ" /\ s # 0
      /\ sdState # "INIT_READ_BURST2" => sdShort' = IF sdDataValid /\ s # 0 THEN s - 1 ELSE s
      /\ sdPushing' <=> sdDataValid' /\ sdShort' % 2 # 1
  BY <1>4, ReceiveFacts, ReadStep
<1>8. sdState \notin {"WAIT_WRITE_LO", "WAIT_WRITE_HI"}
  BY StateBelongs DEF OnlyWrite
<1>9. Counts <=> sdDataValid
  BY <1>8 DEF Counts
<1> DEFINE Lower == trOp'.address + Delivered' = n /\ AtLower(n)'
           Upper == trOp'.address + Delivered' = n + 1 /\ AtUpper(n)'
           InRow == chipColumn' = sdColumn' /\ sdColumn' + sdShort' <= 2 * Columns - 1
           High == sdState' = "DO_READ" /\ sdDataValid' /\ sdShort' % 2 = 0
           Burst == sdState' \in LatencyStates \cup {"DO_READ"}
<1>10. ASSUME IF High THEN Upper ELSE Lower, Burst => InRow PROVE SdReceivingPlace'
  <2>1. CASE High
    <3>1. trOp'.address + Delivered' = n + 1 /\ sdRow' = WordRow(n) /\ sdColumn' = 2 * WordColumn(n) + 1
      BY <1>10, <2>1 DEF AtUpper
    <3>2. trOp'.address + Delivered' - 1 = n
      <4>1. PICK j \in Nat : j = Delivered'
        BY <1>6 DEF OneIf
      <4>2. a + j = n + 1
        BY <1>2, <1>6, <3>1, <4>1
      <4>3. a + j - 1 = n
        BY <4>2
      <4> QED BY <1>2, <1>6, <4>1, <4>3
    <3>3. AtUpper(trOp.address + Delivered - 1)'
      BY <3>1, <3>2 DEF AtUpper
    <3> QED BY <1>10, <2>1, <3>3 DEF SdReceivingPlace
  <2>2. CASE ~High
    <3>1. trOp'.address + Delivered' = n /\ sdRow' = WordRow(n) /\ sdColumn' = 2 * WordColumn(n)
      BY <1>10, <2>2 DEF AtLower
    <3>2. AtLower(trOp.address + Delivered)'
      BY <3>1 DEF AtLower
    <3> QED BY <1>10, <2>2, <3>2 DEF SdReceivingPlace
  <2> QED BY <2>1, <2>2
<1> HIDE DEF Lower, Upper, InRow, High, Burst
<1>11. CASE sdBegun
  <2>1. NoReading /\ trCount = 0 /\ sdState \in RestStates
    BY <1>1, <1>11 DEF SdReceiving, SdTurn
  <2>2. sdState # "DO_READ"
    BY <2>1 DEF RestStates
  <2>3. Delivered = trCount /\ Delivered' = Delivered
    BY <2>1, <2>2, NothingDelivered DEF NoReading
  <2>4. n = a
    BY <1>3, <1>5, <2>1, <2>3
  <2>5. AtLower(n)'
    BY <1>2, <1>6, <1>11, <2>4, AddressStep
  <2>6. sdState' \in RestStates
    BY <1>11, ReceiveStates
  <2>7. Lower /\ ~High /\ ~Burst
    BY <1>2, <1>3, <1>5, <1>6, <2>3, <2>5, <2>6 DEF Lower, High, Burst, RestStates, LatencyStates
  <2> QED BY <1>10, <2>7
<1>12. CASE ~sdBegun /\ ~sdDataValid
  <2>1. sdRow' = sdRow /\ sdColumn' = sdColumn
    BY <1>6, <1>9, <1>12, AddressStep
  <2>2. AtLower(n)
    <3>1. AtLower(trOp.address + Delivered)
      BY <1>1, <1>12 DEF SdReceivingPlace
    <3> QED BY <1>2, <1>3, <1>5, <3>1
  <2>3. sdState = "DO_READ" => s % 2 = 1 /\ sdShort' = s
    <3> SUFFICES ASSUME sdState = "DO_READ" PROVE s % 2 = 1 /\ sdShort' = s
      OBVIOUS
    <3>1. PICK e \in Nat : e = PartEnd
      BY PartFacts
    <3>2. s = 2 * (e - d) - 1
      BY <1>1, <1>3, <1>4, <1>12, <3>1 DEF SdReceivingCount
    <3> QED BY <1>3, <1>7, <1>12, <3>1, <3>2
  <2>4. ~sdPushing' /\ ~High
    BY <1>7, <2>3 DEF High
  <2>5. Lower
    <3>1. Delivered' = d
      BY <1>6, <2>4 DEF OneIf
    <3>2. AtLower(n)'
      BY <2>1, <2>2 DEF AtLower
    <3> QED BY <1>2, <1>5, <1>6, <3>1, <3>2 DEF Lower
  <2>6. Burst => InRow
    <3> SUFFICES ASSUME Burst PROVE InRow
      OBVIOUS
    <3>1. sdState \in LatencyStates \cup {"INIT_READ_BURST2", "DO_READ"}
      BY ReceiveStates DEF Along, Burst, LatencyStates, RestStates, ReadStates, OpeningStates, RowStates,
         CloseStates
    <3>2. CASE sdState = "INIT_READ_BURST2"
      BY <2>1, <3>2, PartFits, ChipStep DEF InRow
    <3>3. CASE sdState \in LatencyStates \cup {"DO_READ"}
      <4>1. chipColumn = sdColumn /\ sdColumn + sdShort <= 2 * Columns - 1
        BY <1>1, <1>12, <3>3 DEF SdReceivingPlace
      <4>2. sdShort' = sdShort /\ chipColumn' = chipColumn
        BY <1>4, <1>7, <1>12, <3>3, ChipStep DEF LatencyStates
      <4> QED BY <2>1, <4>1, <4>2 DEF InRow
    <3> QED BY <3>1, <3>2, <3>3
  <2> QED BY <1>10, <2>4, <2>5, <2>6
<1>13. CASE ~sdBegun /\ sdDataValid
  <2>1. sdState = "DO_READ"
    BY <1>13, StateBelongs
  <2>2. sdState' = IF s # 0 THEN "DO_READ" ELSE IF FirstPart THEN "WRITE_PRECHARGE" ELSE "END_READ_TRANSACTION"
    BY <1>4, <2>1, ReceiveStates DEF Along
  <2>3. Burst => InRow
    <3> SUFFICES ASSUME s # 0 PROVE InRow
      BY <2>2 DEF Burst, LatencyStates
    <3>1. PICK c \in Nat \ {0} : c = Columns
      BY SdramAssumption
    <3>2. PICK k \in Nat : k = sdColumn
      BY <3>1 DEF SdInv, SdShape
    <3>3. chipColumn = k /\ k + s <= 2 * c - 1
      BY <1>1, <1>4, <1>13, <2>1, <3>1, <3>2 DEF SdReceivingPlace
    <3>4. k # 2 * c - 1 /\ k + 1 <= 2 * c - 1
      BY <1>4, <3>1, <3>2, <3>3
    <3>5. sdColumn' = k + 1
      BY <1>6, <1>9, <1>13, <3>1, <3>2, <3>4, ColumnStep
    <3>6. chipColumn' = (k + 1) % (2 * c)
      BY <1>13, <2>1, <3>1, <3>3, ChipStep
    <3>7. (k + 1) % (2 * c) = k + 1
      <4>1. PICK t \in Nat \ {0} : t = 2 * c
        BY <3>1
      <4>2. PICK j \in 0 .. t - 1 : j = k + 1
        BY <3>1, <3>2, <3>4, <4>1
      <4>3. j % t = j
        <5>1. j = 0 * t + j
          BY <4>1, <4>2
        <5> QED BY <4>1, <4>2, <5>1, RemainderOf
      <4> QED BY <4>1, <4>2, <4>3
    <3>8. sdShort' = s - 1
      BY <1>7, <1>13, <2>1
    <3>9. (k + 1) + (s - 1) <= 2 * c - 1
      BY <1>4, <3>1, <3>2, <3>3
    <3> QED BY <3>1, <3>5, <3>6, <3>7, <3>8, <3>9 DEF InRow
  <2>4. CASE s % 2 # 0
    <3>1. sdShort' = s - 1 /\ sdDataValid' /\ sdState' = "DO_READ" /\ (s - 1) % 2 = 0
      BY <1>4, <1>7, <1>13, <2>1, <2>2, <2>4
    <3>2. High /\ sdPushing'
      BY <1>7, <3>1 DEF High
    <3>3. AtLower(n)
      <4>1. AtLower(trOp.address + Delivered)
        BY <1>1, <1>4, <1>13, <2>4 DEF SdReceivingPlace
      <4> QED BY <1>2, <1>3, <1>5, <4>1
    <3>4. AtUpper(n)'
      BY <1>6, <1>9, <1>13, <3>3, AddressStep
    <3>5. Delivered' = d + 1
      BY <1>6, <3>2 DEF OneIf
    <3>6. Upper
      BY <1>2, <1>5, <1>6, <3>4, <3>5 DEF Upper
    <3> QED BY <1>10, <2>3, <3>2, <3>6
  <2>5. CASE s % 2 = 0
    <3>1. ~High /\ ~sdPushing'
      <4>1. CASE s = 0
        BY <1>7, <4>1 DEF High
      <4>2. CASE s # 0
        <5>1. sdShort' = s - 1 /\ (s - 1) % 2 = 1
          BY <1>4, <1>7, <1>13, <2>1, <2>5, <4>2
        <5> QED BY <1>7, <5>1 DEF High
      <4> QED BY <4>1, <4>2
    <3>2. n > 0
      <4>1. sdPushing
        <5>1. sdShort % 2 # 1
          BY <1>4, <2>5
        <5> QED BY <1>1, <1>13, <2>1, <5>1 DEF SdReceiving
      <4>2. Delivered = Buffered + 1 /\ Buffered \in Nat
        BY <4>1, PipelineStep DEF Delivered, OneIf
      <4> QED BY <1>2, <1>3, <1>5, <4>2
    <3>3. PICK m \in Nat : n = m + 1
      <4>1. n - 1 \in Nat /\ n = (n - 1) + 1
        BY <3>2
      <4> QED BY <4>1
    <3>4. AtUpper(m)
      <4>1. AtUpper(trOp.address + Delivered - 1)
        BY <1>1, <1>4, <1>13, <2>1, <2>5 DEF SdReceivingPlace
      <4>2. trOp.address + Delivered - 1 = m
        BY <1>2, <1>3, <1>5, <3>3
      <4> QED BY <4>1, <4>2
    <3>5. AtLower(m + 1)'
      BY <1>6, <1>9, <1>13, <3>4, AddressStep
    <3>6. AtLower(n)'
      <4>1. sdRow' = WordRow(m + 1) /\ sdColumn' = 2 * WordColumn(m + 1)
        BY <3>5 DEF AtLower
      <4> QED BY <3>3, <4>1 DEF AtLower
    <3>7. Lower
      <4>1. Delivered' = d
        BY <1>6, <3>1 DEF OneIf
      <4> QED BY <1>2, <1>5, <1>6, <3>6, <4>1 DEF Lower
    <3> QED BY <1>10, <2>3, <3>1, <3>7
  <2> QED BY <1>4, <2>4, <2>5
<1> QED BY <1>11, <1>12, <1>13

\* The place of a half word from its row and column.
LEMMA PlaceFromRow ==
    ASSUME NEW n \in Nat
    PROVE  /\ 2 * Columns * WordRow(n) + 2 * WordColumn(n) = 2 * WordPlace(n)
           /\ 2 * Columns * WordRow(n) + (2 * WordColumn(n) + 1) = 2 * WordPlace(n) + 1
<1>1. PICK r \in Nat : r = WordRow(n)
  BY PlaceOfWord, SdramAssumption
<1>2. PICK c \in Nat : c = WordColumn(n)
  BY PlaceOfWord, SdramAssumption
<1>3. PICK p \in Nat : p = WordPlace(n)
  BY PlaceOfWord
<1>4. PICK k \in Nat : k = 2 * Columns * r
  BY <1>1, SdramAssumption
<1>5. k + 2 * c = 2 * p
  BY <1>1, <1>2, <1>3, <1>4, PlaceOfWord
<1>6. k + (2 * c + 1) = 2 * p + 1
  BY <1>2, <1>3, <1>4, <1>5
<1> QED BY <1>1, <1>2, <1>3, <1>4, <1>5, <1>6

LEMMA ReceiveWords ==
    ASSUME NoDistance, SdInv, TrNext, trPhase = "receive", ~sdEnd
    PROVE  SdReceivingWords'
<1>1. SdReceivingWords /\ SdReceiving /\ (~sdBegun => SdReceivingCount /\ SdReceivingPlace) /\ SdRowOpen
  BY DEF SdInv
<1>2. SdReceivingPlace' /\ ~sdBegun' /\ trPhase' = "receive"
  BY ReceivePlace, ReceiveFacts
<1>3. PICK a \in Nat : a = trOp.address
  BY PartFacts
<1>4. PICK d \in Nat : d = Delivered
  BY PipelineStep
<1>5. PICK s \in Nat : s = sdShort
  BY ReceiveFacts
<1>6. PICK n \in Nat : n = a + d
  OBVIOUS
<1>7. /\ trOp' = trOp /\ trCount' = Sent /\ Sent' = Shown /\ Shown' = Buffered /\ Buffered' = d
      /\ Delivered' = d + OneIf(sdPushing')
  BY <1>4, ReceiveFacts, PipelineStep
<1>8. chipWatched' = chipWatched /\ chipCell' = chipCell
  BY ReceiveFacts
<1>9. \A p : HalfAt(p)' = HalfAt(p)
  BY <1>8 DEF HalfAt, Reading
<1>10. \A k : WordAt(k)' = WordAt(k)
  BY <1>8 DEF WordAt, HalfAt, Reading
<1>11. sdValid'[2] => sdOut' = WordAt(trOp.address + trCount)'
  <2>1. WordAt(trOp.address + trCount)' = WordAt(trOp.address + Sent)
    <3>1. PICK k : k = trOp.address + Sent
      OBVIOUS
    <3>2. WordAt(trOp.address + trCount)' = WordAt(k)'
      BY <1>7, <3>1 DEF WordAt
    <3> QED BY <1>10, <3>1, <3>2
  <2> QED BY <1>1, <2>1, ReadStep DEF SdReceivingWords
<1>12. sdValid'[1] => rfOut' = WordAt(trOp.address + Sent)'
  <2>1. WordAt(trOp.address + Sent)' = WordAt(trOp.address + Shown)
    <3>1. PICK k : k = trOp.address + Shown
      OBVIOUS
    <3>2. WordAt(trOp.address + Sent)' = WordAt(k)'
      BY <1>7, <3>1 DEF WordAt
    <3> QED BY <1>10, <3>1, <3>2
  <2> QED BY <1>1, <2>1, ReadStep, BufferStep DEF SdReceivingWords
<1>13. ~rfEmpty' => rfMemory'[rfPop'] = WordAt(trOp.address + Shown)'
  <2>1. WordAt(trOp.address + Shown)' = WordAt(trOp.address + Buffered)
    <3>1. PICK k : k = trOp.address + Buffered
      OBVIOUS
    <3>2. WordAt(trOp.address + Shown)' = WordAt(k)'
      BY <1>7, <3>1 DEF WordAt
    <3> QED BY <1>10, <3>1, <3>2
  <2>2. ~rfEmpty' => sdPushing
    BY BufferStep
  <2> QED BY <1>1, <2>1, <2>2, BufferStep DEF SdReceivingWords
<1>14. /\ sdDataValid' <=> sdState = "DO_READ" /\ s # 0
       /\ sdState # "INIT_READ_BURST2" => sdShort' = IF sdDataValid /\ s # 0 THEN s - 1 ELSE s
       /\ sdPushing' <=> sdDataValid' /\ sdShort' % 2 # 1
  BY <1>5, ReceiveFacts, ReadStep
<1>15. ASSUME sdDataValid' PROVE 2 * Columns * chipRow + chipColumn' = 2 * Columns * sdRow' + sdColumn'
  <2>1. sdState = "DO_READ" /\ s # 0 /\ ~sdBegun /\ sdState' = "DO_READ"
    BY <1>5, <1>14, <1>15, StateBelongs, ReceiveStates DEF Along, RestStates
  <2>2. chipRow = sdRow
    BY <1>1, <2>1 DEF SdRowOpen
  <2>3. chipColumn' = sdColumn'
    BY <1>2, <2>1 DEF SdReceivingPlace
  <2>4. ~SdBegins
    BY <2>1, Wires
  <2>5. sdRow' = sdRow
    <3>1. PICK c \in Nat \ {0} : c = Columns
      BY SdramAssumption
    <3>2. PICK k \in Nat : k = sdColumn
      BY <3>1 DEF SdInv, SdShape
    <3>3. k + s <= 2 * c - 1
      BY <1>1, <1>5, <2>1, <3>1, <3>2 DEF SdReceivingPlace
    <3>4. k # 2 * c - 1
      BY <1>5, <2>1, <3>1, <3>2, <3>3
    <3> QED BY <2>4, <3>1, <3>2, <3>4, ColumnStep, AddressStep, <1>6
  <2> QED BY <2>2, <2>3, <2>5
<1>16. sdPushing' => <<sdWordLo', sdWordHi'>> = WordAt(trOp.address + Buffered)'
  <2> SUFFICES ASSUME sdPushing' PROVE <<sdWordLo', sdWordHi'>> = WordAt(trOp.address + Buffered)'
    OBVIOUS
  <2>1. WordAt(trOp.address + Buffered)' = WordAt(n)
    <3>1. trOp'.address + Buffered' = n
      BY <1>3, <1>6, <1>7
    <3>2. WordAt(trOp.address + Buffered)' = WordAt(n)'
      BY <3>1 DEF WordAt
    <3> QED BY <1>10, <3>2
  <2>2. sdDataValid' /\ sdState = "DO_READ" /\ s # 0 /\ ~sdBegun /\ sdShort' % 2 # 1
    BY <1>14, StateBelongs DEF RestStates
  <2>3. sdDataValid /\ s % 2 = 1
    <3>1. sdDataValid
      <4> SUFFICES ASSUME ~sdDataValid PROVE FALSE
        OBVIOUS
      <4>1. PICK e \in Nat : e = PartEnd
        BY PartFacts
      <4>2. s = 2 * (e - d) - 1
        BY <1>1, <1>4, <1>5, <2>2, <4>1 DEF SdReceivingCount
      <4>3. sdShort' = s
        BY <1>14, <2>2
      <4> QED BY <1>4, <2>2, <4>1, <4>2, <4>3
    <3>2. sdShort' = s - 1
      BY <1>14, <2>2, <3>1
    <3> QED BY <1>5, <2>2, <3>1, <3>2
  <2>4. sdWordLo' = HalfAt(2 * WordPlace(n))
    <3>1. sdWordLo = HalfAt(2 * WordPlace(n))
      BY <1>1, <1>3, <1>4, <1>5, <1>6, <2>2, <2>3 DEF SdReceivingWords
    <3> QED BY <2>2, <3>1, ReadStep
  <2>5. sdWordHi' = HalfAt(2 * WordPlace(n) + 1)
    <3>1. AtUpper(n)'
      <4>1. AtLower(trOp.address + Delivered)
        BY <1>1, <1>5, <2>2, <2>3 DEF SdReceivingPlace
      <4>2. AtLower(n)
        BY <1>3, <1>4, <1>6, <4>1
      <4>3. Counts /\ ~SdBegins
        BY <2>2, <2>3, Wires DEF Counts
      <4> QED BY <4>2, <4>3, AddressStep
    <3>2. sdRow' = WordRow(n) /\ sdColumn' = 2 * WordColumn(n) + 1
      BY <3>1 DEF AtUpper
    <3>3. 2 * Columns * chipRow + chipColumn' = 2 * WordPlace(n) + 1
      BY <1>15, <2>2, <3>2, PlaceFromRow
    <3>4. sdWordHi' = Reading(2 * Columns * chipRow + chipColumn', chipWatched, chipCell)
      BY <2>2, ReadStep
    <3> QED BY <3>3, <3>4 DEF HalfAt
  <2> QED BY <2>1, <2>4, <2>5 DEF WordAt
<1>17. sdState' = "DO_READ" /\ sdDataValid' /\ sdShort' % 2 = 1 =>
          sdWordLo' = HalfAt(2 * WordPlace(trOp.address + Delivered))'
  <2> SUFFICES ASSUME sdState' = "DO_READ", sdDataValid', sdShort' % 2 = 1
               PROVE  sdWordLo' = HalfAt(2 * WordPlace(trOp.address + Delivered))'
    OBVIOUS
  <2>1. trOp'.address + Delivered' = n
    <3>1. OneIf(sdPushing') = 0
      BY <1>14 DEF OneIf
    <3> QED BY <1>3, <1>4, <1>6, <1>7, <3>1
  <2>2. HalfAt(2 * WordPlace(trOp.address + Delivered))' = HalfAt(2 * WordPlace(n))
    <3>1. HalfAt(2 * WordPlace(trOp.address + Delivered))' = HalfAt(2 * WordPlace(n))'
      BY <2>1 DEF HalfAt, WordPlace
    <3> QED BY <1>9, <3>1
  <2>3. sdRow' = WordRow(n) /\ sdColumn' = 2 * WordColumn(n)
    <3>1. sdShort' % 2 # 0
      OBVIOUS
    <3>2. AtLower(trOp.address + Delivered)'
      BY <1>2, <3>1 DEF SdReceivingPlace
    <3> QED BY <2>1, <3>2 DEF AtLower
  <2>4. 2 * Columns * chipRow + chipColumn' = 2 * WordPlace(n)
    BY <1>15, <2>3, PlaceFromRow
  <2>5. sdWordLo' = Reading(2 * Columns * chipRow + chipColumn', chipWatched, chipCell)
    BY ReadStep
  <2> QED BY <2>2, <2>4, <2>5 DEF HalfAt
<1> QED BY <1>11, <1>12, <1>13, <1>16, <1>17 DEF SdReceivingWords

LEMMA ReceiveWork ==
    ASSUME NoDistance, SdInv, TrNext, trPhase = "receive"
    PROVE  SdWork'
<1>1. CASE sdEnd
  BY <1>1, ReceiveLast
<1>2. CASE ~sdEnd
  <2>1. SdReceiving' /\ SdReceivingCount' /\ SdReceivingPlace' /\ SdReceivingWords'
    BY <1>2, ReceiveFlags, ReceiveCount, ReceivePlace, ReceiveWords
  <2>2. trPhase' = "receive" /\ trOp' = trOp /\ sdOp' = sdOp /\ sdOp = trOp /\ sdActive' /\ ~sdBegun'
        /\ trOp \in Transactions /\ trOp.mine /\ trOp.read
        /\ chipCell' = chipCell /\ trExpected' = trExpected
    BY <1>2, ReceiveFacts
  <2>3. SdTurn'
    BY <2>2, StartBusyStep DEF SdTurn
  <2>4. SdCells' /\ SdBetween' /\ SdSending' /\ SdSendingPlace' /\ SdSendingCell'
    <3>1. chipCell = trExpected
      BY DEF SdInv, SdCells
    <3> QED BY <2>2, <3>1 DEF SdCells, SdBetween, SdSending, SdSendingPlace, SdSendingCell
  <2> QED BY <2>1, <2>3, <2>4 DEF SdWork
<1> QED BY <1>1, <1>2

-----------------------------------------------------------------------------
(* Refreshes.                                                              *)

\* A clock during a transaction brings the controller one clock nearer to rest.
LEMMA NearerToIdle ==
    ASSUME NoDistance, SdInv, TrNext, sdState \notin StartStates \cup RestStates
    PROVE  ClocksToIdle \in Int /\ ClocksToIdle' \in Int /\ ClocksToIdle' < ClocksToIdle
<1> DEFINE Nearer == ClocksToIdle \in Int /\ ClocksToIdle' \in Int /\ ClocksToIdle' < ClocksToIdle
<1>1. ~sdBegun /\ trPhase \in {"send", "gap", "end", "receive"}
  <2>1. trPhase \in {"elsewhere", "begin"} => sdState \in RestStates
    BY DEF SdInv, SdBetween
  <2>2. trPhase = "idle" => sdState \in RestStates \cup StartStates
    BY DEF SdInv, SdBetween
  <2>3. ~sdBegun
    BY StateBelongs DEF RestStates
  <2> QED BY <2>1, <2>2, <2>3 DEF SdInv, SdShape, Phases
<1>2. CASE trPhase # "receive"
  <2>1. trPhase' # "receive"
    BY <1>1, <1>2, PhaseStep DEF TrSend, TrGap, TrEnd
  <2>2. ClocksToIdle = WordClocks(sdState) /\ ClocksToIdle' = WordClocks(sdState')
    BY <1>2, <2>1 DEF ClocksToIdle
  <2>3. \/ sdState = "INIT_READ_WRITE" /\ sdState' = "INIT_READ_BURST1"
        \/ sdState = "INIT_READ_BURST1" /\ sdState' = "INIT_WORD_WRITE"
        \/ sdState = "INIT_WORD_WRITE" /\ sdState' \in {"WRITE_LO", "WAIT_WRITE_LO"}
        \/ sdState = "WRITE_LO" /\ sdState' = "WAIT_WRITE_LO"
        \/ sdState = "WAIT_WRITE_LO" /\ sdState' \in {"WRITE_HI", "WRITE_PRECHARGE"}
        \/ sdState = "WRITE_HI" /\ sdState' = "WAIT_WRITE_HI"
        \/ sdState = "WAIT_WRITE_HI" /\ sdState' = "WRITE_PRECHARGE"
        \/ sdState = "WRITE_PRECHARGE" /\ sdState' = "WAIT_WRITE_PRECHARGE"
        \/ sdState = "WAIT_WRITE_PRECHARGE" /\ sdState' = "IDLE"
    <3>1. CASE trPhase = "send"
      BY <3>1, SendStates DEF Along, RestStates
    <3>2. CASE trPhase # "send"
      <4>1. sdState = "WAIT_WRITE_PRECHARGE"
        BY <1>1, <1>2, <3>2 DEF SdInv, SdBetween
      <4> QED BY <1>2, <3>2, <4>1, QuietStep
    <3> QED BY <3>1, <3>2
  <2> QED BY <2>2, <2>3 DEF WordClocks
<1>3. CASE trPhase = "receive"
  <2>1. SdReceiving /\ SdReceivingCount
    BY DEF SdInv
  <2>2. sdState \in ReadStates
    BY <1>3, ReceiveStates
  <2>3. ~sdEnd /\ trPhase' = "receive" /\ (sdReadPending => RequiresTwoBursts)
    BY <1>3, <2>1, ReceiveFacts DEF SdReceiving
  <2>4. PICK w \in Nat : w = trOp.words
    BY <1>3, PartFacts
  <2>5. PICK l \in Nat : l = WordsLeft
    BY <1>3, PartFacts, SdramAssumption
  <2>6. PICK t \in Nat : t = trCount
    BY <1>3, PipelineStep
  <2>7. PICK s \in Nat : s = sdShort
    BY <1>3, ReceiveFacts
  <2> DEFINE f == FirstPart
             g == FirstPart'
             e == IF f THEN l ELSE w
             h == IF g THEN l ELSE w
  <2>8. /\ (f <=> sdReadPending) /\ (g <=> RequiresTwoBursts /\ sdReadPending')
        /\ sdOp' = sdOp /\ sdOp = trOp /\ trOp' = trOp /\ WordsLeft = l /\ WordsLeft' = l
        /\ RequiresTwoBursts' <=> RequiresTwoBursts
    BY <1>3, <2>3, <2>4, <2>5, ReceiveFacts, PartFacts DEF FirstPart
  <2>9. ClocksToIdle = ReadClocks(sdState, f, w - l, e - t, s, sdDataValid)
    <3>1. PartEnd = e
      BY <2>4, <2>5, <2>8 DEF PartEnd
    <3> QED BY <1>3, <2>4, <2>5, <2>6, <2>7, <2>8, <3>1 DEF ClocksToIdle
  <2>10. ClocksToIdle' = ReadClocks(sdState', g, w - l, h - trCount', sdShort', sdDataValid')
    <3>1. PartEnd' = h
      BY <2>4, <2>8 DEF PartEnd
    <3> QED BY <2>3, <2>4, <2>5, <2>8, <3>1 DEF ClocksToIdle
  <2>11. /\ sdDataValid' <=> sdState = "DO_READ" /\ s # 0
         /\ sdState # "INIT_READ_BURST2" => sdShort' = IF sdDataValid /\ s # 0 THEN s - 1 ELSE s
         /\ sdReadPending' <=> /\ sdState' # "SECOND_BURST"
                               /\ ~(sdState' = "INIT_READ_WRITE" /\ ~RequiresTwoBursts)
                               /\ sdReadPending
    BY <1>1, <1>3, <2>7, ReceiveFacts
  <2> HIDE DEF f, g
  <2>12. CASE sdState \in OpeningStates
    <3>1. ~sdDataValid /\ ~sdPushing /\ rfEmpty /\ ~sdValid[1] /\ ~sdValid[2]
      BY <1>3, <2>1, <2>12 DEF SdReceiving
    <3>2. trCount' = t
      BY <1>3, <2>6, <2>12, <3>1, NothingDelivered DEF OpeningStates, RowStates, LatencyStates
    <3>3. sdState' \in {"INIT_READ_BURST1", "WAIT_READ_BURST1", "INIT_READ_BURST2", "WAIT_READ_BURST2",
              "WAIT_READ_BURST3", "WAIT_READ_BURST4", "WAIT_READ_BURST5", "DO_READ"}
      BY <1>3, <2>12, ReceiveStates DEF Along, OpeningStates, RowStates, LatencyStates
    <3>4. (g <=> f) /\ ~sdDataValid'
      BY <2>3, <2>8, <2>11, <2>12, <3>3 DEF OpeningStates, RowStates, LatencyStates
    <3>5. h = e /\ \A r : AfterPart(g, r) = AfterPart(f, r)
      BY <3>4 DEF AfterPart
    <3>6. PICK k \in Int : k = AfterPart(f, w - l)
      <4>1. w - l \in Int
        OBVIOUS
      <4> QED BY <4>1 DEF AfterPart
    <3>7. PICK m \in Int : m = e - t
      <4>1. e - t \in Int
        OBVIOUS
      <4> QED BY <4>1
    <3>8. AfterPart(g, w - l) = k /\ h - trCount' = m
      BY <3>2, <3>5, <3>6, <3>7
    <3>9. CASE sdState = "INIT_READ_BURST2"
      <4>1. sdState' = "WAIT_READ_BURST2"
        BY <1>3, <3>9, ReceiveStates DEF Along
      <4>2. sdShort' = 2 * m - 1
        <5>1. sdShort' = 2 * (PartEnd' - Delivered') - 1
          <6>1. SdReceivingCount' /\ ~sdBegun'
            BY <1>3, <2>3, ReceiveCount, ReceiveFacts
          <6> QED BY <2>3, <4>1, <6>1 DEF SdReceivingCount, LatencyStates
        <5>2. PartEnd' = h
          BY <2>4, <2>5, <2>8 DEF PartEnd, g
        <5>3. Delivered' = trCount'
          BY <1>3, <3>1, <3>9, NothingDelivered
        <5> QED BY <3>8, <5>1, <5>2, <5>3
      <4>3. ClocksToIdle = 2 * m + 6 + k
        BY <2>9, <3>6, <3>7, <3>9 DEF ReadClocks
      <4>4. ClocksToIdle' = (2 * m - 1) + 6 + k
        BY <2>10, <3>8, <4>1, <4>2 DEF ReadClocks
      <4>5. Nearer
        BY <4>3, <4>4
      <4> QED BY <4>5
    <3>10. CASE sdState \in {"INIT_READ_WRITE", "INIT_READ_BURST1", "WAIT_READ_BURST1"}
      <4>1. \/ /\ sdState = "INIT_READ_WRITE" /\ sdState' = "INIT_READ_BURST1"
               /\ ClocksToIdle = 2 * m + 9 + k /\ ClocksToIdle' = 2 * m + 8 + k
            \/ /\ sdState = "INIT_READ_BURST1" /\ sdState' = "WAIT_READ_BURST1"
               /\ ClocksToIdle = 2 * m + 8 + k /\ ClocksToIdle' = 2 * m + 7 + k
            \/ /\ sdState = "WAIT_READ_BURST1" /\ sdState' = "INIT_READ_BURST2"
               /\ ClocksToIdle = 2 * m + 7 + k /\ ClocksToIdle' = 2 * m + 6 + k
        BY <1>3, <2>9, <2>10, <3>6, <3>7, <3>8, <3>10, ReceiveStates DEF Along, ReadClocks
      <4>2. Nearer
        BY <4>1
      <4> QED BY <4>2
    <3>11. CASE sdState \in LatencyStates
      <4>1. sdShort' = s
        BY <2>11, <3>1, <3>11 DEF LatencyStates
      <4>2. \/ /\ sdState = "WAIT_READ_BURST2" /\ sdState' = "WAIT_READ_BURST3"
               /\ ClocksToIdle = s + 6 + k /\ ClocksToIdle' = s + 5 + k
            \/ /\ sdState = "WAIT_READ_BURST3" /\ sdState' = "WAIT_READ_BURST4"
               /\ ClocksToIdle = s + 5 + k /\ ClocksToIdle' = s + 4 + k
            \/ /\ sdState = "WAIT_READ_BURST4" /\ sdState' = "WAIT_READ_BURST5"
               /\ ClocksToIdle = s + 4 + k /\ ClocksToIdle' = s + 3 + k
            \/ /\ sdState = "WAIT_READ_BURST5" /\ sdState' = "DO_READ"
               /\ ClocksToIdle = s + 3 + k /\ ClocksToIdle' = s + 2 + k
        BY <1>3, <2>9, <2>10, <3>4, <3>6, <3>8, <3>11, <4>1, ReceiveStates
           DEF Along, ReadClocks, LatencyStates
      <4>3. Nearer
        BY <4>2
      <4> QED BY <4>3
    <3> QED BY <2>12, <3>9, <3>10, <3>11 DEF OpeningStates, RowStates
  <2>13. CASE sdState = "DO_READ"
    <3>1. sdState' = IF s # 0 THEN "DO_READ" ELSE IF f THEN "WRITE_PRECHARGE" ELSE "END_READ_TRANSACTION"
      BY <1>3, <2>7, <2>13, ReceiveStates DEF Along, f
    <3>2. g <=> f
      BY <2>3, <2>8, <2>11, <3>1
    <3>3. PICK k \in Int : k = AfterPart(f, w - l) /\ k = IF f THEN 16 + 2 * (w - l) ELSE 4
      <4>1. w - l \in Int
        OBVIOUS
      <4> QED BY <4>1 DEF AfterPart
    <3>4. AfterPart(g, w - l) = k
      BY <3>2, <3>3 DEF AfterPart
    <3>5. ClocksToIdle = s + (IF sdDataValid THEN 1 ELSE 2) + k
      BY <2>9, <2>13, <3>3 DEF ReadClocks
    <3>6. CASE s # 0
      <4>1. ClocksToIdle' = (IF sdDataValid THEN s - 1 ELSE s) + 1 + k
        BY <2>10, <2>11, <2>13, <3>1, <3>4, <3>6 DEF ReadClocks
      <4>2. Nearer
        BY <3>5, <4>1
      <4> QED BY <4>2
    <3>7. CASE s = 0
      <4>1. sdDataValid
        <5> SUFFICES ASSUME ~sdDataValid PROVE FALSE
          OBVIOUS
        <5>1. PICK i \in Int : i = PartEnd - Delivered
          <6>1. PartEnd - Delivered \in Int
            BY <1>3, PartFacts, PipelineStep
          <6> QED BY <6>1
        <5>2. s = 2 * i - 1
          BY <1>1, <1>3, <2>1, <2>7, <2>13, <5>1 DEF SdReceivingCount
        <5> QED BY <3>7, <5>1, <5>2
      <4>2. ClocksToIdle = 1 + k
        BY <3>5, <3>7, <4>1
      <4>3. ClocksToIdle' = k
        BY <2>10, <3>1, <3>2, <3>3, <3>7 DEF ReadClocks
      <4>4. Nearer
        BY <4>2, <4>3
      <4> QED BY <4>4
    <3> QED BY <3>6, <3>7
  <2>14. CASE sdState = "END_READ_TRANSACTION"
    <3>1. ~f
      BY <1>3, <2>1, <2>8, <2>14 DEF SdReceiving
    <3>2. sdState' = "WRITE_PRECHARGE" /\ ~g
      BY <1>3, <2>8, <2>11, <2>14, <3>1, ReceiveStates DEF Along
    <3> QED BY <2>9, <2>10, <2>14, <3>1, <3>2 DEF ReadClocks
  <2>15. CASE sdState = "WRITE_PRECHARGE"
    <3>1. sdState' = "WAIT_WRITE_PRECHARGE" /\ (g <=> f)
      <4>1. sdState' = "WAIT_WRITE_PRECHARGE"
        BY <1>3, <2>15, ReceiveStates DEF Along
      <4> QED BY <2>3, <2>8, <2>11, <4>1
    <3>2. ClocksToIdle = (IF f THEN 16 + 2 * (w - l) ELSE 3)
          /\ ClocksToIdle' = (IF f THEN 15 + 2 * (w - l) ELSE 2)
      BY <2>9, <2>10, <2>15, <3>1 DEF ReadClocks
    <3>3. Nearer
      BY <3>2
    <3> QED BY <3>3
  <2>16. CASE sdState = "WAIT_WRITE_PRECHARGE"
    <3>1. sdState' = IF f THEN "SECOND_BURST" ELSE "IDLE"
      BY <1>3, <2>16, ReceiveStates DEF Along, f
    <3>2. ClocksToIdle = (IF f THEN 15 + 2 * (w - l) ELSE 2)
          /\ ClocksToIdle' = (IF f THEN 14 + 2 * (w - l) ELSE 1)
      BY <2>9, <2>10, <2>16, <3>1 DEF ReadClocks
    <3>3. Nearer
      BY <3>2
    <3> QED BY <3>3
  <2>17. CASE sdState = "SECOND_BURST"
    <3>1. ~f /\ ~g /\ sdState' = "INIT_READ_WRITE"
      BY <1>3, <2>1, <2>8, <2>11, <2>17, ReceiveStates DEF SdReceiving, Along
    <3>2. trCount' = l
      <4>1. SdReceivingCount' /\ ~sdBegun' /\ RequiresTwoBursts /\ WordsLeft' = l /\ ~sdReadPending'
            /\ (RequiresTwoBursts' <=> RequiresTwoBursts)
        BY <1>3, <2>1, <2>3, <2>8, <2>11, <2>17, ReceiveCount, ReceiveFacts, PartFacts DEF SdReceiving
      <4> QED BY <2>3, <3>1, <4>1 DEF SdReceivingCount, OpeningStates, RowStates, RestStates
    <3>3. ClocksToIdle = 14 + 2 * (w - l) /\ ClocksToIdle' = 2 * (w - l) + 9 + 4
      BY <2>9, <2>10, <2>17, <3>1, <3>2 DEF ReadClocks, AfterPart
    <3>4. Nearer
      BY <3>3
    <3> QED BY <3>4
  <2> QED BY <2>2, <2>12, <2>13, <2>14, <2>15, <2>16, <2>17 DEF ReadStates, CloseStates
<1> QED BY <1>2, <1>3

LEMMA LateStep ==
    ASSUME NoDistance, SdInv, TrNext
    PROVE  SdLate' /\ trLate' \in Nat
<1>1. SdLate /\ SdShape /\ SdTurn /\ SdReceiving /\ SdReceivingCount
  BY DEF SdInv
<1>2. trLate \in Nat /\ LongestBurst \in Nat /\ LongestAccess = 2 * LongestBurst + 25
  BY <1>1, LongestIsLongest, SdramAssumption DEF SdShape, LongestAccess
<1>3. PICK x \in Nat : x = LongestAccess /\ x >= 25
  BY <1>2
<1>4. trLate + ClocksToIdle <= x
  BY <1>1, <1>3 DEF SdLate
<1>5. trLate' = IF \/ sdRefresh # 0 \/ sdState \in {"DO_AUTO_REFRESH", "WAIT_AUTO_REFRESH"}
                   \/ sdInitBusy
                THEN 0 ELSE trLate + 1
  BY ClockParts
<1>6. trLate' \in Nat /\ trLate' <= trLate + 1
  BY <1>2, <1>5
<1>7. sdState' \in StartStates => trLate' = 0
  <2>1. sdState \notin StartStates => sdState' \notin StartStates
    BY <1>1, ClockParts, StateTable DEF Along, SdShape, SdStates, StartStates, SdIdle
  <2>2. sdState \in StartStates => sdInitBusy
    BY <1>1 DEF SdTurn
  <2> QED BY <1>5, <2>1, <2>2
<1>8. ASSUME trLate' + ClocksToIdle' <= x PROVE SdLate' /\ trLate' \in Nat
  <2>1. LongestAccess' = LongestAccess
    BY DEF LongestAccess, LongestBurst
  <2> QED BY <1>3, <1>6, <1>7, <1>8, <2>1 DEF SdLate
<1>9. ASSUME sdState' \in StartStates \cup RestStates PROVE ClocksToIdle' = IF sdState' = "IDLE" THEN 1 ELSE 0
  BY <1>9 DEF ClocksToIdle, ReadClocks, WordClocks, StartStates, RestStates
<1>10. CASE sdState \in StartStates \cup {"DO_AUTO_REFRESH", "WAIT_AUTO_REFRESH"}
  <2>1. trLate' = 0
    BY <1>1, <1>5, <1>10 DEF SdTurn
  <2>2. sdState' \in StartStates \cup RestStates
    BY <1>10, ClockParts, StateTable DEF Along, RestStates
  <2>3. ClocksToIdle' \in {0, 1}
    BY <1>9, <2>2
  <2>4. PICK z \in Int : z = ClocksToIdle' /\ 0 + z <= x
    BY <1>3, <2>3
  <2>5. trLate' + ClocksToIdle' <= x
    BY <2>1, <2>4
  <2> QED BY <1>8, <2>5
<1>11. CASE sdState = "IDLE"
  <2>1. sdState' = IF sdRefresh = 0 THEN "DO_AUTO_REFRESH"
                   ELSE IF sdDataIn \/ sdReadPending THEN "INIT_READ_WRITE" ELSE "IDLE"
    BY <1>11, ClockParts, StateTable DEF SdIdle
  <2>2. CASE sdRefresh = 0
    <3>1. sdState' = "DO_AUTO_REFRESH"
      BY <2>1, <2>2
    <3>2. ClocksToIdle' = 0 /\ ClocksToIdle = 1
      BY <1>9, <1>11, <3>1 DEF RestStates, ClocksToIdle, ReadClocks, WordClocks
    <3>3. PICK y \in Int : y = trLate' /\ y + 0 <= x
      BY <1>2, <1>3, <1>4, <1>6, <3>2
    <3>4. trLate' + ClocksToIdle' <= x
      BY <3>2, <3>3
    <3> QED BY <1>8, <3>4
  <2>3. CASE sdRefresh # 0 /\ ~(sdDataIn \/ sdReadPending)
    <3>1. sdState' = "IDLE" /\ trLate' = 0
      BY <1>5, <2>1, <2>3
    <3>2. ClocksToIdle' = 1
      BY <1>9, <3>1 DEF RestStates
    <3>3. trLate' + ClocksToIdle' <= x
      BY <1>3, <3>1, <3>2
    <3> QED BY <1>8, <3>3
  <2>4. CASE sdRefresh # 0 /\ (sdDataIn \/ sdReadPending)
    <3>1. sdState' = "INIT_READ_WRITE" /\ trLate' = 0
      BY <1>5, <2>1, <2>4
    <3>2. CASE trPhase' # "receive"
      <4>1. ClocksToIdle' = 10
        BY <3>1, <3>2 DEF ClocksToIdle, WordClocks
      <4>2. trLate' + ClocksToIdle' <= x
        BY <1>3, <3>1, <4>1
      <4> QED BY <1>8, <4>2
    <3>3. CASE trPhase' = "receive"
      <4>1. trPhase = "receive" /\ ~sdBegun
        <5>1. trPhase \in {"receive", "begin"}
          BY <3>3, PhaseStep DEF TrIdle, TrSend, TrGap, TrEnd, TrElsewhere, SdInv, SdShape, Phases
        <5>2. trPhase # "begin"
          BY <2>4 DEF SdInv, SdBetween, NoReading, NoWriting
        <5>3. ~sdBegun
          <6>1. trPhase = "receive" /\ sdBegun => NoReading /\ NoWriting
            BY <1>1 DEF SdReceiving
          <6> QED BY <2>4, <5>1, <5>2, <6>1 DEF NoReading, NoWriting
        <5> QED BY <5>1, <5>2, <5>3
      <4>2. ~sdEnd
        BY <3>3, <4>1, ReceiveFacts
      <4>3. SdReceivingCount' /\ ~sdBegun'
        BY <4>1, <4>2, ReceiveCount, ReceiveFacts
      <4>4. PICK w \in Nat : w = trOp.words
        BY <4>1, PartFacts
      <4>5. PICK l \in Nat : l = WordsLeft
        BY <4>1, PartFacts, SdramAssumption
      <4>6. w <= LongestBurst /\ sdOp' = trOp /\ WordsLeft' = l /\ (RequiresTwoBursts <=> w > l)
            /\ (RequiresTwoBursts' <=> RequiresTwoBursts)
        BY <4>1, <4>4, <4>5, PartFacts, ReceiveFacts
      <4>7. sdReadPending' <=> RequiresTwoBursts
        BY <2>4, <3>1, <4>1, ReceiveFacts DEF SdInv, SdReceiving, NoWriting
      <4>8. trCount' = 0
        BY <3>1, <3>3, <4>3, <4>6, <4>7 DEF SdReceivingCount, OpeningStates, RowStates, RestStates
      <4>9. (FirstPart' <=> RequiresTwoBursts) /\ PartEnd' = IF RequiresTwoBursts THEN l ELSE w
        BY <4>4, <4>6, <4>7 DEF FirstPart, PartEnd
      <4>10. ClocksToIdle' = 2 * (PartEnd' - 0) + 9 + AfterPart(FirstPart', w - l)
        BY <3>1, <3>3, <4>4, <4>6, <4>8 DEF ClocksToIdle, ReadClocks
      <4>11. ClocksToIdle' <= 2 * LongestBurst + 25
        <5>1. CASE RequiresTwoBursts
          <6>1. ClocksToIdle' = 2 * (l - 0) + 9 + (16 + 2 * (w - l))
            BY <4>9, <4>10, <5>1 DEF AfterPart
          <6> QED BY <1>2, <4>6, <6>1
        <5>2. CASE ~RequiresTwoBursts
          <6>1. ClocksToIdle' = 2 * (w - 0) + 9 + 4
            BY <4>9, <4>10, <5>2 DEF AfterPart
          <6> QED BY <1>2, <4>6, <6>1
        <5> QED BY <5>1, <5>2
      <4>12. ClocksToIdle' \in Int
        BY <4>9, <4>10 DEF AfterPart
      <4>13. PICK z \in Int : z = ClocksToIdle' /\ 0 + z <= x
        BY <1>2, <1>3, <4>11, <4>12
      <4>14. trLate' + ClocksToIdle' <= x
        BY <3>1, <4>13
      <4> QED BY <1>8, <4>14
    <3> QED BY <3>2, <3>3
  <2> QED BY <2>2, <2>3, <2>4
<1>12. CASE sdState \notin StartStates \cup RestStates
  <2>1. ClocksToIdle \in Int /\ ClocksToIdle' \in Int /\ ClocksToIdle' < ClocksToIdle
    BY <1>12, NearerToIdle
  <2>2. PICK i \in Int : i = ClocksToIdle
    BY <2>1
  <2>3. PICK z \in Int : z = ClocksToIdle'
    BY <2>1
  <2>4. PICK y \in Nat : y = trLate'
    BY <1>6
  <2>5. PICK t \in Nat : t = trLate
    BY <1>2
  <2>6. t + i <= x /\ z < i /\ y <= t + 1
    BY <1>4, <1>6, <2>1, <2>2, <2>3, <2>4, <2>5
  <2>7. y + z <= x
    BY <2>6
  <2>8. trLate' + ClocksToIdle' <= x
    BY <2>3, <2>4, <2>7
  <2> QED BY <1>8, <2>8
<1> QED BY <1>6, <1>10, <1>11, <1>12 DEF RestStates

-----------------------------------------------------------------------------
(* The invariant.                                                          *)

LEMMA ShapeStep ==
    ASSUME NoDistance, SdInv, TrNext
    PROVE  SdShape'
<1>1. SdShape /\ SdTurn /\ SdSending
  BY DEF SdInv
<1>2. sdState' \in SdStates
  BY <1>1, ClockParts, StateTable DEF Along, SdShape, SdStates, StartStates, SdIdle
<1>3. trPhase' \in Phases
  BY <1>1, PhaseStep DEF SdShape, Phases, TrIdle, TrBegin, TrSend, TrGap, TrReceive, TrElsewhere, TrEnd
<1>4. trOp' \in Transactions \cup {NoTransaction}
  BY <1>1, PhaseStep DEF SdShape, Phases, TrIdle, TrBegin, TrSend, TrGap, TrReceive, TrElsewhere, TrEnd
<1>5. trCount' \in Nat
  <2>1. trCount' \in {trCount, trCount + 1, 0}
    BY <1>1, PhaseStep DEF SdShape, Phases, TrIdle, TrBegin, TrSend, TrGap, TrReceive, TrElsewhere, TrEnd
  <2> QED BY <1>1, <2>1 DEF SdShape
<1>6. trWord' \in {NoWord32, WordOf(0), WordOf(1)}
  BY <1>1, PhaseStep DEF SdShape, Phases, TrIdle, TrBegin, TrSend, TrGap, TrReceive, TrElsewhere, TrEnd,
     WrittenWords
<1>7. trExpected' \in {0, 1}
  <2>1. CASE trPhase = "send"
    <3>1. trWord[1].cell \in {0, 1} /\ trWord[2].cell \in {0, 1}
      <4>1. trWord \in {WordOf(0), WordOf(1)}
        BY <1>1, <2>1 DEF SdSending
      <4> QED BY <4>1 DEF WordOf
    <3> QED BY <1>1, <2>1, <3>1, PhaseStep DEF TrSend, Stored, SdShape
  <2>2. CASE trPhase # "send"
    BY <1>1, <2>2, PhaseStep DEF SdShape, Phases, TrIdle, TrBegin, TrGap, TrReceive, TrElsewhere, TrEnd
  <2> QED BY <2>1, <2>2
<1>8. sdRefresh' \in Nat /\ sdWait' \in Nat
  <2>1. SdCounters
    BY ClockParts
  <2>2. sdWait \in Nat /\ sdRefresh \in Nat /\ WaitCount \in Nat /\ RefreshDelay \in Nat /\ RefreshPeriod \in Nat
    BY <1>1, SdramAssumption DEF SdShape
  <2>3. sdRefresh' \in Nat
    BY <2>1, <2>2 DEF SdCounters
  <2>4. sdWait' = IF sdState' = "RESET_STATE" THEN WaitCount
                  ELSE IF sdState' \in {"DO_AUTO_REFRESH", "DO_AUTO_REFRESH1", "DO_AUTO_REFRESH2"} THEN RefreshDelay
                  ELSE IF sdWait = 0 THEN 0 ELSE sdWait - 1
    BY <2>1 DEF SdCounters
  <2> QED BY <2>2, <2>3, <2>4
<1>9. chipCell' \in {0, 1}
  <2>1. sdState \in {"WRITE_LO", "WRITE_HI"} => sdToRam[1].cell \in {0, 1} /\ sdToRam[2].cell \in {0, 1}
    <3> SUFFICES ASSUME sdState \in {"WRITE_LO", "WRITE_HI"}
                 PROVE  sdToRam[1].cell \in {0, 1} /\ sdToRam[2].cell \in {0, 1}
      OBVIOUS
    <3>1. trPhase = "send"
      BY StateBelongs DEF OnlyWrite
    <3>2. sdToRam \in {WordOf(0), WordOf(1)}
      BY <1>1, <3>1 DEF SdSending, WordStates
    <3> QED BY <3>2 DEF WordOf
  <2>2. chipCell \in {0, 1}
    BY <1>1 DEF SdShape
  <2>3. CASE sdState = "WRITE_LO"
    BY <2>1, <2>2, <2>3, ChipStep
  <2>4. CASE sdState = "WRITE_HI"
    BY <2>1, <2>2, <2>4, ChipStep
  <2>5. CASE sdState \notin {"WRITE_LO", "WRITE_HI"}
    BY <2>2, <2>5, ChipStep
  <2> QED BY <2>3, <2>4, <2>5
<1>10. sdShort' \in 0 .. 2 * Columns - 1
  <2>1. PICK c \in Nat : c = Columns
    BY SdramAssumption
  <2>2. sdShort \in 0 .. 2 * c - 1 /\ sdColumn \in 0 .. 2 * c - 1
    BY <1>1, <2>1 DEF SdShape
  <2>3. SdShorts
    BY ClockParts DEF MidClock
  <2>4. CASE sdState = "INIT_READ_BURST2"
    <3>1. trPhase = "receive"
      BY <2>4, StateBelongs DEF OnlyRead
    <3>2. PICK w \in Nat : w = trOp.words /\ 1 <= w
      BY <3>1, PartFacts
    <3>3. PICK l \in Nat : l = WordsLeft /\ 1 <= l
      BY <3>1, PartFacts, SdramAssumption
    <3>4. (RequiresTwoBursts <=> w > l) /\ sdOp = trOp
      BY <3>1, <3>2, <3>3, PartFacts, ReceiveFacts
    <3>5. sdShort' = 1 + 2 * (IF ~RequiresTwoBursts THEN w - 1
                              ELSE IF sdReadPending THEN l - 1 ELSE w - l - 1)
      BY <2>3, <2>4, <3>2, <3>3, <3>4 DEF SdShorts
    <3>6. sdShort' \in Nat
      BY <3>2, <3>3, <3>4, <3>5
    <3>7. sdColumn + sdShort' <= 2 * c - 1
      BY <2>1, <2>4, <3>1, PartFits
    <3>8. PICK i \in Nat : i = sdShort'
      BY <3>6
    <3>9. i <= 2 * c - 1
      <4>1. PICK k \in Nat : k = sdColumn
        BY <2>1, <2>2
      <4>2. k + i <= 2 * c - 1
        BY <3>7, <3>8, <4>1
      <4> QED BY <2>1, <4>2
    <3> QED BY <2>1, <3>8, <3>9
  <2>5. CASE sdState # "INIT_READ_BURST2"
    <3>1. sdShort' = IF sdDataValid /\ sdShort # 0 THEN sdShort - 1 ELSE sdShort
      BY <2>3, <2>5 DEF SdShorts
    <3> QED BY <2>1, <2>2, <3>1
  <2> QED BY <2>4, <2>5
<1>11. trLate' \in Nat
  BY LateStep
<1>12. sdRow' \in 0 .. Rows - 1 /\ sdColumn' \in 0 .. 2 * Columns - 1
  <2>1. 0 \in Nat
    OBVIOUS
  <2> QED BY <2>1, AddressStep
<1> QED BY <1>2, <1>3, <1>4, <1>5, <1>6, <1>7, <1>8, <1>9, <1>10, <1>11, <1>12, BufferStep DEF SdShape

LEMMA WorkStep ==
    ASSUME NoDistance, SdInv, TrNext
    PROVE  SdWork'
<1>1. trPhase \in Phases
  BY DEF SdInv, SdShape
<1> QED BY <1>1, QuietWork, BeginWork, SendWork, ReceiveWork DEF Phases

LEMMA SdInvStep ==
    ASSUME NoDistance, SdInv, TrNext
    PROVE  SdInv'
<1>1. SdFlags'
  <2>1. sdDataValid' \in BOOLEAN
    BY ClockParts DEF MidClock, SdShorts
  <2>2. sdValid'[1] \in BOOLEAN /\ sdValid'[2] \in BOOLEAN /\ rfEmpty' \in BOOLEAN
    <3>1. rfEmpty \in BOOLEAN /\ sdValid[1] \in BOOLEAN /\ sdPushing \in BOOLEAN
      BY DEF SdInv, SdFlags
    <3> QED BY <3>1, ReadStep, BufferStep
  <2> QED BY <2>1, <2>2, TransactionStep, WriteStep, ReadStep DEF SdFlags
<1>2. SdPlain'
  BY TransactionStep, WriteStep, BufferStep DEF SdPlain
<1>3. SdShape' /\ SdWork' /\ SdLate' /\ SdBuffer' /\ SdRowOpen'
  BY ShapeStep, WorkStep, LateStep, BufferStep, ChipStep
<1> QED BY <1>1, <1>2, <1>3 DEF SdInv, SdWork

LEMMA SdInvUnchanged ==
    ASSUME SdInv, UNCHANGED trVars
    PROVE  SdInv'
<1> USE DEF trVars, sdVars, sdBusVars, sdDelayVars, sdRamVars, sdDataVars, chipVars, rfVars
<1>1. SdShape' /\ SdFlags' /\ SdPlain' /\ SdTurn' /\ SdBetween' /\ SdCells' /\ SdBuffer' /\ SdRowOpen'
  BY DEF SdInv, SdShape, SdFlags, SdPlain, SdTurn, SdBetween, SdCells, SdBuffer, SdRowOpen,
     NoReading, NoWriting, RfAfter
<1>2. SdSending' /\ SdSendingPlace' /\ SdSendingCell'
  BY DEF SdInv, SdSending, SdSendingPlace, SdSendingCell, NoReading, AtUpper, AtLower, Stored,
     LowerPlace, UpperPlace
<1>3. SdReceiving' /\ SdReceivingCount' /\ SdReceivingPlace'
  BY DEF SdInv, SdReceiving, SdReceivingCount, SdReceivingPlace, NoReading, NoWriting, AtUpper, AtLower,
     Delivered, Buffered, Shown, Sent, PartEnd, FirstPart, RequiresTwoBursts, WordsLeft
<1>4. SdReceivingWords'
  BY DEF SdInv, SdReceivingWords, WordAt, HalfAt, Delivered, Buffered, Shown, Sent
<1>5. SdLate'
  BY DEF SdInv, SdLate, ClocksToIdle, PartEnd, FirstPart, RequiresTwoBursts, WordsLeft
<1> QED BY <1>1, <1>2, <1>3, <1>4, <1>5 DEF SdInv

LEMMA SdInvInit ==
    ASSUME TrInit
    PROVE  SdInv
<1> USE DEF TrInit, SdInit
<1>1. Columns \in Nat \ {0} /\ Rows \in Nat \ {0} /\ WaitCount \in Nat /\ RefreshPeriod \in Nat
  BY SdramAssumption
<1>2. sdState \in StartStates /\ sdState \in SdStates /\ sdState \notin RestStates /\ trPhase = "idle"
  BY DEF StartStates, SdStates, RestStates
<1>3. SdShape
  <2>1. 0 \in Entries
    BY DepthAssumption DEF Entries
  <2>2. rfMemory = [e \in Entries |-> rfMemory[e]]
    OBVIOUS
  <2>3. sdRefresh \in Nat
    BY <1>1
  <2> QED BY <1>1, <1>2, <2>1, <2>2, <2>3 DEF SdShape, Phases
<1>4. sdValid[1] = FALSE /\ sdValid[2] = FALSE
  OBVIOUS
<1>5. SdFlags /\ SdPlain /\ SdTurn /\ SdBuffer /\ SdCells
  BY <1>2, <1>4 DEF SdFlags, SdPlain, SdTurn, SdBuffer, SdCells
<1>6. SdBetween
  BY <1>2, <1>4 DEF SdBetween, NoReading, NoWriting
<1>7. SdSending /\ SdSendingPlace /\ SdSendingCell /\ SdReceiving /\ SdReceivingCount /\ SdReceivingPlace
      /\ SdReceivingWords
  BY DEF SdSending, SdSendingPlace, SdSendingCell, SdReceiving, SdReceivingCount, SdReceivingPlace,
     SdReceivingWords
<1>8. SdRowOpen
  <2>1. sdState \notin {"WAIT_READ_BURST1", "INIT_READ_BURST2", "DO_READ"} \cup LatencyStates \cup WordStates
    BY DEF LatencyStates, WordStates
  <2>2. chipRow \in Closed .. Rows - 1
    BY <1>1 DEF Closed
  <2> QED BY <2>1, <2>2 DEF SdRowOpen
<1>9. SdLate
  <2>1. ClocksToIdle = 0 /\ trLate = 0
    BY DEF ClocksToIdle, WordClocks
  <2>2. LongestAccess \in Nat
    BY LongestIsLongest, <1>1 DEF LongestAccess
  <2> QED BY <2>1, <2>2 DEF SdLate
<1> QED BY <1>3, <1>5, <1>6, <1>7, <1>8, <1>9 DEF SdInv

LEMMA SdAlways ==
    ASSUME NoDistance
    PROVE  TrSpec => []SdInv
<1>1. TrInit => SdInv
  BY SdInvInit
<1>2. SdInv /\ [TrNext]_trVars => SdInv'
  BY SdInvStep, SdInvUnchanged
<1> QED BY <1>1, <1>2, PTL DEF TrSpec

\* Every clock that is counted until the controller rests is still to come.
LEMMA ClocksAreLeft ==
    ASSUME SdInv
    PROVE  ClocksToIdle \in Nat
<1>1. CASE trPhase # "receive"
  BY <1>1 DEF ClocksToIdle, WordClocks
<1>2. CASE trPhase = "receive"
  <2>1. SdReceiving /\ SdReceivingCount /\ SdShape /\ SdTurn
    BY DEF SdInv
  <2>2. sdOp = trOp /\ trOp \in Transactions
    BY <1>2, <2>1 DEF SdTurn
  <2>3. PICK w \in Nat : w = trOp.words
    BY <2>2, OpFacts, LongestIsLongest, SdramAssumption
  <2>4. PICK l \in Nat : l = WordsLeft
    <3>1. Columns \in Nat \ {0} /\ trOp.address \in Nat
      BY <2>2, OpFacts, SdramAssumption
    <3>2. trOp.address % Columns \in 0 .. Columns - 1
      BY <3>1, DivMod
    <3>3. Columns - (trOp.address % Columns) \in Nat
      BY <3>1, <3>2
    <3> QED BY <2>2, <3>3 DEF WordsLeft
  <2>5. PICK t \in Nat : t = trCount
    BY <2>1 DEF SdShape
  <2>6. PICK s \in Nat : s = sdShort
    BY <2>1, SdramAssumption DEF SdShape
  <2>7. (RequiresTwoBursts <=> w > l) /\ PartEnd = (IF FirstPart THEN l ELSE w)
        /\ (FirstPart <=> RequiresTwoBursts /\ sdReadPending)
    BY <2>2, <2>3, <2>4 DEF RequiresTwoBursts, PartEnd, FirstPart
  <2>8. PICK k \in Nat : k = AfterPart(FirstPart, w - l)
    BY <2>7 DEF AfterPart
  <2>9. sdState \in OpeningStates => PartEnd - trCount \in Nat
    <3> SUFFICES ASSUME sdState \in OpeningStates PROVE PartEnd - trCount \in Nat
      OBVIOUS
    <3>1. sdState \notin RestStates
      BY DEF OpeningStates, RowStates, LatencyStates, RestStates
    <3>2. t = IF sdReadPending \/ ~RequiresTwoBursts THEN 0 ELSE l
      BY <1>2, <2>1, <2>4, <2>5, <3>1, StateBelongs DEF SdReceivingCount
    <3>3. PartEnd - t \in Nat
      BY <2>7, <3>2
    <3> QED BY <2>5, <3>3
  <2>10. ClocksToIdle = ReadClocks(sdState, FirstPart, w - l, PartEnd - trCount, s, sdDataValid)
    BY <1>2, <2>2, <2>3, <2>4, <2>6 DEF ClocksToIdle
  <2>11. CASE sdState \in OpeningStates
    <3>1. PICK m \in Nat : m = PartEnd - trCount
      BY <2>9, <2>11
    <3>2. ClocksToIdle \in {2 * m + 9 + k, 2 * m + 8 + k, 2 * m + 7 + k, 2 * m + 6 + k,
                            s + 6 + k, s + 5 + k, s + 4 + k, s + 3 + k}
      BY <2>8, <2>10, <2>11, <3>1 DEF ReadClocks, OpeningStates, RowStates, LatencyStates
    <3> QED BY <3>2
  <2>12. CASE sdState = "DO_READ"
    <3>1. ClocksToIdle \in {s + 1 + k, s + 2 + k}
      BY <2>8, <2>10, <2>12 DEF ReadClocks
    <3> QED BY <3>1
  <2>13. CASE sdState \in CloseStates \cup {"END_READ_TRANSACTION"}
    BY <2>7, <2>10, <2>13 DEF ReadClocks, CloseStates
  <2>14. CASE sdState = "SECOND_BURST"
    <3>1. RequiresTwoBursts
      BY <1>2, <2>1, <2>14 DEF SdReceiving
    <3> QED BY <2>7, <2>10, <2>14, <3>1 DEF ReadClocks
  <2>15. CASE sdState \in RestStates
    BY <2>10, <2>15 DEF ReadClocks, RestStates
  <2>16. sdState \in RestStates \cup ReadStates
    BY <1>2, <2>1 DEF SdReceiving
  <2> QED BY <2>11, <2>12, <2>13, <2>14, <2>15, <2>16 DEF ReadStates
<1> QED BY <1>1, <1>2

-----------------------------------------------------------------------------
(* The results.                                                            *)

LEMMA WordsAreRight == SdInv => ReadsReturnWrites
<1> SUFFICES ASSUME SdInv, trPhase = "receive", sdValid[2]
             PROVE  sdOut = <<Reading(LowerPlace, chipWatched, trExpected),
                              Reading(UpperPlace, chipWatched, trExpected)>>
  BY DEF ReadsReturnWrites
<1>1. sdOut = WordAt(trOp.address + trCount) /\ chipCell = trExpected
  BY DEF SdInv, SdReceivingWords, SdCells
<1> QED BY <1>1 DEF WordAt, HalfAt, LowerPlace, UpperPlace, WordPlace

LEMMA EndsAreRight == SdInv => EndsComplete
<1> SUFFICES ASSUME SdInv, sdEnd PROVE trPhase = "receive" /\ trCount = trOp.words /\ rfEmpty
  BY DEF EndsComplete
<1>1. SdReceiving /\ SdReceivingCount /\ SdShape
  BY DEF SdInv
<1>2. trPhase = "receive"
  BY DEF SdInv, SdBetween, SdSending, NoReading
<1>3. sdState \in RestStates /\ ~sdBegun
  BY <1>1, <1>2 DEF SdReceiving, NoReading
<1>4. rfEmpty /\ ~sdReadPending
  BY <1>1, <1>2, <1>3 DEF SdReceiving
<1>5. trCount = trOp.words
  BY <1>1, <1>2, <1>3, <1>4 DEF SdReceivingCount
<1> QED BY <1>2, <1>4, <1>5

(* Every read delivers the words of its addresses in order, each half as the last store
   that enabled it left it, from both sides of the end of a row, and ends after the last
   one: for every size of the chip, every length of a burst and whatever refreshes come
   in between (sdram.v, sdramFifo.v).                                        *)
THEOREM ReadsAreComplete ==
    ASSUME NoDistance
    PROVE  TrSpec => []ReadsComplete
<1>1. SdInv => ReadsComplete
  BY WordsAreRight, EndsAreRight DEF ReadsComplete
<1> QED BY <1>1, SdAlways, PTL

(* A master that goes on after the acknowledgement of a word finds it in the chip.  *)
THEOREM StoredBeforeAcknowledged ==
    ASSUME NoDistance
    PROVE  TrSpec => []AcknowledgedIsStored
<1>1. SdInv => AcknowledgedIsStored
  BY DEF SdInv, SdCells, AcknowledgedIsStored
<1> QED BY <1>1, SdAlways, PTL

LEMMA TypesAreRight == SdInv => SdTypeOK
<1> SUFFICES ASSUME SdInv PROVE SdTypeOK
  OBVIOUS
<1>1. SdShape /\ SdPlain /\ SdRowOpen /\ SdTurn
  BY DEF SdInv
<1>2. sdWriteCount \in -1 .. LongestBurst - 1
  <2>1. PICK b \in Nat \ {0} : b = LongestBurst
    BY LongestIsLongest, SdramAssumption
  <2>2. CASE NoWriting
    BY <2>1, <2>2 DEF NoWriting
  <2>3. CASE trPhase = "send" /\ ~sdBegun
    <3>1. PICK w \in 1 .. b : w = trOp.words
      BY <1>1, <2>1, <2>3, OpFacts DEF SdTurn
    <3>2. PICK t \in Nat : t = trCount
      BY <1>1 DEF SdShape
    <3>3. t < w /\ sdWriteCount = w - t - (IF sdState = "WRITE_PRECHARGE" THEN 2 ELSE 1)
      BY <2>3, <3>1, <3>2 DEF SdInv, SdSending
    <3> QED BY <2>1, <3>1, <3>2, <3>3
  <2>4. NoWriting \/ (trPhase = "send" /\ ~sdBegun)
    BY DEF SdInv, SdBetween, SdSending, SdReceiving, NoWriting
  <2> QED BY <2>2, <2>3, <2>4
<1> QED BY <1>1, <1>2 DEF SdTypeOK, SdShape, SdPlain, SdRowOpen

(* The chip gets each command in the state of its rows that allows it, no burst leaves
   its row, the buffer never overflows, and a refresh that is due waits for one read
   burst at most.                                                            *)
THEOREM ChipIsServed ==
    ASSUME NoDistance
    PROVE  TrSpec => []ChipServed
<1>1. SdInv => ChipProtocol
  BY DEF SdInv, SdRowOpen, ChipProtocol, StartStates, RestStates, RowStates, WordStates
<1>2. SdInv => RefreshInTime
  <2> SUFFICES ASSUME SdInv PROVE trLate <= LongestAccess
    BY DEF RefreshInTime
  <2>1. PICK i \in Nat : i = ClocksToIdle
    BY ClocksAreLeft
  <2>2. PICK t \in Nat : t = trLate
    BY DEF SdInv, SdShape
  <2>3. PICK x \in Nat : x = LongestAccess
    BY LongestIsLongest, SdramAssumption DEF LongestAccess
  <2>4. t + i <= x
    BY <2>1, <2>2, <2>3 DEF SdInv, SdLate
  <2>5. t <= x
    BY <2>4
  <2> QED BY <2>2, <2>3, <2>5
<1>3. SdInv => ChipServed
  BY <1>1, <1>2, TypesAreRight DEF ChipServed
<1> QED BY <1>3, SdAlways, PTL
=============================================================================
