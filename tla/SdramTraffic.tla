---------------------------- MODULE SdramTraffic ----------------------------
(***************************************************************************)
(* The SDRAM controller with the masters that use it, as it sees them      *)
(* through the arbiter: one transaction at a time, loads and stores of the *)
(* load/store unit, bursts that fill the instruction cache or the line     *)
(* buffer of the screen, bursts of the camera, and the transactions of     *)
(* other slaves.                                                           *)
(***************************************************************************)
EXTENDS Sdram

CONSTANTS
    Lengths,        \* the lengths of the bursts
    LaneSets        \* the halves of a word that a store enables

\* A burst crosses the end of at most one row, and one length is the longest.
ASSUME TrafficAssumption ==
    /\ Lengths \subseteq 1 .. Columns + 1
    /\ \E n \in Lengths : \A m \in Lengths : m <= n
    /\ LaneSets \subseteq SUBSET {"lo", "hi"}

VARIABLES
    trPhase,        \* where the transaction on the bus is
    trOp,           \* the transaction
    trWord,         \* the word that the master writes
    trCount,        \* words written or read so far
    trExpected,     \* history: what the watched half word must read as
    trLate          \* history: clocks that a refresh has been due

trVars == <<sdVars, trPhase, trOp, trWord, trCount, trExpected, trLate>>

Phases == {"idle", "begin", "send", "gap", "end", "receive", "elsewhere"}

Places == 0 .. Columns * Rows - 1

Reads  == [mine : {TRUE}, read : {TRUE}, address : Places, words : Lengths, lanes : {{"lo", "hi"}}]
Bursts == [mine : {TRUE}, read : {FALSE}, address : Places, words : Lengths, lanes : {{"lo", "hi"}}]
Stores == [mine : {TRUE}, read : {FALSE}, address : Places, words : {1}, lanes : LaneSets]
Others == [mine : {FALSE}, read : {TRUE}, address : {0}, words : {1}, lanes : {{}}]
Transactions == Reads \cup Bursts \cup Stores \cup Others

WordOf(v) == <<[place |-> Closed, cell |-> v], [place |-> Closed, cell |-> 1 - v]>>

\* The halves of the word that is written or read next.
LowerPlace == 2 * ((trOp.address + trCount) % (Columns * Rows))
UpperPlace == LowerPlace + 1

\* What the master writes: any word, its halves different, where it is
\* watched, and one word everywhere else.
WrittenWords(count) ==
    IF chipWatched \div 2 = (trOp.address + count) % (Columns * Rows)
    THEN {WordOf(0), WordOf(1)} ELSE {WordOf(0)}

Stored(word) ==
    IF chipWatched = LowerPlace /\ "lo" \in trOp.lanes THEN word[1].cell
    ELSE IF chipWatched = UpperPlace /\ "hi" \in trOp.lanes THEN word[2].cell
    ELSE trExpected

\* Nobody starts while the memory is being initialised (s_cpuReset).
TrIdle ==
    /\ trPhase = "idle"
    /\ \/ UNCHANGED <<trPhase, trOp>>
       \/ ~sdInitBusy /\ trOp' \in Transactions /\ trPhase' = "begin"
    /\ trCount' = 0
    /\ UNCHANGED <<trWord, trExpected>>

TrBegin ==
    /\ trPhase = "begin"
    /\ trPhase' = CASE ~trOp.mine -> "elsewhere"
                    [] trOp.mine /\ trOp.read -> "receive"
                    [] OTHER -> "send"
    /\ trWord' \in IF trOp.mine /\ ~trOp.read THEN WrittenWords(0) ELSE {NoWord32}
    /\ UNCHANGED <<trOp, trCount, trExpected>>

\* A word stays on the bus until the memory is not busy; the next one
\* follows at once.  After the last the transaction ends, sooner or later.
TrSend ==
    /\ trPhase = "send"
    /\ IF SdBusy(TRUE) THEN UNCHANGED <<trPhase, trWord, trCount, trExpected>>
       ELSE /\ trExpected' = Stored(trWord)
            /\ trCount' = trCount + 1
            /\ IF trCount + 1 = trOp.words
               THEN trPhase' \in {"gap", "end"} /\ trWord' = NoWord32
               ELSE trWord' \in WrittenWords(trCount + 1) /\ UNCHANGED trPhase
    /\ UNCHANGED trOp

TrGap ==
    /\ trPhase = "gap"
    /\ trPhase' = "end"
    /\ UNCHANGED <<trOp, trWord, trCount, trExpected>>

TrReceive ==
    /\ trPhase = "receive"
    /\ trCount' = IF sdValid[2] THEN trCount + 1 ELSE trCount
    /\ trPhase' = IF sdEnd THEN "idle" ELSE "receive"
    /\ UNCHANGED <<trOp, trWord, trExpected>>

TrElsewhere ==
    /\ trPhase = "elsewhere"
    /\ trPhase' = "end"
    /\ UNCHANGED <<trOp, trWord, trCount, trExpected>>

TrEnd ==
    /\ trPhase = "end"
    /\ trPhase' = "idle"
    /\ UNCHANGED <<trOp, trWord, trCount, trExpected>>

TrNext ==
    /\ \/ TrIdle \/ TrBegin \/ TrSend \/ TrGap \/ TrReceive \/ TrElsewhere \/ TrEnd
    /\ SdClock(trPhase = "begin", trPhase = "end" \/ sdEnd,
               trPhase \in {"send", "elsewhere"} \/ sdValid[2], FALSE, trOp,
               IF sdValid[2] THEN sdOut ELSE trWord)
    /\ trLate' = IF sdRefresh # 0 \/ sdState \in {"DO_AUTO_REFRESH", "WAIT_AUTO_REFRESH"}
                    \/ sdInitBusy
                 THEN 0 ELSE trLate + 1

TrInit ==
    /\ SdInit
    /\ trPhase = "idle" /\ trOp = NoTransaction /\ trWord = NoWord32
    /\ trCount = 0 /\ trExpected = chipCell /\ trLate = 0

TrSpec == TrInit /\ [][TrNext]_trVars

\* The clock runs.
TrFairSpec == TrSpec /\ WF_trVars(TrNext)

\* The clocks of the longest access: a read burst that crosses a row.
LongestBurst == CHOOSE n \in Lengths : \A m \in Lengths : m <= n
LongestAccess == 2 * LongestBurst + 25

-----------------------------------------------------------------------------
(* Correctness.                                                            *)

SdTypeOK ==
    /\ sdState \in SdStates /\ trPhase \in Phases /\ trOp \in Transactions \cup {NoTransaction}
    /\ sdShort \in 0 .. 2 * Columns - 1           \* a burst stays in its row
    /\ sdWriteCount \in -1 .. LongestBurst - 1    \* no word too many is counted
    /\ sdColumn \in 0 .. 2 * Columns - 1 /\ sdRow \in 0 .. Rows - 1
    /\ chipRow \in Closed .. Rows - 1 /\ chipCell \in {0, 1}
    /\ ~sdError                                   \* the buffer never overflows

\* A read returns the words of its addresses in order, from both sides of
\* a row boundary, each half as the last store that enabled it left it.
ReadsReturnWrites ==
    trPhase = "receive" /\ sdValid[2] =>
        sdOut = <<Reading(LowerPlace, chipWatched, trExpected),
                  Reading(UpperPlace, chipWatched, trExpected)>>

\* The controller ends exactly the reads, and each after its last word; the
\* end that a finished burst leaves pending never meets another transaction.
EndsComplete == sdEnd => trPhase = "receive" /\ trCount = trOp.words /\ rfEmpty

\* A read delivers its words, right and all of them, and ends after the last.
ReadsComplete == ReadsReturnWrites /\ EndsComplete

\* A word is acknowledged only when the chip has it, so that a master that
\* goes on (and a reset or another master after it) never finds old data.
AcknowledgedIsStored == trPhase # "send" => chipCell = trExpected

\* The chip gets a command only in the state of its rows that allows it:
\* whatever order reads, writes and refreshes come in.
ChipProtocol ==
    /\ sdState \in {"INIT_READ_BURST1", "DO_AUTO_REFRESH", "SET_MODE_REG"} => chipRow = Closed
    /\ sdState \in {"INIT_READ_BURST2", "WRITE_LO", "WRITE_HI"} => chipRow = sdRow

\* A refresh that is due waits for one read burst or one written word, not
\* for all words of a burst that is written.
RefreshInTime == trLate <= LongestAccess

\* The chip is driven as its data sheet asks, in the order of its commands and in
\* the time between refreshes, with no burst beyond a row and no word beyond the
\* buffer.
ChipServed == SdTypeOK /\ ChipProtocol /\ RefreshInTime

\* A store to a memory at a distance ends, which is what the correction of
\* the distance counter (the "dirty bug fix" of sdram.v:141) is for.
DistantStoresEnd == trPhase = "send" ~> trPhase # "send"

\* Every transaction ends: no state machine waits for another for ever,
\* whatever refreshes come in between.
TransactionsEnd == trPhase # "idle" ~> trPhase = "idle"
=============================================================================
