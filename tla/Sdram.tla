-------------------------------- MODULE Sdram --------------------------------
(***************************************************************************)
(* The SDRAM controller (modules/sdram/verilog/sdram.v) with its chip, as  *)
(* built for the GECKO5 board.  The state machine and the chip are clocked *)
(* by clockX2 and change once in the middle of each bus clock              *)
(* (s_sdramClkReg), the rest changes at the bus clock: one step is the     *)
(* middle of a clock followed by its end.                                  *)
(*                                                                         *)
(* The chip is addressed by half words.  The contents of one half word are *)
(* watched, whichever it is; of the others only the place is known.        *)
(***************************************************************************)
EXTENDS Integers, Sequences, SdramFifo

CONSTANTS
    Columns,        \* words in a row of the chip (256 in the code)
    Rows,
    Watched,        \* the half words of the chip whose contents are of interest
    Distance,       \* memoryDistanceIn: clocks that a remote memory adds
    WaitCount,      \* HUNDERT_MICRO_COUNT
    RefreshDelay,   \* AUTO_REFRESH_DELAY_COUNT
    RefreshPeriod   \* AUTO_REFRESH_PERIOD

ASSUME SdramAssumption ==
    /\ Columns \in Nat \ {0} /\ Rows \in Nat \ {0}
    /\ Watched \subseteq 0 .. 2 * Columns * Rows - 1 /\ Distance \in 0 .. 63
    /\ WaitCount \in Nat /\ RefreshDelay \in Nat /\ RefreshPeriod \in Nat

VARIABLES
    \* the bus side
    sdActive,       \* s_transactionActiveReg
    sdBegun,        \* s_beginTransactionReg
    sdOp,           \* s_busAddressReg, s_readNotWriteReg, s_byteEnablesReg, s_burstSizeReg
    sdErrorShift,   \* s_busErrorShiftReg
    sdDataIn,       \* s_dataInValidReg
    sdBusWord,      \* s_busDataReg
    sdWriteCount,   \* s_writeCountReg as a signed number
    sdReadPending,  \* s_readPendingReg
    sdValid,        \* s_dataOutValidReg
    sdOut,          \* s_dataOutReg
    sdEndPending,   \* s_endTransactionPendingReg
    sdEnd,          \* endTransactionOut
    sdError,        \* busErrorOut
    sdInitBusy,     \* s_initBusyReg
    \* write acknowledgement and distance
    sdWriteDone, sdDelayedDone, sdDistance,
    \* state machine, counters and addresses
    sdState, sdWait, sdRefresh, sdShort, sdDataValid, sdRow, sdColumn,
    \* data on its way
    sdToRam, sdWordLo, sdWordHi, sdPushing,
    \* the chip
    chipRow,        \* the open row, or Closed
    chipColumn,     \* the half word of the row that a read delivers next
    chipWatched,    \* the half word whose contents are watched
    chipCell        \* its contents

sdBusVars   == <<sdActive, sdBegun, sdOp, sdErrorShift, sdDataIn, sdBusWord, sdWriteCount,
                 sdReadPending, sdValid, sdOut, sdEndPending, sdEnd, sdError, sdInitBusy>>
sdDelayVars == <<sdWriteDone, sdDelayedDone, sdDistance>>
sdRamVars   == <<sdState, sdWait, sdRefresh, sdShort, sdDataValid, sdRow, sdColumn>>
sdDataVars  == <<sdToRam, sdWordLo, sdWordHi, sdPushing>>
chipVars    == <<chipRow, chipColumn, chipWatched, chipCell>>
sdVars      == <<sdBusVars, sdDelayVars, sdRamVars, sdDataVars, chipVars, rfVars>>

SdStates == {"RESET_STATE", "WAIT_100_MICRO", "DO_PRECHARGE", "WAIT_PRECHARGE",
    "DO_AUTO_REFRESH1", "WAIT_AUTO_REFRESH1", "DO_AUTO_REFRESH2", "WAIT_AUTO_REFRESH2",
    "SET_MODE_REG", "WAIT_MODE_REG", "SET_EXTENDED_MODE_REG", "WAIT_EXTENDED_MODE_REG",
    "IDLE", "DO_AUTO_REFRESH", "WAIT_AUTO_REFRESH", "INIT_READ_WRITE", "INIT_READ_BURST1",
    "WAIT_READ_BURST1", "INIT_READ_BURST2", "WAIT_READ_BURST2", "WAIT_READ_BURST3",
    "WAIT_READ_BURST4", "WAIT_READ_BURST5", "DO_READ", "END_READ_TRANSACTION",
    "INIT_WORD_WRITE", "WRITE_LO", "WAIT_WRITE_LO", "WRITE_HI", "WAIT_WRITE_HI",
    "WRITE_PRECHARGE", "WAIT_WRITE_PRECHARGE", "SECOND_BURST"}

Closed == -1

\* What a half word reads as: its place and, for the one that is watched,
\* its contents.
Reading(place, watched, cell) ==
    [place |-> place, cell |-> IF place = watched THEN cell ELSE 0]
NoHalf == [place |-> Closed, cell |-> 0]
NoWord32 == <<NoHalf, NoHalf>>

\* A transaction: words from address on, with the lower and the upper half
\* of each word enabled or not.
NoTransaction == [mine |-> FALSE, read |-> FALSE, address |-> 0, words |-> 1, lanes |-> {}]

-----------------------------------------------------------------------------
(* The bus side, as wires.                                                 *)

SdMine == sdActive /\ sdOp.mine
SdBegins == SdMine /\ sdBegun

\* busyOut: a word of a write waits until the chip has it.
SdBusy(valid) == SdMine /\ ~sdOp.read /\ ~sdWriteDone /\ valid

SdPop(valid) == sdDistance = 0 /\ SdMine /\ sdOp.read /\ ~rfEmpty /\ ~SdBusy(valid)
SdClearFifo == (sdErrorShift[1] /\ ~sdErrorShift[2]) \/ SdBegins
SdEndNext(error) == (SdMine /\ error) \/ (sdEndPending /\ rfEmpty /\ ~sdValid[1])

WordsLeft == Columns - (sdOp.address % Columns)
RequiresTwoBursts == sdOp.words > WordsLeft

-----------------------------------------------------------------------------
(* The state machine (in the middle of the clock).                         *)

\* One of the unconditional steps along a path of states.
Follows(path) ==
    \E i \in 1 .. Len(path) - 1 : sdState = path[i] /\ sdState' = path[i + 1]

WaitsIn(here, next) ==
    /\ sdState = here
    /\ sdState' = IF sdWait = 0 THEN next ELSE here

SdInitialise ==
    \/ Follows(<<"RESET_STATE", "WAIT_100_MICRO">>)
    \/ WaitsIn("WAIT_100_MICRO", "DO_PRECHARGE")
    \/ Follows(<<"DO_PRECHARGE", "WAIT_PRECHARGE", "DO_AUTO_REFRESH1", "WAIT_AUTO_REFRESH1">>)
    \/ WaitsIn("WAIT_AUTO_REFRESH1", "DO_AUTO_REFRESH2")
    \/ Follows(<<"DO_AUTO_REFRESH2", "WAIT_AUTO_REFRESH2">>)
    \/ WaitsIn("WAIT_AUTO_REFRESH2", "SET_MODE_REG")
    \/ Follows(<<"SET_MODE_REG", "WAIT_MODE_REG", "SET_EXTENDED_MODE_REG",
                 "WAIT_EXTENDED_MODE_REG", "IDLE">>)

SdAutoRefresh ==
    \/ Follows(<<"DO_AUTO_REFRESH", "WAIT_AUTO_REFRESH">>)
    \/ WaitsIn("WAIT_AUTO_REFRESH", "IDLE")

\* Mutant: traffic before refresh.
SdIdleTrafficFirst ==
    /\ sdState = "IDLE"
    /\ sdState' = IF sdDataIn \/ sdReadPending THEN "INIT_READ_WRITE"
                  ELSE IF sdRefresh = 0 THEN "DO_AUTO_REFRESH" ELSE "IDLE"

SdIdle ==
    /\ sdState = "IDLE"
    /\ sdState' = IF sdRefresh = 0 THEN "DO_AUTO_REFRESH"
                  ELSE IF sdDataIn \/ sdReadPending THEN "INIT_READ_WRITE" ELSE "IDLE"

SdActivate ==
    \/ Follows(<<"SECOND_BURST", "INIT_READ_WRITE", "INIT_READ_BURST1">>)
    \/ /\ sdState = "INIT_READ_BURST1"
       /\ sdState' = IF sdDataIn THEN "INIT_WORD_WRITE" ELSE "WAIT_READ_BURST1"

SdRead ==
    \/ Follows(<<"WAIT_READ_BURST1", "INIT_READ_BURST2", "WAIT_READ_BURST2", "WAIT_READ_BURST3",
                 "WAIT_READ_BURST4", "WAIT_READ_BURST5", "DO_READ">>)
    \/ /\ sdState = "DO_READ"
       /\ sdState' = IF sdShort # 0 THEN "DO_READ"
                     ELSE IF sdReadPending /\ RequiresTwoBursts THEN "WRITE_PRECHARGE"
                     ELSE "END_READ_TRANSACTION"

\* Mutant: the row stays open after a word.
SdWriteNoPrecharge ==
    \/ /\ sdState = "INIT_WORD_WRITE"
       /\ sdState' = IF "lo" \in sdOp.lanes THEN "WRITE_LO" ELSE "WAIT_WRITE_LO"
    \/ /\ sdState = "WAIT_WRITE_LO"
       /\ sdState' = IF "hi" \in sdOp.lanes THEN "WRITE_HI" ELSE "IDLE"
    \/ Follows(<<"WRITE_LO", "WAIT_WRITE_LO">>)
    \/ Follows(<<"WRITE_HI", "WAIT_WRITE_HI", "IDLE">>)

SdWrite ==
    \/ /\ sdState = "INIT_WORD_WRITE"
       /\ sdState' = IF "lo" \in sdOp.lanes THEN "WRITE_LO" ELSE "WAIT_WRITE_LO"
    \/ /\ sdState = "WAIT_WRITE_LO"
       /\ sdState' = IF "hi" \in sdOp.lanes THEN "WRITE_HI" ELSE "WRITE_PRECHARGE"
    \/ Follows(<<"WRITE_LO", "WAIT_WRITE_LO">>)
    \/ Follows(<<"WRITE_HI", "WAIT_WRITE_HI", "WRITE_PRECHARGE">>)

SdPrecharge ==
    \/ Follows(<<"END_READ_TRANSACTION", "WRITE_PRECHARGE", "WAIT_WRITE_PRECHARGE">>)
    \/ /\ sdState = "WAIT_WRITE_PRECHARGE"
       /\ sdState' = IF sdReadPending /\ RequiresTwoBursts THEN "SECOND_BURST" ELSE "IDLE"

\* s_shortCountReg: half words that are still to come.
SdShorts ==
    /\ sdShort' = IF sdState = "INIT_READ_BURST2"
                  THEN 1 + 2 * (CASE ~RequiresTwoBursts -> sdOp.words - 1
                                  [] RequiresTwoBursts /\ sdReadPending -> WordsLeft - 1
                                  [] OTHER -> sdOp.words - WordsLeft - 1)
                  ELSE IF sdDataValid /\ sdShort # 0 THEN sdShort - 1 ELSE sdShort
    /\ sdDataValid' = (sdState = "DO_READ" /\ sdShort # 0)

\* Mutant: the row does not follow the column.
SdAddressNoCarry ==
    LET next == sdDataValid \/ sdState \in {"WAIT_WRITE_LO", "WAIT_WRITE_HI"}
        last == sdColumn = 2 * Columns - 1
    IN
    IF SdBegins
    THEN /\ sdColumn' = 2 * (sdOp.address % Columns)
         /\ sdRow' = (sdOp.address \div Columns) % Rows
    ELSE /\ sdColumn' = IF ~next THEN sdColumn ELSE IF last THEN 0 ELSE sdColumn + 1
         /\ UNCHANGED sdRow

SdAddress ==
    LET next == sdDataValid \/ sdState \in {"WAIT_WRITE_LO", "WAIT_WRITE_HI"}
        last == sdColumn = 2 * Columns - 1
    IN
    IF SdBegins
    THEN /\ sdColumn' = 2 * (sdOp.address % Columns)
         /\ sdRow' = (sdOp.address \div Columns) % Rows
    ELSE /\ sdColumn' = IF ~next THEN sdColumn ELSE IF last THEN 0 ELSE sdColumn + 1
         /\ sdRow' = IF next /\ last THEN (sdRow + 1) % Rows ELSE sdRow

\* The chip obeys the command of the state, and delivers the half words of
\* a row one after the other.
ChipCommand ==
    /\ chipRow' = CASE sdState = "INIT_READ_BURST1" -> sdRow
                    [] sdState \in {"DO_PRECHARGE", "WRITE_PRECHARGE"} -> Closed
                    [] OTHER -> chipRow
    /\ chipColumn' = IF sdState = "INIT_READ_BURST2" THEN sdColumn
                     ELSE IF sdDataValid THEN (chipColumn + 1) % (2 * Columns) ELSE chipColumn
    /\ chipCell' = IF /\ sdState \in {"WRITE_LO", "WRITE_HI"}
                      /\ chipWatched = 2 * Columns * chipRow + sdColumn
                   THEN sdToRam[IF sdState = "WRITE_HI" THEN 2 ELSE 1].cell
                   ELSE chipCell
    /\ UNCHANGED chipWatched

MidClock ==
    /\ \/ SdInitialise \/ SdAutoRefresh \/ SdIdle \/ SdActivate
       \/ SdRead \/ SdWrite \/ SdPrecharge
    /\ SdShorts
    /\ SdAddress
    /\ sdToRam' = IF sdState = "INIT_WORD_WRITE" THEN sdBusWord ELSE sdToRam
    /\ ChipCommand

-----------------------------------------------------------------------------
(* The end of the clock, which sees what its middle has done.              *)

SdTransaction(begin, end, error, op) ==
    /\ sdBegun' = begin
    /\ sdActive' = (~end /\ (begin \/ sdActive))
    /\ sdOp' = IF begin THEN op ELSE sdOp
    /\ sdErrorShift' = <<SdMine /\ error, sdErrorShift[1]>>
    /\ sdEnd' = SdEndNext(error)
    /\ sdEndPending' = (~SdEndNext(error)
                          /\ (sdEndPending \/ sdState' = "END_READ_TRANSACTION"))
    /\ sdInitBusy' = (sdInitBusy /\ sdState' # "IDLE")

SdWriteSide(valid, word) ==
    /\ sdDataIn' = (/\ SdMine /\ ~sdOp.read /\ sdWriteCount >= 0 /\ valid
                    /\ ~sdDelayedDone[1] /\ sdState' # "WRITE_PRECHARGE")
    /\ sdBusWord' = IF valid THEN word ELSE sdBusWord
    /\ sdWriteCount' = IF ~SdMine THEN -1
                       ELSE IF sdOp.read THEN sdWriteCount
                       ELSE IF sdBegun THEN sdOp.words - 1
                       ELSE IF sdState' = "WRITE_PRECHARGE" THEN sdWriteCount - 1
                       ELSE sdWriteCount

\* Mutant: a word is acknowledged when its transfer to the chip begins.
SdAcknowledgeEarly(valid) ==
    /\ sdWriteDone' = (sdState' = "INIT_WORD_WRITE")
    /\ UNCHANGED <<sdDelayedDone, sdDistance>>

\* The acknowledgement of a word, which the distance delays.
SdAcknowledge(valid) ==
    /\ sdWriteDone' = IF sdDistance = 0 /\ sdState' = "WRITE_PRECHARGE" THEN TRUE
                      ELSE sdDelayedDone[2] /\ ~sdDelayedDone[1]
    /\ sdDelayedDone' = <<sdDistance > 1 /\ (sdState' = "WRITE_PRECHARGE" \/ sdDelayedDone[1]),
                          sdDelayedDone[1]>>
    /\ sdDistance' = IF SdBegins THEN 6 * Distance + (CASE Distance < 2 -> 0
                                                        [] Distance = 2 -> 3
                                                        [] OTHER -> Distance - 1)
                     ELSE IF SdPop(valid) THEN Distance
                     ELSE IF sdDistance # 0 THEN sdDistance - 1 ELSE 0

\* From the chip to the buffer, and from the buffer to the bus.
SdReadSide(valid) ==
    /\ LET half == Reading(2 * Columns * chipRow + chipColumn', chipWatched, chipCell)
           lower == sdShort' % 2 = 1
       IN /\ sdWordLo' = IF sdDataValid' /\ lower THEN half ELSE sdWordLo
          /\ sdWordHi' = IF sdDataValid' /\ ~lower THEN half ELSE sdWordHi
          /\ sdPushing' = (sdDataValid' /\ ~lower)
    /\ RfClock(SdClearFifo, sdPushing, SdPop(valid), <<sdWordLo, sdWordHi>>)
    /\ sdError' = (SdMine /\ rfFull)
    /\ IF SdBusy(valid) THEN UNCHANGED <<sdValid, sdOut>>
       ELSE /\ sdValid' = <<SdPop(valid), sdValid[1]>>
            /\ sdOut' = IF sdValid[1] THEN rfOut ELSE NoWord32
    /\ sdReadPending' =
         (/\ sdState' # "SECOND_BURST"
          /\ ~(sdState' = "INIT_READ_WRITE" /\ ~RequiresTwoBursts)
          /\ sdReadPending \/ (SdBegins /\ sdOp.read))

SdCounters ==
    /\ sdWait' = CASE sdState' = "RESET_STATE" -> WaitCount
                   [] sdState' \in {"DO_AUTO_REFRESH", "DO_AUTO_REFRESH1", "DO_AUTO_REFRESH2"}
                        -> RefreshDelay
                   [] OTHER -> IF sdWait = 0 THEN 0 ELSE sdWait - 1
    /\ sdRefresh' = IF sdState' \in {"DO_AUTO_REFRESH", "DO_AUTO_REFRESH2"} THEN RefreshPeriod
                    ELSE IF sdRefresh = 0 THEN 0 ELSE sdRefresh - 1

EndClock(begin, end, valid, error, op, word) ==
    /\ SdTransaction(begin, end, error, op)
    /\ SdWriteSide(valid, word)
    /\ SdAcknowledge(valid)
    /\ SdReadSide(valid)
    /\ SdCounters

SdClock(begin, end, valid, error, op, word) ==
    MidClock /\ EndClock(begin, end, valid, error, op, word)

\* After reset, with the counter loaded; the data registers hold anything,
\* and the first use of each follows its loading.
SdInit ==
    /\ sdActive = FALSE /\ sdBegun = FALSE /\ sdOp = NoTransaction
    /\ sdErrorShift = <<FALSE, FALSE>> /\ sdDataIn = FALSE /\ sdBusWord = NoWord32
    /\ sdWriteCount = -1 /\ sdReadPending = FALSE
    /\ sdValid = <<FALSE, FALSE>> /\ sdOut = NoWord32
    /\ sdEndPending = FALSE /\ sdEnd = FALSE /\ sdError = FALSE /\ sdInitBusy = TRUE
    /\ sdWriteDone = FALSE /\ sdDelayedDone = <<FALSE, FALSE>> /\ sdDistance = 0
    /\ sdState = "RESET_STATE" /\ sdWait = WaitCount /\ sdRefresh \in 0 .. RefreshPeriod
    /\ sdShort = 0 /\ sdDataValid = FALSE /\ sdRow = 0 /\ sdColumn = 0
    /\ sdToRam = NoWord32 /\ sdWordLo = NoHalf /\ sdWordHi = NoHalf /\ sdPushing = FALSE
    /\ chipRow = Closed /\ chipColumn = 0 /\ chipWatched \in Watched /\ chipCell \in {0, 1}
    /\ rfPush = 0 /\ rfPop = 0 /\ rfFull = FALSE /\ rfEmpty = TRUE
    /\ rfMemory = [e \in Entries |-> NoWord32] /\ rfOut = NoWord32
=============================================================================
