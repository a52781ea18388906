------------------------------ MODULE FlashPort ------------------------------
(***************************************************************************)
(* Reads of the flash chip over the bus: modules/spi/verilog/spiBus.v and  *)
(* spiShiftQuad.v, as built for the GECKO5 board (GECKO5Education defined: *)
(* no continuous read mode, every read sends its command).  The bits that  *)
(* go over the four lines are abstracted; a shift takes ShiftClocks + 1    *)
(* clocks, and the chip streams words in the order of their addresses.     *)
(***************************************************************************)
EXTENDS Integers

CONSTANTS
    ShiftClocks,   \* 6 to 16 in the code, by the kind of shift
    CountLimit     \* s_wordCountReg counts from -CountLimit to CountLimit - 1
                   \* (256 in the code)

ASSUME FlashAssumption == ShiftClocks \in Nat /\ CountLimit \in Nat \ {0}

VARIABLES
    flActive,      \* s_transactionActiveReg
    flBegun,       \* s_beginTransactionReg
    flEndSeen,     \* s_endTransactionReg
    flError,       \* busErrorOut
    flEnd,         \* s_endTransReg
    flState,       \* quad.s_stateReg
    flShift,       \* quad.s_bitCountReg and s_sclReg: clocks left in a shift
    flCount,       \* quad.s_wordCountReg, as a signed number
    flNext,        \* the address whose word the chip shifts out
    flWordValid,   \* quad.s_wordValidReg
    flData         \* quad.s_dataOutReg, or flNoWord when s_dataOutValidReg is low

flVars == <<flActive, flBegun, flEndSeen, flError, flEnd, flState, flShift,
            flCount, flNext, flWordValid, flData>>

flNoWord == -1

FlStates == {"IDLE", "WAITBUSY", "CHECKBUSY", "SENDCOMMAND", "WAITCOMMAND",
             "WAITADDRESS", "WAITDUMMY", "WAITWORD"}

FlMyTransaction(latched) == flActive /\ latched.slave = "flash"

\* s_busErrorOut: only reads of whole words are served.
FlRefused(latched) == FlMyTransaction(latched) /\ ~(latched.read /\ latched.whole)

\* s_startRead, which a read that is refused sets as well.
FlStartRead(latched) == FlMyTransaction(latched) /\ flBegun /\ latched.read

FlQuadBusy == flState \notin {"IDLE", "WAITBUSY"}

FlShiftDone == flShift = 0

FlNextWord ==
    /\ flState = "WAITDUMMY" \/ (flState = "WAITWORD" /\ flCount >= 0)
    /\ FlShiftDone

\* The end of the transaction follows the last word, and answers the error
\* of any slave in any transaction.
FlBusRegisters(begin, end, busErrorIn, latched) ==
    /\ flActive' = (~flEndSeen /\ (flActive \/ begin))
    /\ flBegun' = begin
    /\ flEndSeen' = end
    /\ flError' = (~end /\ ~flEndSeen /\ FlRefused(latched))
    /\ flEnd' = (flActive /\ \/ flData # flNoWord /\ ~FlQuadBusy
                             \/ busErrorIn /\ ~FlRefused(latched))

\* Decrement in nine bits.
FlDecrement(count) == IF count = -CountLimit THEN CountLimit - 1 ELSE count - 1

FlWords(busErrorIn, latched) ==
    /\ flCount' = IF busErrorIn THEN -CountLimit
                  ELSE IF FlStartRead(latched) THEN latched.words - 1
                  ELSE IF FlNextWord THEN FlDecrement(flCount) ELSE flCount
    /\ flWordValid' = (flState = "WAITWORD" /\ FlShiftDone)
    /\ flData' = IF flWordValid THEN flNext ELSE flNoWord
    /\ flNext' = IF flState = "WAITCOMMAND" /\ FlShiftDone THEN latched.from
                 ELSE IF flWordValid THEN flNext + 1 ELSE flNext

FlShifting ==
    flShift' = IF \/ flState = "SENDCOMMAND"
                  \/ flState \in {"WAITCOMMAND", "WAITADDRESS"} /\ FlShiftDone
                  \/ FlNextWord
               THEN ShiftClocks
               ELSE IF FlShiftDone THEN 0 ELSE flShift - 1

FlIdle(latched) ==
    /\ flState = "IDLE"
    /\ flState' = IF FlStartRead(latched) THEN "WAITBUSY" ELSE "IDLE"

FlWaitBusy(busy) ==
    /\ flState = "WAITBUSY"
    /\ flState' = IF busy THEN "WAITBUSY" ELSE "CHECKBUSY"

FlCheckBusy(busy) ==
    /\ flState = "CHECKBUSY"
    /\ flState' = IF busy THEN "WAITBUSY" ELSE "SENDCOMMAND"

FlSendCommand ==
    /\ flState = "SENDCOMMAND"
    /\ flState' = "WAITCOMMAND"

\* Command, address and dummy clocks, one after the other.
FlPreamble ==
    \E step \in {<<"WAITCOMMAND", "WAITADDRESS">>, <<"WAITADDRESS", "WAITDUMMY">>,
                 <<"WAITDUMMY", "WAITWORD">>} :
        /\ flState = step[1]
        /\ flState' = IF FlShiftDone THEN step[2] ELSE step[1]

FlWaitWord ==
    /\ flState = "WAITWORD"
    /\ flState' = IF FlShiftDone /\ ~FlNextWord THEN "IDLE" ELSE "WAITWORD"

\* busy: the chip is erased, programmed or asked for its status.
FlClock(begin, end, busErrorIn, busy, latched) ==
    /\ \/ FlIdle(latched) \/ FlWaitBusy(busy) \/ FlCheckBusy(busy)
       \/ FlSendCommand \/ FlPreamble \/ FlWaitWord
    /\ FlBusRegisters(begin, end, busErrorIn, latched)
    /\ FlWords(busErrorIn, latched)
    /\ FlShifting

FlInit ==
    /\ flActive = FALSE /\ flBegun = FALSE /\ flEndSeen = FALSE
    /\ flError = FALSE /\ flEnd = FALSE
    /\ flState = "IDLE" /\ flShift = 0 /\ flCount = -CountLimit /\ flNext = 0
    /\ flWordValid = FALSE /\ flData = flNoWord
=============================================================================
