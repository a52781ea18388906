----------------------------- MODULE GraphicsDma -----------------------------
(***************************************************************************)
(* The graphics controller (modules/hdmi_720p/verilog/graphicsController.v):*)
(* a slave with the registers of the picture, and a master that fetches    *)
(* each line of the picture into one of the two line buffers of the screen *)
(* while the other is shown.  One step per clock.                          *)
(*                                                                         *)
(* Addresses count words.  The height of the picture is only passed on to  *)
(* the screen and is left out, apart from the bit that doubles the lines.  *)
(***************************************************************************)
EXTENDS Integers

CONSTANTS
    BurstWords,     \* words of the longest burst (256 in the code)
    MaxWidth        \* pixels of the widest line (640 in the code)

ASSUME GraphicsAssumption == BurstWords \in Nat \ {0} /\ MaxWidth \in 0 .. 4 * BurstWords - 1

VARIABLES
    \* the slave
    grSelected,     \* s_busAddressReg, s_readNotWriteReg: what the transaction addresses
    grActive,       \* s_transactionActiveReg
    grBegun,        \* s_startTransactionReg
    grData,         \* s_busDataInReg
    grDataValid,    \* s_busDataInValidReg
    grWrite,        \* s_writeRegisterReg
    grAnswer,       \* s_dataValidOutReg and s_endTransactionReg, which agree
    grSetup,        \* the registers of the picture
    \* the master
    grState,        \* s_dmaState
    grBegin,        \* s_startTransactionOutReg
    grOut,          \* s_busDataOutReg
    grWords,        \* burstSizeOut + 1
    grEndSeen,      \* s_endTransactionInReg
    grWriteAddress, \* s_writeAddressReg
    grWriteIndex,   \* s_writeIndexReg: the line buffer that is written
    grOddLine,      \* s_lineCountReg
    grPixelAddress  \* s_currentPixelAddressReg

grVars == <<grSelected, grActive, grBegun, grData, grDataValid, grWrite, grAnswer, grSetup,
            grState, grBegin, grOut, grWords, grEndSeen, grWriteAddress, grWriteIndex,
            grOddLine, grPixelAddress>>

GrStates == {"IDLE", "REQUEST", "INIT", "READ", "REQUEST1", "INIT1", "READ1", "READ_DONE",
             "INIT_WRITE_BLACK", "WRITE_BLACK", "ERROR"}

BufferWords == 2 * BurstWords
Nothing     == -1       \* no word on the wires
Black       == -2

-----------------------------------------------------------------------------
(* The slave.                                                              *)

NotSelected == [mine |-> FALSE, read |-> TRUE, reg |-> "none"]

GrMine == grActive /\ grSelected.mine

\* The width in pixels of the screen: doubled pixels count twice.
WidthOf(value, double) ==
    LET width == IF double THEN 2 * value ELSE value
    IN IF width > MaxWidth THEN MaxWidth ELSE width

\* A write, [reg, value, flag]: the flag is bit 31 of the width and of the
\* height, the grayscale bit of the mode, and for the base whether the
\* address is that of a word.
GrWriteRegister ==
    grSetup' =
      IF ~grWrite THEN grSetup
      ELSE CASE grSelected.reg = "width" ->
                  [grSetup EXCEPT !.width = WidthOf(grData.value, grData.flag), !.dual = grData.flag]
             [] grSelected.reg = "height" -> [grSetup EXCEPT !.dualLine = grData.flag]
             [] grSelected.reg = "mode" -> [grSetup EXCEPT !.gray = grData.flag]
             [] grSelected.reg = "base" ->
                  [grSetup EXCEPT !.base = grData.value, !.aligned = grData.flag]

\* The registers of the address and of the data are forgotten when nothing
\* looks at them any more: after the transaction, and after one clock.
GrSlave(begin, end, valid, error, selected, word) ==
    /\ grSelected' = IF begin THEN selected ELSE IF end THEN NotSelected ELSE grSelected
    /\ grBegun' = begin
    /\ grActive' = (~end /\ ~error /\ (begin \/ grActive))
    /\ grData' = IF valid THEN word ELSE Nothing
    /\ grDataValid' = valid
    /\ grWrite' = (valid /\ GrMine /\ ~grSelected.read)
    /\ grAnswer' = (grBegun /\ GrMine /\ grSelected.read)
    /\ GrWriteRegister

-----------------------------------------------------------------------------
(* The master.                                                             *)

\* A picture of full colours that is wider than the longest burst.
DualBurst == grSetup.width > BufferWords /\ ~grSetup.dual /\ ~grSetup.gray

\* s_burstSize counts half words in ten bits; eight bits of it leave.
Burst ==
    LET pixels == CASE DualBurst /\ grState = "INIT" -> BufferWords - 2
                    [] DualBurst /\ grState # "INIT" -> grSetup.width - BufferWords - 2
                    [] grSetup.dual /\ grSetup.gray -> grSetup.width \div 4 - 2
                    [] grSetup.dual # grSetup.gray -> grSetup.width \div 2 - 2
                    [] OTHER -> grSetup.width - 2
    IN 1 + (((pixels % (4 * BurstWords)) \div 2) % BurstWords)

GrRequest == grState \in {"REQUEST", "REQUEST1"}
GrStarts  == grState \in {"INIT", "INIT1"}
GrReads   == grState \in {"READ", "READ1"}

\* The word that goes into the line buffer.
GrBufferWrite == grState = "WRITE_BLACK" \/ (GrReads /\ grDataValid)
GrBufferWord  == IF grState = "WRITE_BLACK" THEN Black ELSE grData
GrBufferPlace == grWriteAddress % BufferWords

BufferFull == grWriteAddress >= BufferWords

LineWanted(newScreen, newLine) ==
    newScreen \/ (newLine /\ (grSetup.dualLine => grOddLine))

GrIdle(newScreen, newLine) ==
    /\ grState = "IDLE"
    /\ grState' = IF ~LineWanted(newScreen, newLine) THEN "IDLE"
                  ELSE IF grSetup.aligned THEN "REQUEST" ELSE "INIT_WRITE_BLACK"

GrRequestBus(granted) ==
    \/ grState = "REQUEST"  /\ grState' = IF granted THEN "INIT" ELSE "REQUEST"
    \/ grState = "REQUEST1" /\ grState' = IF granted THEN "INIT1" ELSE "REQUEST1"

GrInit ==
    \/ grState = "INIT"  /\ grState' = "READ"
    \/ grState = "INIT1" /\ grState' = "READ1"

\* Mutant: the master takes the end of the transaction from the wires.
GrReadEndEarly(end, error) ==
    /\ GrReads
    /\ grState' = IF error /\ ~end THEN "ERROR"
                  ELSE IF error THEN "IDLE"
                  ELSE IF ~end THEN grState
                  ELSE IF grState = "READ" /\ DualBurst THEN "REQUEST1" ELSE "READ_DONE"

GrRead(end, error) ==
    /\ GrReads
    /\ grState' = IF error /\ ~end THEN "ERROR"
                  ELSE IF error THEN "IDLE"
                  ELSE IF ~grEndSeen THEN grState
                  ELSE IF grState = "READ" /\ DualBurst THEN "REQUEST1" ELSE "READ_DONE"

GrReadDone == grState = "READ_DONE" /\ grState' = "IDLE"

GrWriteBlack ==
    \/ grState = "INIT_WRITE_BLACK" /\ grState' = "WRITE_BLACK"
    \/ grState = "WRITE_BLACK" /\ grState' = IF BufferFull THEN "IDLE" ELSE "WRITE_BLACK"

GrError == grState = "ERROR" /\ grState' = IF grEndSeen THEN "IDLE" ELSE "ERROR"

GrAddresses(newScreen, newLine) ==
    /\ grWriteIndex' = IF grState = "READ_DONE" \/ (grState = "WRITE_BLACK" /\ BufferFull)
                       THEN 1 - grWriteIndex ELSE grWriteIndex
    /\ grWriteAddress' = IF grState \in {"INIT_WRITE_BLACK", "INIT"} THEN 0
                         ELSE IF (grState = "WRITE_BLACK" /\ ~BufferFull) \/ (GrReads /\ grDataValid)
                         THEN (grWriteAddress + 1) % (2 * BufferWords) ELSE grWriteAddress
    /\ grPixelAddress' = IF newScreen THEN grSetup.base
                         ELSE IF GrReads /\ grDataValid THEN grPixelAddress + 1 ELSE grPixelAddress
    /\ grOddLine' = (~newScreen /\ (newLine # grOddLine))

GrOutputs(end) ==
    /\ grBegin' = GrStarts
    /\ grOut' = IF grBegun /\ GrMine /\ grSelected.read THEN grSetup
                ELSE IF GrStarts THEN grPixelAddress ELSE Nothing
    /\ grWords' = IF GrStarts THEN Burst ELSE 1
    /\ grEndSeen' = end

GrClock(granted, begin, end, valid, error, selected, word, newScreen, newLine) ==
    /\ GrSlave(begin, end, valid, error, selected, word)
    /\ \/ GrIdle(newScreen, newLine) \/ GrRequestBus(granted) \/ GrInit \/ GrRead(end, error)
       \/ GrReadDone \/ GrWriteBlack \/ GrError
    /\ GrAddresses(newScreen, newLine)
    /\ GrOutputs(end)

\* After reset: 512 pixels of colour, and no picture.
GrReset ==
    /\ grSelected = NotSelected /\ grActive = FALSE /\ grBegun = FALSE
    /\ grData = Nothing /\ grDataValid = FALSE /\ grWrite = FALSE /\ grAnswer = FALSE
    /\ grSetup = [width |-> BufferWords, dual |-> FALSE, gray |-> FALSE, dualLine |-> FALSE,
                  base |-> 0, aligned |-> FALSE]
    /\ grState = "IDLE" /\ grBegin = FALSE /\ grOut = Nothing /\ grWords = 1 /\ grEndSeen = FALSE
    /\ grWriteAddress = 0 /\ grWriteIndex = 0 /\ grOddLine = FALSE /\ grPixelAddress = 0
=============================================================================
