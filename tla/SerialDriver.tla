---------------------------- MODULE SerialDriver ----------------------------
(***************************************************************************)
(* The programs that talk over the UART: the routines of the monitors      *)
(* (bios/c/uart.c) and of the support library (support/src/uart.c and      *)
(* platform.c), with both halves of the UART behind its registers.         *)
(***************************************************************************)
EXTENDS Uart, FiniteSetsExt

CONSTANTS
    Texts,          \* what programs send
    BusGap,         \* bound: clocks between two bus accesses of a program
    MaxCalls,       \* bound: calls after the initialisation
    Wrap            \* bound: numbers are modulo this power of 16; 2^32 in the code

ASSUME BusGapAssumption == BusGap \in Nat
ASSUME WrapAssumption == Wrap \in Nat \ {0}
\* No routine is called with nothing to send: uart_puts does nothing then, and
\* puts has its newline.
ASSUME TextsAssumption ==
    /\ "low" \in STRING \ {NoByte}
    /\ \A text \in Texts : text \in Seq(STRING \ {NoByte}) /\ text # <<>>

VARIABLES
    srLibrary,      \* "monitor" or "support"
    srAt,           \* what the program is doing
    srLeft,         \* the writes of the initialisation, or the bytes, still to do
    srValue,        \* result of GetHexRS232
    srGap,          \* clocks until the next access
    srLatch,        \* bit 7 of the line control register
    srDivisor,      \* the two halves of the divisor
    srCalls,        \* bound
    srSince,        \* history: uxTaken when the last call began, and its argument
    srAsked         \* history: the bytes programs wrote for sending

srVars == <<utVars, uxVars, srLibrary, srAt, srLeft, srValue, srGap, srLatch, srDivisor, srCalls,
            srSince, srAsked>>

\* Characters: hexadecimal digits and others.
SrDigit == [c \in {"1", "f"} |-> IF c = "1" THEN 1 ELSE 15]
SrChars == {"1", "f", "x"}

SrPlaces == {"init", "program", "wait tx", "write", "wait rx", "read", "wait digit", "read digit"}

SrTypeOK ==
    /\ UtTypeOK /\ UxTypeOK
    /\ srLibrary \in {"monitor", "support"} /\ srAt \in SrPlaces
    /\ srValue \in 0 .. Wrap - 1 /\ srGap \in 0 .. BusGap /\ srLatch \in BOOLEAN
    /\ srCalls \in 0 .. MaxCalls

\* The registers that the two initialisations write, with their values.
SrSetupOf(library) ==
    <<[reg |-> IF library = "monitor" THEN 3 ELSE 5, value |-> "latch"],
      [reg |-> 0, value |-> "low"], [reg |-> 1, value |-> "high"],
      [reg |-> 3, value |-> "8N1"]>>

\* A program of the library is started by the monitor, which has set the line up.
SrInit ==
    /\ UtInit /\ UxInit
    /\ srLibrary \in {"monitor", "support"}
    /\ srAt = "init" /\ srLeft = SrSetupOf(srLibrary)
    /\ srValue = 0 /\ srGap = 0 /\ srLatch = FALSE
    /\ srDivisor = IF srLibrary = "monitor" THEN <<"zero", "zero">> ELSE <<"low", "high">>
    /\ srCalls = 0 /\ srSince = <<0, "x">> /\ srAsked = <<>>

\* A store to the UART: the byte that reaches the transmitter, if one does.
SrToTransmitter(reg, value) == IF reg = 0 /\ ~srLatch THEN value ELSE NoByte

SrStore(reg, value) ==
    /\ srLatch' = IF reg = 3 THEN value = "latch" ELSE srLatch
    /\ srDivisor' = [i \in 1 .. 2 |-> IF srLatch /\ reg = i - 1 THEN value ELSE srDivisor[i]]

SrNoStore == UNCHANGED <<srLatch, srDivisor>>

\* init_rs232, uart_init.
SrInitStep(tick) ==
    /\ srAt = "init"
    /\ SrStore(Head(srLeft).reg, Head(srLeft).value)
    /\ UtClock(tick, SrToTransmitter(Head(srLeft).reg, Head(srLeft).value)) /\ UxClock(FALSE)
    /\ srLeft' = Tail(srLeft)
    /\ srAt' = IF Len(srLeft) = 1 THEN "program" ELSE "init"
    /\ UNCHANGED <<srValue, srSince, srAsked>>

\* TX_EMPTY_MASK.
SrReadyToSend == UtAllSent

\* One round of the wait in sendRs232Char and uart_wait_tx.
SrWaitTx(tick) ==
    /\ srAt = "wait tx"
    /\ srAt' = IF SrReadyToSend THEN "write" ELSE "wait tx"
    /\ UtClock(tick, NoByte) /\ UxClock(FALSE) /\ SrNoStore
    /\ UNCHANGED <<srLeft, srValue, srSince, srAsked>>

\* The byte is stored; uart_puts and puts go on with the next one.
SrWrite(tick) ==
    /\ srAt = "write"
    /\ SrStore(0, Head(srLeft))
    /\ UtClock(tick, SrToTransmitter(0, Head(srLeft))) /\ UxClock(FALSE)
    /\ srAsked' = Append(srAsked, Head(srLeft))
    /\ srLeft' = Tail(srLeft)
    /\ srAt' = IF Len(srLeft) = 1 THEN "program" ELSE "wait tx"
    /\ UNCHANGED <<srValue, srSince>>

\* RX_AVAILABLE_MASK.
SrReadyToRead == UxAvailable

\* One round of the wait in get_rs232_blocking and uart_wait_rx.
SrWaitRx(tick) ==
    /\ srAt \in {"wait rx", "wait digit"}
    /\ srAt' = IF ~SrReadyToRead THEN srAt ELSE IF srAt = "wait rx" THEN "read" ELSE "read digit"
    /\ UtClock(tick, NoByte) /\ UxClock(FALSE) /\ SrNoStore
    /\ UNCHANGED <<srLeft, srValue, srSince, srAsked>>

\* The end of get_rs232_blocking and uart_getc.
SrRead(tick) ==
    /\ srAt = "read"
    /\ UtClock(tick, NoByte) /\ UxClock(TRUE) /\ SrNoStore
    /\ srAt' = "program"
    /\ UNCHANGED <<srLeft, srValue, srSince, srAsked>>

SrIsDigit(c) == c \in DOMAIN SrDigit

SrPushed(value, c) == (value * 16 + SrDigit[c]) % Wrap

\* One round of GetHexRS232: any character that is not a digit ends the number.
SrReadDigit(tick) ==
    /\ srAt = "read digit"
    /\ UtClock(tick, NoByte) /\ UxClock(TRUE) /\ SrNoStore
    /\ IF SrIsDigit(UxByte)
       THEN srValue' = SrPushed(srValue, UxByte) /\ srAt' = "wait digit"
       ELSE srAt' = "program" /\ UNCHANGED srValue
    /\ UNCHANGED <<srLeft, srSince, srAsked>>

\* The program calls one of the routines; puts adds a newline to its text.
SrCall(tick) ==
    /\ srAt = "program" /\ srCalls < MaxCalls
    /\ UtClock(tick, NoByte) /\ UxClock(FALSE) /\ SrNoStore
    /\ \/ \E text \in Texts :
            srLeft' = text /\ srAt' = "wait tx" /\ UNCHANGED <<srValue, srSince>>
       \/ srAt' = "wait rx" /\ UNCHANGED <<srLeft, srValue, srSince>>
       \/ \E c \in SrChars :
            /\ srLibrary = "monitor"
            /\ srValue' = IF SrIsDigit(c) THEN SrDigit[c] ELSE 0
            /\ srAt' = "wait digit" /\ srSince' = <<Len(uxTaken), c>>
            /\ UNCHANGED srLeft
    /\ UNCHANGED srAsked

SrAccess(tick) ==
    /\ srGap = 0 /\ srGap' = BusGap
    /\ SrInitStep(tick) \/ SrWaitTx(tick) \/ SrWrite(tick) \/ SrWaitRx(tick) \/ SrRead(tick)
       \/ SrReadDigit(tick) \/ SrCall(tick)
    /\ srCalls' = IF srAt = "program" THEN srCalls + 1 ELSE srCalls
    /\ UNCHANGED srLibrary

\* A clock without an access; the program may be busy with something else.
SrIdle(tick) ==
    /\ UtClock(tick, NoByte) /\ UxClock(FALSE)
    /\ srGap' = IF srGap = 0 THEN 0 ELSE srGap - 1
    /\ UNCHANGED <<srLibrary, srAt, srLeft, srValue, srLatch, srDivisor, srCalls, srSince, srAsked>>

SrNext == \E tick \in BOOLEAN : SrAccess(tick) \/ SrIdle(tick)

SrSpec == SrInit /\ [][SrNext]_srVars
\* The baud generator keeps ticking, and a waiting program keeps polling.
SrTick == SrAccess(TRUE) \/ SrIdle(TRUE)
SrPoll == srAt # "program" /\ \E tick \in BOOLEAN : SrAccess(tick)
SrFairness == WF_srVars(SrTick) /\ WF_srVars(SrPoll)

-----------------------------------------------------------------------------
(* Correctness.                                                            *)

\* What the transmitter accepts is what programs asked to be sent, nothing
\* dropped; but the initialisation of the library, which writes the line status
\* register where line control is meant, sends the low half of its divisor.
NothingDropped ==
    LET stray == IF srLibrary = "support" /\ (srAt # "init" \/ Len(srLeft) < 3)
                 THEN <<"low">> ELSE <<>> IN
    utAccepted = stray \o srAsked

\* Once a program has initialised the line, its divisor is set and the latch is
\* closed, so that register 0 is the data register for all that follows.
LineSetUp == srAt # "init" => ~srLatch /\ srDivisor = <<"low", "high">>

\* The number that GetHexRS232 builds is the one that the first character and
\* those read since the call spell, without its upper digits if it has too many.
NumberRead ==
    srAt \in {"wait digit", "read digit"} =>
        LET typed == <<srSince[2]>> \o SubSeq(uxTaken, srSince[1] + 1, Len(uxTaken))
            digits == {i \in 1 .. Len(typed) : SrIsDigit(typed[i])} IN
        srValue = MapThenSumSet(LAMBDA i : SrDigit[typed[i]] * 16 ^ (Len(typed) - i), digits) % Wrap

\* Sending returns: the wait for the transmitter always ends.
SendReturns == srAt = "wait tx" ~> srAt = "program"

\* What programs send goes out: set up, accepted, in order, and all of it when the
\* line status says so.
SendingCorrect == LineSetUp /\ NothingDropped /\ SentInOrder /\ AllSentTruthful

\* What arrives is read once and in order, with the marks of its own frame, and a
\* loss is reported.
ReceivingCorrect == TakenInOrder /\ MarksFollowByte /\ LossReported
=============================================================================
