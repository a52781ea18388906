-------------------------------- MODULE Uart ---------------------------------
(***************************************************************************)
(* The UART behind its registers: the byte queues (uartRxFifo.v,           *)
(* uartTxFifo.v), the sending half (uartTx.v) and the receiving half       *)
(* (uartRx.v), each with its part of uartBus.v.                            *)
(***************************************************************************)
EXTENDS Integers, Sequences

-----------------------------------------------------------------------------
(* The queues: two pointers, registered full and empty flags, and beside   *)
(* each byte of the receiver the marks of its frame.  The operators give   *)
(* the next value of a queue.                                              *)

CONSTANTS
    UfDepth,    \* 16 in the code
    NoByte      \* what a place holds that was never written

ASSUME UfDepthAssumption == UfDepth \in Nat /\ UfDepth >= 2

UfPlaces == 0 .. UfDepth - 1
UfSucc(p) == (p + 1) % UfDepth

\* After reset; the memory keeps what it had.
UfReset(q) == [q EXCEPT !.write = 0, !.read = 0, !.full = FALSE, !.empty = TRUE,
                        !.marks = [p \in UfPlaces |-> {}]]

UfNew == UfReset([write |-> 0, read |-> 0, full |-> FALSE, empty |-> TRUE,
                  bytes |-> [p \in UfPlaces |-> NoByte], marks |-> [p \in UfPlaces |-> {}]])

\* s_fifoWe and s_fifoRe: both at once are always obeyed.
UfWrites(q, re, we) == we /\ (re \/ ~q.full)
UfReads(q, re, we) == re /\ (we \/ ~q.empty)

\* The marks: those of a place that is read are cleared, those of a frame are
\* written unless the queue is full, even if the byte is.
UfMarks(q, re, we, marks) ==
    [p \in UfPlaces |->
        IF p = q.read /\ re /\ (~we \/ q.write # p) THEN {}
        ELSE IF p = q.write /\ we /\ ~q.full THEN marks ELSE q.marks[p]]

\* Mutant: a read at the same time does not stop the queue from getting full.
UfFullBoth(q, re, we) ==
    ~(re /\ ~we) /\ (q.full \/ (we /\ UfSucc(q.write) = q.read))

UfFull(q, re, we) ==
    ~(re /\ ~we) /\ (q.full \/ (we /\ ~re /\ UfSucc(q.write) = q.read))

UfEmpty(q, re, we) ==
    \/ re /\ ~we /\ UfSucc(q.read) = q.write
    \/ q.empty /\ ~(we /\ ~re)

\* One clock of a queue.
UfAfter(q, re, we, byte, marks) ==
    [write |-> IF UfWrites(q, re, we) THEN UfSucc(q.write) ELSE q.write,
     read |-> IF UfReads(q, re, we) THEN UfSucc(q.read) ELSE q.read,
     full |-> UfFull(q, re, we),
     empty |-> UfEmpty(q, re, we),
     bytes |-> IF UfWrites(q, re, we) THEN [q.bytes EXCEPT ![q.write] = byte] ELSE q.bytes,
     marks |-> UfMarks(q, re, we, marks)]

\* What a queue holds, the oldest byte first.
UfLength(q) == IF q.full THEN UfDepth ELSE (q.write - q.read) % UfDepth
UfContent(q) == [i \in 1 .. UfLength(q) |-> q.bytes[(q.read + i - 1) % UfDepth]]

-----------------------------------------------------------------------------
(* The sending half: a queue that programs fill, and a shifter that a tick *)
(* of half a bit drives.  One step is one clock of the system.             *)

CONSTANT
    HalfBits        \* bound: ticks that a byte takes; 14 to 24 in the code

ASSUME HalfBitsAssumption == HalfBits \in Nat /\ HalfBits >= 3

VARIABLES
    utQueue,
    utState,        \* s_stateMachineReg
    utAck,          \* fifoReadAck: the byte that was loaded leaves the queue
    utCount,        \* s_halfBitCountReg
    utAccepted,     \* history: bytes written while the queue was not full
    utSent,         \* history: bytes that were loaded into the shifter
    utOut           \* history: how many of them have come to their last half bit

utVars == <<utQueue, utState, utAck, utCount, utAccepted, utSent, utOut>>

UtTypeOK ==
    /\ utState \in {"IDLE", "LOAD", "SHIFT"}
    /\ utAck \in BOOLEAN /\ utCount \in 0 .. HalfBits
    /\ utQueue.write \in UfPlaces /\ utQueue.read \in UfPlaces
    /\ utQueue.full => ~utQueue.empty

UtInit ==
    /\ utQueue = UfNew
    /\ utState = "IDLE" /\ utAck = FALSE /\ utCount = 0
    /\ utAccepted = <<>> /\ utSent = <<>> /\ utOut = 0

\* Mutant: the byte in the shifter is forgotten.
UtAllSentQueue == utQueue.empty

\* Line status bit 6.
UtAllSent == utQueue.empty /\ utState = "IDLE"

UtLoads(tick) == utState = "LOAD" /\ tick
UtLastHalfBit == utState = "SHIFT" /\ utCount = 1

UtMachine(tick) ==
    utState' = CASE utState = "IDLE"  -> IF utQueue.empty THEN "IDLE" ELSE "LOAD"
                 [] utState = "LOAD"  -> IF tick THEN "SHIFT" ELSE "LOAD"
                 [] utState = "SHIFT" -> IF ~UtLastHalfBit THEN "SHIFT"
                                         ELSE IF utQueue.empty THEN "IDLE" ELSE "LOAD"

UtAckNext(tick) == UtLoads(tick)

UtCountNext(tick) ==
    IF UtLoads(tick) THEN HalfBits
    ELSE IF utCount = 0 \/ ~tick THEN utCount ELSE utCount - 1

\* One clock. byte: what the program writes into register 0 with the divisor
\* latch closed, or NoByte; a full queue drops it.
UtClock(tick, byte) ==
    LET we == byte # NoByte /\ ~utQueue.full IN
    /\ utQueue' = UfAfter(utQueue, utAck, we, byte, {})
    /\ UtMachine(tick)
    /\ utAck' = UtAckNext(tick)
    /\ utCount' = UtCountNext(tick)
    /\ utAccepted' = IF we THEN Append(utAccepted, byte) ELSE utAccepted
    /\ utSent' = IF UtLoads(tick) THEN Append(utSent, utQueue.bytes[utQueue.read]) ELSE utSent
    /\ utOut' = IF UtLastHalfBit THEN utOut + 1 ELSE utOut

-----------------------------------------------------------------------------
(* Correctness.                                                            *)

\* Every accepted byte goes out once and in its turn: what has been loaded into
\* the shifter and what still waits is what was accepted, although the loaded
\* byte leaves the queue only two clocks after it was copied.
SentInOrder ==
    utSent \o UfContent(IF utAck THEN UfAfter(utQueue, TRUE, FALSE, NoByte, {}) ELSE utQueue)
        = utAccepted

\* The bit that sendRs232Char and uart_wait_tx poll says that every accepted
\* byte has gone out, the one in the shifter included.
AllSentTruthful == UtAllSent => utOut = Len(utAccepted)

-----------------------------------------------------------------------------
(* The receiving half, from the clock in which the last bit of a frame has *)
(* been sampled.  One step is one clock of the system.                     *)

CONSTANTS
    Frames,         \* what the line may carry: [byte, kind]
    MaxReceived     \* bound: frames in one behaviour

VARIABLES
    uxQueue,
    uxStage,        \* "IDLE", "WRITE", "delay" (s_delayReg) or "we" (fifoWe)
    uxFrame,        \* the frame being written
    uxRefused,      \* s_overrunReg
    uxPop,          \* s_rxFifoReReg
    uxOverrun,      \* s_lineStatus1Reg
    uxClear,        \* s_clearError, which nothing drives: a constant of the build
    uxSeen,         \* history: frames since the start
    uxStored,       \* history: the frames put into the queue, and whether it was full
    uxTaken,        \* history: the bytes that reads of register 0 returned
    uxMissed        \* history: frames that were not stored, breaks left out

uxVars == <<uxQueue, uxStage, uxFrame, uxRefused, uxPop, uxOverrun, uxClear, uxSeen, uxStored,
            uxTaken, uxMissed>>

UxKinds == {"good", "no stop bit", "wrong parity", "break"}

\* The frame error register is set for a stop bit that is 1, as it is in a
\* good frame, and for a break.
UxMarksOf(f) ==
    CASE f.kind = "good" -> {"frame"}
      [] f.kind = "wrong parity" -> {"frame", "parity"}
      [] f.kind = "no stop bit" -> {}
      [] f.kind = "break" -> {"frame", "break"}

UxTypeOK ==
    /\ uxStage \in {"IDLE", "WRITE", "delay", "we"} /\ uxFrame \in Frames
    /\ uxRefused \in BOOLEAN /\ uxPop \in BOOLEAN /\ uxOverrun \in BOOLEAN
    /\ uxQueue.write \in UfPlaces /\ uxQueue.read \in UfPlaces
    /\ uxQueue.full => ~uxQueue.empty

UxInit ==
    /\ uxQueue = UfNew
    /\ uxStage = "IDLE" /\ uxFrame = (CHOOSE f \in Frames : TRUE) /\ uxRefused = FALSE
    /\ uxPop = FALSE /\ uxOverrun = FALSE /\ uxClear \in BOOLEAN
    /\ uxSeen = 0 /\ uxStored = <<>> /\ uxTaken = <<>> /\ uxMissed = 0

\* Line status bit 0, the marks of the byte at the head, and register 0.
UxAvailable == ~uxQueue.empty
UxMarks == uxQueue.marks[uxQueue.read]
UxByte == uxQueue.bytes[uxQueue.read]

\* A frame has come to its end; frames are many clocks apart.
UxArrives(f) ==
    /\ uxStage = "IDLE" /\ uxSeen < MaxReceived
    /\ uxStage' = "WRITE" /\ uxFrame' = f /\ uxSeen' = uxSeen + 1

UxStages ==
    /\ uxStage # "IDLE"
    /\ uxStage' = CASE uxStage = "WRITE" -> "delay" [] uxStage = "delay" -> "we"
                    [] uxStage = "we" -> "IDLE"
    /\ UNCHANGED <<uxFrame, uxSeen>>

\* fifoWe, from s_delayReg and the overrun of the WRITE state.
UxWrite == uxStage = "we" /\ ~uxRefused

UxRefusedNext == uxQueue.full /\ uxFrame.kind # "break"

\* One clock, in which the program may read register 0 with the divisor latch
\* closed; the byte leaves the queue in the clock after that.
UxClock(reads) ==
    /\ LET after == UfAfter(uxQueue, uxPop, UxWrite, uxFrame.byte, UxMarksOf(uxFrame)) IN
       uxQueue' = IF uxClear THEN [after EXCEPT !.marks[uxQueue.read] = {}] ELSE after
    /\ \/ \E f \in Frames : UxArrives(f)
       \/ UxStages
       \/ uxStage = "IDLE" /\ UNCHANGED <<uxStage, uxFrame, uxSeen>>
    /\ uxRefused' = IF uxStage = "WRITE" THEN UxRefusedNext ELSE uxRefused
    /\ uxPop' = (reads /\ ~uxQueue.empty)
    /\ uxOverrun' = (~uxClear /\ (uxOverrun \/ uxRefused))
    /\ UNCHANGED uxClear
    /\ uxStored' = IF UfWrites(uxQueue, uxPop, UxWrite) 
                   THEN Append(uxStored, [frame |-> uxFrame, full |-> uxQueue.full])
                   ELSE uxStored
    /\ uxTaken' = IF reads /\ ~uxQueue.empty THEN Append(uxTaken, UxByte) ELSE uxTaken
    /\ uxMissed' = IF /\ uxStage = "we" /\ ~UfWrites(uxQueue, uxPop, UxWrite)
                      /\ uxFrame.kind # "break"
                   THEN uxMissed + 1 ELSE uxMissed

-----------------------------------------------------------------------------
(* Correctness.                                                            *)

\* A program that reads register 0 gets the stored bytes one after the other,
\* none twice and none left out, whenever it reads and frames arrive.
TakenInOrder ==
    LET queue == IF uxPop THEN UfAfter(uxQueue, TRUE, FALSE, NoByte, {}) ELSE uxQueue
        bytes == uxTaken \o UfContent(queue) IN
    /\ Len(bytes) = Len(uxStored)
    /\ \A i \in 1 .. Len(bytes) : bytes[i] = uxStored[i].frame.byte

\* A frame that is not stored leaves the overrun bit set; a break is dropped
\* without a word. If the build takes the undriven wire for 1, nothing is reported.
LossReported == uxMissed > 0 /\ ~uxClear => uxOverrun

\* The marks that line status shows belong to the byte that the next read will
\* return, but for a break that arrived in a full queue at the clock of a read.
MarksFollowByte ==
    ~uxPop /\ UxAvailable /\ ~uxClear =>
        LET next == uxStored[Len(uxTaken) + 1] IN
        ~next.full => UxMarks = UxMarksOf(next.frame)
=============================================================================
