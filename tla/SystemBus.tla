------------------------------ MODULE SystemBus ------------------------------
(***************************************************************************)
(* The system bus of systems/singleCore/verilog/or1420SingleCore.v with    *)
(* the two masters of the processor (dCache.v and fetchStage.v), the       *)
(* arbiter, the boot ROM, the UART and the flash, all in one clock domain. *)
(* The wires of the bus are the OR of what the parties drive.              *)
(*                                                                         *)
(* An access selects a slave and a kind of access together: the members of *)
(* Targets.  A word is represented by the address it comes from.           *)
(***************************************************************************)
EXTENDS BusArbiter, DCache, FetchStage, Bios, UartPort, FlashPort

CONSTANTS
    Program,       \* the operations that reach the load/store unit
    Pauses,        \* other stalls of the pipeline: "none", "ci", "dependency"
    JumpTargets,   \* where the program may jump
    CodeSlave,     \* the slave that holds each line of instructions
    FlashBusy      \* the values of the busy flag of the flash during reads

VARIABLES
    latched,       \* what the slaves latch when a transaction begins
    flashBusy,     \* single.s_busy of the flash: erasing, programming (the
                   \* value counts only in the two states that look at it)
    uartWritten    \* history: the access in the load/store unit has written a register

busVars == <<vars, dcVars, fsVars, bsVars, urVars, flVars, latched, flashBusy, uartWritten>>

ICacheLine == 0     \* s_busRequests[30]
DCacheLine == 1     \* s_busRequests[31]

-----------------------------------------------------------------------------
(* The address map of the accesses of the load/store unit.                 *)

SlaveOf(target) ==
    CASE target = "rom" -> "bios"
      [] target \in {"uart", "uartWord"} -> "uart"
      [] target \in {"flash", "flashByte"} -> "flash"
      [] target = "unmapped" -> "none"

WordAt(target) ==
    CASE SlaveOf(target) = "bios" -> 100
      [] SlaveOf(target) = "uart" -> 110
      [] SlaveOf(target) = "flash" -> 120
      [] OTHER -> Junk

Transaction(slave, read, words, whole, from) ==
    [slave |-> slave, read |-> read, words |-> words, whole |-> whole, from |-> from]

DataTransaction ==
    Transaction(SlaveOf(dcOp.target), dcOp.kind = "load", 1,
                dcOp.target \notin {"uart", "flashByte"}, WordAt(dcOp.target))

CodeTransaction ==
    Transaction(CodeSlave[LineOf(fsProgramCounter)], TRUE, WordsPerLine, TRUE, FsAddress)

-----------------------------------------------------------------------------
(* The wires.                                                              *)

Requests == (IF DcRequest THEN {DCacheLine} ELSE {}) \cup (IF FsRequest THEN {ICacheLine} ELSE {})

Begin    == DcBegin \/ FsBegin
End      == DcEnd \/ FsEnd \/ endTransactionOut \/ bsEnd \/ urEnd \/ flEnd
BusErr   == busErrorOut \/ bsError \/ urError \/ flError

\* The slaves that drive data, and the value of the wires.
Answers   == {w \in {bsData, urData, flData} : w # NoWord}
BusWord   == IF Answers = {} THEN NoWord
             ELSE IF \E w \in Answers : Answers = {w} THEN CHOOSE w \in Answers : TRUE
             ELSE Junk
DataValid == DcDataValid \/ Answers # {}

\* The slaves latch the address wires; a word on them at that moment spoils
\* the address.
Latch ==
    latched' = IF ~Begin THEN latched
               ELSE IF (DcBegin /\ FsBegin) \/ Answers # {}
                    THEN Transaction("none", TRUE, 1, TRUE, Junk)
               ELSE IF DcBegin THEN DataTransaction ELSE CodeTransaction

\* Stalls of the pipeline other than the two units': custom instructions stall
\* both, a data dependency only the fetch stage.
ClockEdge(pause, nextOp, jump) ==
    /\ Clock(Requests, Begin, End, DataValid)
    /\ DcClock(FsStallOut \/ pause = "ci", nextOp, DCacheLine \in busGrants, BusErr,
               FALSE, End, DataValid, BusWord)
    /\ FsClock(dcStall \/ pause # "none", FALSE, jump \in JumpTargets, jump,
               ICacheLine \in busGrants, BusErr, End, BusWord)
    /\ BsClock(Begin, End, latched)
    /\ UrClock(Begin, End, DataValid, FALSE, latched)
    /\ FlClock(Begin, End, BusErr, flashBusy, latched)
    /\ Latch
    /\ flashBusy' \in IF flState' \in {"WAITBUSY", "CHECKBUSY"} THEN FlashBusy ELSE {FALSE}
    /\ uartWritten' = (~DcRequest /\ (uartWritten \/ urWrite))

SbInit ==
    /\ Init /\ DcInit /\ FsInit /\ BsInit /\ UrInit /\ FlInit
    /\ latched = Transaction("none", TRUE, 1, TRUE, Junk)
    /\ flashBusy = FALSE /\ uartWritten = FALSE

NoJump == -1

\* Operations and jumps come while the unit that takes them is not stalled.
SbNext ==
    \E pause \in Pauses,
       nextOp \in IF dcStall \/ FsStallOut THEN {NoOp} ELSE Program,
       jump \in IF dcStall \/ fsStall THEN {NoJump} ELSE JumpTargets \cup {NoJump} :
        ClockEdge(pause, nextOp, jump)

SbSpec == SbInit /\ [][SbNext]_busVars

\* The clock runs.
SbFairSpec == SbSpec /\ WF_busVars(SbNext)

-----------------------------------------------------------------------------
(* Correctness.                                                            *)

DcInTransaction == dcBus \in {"INIT_TRANSACTION", "WAIT_READ", "DO_WRITE", "END_WRITE", "BUS_ERROR"}
FsInTransaction == fsBus \in {"INIT_TRANSACTION", "WAIT_BURST", "BUS_ERROR"}

\* One master at a time is in a transaction, and it begins only while the
\* arbiter waits for it: never while an old transaction, a time-out or a late
\* end of a slave is under way.
OneMaster ==
    /\ ~(DcInTransaction /\ FsInTransaction)
    /\ Begin => state = "WAIT_BEGIN"

\* No two slaves, nor a slave and a master, drive a word together.
OneSlave ==
    /\ bsData = NoWord \/ (urData = NoWord /\ flData = NoWord)
    /\ urData = NoWord \/ flData = NoWord
    /\ Answers # {} => ~Begin /\ ~DcDataValid

\* The wires of the bus, each the OR of what all parties drive, have one
\* driver at a time.
OneDriver == OneMaster /\ OneSlave

\* The accesses the pipeline is told have failed: loads only.  A store is
\* posted, so the error of a slave that refuses it comes too late.
Reported(op) == op.kind = "load" /\ SlaveOf(op.target) = "none"

\* When the load/store unit lets the pipeline go on, the access has had its
\* effect and no other: a load brought the word of its own address, whoever
\* used the bus before, a byte stored in the UART was written, a word was
\* not, and only a load that nobody answers is reported as failed.
AccessOutcome ==
    dcState = "SIGNAL_DONE" =>
        /\ dcCacheError = Reported(dcOp)
        /\ dcOp.kind = "load" /\ ~dcCacheError => dcFetched = WordAt(dcOp.target)
        /\ uartWritten = (dcOp = [kind |-> "store", target |-> "uart"])

\* The decode stage gets the instructions of the program counter, from the
\* boot ROM and from the flash, however the bursts that fill the cache
\* alternate with transactions of the load/store unit that fail or time out.
FetchCorrect ==
    ~FsStallOut => fsValidInstruction /\ fsInstruction \in {Nop, fsProgramCounter}

\* Both units of the processor get from the shared bus what they asked for, and
\* neither an answer nor an error that was meant for the other.
ResultsCorrect == AccessOutcome /\ FetchCorrect

\* Both units of the processor recover from every stall: from slaves that
\* do not exist, refuse the access or stay busy beyond the time-out.
StallsEnd == (dcStall ~> ~dcStall) /\ (fsStall ~> ~fsStall)
=============================================================================
