--------------------------- MODULE SystemBusProofs ---------------------------
(***************************************************************************)
(* Proofs about the system bus with its two masters and the slow slaves.   *)
(* That the masters take turns holds whatever the slaves do; the driver of *)
(* the wires and the results of the units are proved for a flash that is   *)
(* never busy with itself and loads no single byte from it: otherwise a    *)
(* load may time out and its words be driven later.                        *)
(***************************************************************************)
EXTENDS SystemBus, BusArbiterProofs

(* The processor has two request lines. *)
TwoLines == N >= 2

-----------------------------------------------------------------------------
(* The arbiter on the wires of the bus. *)

(* Whatever the masters and the slaves do, the arbiter does what its own    *)
(* specification allows, so its invariant holds on the bus as well.         *)
LEMMA ArbiterOnBus ==
    ASSUME TwoLines
    PROVE  SbSpec => []IInv
<1>1. SbInit => Init
  BY DEF SbInit
<1>2. [SbNext]_busVars => [Next]_vars
  <2>1. CASE UNCHANGED busVars
    BY <2>1 DEF busVars
  <2>2. CASE SbNext
    <3>1. Clock(Requests, Begin, End, DataValid)
      BY <2>2 DEF SbNext, ClockEdge
    <3>2. Requests \in SUBSET Masters
      BY NAssumption DEF TwoLines, Requests, Masters, ICacheLine, DCacheLine
    <3>3. Begin \in BOOLEAN /\ End \in BOOLEAN /\ DataValid \in BOOLEAN
      BY DEF Begin, End, DataValid
    <3> QED BY <3>1, <3>2, <3>3 DEF Next
  <2> QED BY <2>1, <2>2
<1> QED BY <1>1, <1>2, Invariance, PTL DEF SbSpec, Spec

-----------------------------------------------------------------------------
(* The masters and the arbiter. *)

\* A master waits for the end of its transaction.
Waiting == dcBus = "WAIT_READ" \/ fsBus = "WAIT_BURST"

\* A transaction has begun and its master still takes part in it.
InProgress == (DcInTransaction \/ FsInTransaction) /\ ~Begin

\* Where the arbiter is while a master has a transaction: nobody else gets the
\* bus before the master has left.
Tenure ==
    /\ busGrants # {} => state = "WAIT_BEGIN" /\ timeOut = Timeout
    /\ Begin => state = "WAIT_BEGIN" /\ busGrants = {}
    /\ Waiting => \/ state \in {"SERVICING", "INIT_BUS_ERROR"}
                  \/ state = "BUS_ERROR" /\ busErrorOut /\ timeOut = Timeout
    /\ dcBus = "DO_WRITE" => state = "SERVICING" /\ timeOut = Timeout
    /\ dcBus = "END_WRITE" => state \in {"SERVICING", "REMOVE"}
    /\ dcBus = "BUS_ERROR" \/ fsBus = "BUS_ERROR" =>
           state \in {"SERVICING", "INIT_BUS_ERROR", "BUS_ERROR", "REMOVE", "IDLE"}

\* When the arbiter itself ends a transaction or reports an error.
ArbiterSignals ==
    /\ busErrorOut => state \in {"BUS_ERROR", "END_TRANSACTION"}
    /\ endTransactionOut => state = "IDLE"

MastersInv ==
    /\ dcBus \in DcBusStates /\ fsBus \in FsBusStates
    /\ ~(DcInTransaction /\ FsInTransaction)
    /\ Tenure /\ ArbiterSignals

-----------------------------------------------------------------------------
(* The slaves. *)

\* The clock after a begin.
Fresh == urStart

\* Slave s answers the read of a master that waits for it.
Served(s) ==
    /\ Waiting /\ state = "SERVICING" /\ ~Fresh
    /\ latched.slave = s /\ latched.read

BsBusy == bsState \in {"BURST", "ENDTRANSACTION"}
FlBusy == flState # "IDLE" \/ flWordValid \/ flData # flNoWord

\* Clocks until the flash drives its next word, the present one included.
FlSlack ==
    IF flData # flNoWord THEN 1
    ELSE IF flWordValid THEN 2
    ELSE IF flState = "WAITWORD" THEN flShift + 3
    ELSE IF flState = "WAITDUMMY" THEN flShift + ShiftClocks + 4
    ELSE IF flState = "WAITADDRESS" THEN flShift + 2 * ShiftClocks + 5
    ELSE IF flState = "WAITCOMMAND" THEN flShift + 3 * ShiftClocks + 6
    ELSE IF flState = "SENDCOMMAND" THEN 4 * ShiftClocks + 7
    ELSE IF flState = "CHECKBUSY" THEN 4 * ShiftClocks + 8
    ELSE 4 * ShiftClocks + 9

\* What the slaves latch.
LatchedInv ==
    /\ latched.slave \in {"bios", "uart", "flash"} => latched.from \in Nat
    /\ latched.slave = "flash" /\ latched.read => latched.whole
    /\ fsPc \in Nat /\ fsProgramCounter \in Nat
    /\ exeOp.kind = "load" => exeOp.target # "flashByte"
    /\ dcOp.kind = "load" => dcOp.target # "flashByte"

\* In the clock after a begin all slaves are quiet.
FreshInv ==
    /\ flBegun = urStart
    /\ Fresh =>
          /\ state = "SERVICING" /\ timeOut = Timeout
          /\ Waiting \/ dcBus = "DO_WRITE"
          /\ Waiting <=> latched.read
          /\ ~End /\ ~BusErr
          /\ ~BsBusy /\ ~FlBusy /\ urState = "IDLE"

BiosInv ==
    /\ bsState \in BsStates
    /\ bsState = "INTERPRET" => Fresh
    /\ BsBusy => Served("bios") /\ timeOut >= IF bsData # bsNoWord THEN 1
                                              ELSE IF bsState = "BURST" THEN 2 ELSE 1
    /\ bsState = "BURST" => bsAddress \in Nat
    /\ bsData # bsNoWord => BsBusy
    /\ bsState = "BUSERROR" => dcBus = "END_WRITE"
    /\ ~bsError
    /\ bsEnd => latched.slave = "bios" /\ ~Fresh

UartInv ==
    /\ urState \in UrStates
    /\ urActive => InProgress
    /\ urState = "WAIT" => Served("uart")
    /\ urData # urNoWord => urState = "WAIT"
    /\ urState = "END" => latched.slave = "uart" /\ state # "WAIT_BEGIN"
    /\ urEnd => latched.slave = "uart" /\ ~Fresh
    /\ urError => latched.slave = "uart" /\ InProgress /\ ~Fresh

FlashInv ==
    /\ flState \in FlStates /\ flShift \in 0 .. ShiftClocks
    /\ flashBusy = FALSE
    /\ FlBusy => Served("flash") /\ timeOut >= FlSlack
    /\ flState \in {"WAITADDRESS", "WAITDUMMY", "WAITWORD"} \/ flWordValid => flNext \in Nat
    /\ flWordValid \/ flData # flNoWord => flState \in {"WAITWORD", "IDLE"}
    /\ flActive => InProgress \/ flEndSeen
    /\ flError => /\ latched.slave = "flash" /\ ~(latched.read /\ latched.whole)
                  /\ InProgress /\ ~Fresh
    /\ flEnd => flState = "IDLE" /\ ~flWordValid /\ ~Fresh

SlavesInv == LatchedInv /\ FreshInv /\ BiosInv /\ UartInv /\ FlashInv

SbInv == MastersInv /\ SlavesInv

-----------------------------------------------------------------------------
(* The masters take turns, whatever the slaves do and for every time-out. *)

(* A grant goes to one master only. *)
LEMMA OneGrant ==
    ASSUME IInv
    PROVE  ~(ICacheLine \in busGrants /\ DCacheLine \in busGrants)
<1> SUFFICES ASSUME ICacheLine \in busGrants, DCacheLine \in busGrants PROVE FALSE
  OBVIOUS
<1>1. busGrants # {}
  OBVIOUS
<1>2. removePointer \in Occupied /\ busGrants = memory[removePointer]
  BY <1>1 DEF IInv, GrantsOldest
<1>3. PICK m \in queuedRequests : memory[removePointer] = {m}
  BY <1>2 DEF IInv, QueueConsistent
<1> QED BY <1>2, <1>3 DEF ICacheLine, DCacheLine

(* What a clock edge does to the arbiter, as far as the masters see it. *)

ArbiterMoves(begin, end, dataValid) ==
    /\ endTransactionOut' <=> state = "END_TRANSACTION"
    /\ busErrorOut' <=> ~end /\ state \in {"INIT_BUS_ERROR", "BUS_ERROR"}
    /\ busGrants' # {} => state = "GRANT" /\ state' = "WAIT_BEGIN" /\ timeOut' = Timeout
    /\ state = "WAIT_BEGIN" /\ begin => state' = "SERVICING" /\ timeOut' = Timeout
    /\ state = "WAIT_BEGIN" /\ ~begin /\ timeOut > 0 => state' = "WAIT_BEGIN"
    /\ state = "SERVICING" /\ ~begin /\ timeOut > 0 /\ ~end =>
           /\ state' = "SERVICING"
           /\ timeOut' = IF dataValid THEN Timeout ELSE timeOut - 1
    /\ state = "SERVICING" /\ ~begin /\ timeOut > 0 /\ end => state' = "REMOVE"
    /\ state = "SERVICING" /\ dataValid => timeOut' = Timeout
    /\ state = "SERVICING" => state' \in {"SERVICING", "INIT_BUS_ERROR", "REMOVE"}
    /\ state = "SERVICING" /\ ~end => state' \in {"SERVICING", "INIT_BUS_ERROR"}
    /\ state = "INIT_BUS_ERROR" => timeOut' = Timeout
    /\ state = "INIT_BUS_ERROR" /\ end => state' = "IDLE"
    /\ state = "INIT_BUS_ERROR" /\ ~end => state' = "BUS_ERROR"
    /\ state = "BUS_ERROR" => state' \in {"BUS_ERROR", "END_TRANSACTION", "REMOVE", "IDLE"}
    /\ state = "BUS_ERROR" /\ timeOut > 0 => state' \in {"BUS_ERROR", "REMOVE", "IDLE"}
    /\ state = "BUS_ERROR" /\ ~end => state' \in {"BUS_ERROR", "END_TRANSACTION"}
    /\ state = "BUS_ERROR" /\ end => state' \in {"END_TRANSACTION", "REMOVE", "IDLE"}
    /\ state = "BUS_ERROR" /\ timeOut > 0 => timeOut' = timeOut - 1
    /\ state \in {"END_TRANSACTION", "REMOVE"} => state' = "IDLE"
    /\ state = "IDLE" /\ ~begin => state' \in {"IDLE", "GRANT"}
    /\ state = "GRANT" /\ ~begin => state' = "WAIT_BEGIN"
    /\ state = "WAIT_BEGIN" /\ ~begin => state' \in {"WAIT_BEGIN", "REMOVE"}

LEMMA ArbiterStep ==
    ASSUME NEW requests, NEW begin \in BOOLEAN, NEW end \in BOOLEAN, NEW dataValid \in BOOLEAN,
           Clock(requests, begin, end, dataValid), timeOut \in Nat
    PROVE  ArbiterMoves(begin, end, dataValid)
<1> USE DEF ArbiterMoves
<1>1. CASE Idle(requests, begin, end)
  BY <1>1 DEF Idle, NoGrant, RegisteredOutputs
<1>2. CASE Grant(requests, begin, end)
  BY <1>2 DEF Grant, Reload, RegisteredOutputs
<1>3. CASE WaitBegin(requests, begin, end)
  <2>1. /\ state = "WAIT_BEGIN" /\ busGrants' = {}
        /\ endTransactionOut' <=> state = "END_TRANSACTION"
        /\ busErrorOut' <=> ~end /\ state \in {"INIT_BUS_ERROR", "BUS_ERROR"}
    BY <1>3 DEF WaitBegin, NoGrant, RegisteredOutputs
  <2>2. /\ begin => state' = "SERVICING" /\ timeOut' = Timeout
        /\ ~begin /\ timeOut > 0 => state' = "WAIT_BEGIN"
        /\ ~begin => state' \in {"WAIT_BEGIN", "REMOVE"}
    BY <1>3 DEF WaitBegin, Reload, Expired
  <2> QED BY <2>1, <2>2
<1>4. CASE Servicing(requests, begin, end, dataValid)
  <2>1. /\ state = "SERVICING" /\ busGrants' = {}
        /\ endTransactionOut' <=> state = "END_TRANSACTION"
        /\ busErrorOut' <=> ~end /\ state \in {"INIT_BUS_ERROR", "BUS_ERROR"}
    BY <1>4 DEF Servicing, NoGrant, RegisteredOutputs
  <2>2. state' = IF begin \/ timeOut = 0 THEN "INIT_BUS_ERROR"
                 ELSE IF end THEN "REMOVE" ELSE "SERVICING"
    BY <1>4 DEF Servicing, Expired
  <2>3. timeOut > 0 => timeOut' = IF dataValid THEN Timeout ELSE timeOut - 1
    BY <1>4 DEF Servicing, Reload, CountDown, Expired
  <2>4. dataValid => timeOut' = Timeout
    BY <1>4 DEF Servicing, Reload
  <2> QED BY <2>1, <2>2, <2>3, <2>4
<1>5. CASE InitBusError(requests, end)
  BY <1>5 DEF InitBusError, NoGrant, Reload, RegisteredOutputs
<1>6. CASE BusError(requests, end)
  <2>1. /\ state = "BUS_ERROR" /\ busGrants' = {}
        /\ endTransactionOut' <=> state = "END_TRANSACTION"
        /\ busErrorOut' <=> ~end /\ state \in {"INIT_BUS_ERROR", "BUS_ERROR"}
    BY <1>6 DEF BusError, NoGrant, RegisteredOutputs
  <2>2. /\ state' \in {"BUS_ERROR", "END_TRANSACTION", "REMOVE", "IDLE"}
        /\ timeOut > 0 => state' # "END_TRANSACTION"
        /\ ~end => state' \in {"BUS_ERROR", "END_TRANSACTION"}
        /\ end => state' \in {"END_TRANSACTION", "REMOVE", "IDLE"}
    BY <1>6 DEF BusError, Expired
  <2>3. timeOut > 0 => timeOut' = timeOut - 1
    BY <1>6 DEF BusError, CountDown, Expired
  <2> QED BY <2>1, <2>2, <2>3
<1>7. CASE EndTransaction(requests, end)
  BY <1>7 DEF EndTransaction, NoGrant, RegisteredOutputs
<1>8. CASE Remove(requests, end)
  BY <1>8 DEF Remove, NoGrant, RegisteredOutputs
<1> QED
  BY <1>1, <1>2, <1>3, <1>4, <1>5, <1>6, <1>7, <1>8 DEF Clock

(* What a clock edge does to the bus machine of the load/store unit. *)

DcMoves(granted, err, end) ==
    /\ dcBus \in DcBusStates /\ dcBus' \in DcBusStates
    /\ dcBus' = "INIT_TRANSACTION" => dcBus = "REQUEST_BUS" /\ granted
    /\ dcBus' = "WAIT_READ" => \/ dcBus = "INIT_TRANSACTION" /\ dcOp.kind = "load"
                               \/ dcBus = "WAIT_READ" /\ ~err /\ ~end
    /\ dcBus' = "DO_WRITE" => dcBus = "INIT_TRANSACTION" /\ dcOp.kind # "load"
    /\ dcBus' = "END_WRITE" => dcBus = "DO_WRITE" /\ ~err
    /\ dcBus' = "BUS_ERROR" => dcBus \in {"WAIT_READ", "DO_WRITE"} /\ err
    /\ dcBus = "INIT_TRANSACTION" => dcBus' \in {"WAIT_READ", "DO_WRITE"}
    /\ dcBus = "WAIT_READ" /\ ~err /\ ~end => dcBus' = "WAIT_READ"
    /\ dcBus = "WAIT_READ" /\ err => dcBus' = "BUS_ERROR"
    /\ dcBus = "DO_WRITE" => dcBus' \in {"BUS_ERROR", "END_WRITE"}

LEMMA DcBusStep ==
    ASSUME NEW granted, NEW err, NEW end, NEW dataValid, NEW word,
           BusMachine(granted, err, FALSE, end, dataValid, word)
    PROVE  DcMoves(granted, err, end)
<1> USE DEF DcMoves
<1>1. CASE Noop
  BY <1>1 DEF Noop, DcBusStates
<1>2. CASE RequestBus(granted)
  BY <1>2 DEF RequestBus, DcBusStates
<1>3. CASE InitTransaction
  BY <1>3 DEF InitTransaction, DcBusStates
<1>4. CASE WaitRead(err, end, dataValid, word)
  BY <1>4 DEF WaitRead, DcBusStates
<1>5. CASE DoWrite(err, FALSE)
  BY <1>5 DEF DoWrite, DcBusStates
<1>6. CASE EndTransfer
  BY <1>6 DEF EndTransfer, DcBusStates
<1>7. CASE SigDone
  BY <1>7 DEF SigDone, DcBusStates
<1> QED
  BY <1>1, <1>2, <1>3, <1>4, <1>5, <1>6, <1>7 DEF BusMachine

(* The same of the fetch stage. *)

FsMoves(granted, err, end) ==
    /\ fsBus \in FsBusStates /\ fsBus' \in FsBusStates
    /\ fsBus' = "INIT_TRANSACTION" => fsBus = "REQUEST_BUS" /\ granted
    /\ fsBus' = "WAIT_BURST" => \/ fsBus = "INIT_TRANSACTION"
                                \/ fsBus = "WAIT_BURST" /\ ~err /\ ~end
    /\ fsBus' = "BUS_ERROR" => fsBus = "WAIT_BURST" /\ err
    /\ fsBus = "INIT_TRANSACTION" => fsBus' = "WAIT_BURST"
    /\ fsBus = "WAIT_BURST" /\ ~err /\ ~end => fsBus' = "WAIT_BURST"
    /\ fsBus = "WAIT_BURST" /\ err => fsBus' = "BUS_ERROR"

LEMMA FsBusStep ==
    ASSUME NEW granted, NEW err, NEW end, FsBusMachine(granted, err, end)
    PROVE  FsMoves(granted, err, end)
  BY DEF FsBusMachine, FsNop, FsRequestBus, FsInitTransaction, FsWaitBurst, FsBusErrorState,
         FsSignalDone, FsBusStates, FsMoves

(* One clock edge of the bus, from the view of the masters. *)

Moves ==
    /\ timeOut \in Nat /\ Timeout \in Nat /\ Timeout > 0
    /\ ArbiterMoves(Begin, End, DataValid)
    /\ DcMoves(DCacheLine \in busGrants, BusErr, End)
    /\ FsMoves(ICacheLine \in busGrants, BusErr, End)

LEMMA BusStep ==
    ASSUME IInv, NEW pause, NEW nextOp, NEW jump, ClockEdge(pause, nextOp, jump)
    PROVE  Moves
<1>1. Begin \in BOOLEAN /\ End \in BOOLEAN /\ BusErr \in BOOLEAN /\ DataValid \in BOOLEAN
  BY DEF Begin, End, BusErr, DataValid
<1>2. timeOut \in Nat /\ Timeout \in Nat /\ Timeout > 0
  BY TimeoutAssumption DEF IInv, TypeOK
<1>3. ArbiterMoves(Begin, End, DataValid)
  BY <1>1, <1>2, ArbiterStep DEF ClockEdge
<1>4. DcMoves(DCacheLine \in busGrants, BusErr, End)
  <2>1. BusMachine(DCacheLine \in busGrants, BusErr, FALSE, End, DataValid, BusWord)
    BY DEF ClockEdge, DcClock
  <2> QED BY <2>1, DcBusStep
<1>5. FsMoves(ICacheLine \in busGrants, BusErr, End)
  <2>1. FsBusMachine(ICacheLine \in busGrants, BusErr, End)
    BY DEF ClockEdge, FsClock
  <2> QED BY <2>1, FsBusStep
<1> QED
  BY <1>2, <1>3, <1>4, <1>5 DEF Moves

(* A master that begins has just been granted the bus, and only one has.    *)
LEMMA BeginStep ==
    ASSUME IInv, MastersInv, NEW pause, NEW nextOp, NEW jump, ClockEdge(pause, nextOp, jump), Begin'
    PROVE  /\ busGrants # {} /\ state = "WAIT_BEGIN" /\ ~Begin
           /\ state' = "WAIT_BEGIN" /\ busGrants' = {}
           /\ ~DcInTransaction /\ ~FsInTransaction
           /\ ~(DcBegin' /\ FsBegin')
           /\ ~Waiting'
           /\ DcBegin' => dcBus = "REQUEST_BUS" /\ ~FsInTransaction'
           /\ FsBegin' => fsBus = "REQUEST_BUS" /\ ~DcInTransaction'
<1>0. Moves
  BY BusStep
<1> USE <1>0 DEF Moves, ArbiterMoves, DcMoves, FsMoves
<1>1. /\ DcBegin' => dcBus = "REQUEST_BUS" /\ DCacheLine \in busGrants
      /\ FsBegin' => fsBus = "REQUEST_BUS" /\ ICacheLine \in busGrants
  BY DEF DcBegin, FsBegin
<1>2. busGrants # {}
  BY <1>1 DEF Begin
<1>3. state = "WAIT_BEGIN" /\ timeOut > 0 /\ ~Begin
  BY <1>2 DEF MastersInv, Tenure
<1>4. state' = "WAIT_BEGIN" /\ busGrants' = {}
  BY <1>3
<1>5. ~DcInTransaction /\ ~FsInTransaction
  BY <1>3 DEF MastersInv, Tenure, DcInTransaction, FsInTransaction, Waiting, Begin, DcBegin, FsBegin
<1>6. ~(DcBegin' /\ FsBegin')
  BY <1>1, OneGrant
<1>7. dcBus' \notin {"WAIT_READ", "DO_WRITE", "END_WRITE", "BUS_ERROR"}
  BY <1>5 DEF DcInTransaction
<1>8. fsBus' \notin {"WAIT_BURST", "BUS_ERROR"}
  BY <1>5 DEF FsInTransaction
<1> QED
  BY <1>1, <1>2, <1>3, <1>4, <1>5, <1>6, <1>7, <1>8
  DEF Waiting, DcInTransaction, FsInTransaction, DcBegin, FsBegin

(* A transaction that goes on was begun by the same master before.          *)
LEMMA TransactionStep ==
    ASSUME IInv, MastersInv, NEW pause, NEW nextOp, NEW jump, ClockEdge(pause, nextOp, jump)
    PROVE  /\ DcInTransaction' /\ ~Begin' => DcInTransaction
           /\ FsInTransaction' /\ ~Begin' => FsInTransaction
           /\ InProgress' => InProgress \/ Begin
<1>0. Moves
  BY BusStep
<1> USE <1>0 DEF Moves, ArbiterMoves, DcMoves, FsMoves
<1>1. DcInTransaction' /\ ~Begin' => DcInTransaction
  BY DEF DcInTransaction, Begin, DcBegin
<1>2. FsInTransaction' /\ ~Begin' => FsInTransaction
  BY DEF FsInTransaction, Begin, FsBegin
<1> QED BY <1>1, <1>2 DEF InProgress

LEMMA MastersStep ==
    ASSUME IInv, MastersInv, NEW pause, NEW nextOp, NEW jump, ClockEdge(pause, nextOp, jump)
    PROVE  MastersInv'
<1>0. Moves
  BY BusStep
<1> USE <1>0 DEF Moves, ArbiterMoves, DcMoves, FsMoves
<1>1. dcBus' \in DcBusStates /\ fsBus' \in FsBusStates
  OBVIOUS
<1>2. ~(DcInTransaction /\ FsInTransaction)'
  <2>1. CASE Begin'
    BY <2>1, BeginStep DEF Begin
  <2>2. CASE ~Begin'
    BY <2>2, TransactionStep DEF MastersInv
  <2> QED BY <2>1, <2>2
<1>3. ArbiterSignals'
  BY DEF MastersInv, ArbiterSignals
<1>4. Tenure'
  <2>1. (busGrants # {} => state = "WAIT_BEGIN" /\ timeOut = Timeout)'
    OBVIOUS
  <2>2. (Begin => state = "WAIT_BEGIN" /\ busGrants = {})'
    BY BeginStep
  <2>3. (dcBus = "DO_WRITE" => state = "SERVICING" /\ timeOut = Timeout)'
    <3> SUFFICES ASSUME dcBus' = "DO_WRITE" PROVE state' = "SERVICING" /\ timeOut' = Timeout
      OBVIOUS
    <3>1. dcBus = "INIT_TRANSACTION"
      OBVIOUS
    <3>2. Begin /\ state = "WAIT_BEGIN"
      BY <3>1 DEF Begin, DcBegin, MastersInv, Tenure
    <3> QED BY <3>2
  <2>4. (dcBus = "END_WRITE" => state \in {"SERVICING", "REMOVE"})'
    <3> SUFFICES ASSUME dcBus' = "END_WRITE" PROVE state' \in {"SERVICING", "REMOVE"}
      OBVIOUS
    <3>1. dcBus = "DO_WRITE"
      OBVIOUS
    <3>2. state = "SERVICING" /\ timeOut > 0 /\ ~Begin
      BY <3>1 DEF MastersInv, Tenure
    <3> QED BY <3>2
  <2>5. ((dcBus = "BUS_ERROR" \/ fsBus = "BUS_ERROR") =>
            state \in {"SERVICING", "INIT_BUS_ERROR", "BUS_ERROR", "REMOVE", "IDLE"})'
    <3> SUFFICES ASSUME dcBus' = "BUS_ERROR" \/ fsBus' = "BUS_ERROR"
                 PROVE  state' \in {"SERVICING", "INIT_BUS_ERROR", "BUS_ERROR", "REMOVE", "IDLE"}
      OBVIOUS
    <3>1. Waiting \/ dcBus = "DO_WRITE"
      BY DEF Waiting
    <3>2. \/ state \in {"SERVICING", "INIT_BUS_ERROR"}
          \/ state = "BUS_ERROR" /\ timeOut > 0
      BY <3>1 DEF MastersInv, Tenure
    <3> QED BY <3>2
  <2>6. (Waiting => \/ state \in {"SERVICING", "INIT_BUS_ERROR"}
                    \/ state = "BUS_ERROR" /\ busErrorOut /\ timeOut = Timeout)'
    <3> SUFFICES ASSUME Waiting'
                 PROVE  \/ state' \in {"SERVICING", "INIT_BUS_ERROR"}
                        \/ state' = "BUS_ERROR" /\ busErrorOut' /\ timeOut' = Timeout
      OBVIOUS
    <3>1. Begin \/ (Waiting /\ ~BusErr /\ ~End)
      BY DEF Waiting, Begin, DcBegin, FsBegin
    <3>2. CASE Begin
      BY <3>2 DEF MastersInv, Tenure
    <3>3. CASE Waiting /\ ~BusErr /\ ~End
      <4>1. ~busErrorOut
        BY <3>3 DEF BusErr
      <4>2. state \in {"SERVICING", "INIT_BUS_ERROR"}
        BY <3>3, <4>1 DEF MastersInv, Tenure
      <4> QED BY <3>3, <4>2
    <3> QED BY <3>1, <3>2, <3>3
  <2> QED BY <2>1, <2>2, <2>3, <2>4, <2>5, <2>6 DEF Tenure
<1> QED BY <1>1, <1>2, <1>3, <1>4 DEF MastersInv

LEMMA MastersInitial == SbInit => MastersInv
  BY DEF SbInit, Init, DcInit, FsInit, MastersInv, DcBusStates, FsBusStates, Tenure, ArbiterSignals,
         DcInTransaction, FsInTransaction, Begin, DcBegin, FsBegin, Waiting

LEMMA MastersInvariance ==
    ASSUME TwoLines
    PROVE  SbSpec => []MastersInv
<1>1. IInv /\ MastersInv /\ [SbNext]_busVars => MastersInv'
  <2> SUFFICES ASSUME IInv, MastersInv, [SbNext]_busVars PROVE MastersInv'
    OBVIOUS
  <2>1. CASE SbNext
    BY <2>1, MastersStep DEF SbNext
  <2>2. CASE UNCHANGED busVars
    BY <2>2 DEF busVars, vars, dcVars, fsVars, fillVars, MastersInv, Tenure, ArbiterSignals,
       DcInTransaction, FsInTransaction, Begin, DcBegin, FsBegin, Waiting
  <2> QED BY <2>1, <2>2
<1> QED BY <1>1, MastersInitial, ArbiterOnBus, PTL DEF SbSpec

(* Never are both masters in a transaction, and a master begins only while  *)
(* the arbiter waits for it: for every time-out, every program and every    *)
(* delay, error or silence of the slaves.                                   *)
THEOREM MastersTakeTurns ==
    ASSUME TwoLines
    PROVE  SbSpec => []OneMaster
<1>1. MastersInv => OneMaster
  BY DEF MastersInv, Tenure, OneMaster
<1> QED BY <1>1, MastersInvariance, PTL

-----------------------------------------------------------------------------
(* What the slaves need: the arbiter waits for the first word of the flash, *)
(* the flash is not busy with itself when it is read, single bytes are not  *)
(* loaded from it, and programs jump to addresses.                          *)

PatientArbiter == Timeout >= 4 * ShiftClocks + 10
FlashIdle      == FlashBusy = {FALSE}
WholeWords     == \A op \in Program : op.kind = "load" => op.target # "flashByte"
JumpsToCode    == JumpTargets \subseteq Pcs

Circumstances == TwoLines /\ PatientArbiter /\ FlashIdle /\ WholeWords /\ JumpsToCode

(* All slaves are at rest when a master begins.                             *)
LEMMA AtBegin ==
    ASSUME SbInv, Begin
    PROVE  /\ state = "WAIT_BEGIN" /\ ~Fresh /\ ~BusErr /\ ~InProgress
           /\ ~DcDataValid /\ ~DcEnd /\ ~FsEnd /\ ~Waiting
           /\ bsState = "IDLE" /\ bsData = bsNoWord
           /\ urState = "IDLE" /\ urData = urNoWord /\ ~urActive
           /\ ~FlBusy /\ (flActive => flEndSeen)
           /\ Answers = {}
<1>1. state = "WAIT_BEGIN" /\ ~(DcInTransaction /\ FsInTransaction) /\ ~InProgress
  BY DEF SbInv, MastersInv, Tenure, InProgress
<1>2. ~DcDataValid /\ ~DcEnd /\ ~FsEnd /\ ~Waiting
  BY <1>1 DEF DcInTransaction, FsInTransaction, Begin, DcBegin, FsBegin, Waiting, DcDataValid, DcEnd, FsEnd
<1>3. ~Fresh /\ flBegun = urStart
  BY <1>1 DEF SbInv, SlavesInv, FreshInv
<1>4. bsState = "IDLE" /\ bsData = bsNoWord
  BY <1>1, <1>2, <1>3 DEF SbInv, SlavesInv, BiosInv, BsStates, BsBusy, Served, DcEnd
<1>5. urState = "IDLE" /\ urData = urNoWord /\ ~urActive
  BY <1>1, <1>3 DEF SbInv, SlavesInv, UartInv, UrStates, Served
<1>6. ~FlBusy /\ (flActive => flEndSeen)
  BY <1>1 DEF SbInv, SlavesInv, FlashInv, Served
<1>7. ~BusErr
  BY <1>1 DEF SbInv, SlavesInv, BiosInv, UartInv, FlashInv, MastersInv, ArbiterSignals, BusErr
<1>8. Answers = {}
  BY <1>4, <1>5, <1>6 DEF Answers, FlBusy, bsNoWord, urNoWord, flNoWord, NoWord
<1> QED BY <1>1, <1>2, <1>3, <1>4, <1>5, <1>6, <1>7, <1>8

(* A slave that answers is not disturbed by an error.                       *)
LEMMA ServedNoError ==
    ASSUME SbInv, Served("bios") \/ Served("flash")
    PROVE  ~BusErr
<1>1. state = "SERVICING" /\ latched.slave # "uart"
      /\ (latched.slave = "flash" => latched.read /\ latched.whole)
  BY DEF Served, SbInv, SlavesInv, LatchedInv
<1>2. ~busErrorOut
  BY <1>1 DEF SbInv, MastersInv, ArbiterSignals
<1>3. ~bsError /\ ~urError /\ ~flError
  BY <1>1 DEF SbInv, SlavesInv, BiosInv, UartInv, FlashInv
<1> QED BY <1>2, <1>3 DEF BusErr

(* While the flash reads, only its own end ends the transaction, after the  *)
(* last word.                                                               *)
LEMMA FlashEndsLast ==
    ASSUME SbInv, FlBusy, End
    PROVE  flState = "IDLE" /\ ~flWordValid
<1>1. Served("flash")
  BY DEF SbInv, SlavesInv, FlashInv
<1>2. ~DcEnd /\ ~FsEnd
  BY <1>1 DEF Served, Waiting, SbInv, MastersInv, DcInTransaction, FsInTransaction, DcEnd, FsEnd
<1>3. ~endTransactionOut
  BY <1>1 DEF Served, SbInv, MastersInv, ArbiterSignals
<1>4. ~bsEnd /\ ~urEnd
  BY <1>1 DEF Served, SbInv, SlavesInv, BiosInv, UartInv
<1>5. flEnd
  BY <1>2, <1>3, <1>4 DEF End
<1> QED BY <1>5 DEF SbInv, SlavesInv, FlashInv

(* A read that is answered goes on.                                         *)
LEMMA ServedGoesOn ==
    ASSUME IInv, SbInv, NEW pause, NEW nextOp, NEW jump, ClockEdge(pause, nextOp, jump),
           Waiting, state = "SERVICING", ~End, ~BusErr, timeOut > 0
    PROVE  /\ Waiting' /\ state' = "SERVICING" /\ ~Fresh' /\ latched' = latched
           /\ timeOut' = IF DataValid THEN Timeout ELSE timeOut - 1
<1>0. Moves
  BY BusStep
<1> USE <1>0 DEF Moves, ArbiterMoves, DcMoves, FsMoves
<1>1. ~Begin
  BY DEF SbInv, MastersInv, Tenure
<1>2. Waiting'
  BY DEF Waiting
<1>3. state' = "SERVICING" /\ timeOut' = IF DataValid THEN Timeout ELSE timeOut - 1
  BY <1>1
<1>4. ~Fresh' /\ latched' = latched
  BY <1>1 DEF ClockEdge, UrClock, UrRegisters, Latch, Fresh
<1> QED BY <1>2, <1>3, <1>4

(* A transaction without an end or an error goes on.                        *)
LEMMA ProgressStep ==
    ASSUME IInv, SbInv, NEW pause, NEW nextOp, NEW jump, ClockEdge(pause, nextOp, jump)
    PROVE  /\ InProgress /\ ~End => InProgress'
           /\ Begin => InProgress'
           /\ ~Begin => latched' = latched
           /\ Fresh' <=> Begin
<1>0. Moves
  BY BusStep
<1> USE <1>0 DEF Moves, ArbiterMoves, DcMoves, FsMoves
<1>1. ASSUME InProgress, ~End PROVE InProgress'
  <2>1. ~Begin /\ (dcBus \in {"WAIT_READ", "DO_WRITE"} \/ fsBus = "WAIT_BURST")
    BY <1>1 DEF InProgress, End, DcEnd, FsEnd, DcInTransaction, FsInTransaction, Begin, DcBegin, FsBegin
  <2>2. dcBus' \in {"WAIT_READ", "BUS_ERROR", "END_WRITE"} \/ fsBus' \in {"WAIT_BURST", "BUS_ERROR"}
    BY <1>1, <2>1
  <2>3. ~Begin'
    <3> SUFFICES ASSUME Begin' PROVE FALSE
      OBVIOUS
    <3> QED BY <2>2, BeginStep, <1>1 DEF SbInv, InProgress
  <2> QED BY <2>2, <2>3 DEF InProgress, DcInTransaction, FsInTransaction
<1>2. ASSUME Begin PROVE InProgress'
  <2>1. dcBus' \in {"WAIT_READ", "DO_WRITE"} \/ fsBus' = "WAIT_BURST"
    BY <1>2 DEF Begin, DcBegin, FsBegin
  <2>2. ~Begin'
    BY <1>2, BeginStep DEF SbInv
  <2> QED BY <2>1, <2>2 DEF InProgress, DcInTransaction, FsInTransaction
<1>3. (~Begin => latched' = latched) /\ (Fresh' <=> Begin)
  BY DEF ClockEdge, UrClock, UrRegisters, Latch, Fresh
<1> QED BY <1>1, <1>2, <1>3

LEMMA LatchedStep ==
    ASSUME Circumstances, IInv, SbInv, NEW pause, NEW nextOp \in Program \cup {NoOp}, NEW jump,
           ClockEdge(pause, nextOp, jump)
    PROVE  LatchedInv'
<1>1. LatchedInv
  BY DEF SbInv, SlavesInv
<1>2. fsPc' \in Nat /\ fsProgramCounter' \in Nat
  <2>1. \/ UNCHANGED <<fsPc, fsProgramCounter>>
        \/ /\ fsProgramCounter' = fsPc
           /\ fsPc' = NextPc(FALSE, jump \in JumpTargets, jump)
    BY DEF ClockEdge, FsClock, ProgramCounters
  <2>2. jump \in JumpTargets => jump \in Nat
    BY FetchAssumption DEF Circumstances, JumpsToCode, Pcs
  <2>3. (fsPc + 1) % Addresses \in Nat
    BY <1>1, FetchAssumption DEF LatchedInv
  <2>4. NextPc(FALSE, jump \in JumpTargets, jump) \in Nat
    BY <2>2, <2>3 DEF NextPc
  <2> QED BY <1>1, <2>1, <2>4 DEF LatchedInv
<1>3. /\ (exeOp.kind = "load" => exeOp.target # "flashByte")'
      /\ (dcOp.kind = "load" => dcOp.target # "flashByte")'
  <2>1. nextOp.kind = "load" => nextOp.target # "flashByte"
    BY DEF Circumstances, WholeWords, NoOp
  <2>2. UNCHANGED <<exeOp, dcOp>> \/ (exeOp' = nextOp /\ dcOp' = exeOp)
    BY DEF ClockEdge, DcClock, StallRegisters
  <2> QED BY <1>1, <2>1, <2>2 DEF LatchedInv
<1>4. /\ (latched.slave \in {"bios", "uart", "flash"} => latched.from \in Nat)'
      /\ (latched.slave = "flash" /\ latched.read => latched.whole)'
  <2>1. CASE ~Begin
    BY <1>1, <2>1 DEF LatchedInv, ClockEdge, Latch
  <2>2. CASE Begin
    <3>1. latched' = IF DcBegin THEN DataTransaction ELSE CodeTransaction
      BY <2>2, AtBegin DEF ClockEdge, Latch, SbInv, MastersInv, DcBegin, FsBegin,
         DcInTransaction, FsInTransaction
    <3>2. DataTransaction.slave \in {"bios", "uart", "flash"} => DataTransaction.from \in Nat
      BY DEF DataTransaction, Transaction, WordAt
    <3>3. DataTransaction.slave = "flash" /\ DataTransaction.read => DataTransaction.whole
      <4> SUFFICES ASSUME SlaveOf(dcOp.target) = "flash", dcOp.kind = "load"
                   PROVE  dcOp.target \notin {"uart", "flashByte"}
        BY DEF DataTransaction, Transaction
      <4>1. dcOp.target # "uart"
        BY DEF SlaveOf
      <4> QED BY <1>1, <4>1 DEF LatchedInv
    <3>4. CodeTransaction.from \in Nat /\ CodeTransaction.whole
      <4>1. LineOf(fsProgramCounter) \in Nat /\ WordsPerLine \in Nat
        BY <1>1, FetchAssumption DEF LatchedInv, LineOf
      <4>2. FsAddress \in Nat
        BY <4>1 DEF FsAddress
      <4> QED BY <4>2 DEF CodeTransaction, Transaction
    <3> QED BY <3>1, <3>2, <3>3, <3>4
  <2> QED BY <2>1, <2>2
<1> QED BY <1>2, <1>3, <1>4 DEF LatchedInv

LEMMA FreshStep ==
    ASSUME Circumstances, IInv, SbInv, NEW pause, NEW nextOp, NEW jump,
           ClockEdge(pause, nextOp, jump)
    PROVE  FreshInv'
<1>0. Moves
  BY BusStep
<1>1. flBegun' = urStart' /\ (Fresh' <=> Begin)
  BY DEF ClockEdge, UrClock, UrRegisters, FlClock, FlBusRegisters, Fresh
<1> SUFFICES ASSUME Begin
             PROVE  /\ state' = "SERVICING" /\ timeOut' = Timeout
                    /\ Waiting' \/ dcBus' = "DO_WRITE"
                    /\ Waiting' <=> latched'.read
                    /\ ~End' /\ ~BusErr'
                    /\ ~BsBusy' /\ ~FlBusy' /\ urState' = "IDLE"
  BY <1>1 DEF FreshInv
<1>2. /\ state = "WAIT_BEGIN" /\ ~Fresh /\ ~BusErr /\ ~InProgress
      /\ ~DcDataValid /\ ~DcEnd /\ ~FsEnd /\ ~Waiting
      /\ bsState = "IDLE" /\ bsData = bsNoWord
      /\ urState = "IDLE" /\ urData = urNoWord /\ ~urActive
      /\ ~FlBusy /\ (flActive => flEndSeen)
      /\ Answers = {}
  BY AtBegin
<1>3. state' = "SERVICING" /\ timeOut' = Timeout
  BY <1>0, <1>2 DEF Moves, ArbiterMoves
<1>4. ~(DcInTransaction /\ FsInTransaction)
  BY DEF SbInv, MastersInv
<1>5. (Waiting' \/ dcBus' = "DO_WRITE") /\ (Waiting' <=> latched'.read)
  <2>1. CASE DcBegin
    <3>1. ~FsBegin /\ fsBus # "WAIT_BURST"
      BY <2>1, <1>4 DEF DcInTransaction, FsInTransaction, DcBegin, FsBegin
    <3>2. latched'.read <=> dcOp.kind = "load"
      BY <1>2, <2>1, <3>1 DEF ClockEdge, Latch, DataTransaction, Transaction
    <3>3. fsBus' # "WAIT_BURST" /\ dcBus' \in {"WAIT_READ", "DO_WRITE"}
          /\ (dcBus' = "DO_WRITE" => dcOp.kind # "load") /\ (dcBus' = "WAIT_READ" => dcOp.kind = "load")
      BY <1>0, <2>1, <3>1 DEF Moves, DcMoves, FsMoves, DcBegin, FsBegin
    <3> QED BY <3>2, <3>3 DEF Waiting
  <2>2. CASE ~DcBegin
    <3>1. FsBegin
      BY <2>2 DEF Begin
    <3>2. latched'.read
      BY <1>2, <2>2, <3>1 DEF ClockEdge, Latch, CodeTransaction, Transaction
    <3>3. fsBus' = "WAIT_BURST"
      BY <1>0, <3>1 DEF Moves, FsMoves, FsBegin
    <3> QED BY <3>2, <3>3 DEF Waiting
  <2> QED BY <2>1, <2>2
<1>6. bsState' = "INTERPRET" /\ ~bsEnd' /\ ~bsError'
  BY <1>2 DEF ClockEdge, BsClock, BsIdle, BsInterpret, BsBurst, BsBusError, BsEndTransaction, BsOutputs
<1>7. urState' = "IDLE" /\ ~urEnd' /\ ~urError'
  BY <1>2 DEF ClockEdge, UrClock, UrReadMachine, UrRegisters, UrRead, UrIsBusError, UrMyTransaction, Fresh
<1>8. flState' = "IDLE" /\ ~flWordValid' /\ flData' = flNoWord
  <2>1. ~flBegun
    BY <1>2 DEF SbInv, SlavesInv, FreshInv, Fresh
  <2>2. flState' = "IDLE"
    BY <1>2, <2>1 DEF ClockEdge, FlClock, FlBusy, FlIdle, FlWaitBusy, FlCheckBusy, FlSendCommand,
       FlPreamble, FlWaitWord, FlStartRead
  <2> QED BY <1>2, <2>2 DEF ClockEdge, FlClock, FlWords, FlBusy
<1>9. ~flEnd' /\ ~flError'
  BY <1>2 DEF ClockEdge, FlClock, FlBusRegisters, FlBusy, FlRefused, FlMyTransaction
<1>10. ~busErrorOut' /\ ~endTransactionOut'
  BY <1>0, <1>2 DEF Moves, ArbiterMoves
<1>11. ~DcEnd' /\ ~FsEnd'
  BY <1>0, <1>2, <1>4 DEF Moves, DcMoves, FsMoves, DcEnd, FsEnd, Waiting, DcInTransaction, FsInTransaction,
     Begin, DcBegin, FsBegin, DcDataValid
<1>12. ~End' /\ ~BusErr'
  BY <1>6, <1>7, <1>9, <1>10, <1>11 DEF End, BusErr
<1>13. ~BsBusy' /\ ~FlBusy'
  BY <1>6, <1>8 DEF BsBusy, FlBusy
<1> QED BY <1>3, <1>5, <1>7, <1>12, <1>13

LEMMA BiosStep ==
    ASSUME Circumstances, IInv, SbInv, NEW pause, NEW nextOp, NEW jump,
           ClockEdge(pause, nextOp, jump)
    PROVE  BiosInv'
<1>0. Moves
  BY BusStep
<1>1. BiosInv
  BY DEF SbInv, SlavesInv
<1>2. BsClock(Begin, End, latched)
  BY DEF ClockEdge
<1>3. bsState' \in BsStates /\ (bsState' = "INTERPRET" => Fresh')
  BY <1>1, <1>2, ProgressStep DEF BsClock, BsIdle, BsInterpret, BsBurst, BsBusError, BsEndTransaction,
     BsStates
<1>4. ~bsError'
  BY <1>1, <1>2 DEF BiosInv, BsClock, BsOutputs, End, DcEnd
<1>5. (bsEnd => latched.slave = "bios" /\ ~Fresh)'
  <2> SUFFICES ASSUME bsEnd' PROVE latched'.slave = "bios" /\ ~Fresh'
    OBVIOUS
  <2>1. BsBusy
    BY <1>2 DEF BsClock, BsOutputs, BsBusy
  <2>2. ~Begin /\ latched.slave = "bios"
    BY <2>1, <1>1, AtBegin DEF BiosInv, Served
  <2> QED BY <2>2, ProgressStep
<1>6. (bsState = "BUSERROR" => dcBus = "END_WRITE")'
  <2> SUFFICES ASSUME bsState' = "BUSERROR" PROVE dcBus' = "END_WRITE"
    OBVIOUS
  <2>1. bsState = "INTERPRET" /\ BsMyBurst(latched) /\ ~latched.read
    BY <1>1, <1>2 DEF BiosInv, End, DcEnd, BsClock, BsIdle, BsInterpret, BsBurst, BsBusError,
       BsEndTransaction
  <2>2. Fresh
    BY <1>1, <2>1 DEF BiosInv
  <2>3. dcBus = "DO_WRITE" /\ ~BusErr
    BY <2>1, <2>2 DEF SbInv, SlavesInv, FreshInv
  <2> QED BY <2>3, <1>0 DEF Moves, DcMoves
<1>7. (bsData # bsNoWord)' => BsBusy' /\ bsState = "BURST"
  BY <1>2 DEF BsClock, BsOutputs, BsIdle, BsInterpret, BsBurst, BsBusError, BsEndTransaction, BsBusy
<1>8. ASSUME BsBusy'
      PROVE  /\ bsState = "INTERPRET" \/ bsState = "BURST"
             /\ bsState = "INTERPRET" => latched.slave = "bios" /\ latched.read /\ bsState' = "BURST"
             /\ bsState = "BURST" => ~End
  BY <1>1, <1>2, <1>8 DEF BiosInv, BsStates, BsClock, BsIdle, BsInterpret, BsBurst, BsBusError,
     BsEndTransaction, BsBusy, BsMyBurst
<1>9. ASSUME BsBusy', bsState = "INTERPRET"
      PROVE  /\ Served("bios")' /\ timeOut' = Timeout - 1
             /\ bsState' = "BURST" /\ bsAddress' \in Nat
  <2>1. Fresh /\ latched.slave = "bios" /\ latched.read /\ bsState' = "BURST"
    BY <1>1, <1>8, <1>9 DEF BiosInv
  <2>2. state = "SERVICING" /\ timeOut = Timeout /\ Waiting /\ ~End /\ ~BusErr
    BY <2>1 DEF SbInv, SlavesInv, FreshInv
  <2>3. ~DataValid
    <3>1. ~DcDataValid
      BY <2>2 DEF SbInv, MastersInv, DcInTransaction, FsInTransaction, Waiting, DcDataValid
    <3>2. Answers = {}
      BY <2>1 DEF SbInv, SlavesInv, FreshInv, BiosInv, UartInv, FlBusy, Answers, NoWord, bsNoWord,
         urNoWord, flNoWord
    <3> QED BY <3>1, <3>2 DEF DataValid
  <2>4. timeOut > 0
    BY <2>2, <1>0 DEF Moves
  <2>5. /\ Waiting' /\ state' = "SERVICING" /\ ~Fresh' /\ latched' = latched
        /\ timeOut' = Timeout - 1
    BY <2>2, <2>3, <2>4, ServedGoesOn
  <2>6. bsAddress' = latched.from
    <3>1. BsMyBurst(latched)
      BY <1>9, <1>2 DEF BsClock, BsIdle, BsInterpret, BsBurst, BsBusError, BsEndTransaction, BsBusy
    <3> QED BY <1>2, <1>9, <3>1 DEF BsClock, BsCounters
  <2>7. latched.from \in Nat
    BY <2>1 DEF SbInv, SlavesInv, LatchedInv
  <2> QED BY <2>1, <2>5, <2>6, <2>7 DEF Served
<1>10. ASSUME BsBusy', bsState = "BURST"
       PROVE  /\ Served("bios")' /\ timeOut' = IF bsData # bsNoWord THEN Timeout ELSE timeOut - 1
              /\ bsData' # bsNoWord /\ bsAddress' \in Nat
  <2>1. Served("bios") /\ timeOut >= 1 /\ ~End /\ bsAddress \in Nat
    BY <1>0, <1>1, <1>8, <1>10 DEF BiosInv, BsBusy, Moves
  <2>2. ~BusErr
    BY <2>1, ServedNoError
  <2>3. DataValid <=> bsData # bsNoWord
    <3>1. ~DcDataValid
      BY <2>1 DEF Served, SbInv, MastersInv, DcInTransaction, FsInTransaction, Waiting, DcDataValid
    <3>2. urData = urNoWord /\ flData = flNoWord
      BY <2>1 DEF Served, SbInv, SlavesInv, UartInv, FlashInv, FlBusy
    <3> QED BY <3>1, <3>2 DEF DataValid, Answers, NoWord, bsNoWord, urNoWord, flNoWord
  <2>4. /\ Waiting' /\ state' = "SERVICING" /\ ~Fresh' /\ latched' = latched
        /\ timeOut' = IF DataValid THEN Timeout ELSE timeOut - 1
    BY <2>1, <2>2, <1>0, ServedGoesOn DEF Served, Moves
  <2>5. bsData' = bsAddress /\ bsAddress' = bsAddress + 1
    BY <1>2, <1>10, <2>1 DEF BsClock, BsOutputs, BsCounters
  <2> QED BY <2>1, <2>3, <2>4, <2>5 DEF Served, bsNoWord
<1>11. (BsBusy => Served("bios") /\ timeOut >= IF bsData # bsNoWord THEN 1
                                               ELSE IF bsState = "BURST" THEN 2 ELSE 1)'
  <2> SUFFICES ASSUME BsBusy' PROVE Served("bios")' /\ timeOut' >= IF bsData' # bsNoWord THEN 1
                                               ELSE IF bsState' = "BURST" THEN 2 ELSE 1
    OBVIOUS
  <2>1. Timeout \in Nat /\ Timeout >= 10 /\ timeOut \in Nat
    BY <1>0, FlashAssumption DEF Circumstances, PatientArbiter, Moves
  <2>2. CASE bsState = "INTERPRET"
    BY <2>1, <2>2, <1>9
  <2>3. CASE bsState = "BURST"
    <3>1. timeOut >= IF bsData # bsNoWord THEN 1 ELSE 2
      BY <2>3, <1>1 DEF BiosInv, BsBusy
    <3> QED BY <2>1, <2>3, <3>1, <1>10
  <2> QED BY <2>2, <2>3, <1>8
<1>12. (bsState = "BURST" => bsAddress \in Nat)'
  BY <1>8, <1>9, <1>10 DEF BsBusy
<1> QED BY <1>3, <1>4, <1>5, <1>6, <1>7, <1>11, <1>12 DEF BiosInv

LEMMA UartStep ==
    ASSUME Circumstances, IInv, SbInv, NEW pause, NEW nextOp, NEW jump,
           ClockEdge(pause, nextOp, jump)
    PROVE  UartInv'
<1>0. Moves
  BY BusStep
<1>1. UartInv
  BY DEF SbInv, SlavesInv
<1>2. UrReadMachine(FALSE, latched) /\ UrRegisters(Begin, End, DataValid, FALSE, latched)
  BY DEF ClockEdge, UrClock
<1>3. urState' \in UrStates
  BY <1>1, <1>2 DEF UartInv, UrReadMachine, UrStates
<1>4. (urActive => InProgress)'
  BY <1>1, <1>2, ProgressStep DEF UartInv, UrRegisters
<1>5. urState' = "WAIT" => urState = "IDLE" /\ UrRead(latched)
  BY <1>1, <1>2 DEF UartInv, UrReadMachine, UrStates
<1>6. (urState = "WAIT" => Served("uart"))'
  <2> SUFFICES ASSUME urState' = "WAIT" PROVE Served("uart")'
    OBVIOUS
  <2>1. Fresh /\ latched.slave = "uart" /\ latched.read
    BY <1>5 DEF UrRead, UrMyTransaction, Fresh
  <2>2. Waiting /\ state = "SERVICING" /\ ~End /\ ~BusErr /\ timeOut > 0
    BY <2>1, <1>0 DEF SbInv, SlavesInv, FreshInv, Moves
  <2>3. Waiting' /\ state' = "SERVICING" /\ ~Fresh' /\ latched' = latched
    BY <2>2, ServedGoesOn
  <2> QED BY <2>1, <2>3 DEF Served
<1>7. (urData # urNoWord => urState = "WAIT")'
  <2> SUFFICES ASSUME urData' # urNoWord PROVE urState' = "WAIT"
    OBVIOUS
  <2>1. urState # "WAIT"
    BY <1>2 DEF UrRegisters
  <2>2. urState = "IDLE" /\ UrRead(latched)
    BY <1>1, <1>2, <2>1 DEF UartInv, UrRegisters, UrRead
  <2> QED BY <1>2, <2>2 DEF UrReadMachine
<1>8. (urState = "END" => latched.slave = "uart" /\ state # "WAIT_BEGIN")'
  <2> SUFFICES ASSUME urState' = "END" PROVE latched'.slave = "uart" /\ state' # "WAIT_BEGIN"
    OBVIOUS
  <2>1. urState = "WAIT"
    BY <1>1, <1>2 DEF UartInv, UrReadMachine, UrStates
  <2>2. latched.slave = "uart" /\ state = "SERVICING"
    BY <1>1, <2>1 DEF UartInv, Served
  <2>3. ~Begin
    BY <2>2, AtBegin
  <2> QED BY <1>0, <2>2, <2>3, ProgressStep DEF Moves, ArbiterMoves
<1>9. (urEnd => latched.slave = "uart" /\ ~Fresh)'
  <2> SUFFICES ASSUME urEnd' PROVE latched'.slave = "uart" /\ ~Fresh'
    OBVIOUS
  <2>1. latched.slave = "uart" /\ state # "WAIT_BEGIN"
    BY <1>1, <1>2 DEF UartInv, UrRegisters
  <2>2. ~Begin
    BY <2>1, AtBegin
  <2> QED BY <2>1, <2>2, ProgressStep
<1>10. (urError => latched.slave = "uart" /\ InProgress /\ ~Fresh)'
  <2> SUFFICES ASSUME urError' PROVE latched'.slave = "uart" /\ InProgress' /\ ~Fresh'
    OBVIOUS
  <2>1. ~End /\ urActive /\ latched.slave = "uart"
    BY <1>2 DEF UrRegisters, UrIsBusError, UrMyTransaction
  <2>2. InProgress /\ ~Begin
    BY <1>1, <2>1 DEF UartInv, InProgress
  <2> QED BY <2>1, <2>2, ProgressStep
<1> QED BY <1>3, <1>4, <1>6, <1>7, <1>8, <1>9, <1>10 DEF UartInv

-----------------------------------------------------------------------------
(* The flash. *)

(* One clock of the read machine, while the flash is not busy with itself.  *)
FlMoves(start) ==
    /\ flState = "IDLE" => flState' = IF start THEN "WAITBUSY" ELSE "IDLE"
    /\ flState = "WAITBUSY" => flState' = "CHECKBUSY"
    /\ flState = "CHECKBUSY" => flState' = "SENDCOMMAND"
    /\ flState = "SENDCOMMAND" => flState' = "WAITCOMMAND" /\ flShift' = ShiftClocks
    /\ flState = "WAITCOMMAND" =>
           IF flShift = 0 THEN flState' = "WAITADDRESS" /\ flShift' = ShiftClocks
                          ELSE flState' = "WAITCOMMAND" /\ flShift' = flShift - 1
    /\ flState = "WAITADDRESS" =>
           IF flShift = 0 THEN flState' = "WAITDUMMY" /\ flShift' = ShiftClocks
                          ELSE flState' = "WAITADDRESS" /\ flShift' = flShift - 1
    /\ flState = "WAITDUMMY" =>
           IF flShift = 0 THEN flState' = "WAITWORD" /\ flShift' = ShiftClocks
                          ELSE flState' = "WAITDUMMY" /\ flShift' = flShift - 1
    /\ flState = "WAITWORD" =>
           IF flShift = 0 THEN flState' \in {"WAITWORD", "IDLE"}
                          ELSE flState' = "WAITWORD" /\ flShift' = flShift - 1

LEMMA FlashMoves ==
    ASSUME Circumstances, SbInv, NEW pause, NEW nextOp, NEW jump, ClockEdge(pause, nextOp, jump)
    PROVE  /\ FlMoves(FlStartRead(latched))
           /\ flState' \in FlStates /\ flShift' \in 0 .. ShiftClocks
           /\ flWordValid' <=> flState = "WAITWORD" /\ flShift = 0
<1>1. flState \in FlStates /\ flShift \in 0 .. ShiftClocks /\ ShiftClocks \in Nat /\ ~flashBusy
  BY FlashAssumption DEF SbInv, SlavesInv, FlashInv
<1>2. /\ \/ FlIdle(latched) \/ FlWaitBusy(flashBusy) \/ FlCheckBusy(flashBusy)
         \/ FlSendCommand \/ FlPreamble \/ FlWaitWord
      /\ FlShifting /\ FlWords(BusErr, latched)
  BY DEF ClockEdge, FlClock
<1>3. flShift' \in 0 .. ShiftClocks
  BY <1>1, <1>2 DEF FlShifting, FlShiftDone
<1>4. flWordValid' <=> flState = "WAITWORD" /\ flShift = 0
  BY <1>2 DEF FlWords, FlShiftDone
<1>5. CASE flState \in {"IDLE", "WAITBUSY", "CHECKBUSY", "SENDCOMMAND"}
  <2>1. FlMoves(FlStartRead(latched))
    BY <1>1, <1>2, <1>5 DEF FlMoves, FlIdle, FlWaitBusy, FlCheckBusy, FlSendCommand, FlPreamble,
       FlWaitWord, FlShifting
  <2>2. flState' \in FlStates
    BY <1>5, <2>1 DEF FlMoves, FlStates
  <2> QED BY <1>3, <1>4, <2>1, <2>2
<1>6. CASE flState \in {"WAITCOMMAND", "WAITADDRESS", "WAITDUMMY"}
  <2>1. FlPreamble
    BY <1>2, <1>6 DEF FlIdle, FlWaitBusy, FlCheckBusy, FlSendCommand, FlWaitWord
  <2>2. /\ flState = "WAITCOMMAND" => flState' = IF flShift = 0 THEN "WAITADDRESS" ELSE "WAITCOMMAND"
        /\ flState = "WAITADDRESS" => flState' = IF flShift = 0 THEN "WAITDUMMY" ELSE "WAITADDRESS"
        /\ flState = "WAITDUMMY" => flState' = IF flShift = 0 THEN "WAITWORD" ELSE "WAITDUMMY"
    BY <1>6, <2>1 DEF FlPreamble, FlShiftDone
  <2>3. flShift' = IF flShift = 0 THEN ShiftClocks ELSE flShift - 1
    BY <1>2, <1>6 DEF FlShifting, FlShiftDone, FlNextWord
  <2> QED BY <1>3, <1>4, <1>6, <2>2, <2>3 DEF FlMoves, FlStates
<1>7. CASE flState = "WAITWORD"
  <2>1. FlWaitWord
    BY <1>2, <1>7 DEF FlIdle, FlWaitBusy, FlCheckBusy, FlSendCommand, FlPreamble
  <2>2. flShift # 0 => flState' = "WAITWORD" /\ flShift' = flShift - 1
    BY <1>2, <1>7, <2>1 DEF FlWaitWord, FlShifting, FlShiftDone, FlNextWord
  <2>3. flState' \in {"WAITWORD", "IDLE"}
    BY <2>1 DEF FlWaitWord
  <2> QED BY <1>3, <1>4, <1>7, <2>2, <2>3 DEF FlMoves, FlStates
<1> QED BY <1>1, <1>5, <1>6, <1>7 DEF FlStates

(* The clocks until the next word go down one by one, or start again after *)
(* a word.                                                                 *)
LEMMA SlackStep ==
    ASSUME Circumstances, SbInv, NEW pause, NEW nextOp, NEW jump, ClockEdge(pause, nextOp, jump),
           FlBusy, FlBusy'
    PROVE  /\ FlSlack \in Nat /\ FlSlack >= 1 /\ FlSlack' \in Nat
           /\ flData # flNoWord => FlSlack' <= 4 * ShiftClocks + 9
           /\ flData = flNoWord => FlSlack' <= FlSlack - 1
<1>0. /\ FlMoves(FlStartRead(latched))
      /\ flState' \in FlStates /\ flShift' \in 0 .. ShiftClocks
      /\ flWordValid' <=> flState = "WAITWORD" /\ flShift = 0
  BY FlashMoves
<1>1. FlashInv /\ flState \in FlStates /\ flShift \in 0 .. ShiftClocks /\ ShiftClocks \in Nat
  BY FlashAssumption DEF SbInv, SlavesInv, FlashInv
<1>2. flData' = IF flWordValid THEN flNext ELSE flNoWord
  BY DEF ClockEdge, FlClock, FlWords
<1>3. flWordValid => flData' # flNoWord
  BY <1>1, <1>2 DEF FlashInv, flNoWord
<1>4. FlSlack \in Nat /\ FlSlack >= 1
  BY <1>1 DEF FlSlack
<1>5. FlSlack' \in Nat /\ FlSlack' <= 4 * ShiftClocks + 9
  <2>1. PICK shift \in 0 .. ShiftClocks : shift = flShift'
    BY <1>0
  <2>2. FlSlack' \in {1, 2, shift + 3, shift + ShiftClocks + 4, shift + 2 * ShiftClocks + 5,
                      shift + 3 * ShiftClocks + 6, 4 * ShiftClocks + 7, 4 * ShiftClocks + 8,
                      4 * ShiftClocks + 9}
    BY <2>1 DEF FlSlack
  <2> HIDE DEF FlSlack
  <2>3. PICK slack : slack = FlSlack'
    OBVIOUS
  <2>4. slack \in Nat /\ slack <= 4 * ShiftClocks + 9
    BY <1>1, <2>2, <2>3
  <2> QED BY <2>3, <2>4
<1>6. ASSUME flData = flNoWord PROVE FlSlack' <= FlSlack - 1
  <2>1. CASE flWordValid
    BY <1>3, <1>6, <2>1 DEF FlSlack
  <2>2. CASE ~flWordValid
    <3>1. flData' = flNoWord /\ flState # "IDLE"
      BY <1>2, <1>6, <2>2 DEF FlBusy
    <3>2. CASE flState = "WAITWORD" /\ flShift = 0
      BY <1>0, <1>6, <2>2, <3>1, <3>2 DEF FlSlack
    <3>3. CASE ~(flState = "WAITWORD" /\ flShift = 0)
      <4>1. ~flWordValid'
        BY <1>0, <3>3
      <4>2. CASE flState = "WAITWORD"
        <5>1. flState' = "WAITWORD" /\ flShift' = flShift - 1
          BY <1>0, <3>3, <4>2 DEF FlMoves
        <5> QED BY <1>1, <1>6, <2>2, <3>1, <4>1, <4>2, <5>1 DEF FlSlack
      <4>3. CASE flState = "WAITDUMMY"
        <5>1. IF flShift = 0 THEN flState' = "WAITWORD" /\ flShift' = ShiftClocks
                             ELSE flState' = "WAITDUMMY" /\ flShift' = flShift - 1
          BY <1>0, <4>3 DEF FlMoves
        <5> QED BY <1>1, <1>6, <2>2, <3>1, <4>1, <4>3, <5>1 DEF FlSlack
      <4>4. CASE flState = "WAITADDRESS"
        <5>1. IF flShift = 0 THEN flState' = "WAITDUMMY" /\ flShift' = ShiftClocks
                             ELSE flState' = "WAITADDRESS" /\ flShift' = flShift - 1
          BY <1>0, <4>4 DEF FlMoves
        <5> QED BY <1>1, <1>6, <2>2, <3>1, <4>1, <4>4, <5>1 DEF FlSlack
      <4>5. CASE flState = "WAITCOMMAND"
        <5>1. IF flShift = 0 THEN flState' = "WAITADDRESS" /\ flShift' = ShiftClocks
                             ELSE flState' = "WAITCOMMAND" /\ flShift' = flShift - 1
          BY <1>0, <4>5 DEF FlMoves
        <5> QED BY <1>1, <1>6, <2>2, <3>1, <4>1, <4>5, <5>1 DEF FlSlack
      <4>6. CASE flState = "SENDCOMMAND"
        <5>1. flState' = "WAITCOMMAND" /\ flShift' = ShiftClocks
          BY <1>0, <4>6 DEF FlMoves
        <5> QED BY <1>1, <1>6, <2>2, <3>1, <4>1, <4>6, <5>1 DEF FlSlack
      <4>7. CASE flState = "CHECKBUSY"
        <5>1. flState' = "SENDCOMMAND"
          BY <1>0, <4>7 DEF FlMoves
        <5> QED BY <1>1, <1>6, <2>2, <3>1, <4>1, <4>7, <5>1 DEF FlSlack
      <4>8. CASE flState = "WAITBUSY"
        <5>1. flState' = "CHECKBUSY"
          BY <1>0, <4>8 DEF FlMoves
        <5> QED BY <1>1, <1>6, <2>2, <3>1, <4>1, <4>8, <5>1 DEF FlSlack
      <4> QED BY <1>1, <3>1, <4>2, <4>3, <4>4, <4>5, <4>6, <4>7, <4>8 DEF FlStates
    <3> QED BY <3>2, <3>3
  <2> QED BY <2>1, <2>2
<1> QED BY <1>4, <1>5, <1>6

LEMMA FlashStep ==
    ASSUME Circumstances, IInv, SbInv, NEW pause, NEW nextOp, NEW jump,
           ClockEdge(pause, nextOp, jump)
    PROVE  FlashInv'
<1>0. Moves
  BY BusStep
<1>1. FlashInv /\ flBegun = urStart
  BY DEF SbInv, SlavesInv, FreshInv
<1>2. FlBusRegisters(Begin, End, BusErr, latched) /\ FlWords(BusErr, latched)
  BY DEF ClockEdge, FlClock
<1>3. /\ FlMoves(FlStartRead(latched))
      /\ flState' \in FlStates /\ flShift' \in 0 .. ShiftClocks
      /\ flWordValid' <=> flState = "WAITWORD" /\ flShift = 0
  BY FlashMoves
<1>4. flashBusy' = FALSE
  BY DEF ClockEdge, Circumstances, FlashIdle
<1>5. flData' = IF flWordValid THEN flNext ELSE flNoWord
  BY <1>2 DEF FlWords
<1>6. Timeout \in Nat /\ Timeout >= 4 * ShiftClocks + 10 /\ timeOut \in Nat /\ ShiftClocks \in Nat
  BY <1>0, FlashAssumption DEF Moves, Circumstances, PatientArbiter
<1>7. FlBusy => ~FlStartRead(latched) /\ Served("flash") /\ ~BusErr /\ timeOut >= 1 /\ timeOut >= FlSlack
  <2> SUFFICES ASSUME FlBusy
               PROVE  ~FlStartRead(latched) /\ Served("flash") /\ ~BusErr /\ timeOut >= 1 /\ timeOut >= FlSlack
    OBVIOUS
  <2>1. Served("flash") /\ timeOut >= FlSlack
    BY <1>1 DEF FlashInv
  <2>2. ~BusErr
    BY <2>1, ServedNoError
  <2>3. ~FlStartRead(latched)
    BY <1>1, <2>1 DEF FlStartRead, Served, Fresh
  <2>4. FlSlack \in Nat /\ FlSlack >= 1
    BY <1>1, <1>6 DEF FlashInv, FlSlack
  <2> QED BY <1>6, <2>1, <2>2, <2>3, <2>4
<1>8. (flWordValid \/ flData # flNoWord => flState \in {"WAITWORD", "IDLE"})'
  <2>1. CASE flWordValid' 
    BY <1>3, <2>1 DEF FlMoves
  <2>2. CASE flData' # flNoWord
    <3>1. flWordValid /\ ~FlStartRead(latched)
      BY <1>5, <1>7, <2>2 DEF FlBusy
    <3>2. flState \in {"WAITWORD", "IDLE"}
      BY <1>1, <3>1 DEF FlashInv
    <3> QED BY <1>3, <3>1, <3>2 DEF FlMoves
  <2> QED BY <2>1, <2>2
<1>9. (FlBusy => Served("flash") /\ timeOut >= FlSlack)'
  <2> SUFFICES ASSUME FlBusy' PROVE Served("flash")' /\ timeOut' >= FlSlack'
    OBVIOUS
  <2>1. CASE ~FlBusy
    <3>1. flState = "IDLE" /\ ~flWordValid /\ flData = flNoWord
      BY <2>1 DEF FlBusy
    <3>2. flState' = "WAITBUSY" /\ FlStartRead(latched) /\ ~flWordValid' /\ flData' = flNoWord
      BY <1>3, <1>5, <3>1 DEF FlMoves, FlBusy
    <3>3. Fresh /\ latched.slave = "flash" /\ latched.read
      BY <1>1, <3>2 DEF FlStartRead, FlMyTransaction, Fresh
    <3>4. state = "SERVICING" /\ timeOut = Timeout /\ Waiting /\ ~End /\ ~BusErr
      BY <3>3 DEF SbInv, SlavesInv, FreshInv
    <3>5. ~DataValid
      <4>1. ~DcDataValid
        BY <3>4 DEF SbInv, MastersInv, DcInTransaction, FsInTransaction, Waiting, DcDataValid
      <4>2. Answers = {}
        BY <3>1, <3>3 DEF SbInv, SlavesInv, FreshInv, BiosInv, UartInv, Answers, NoWord, bsNoWord,
           urNoWord, flNoWord
      <4> QED BY <4>1, <4>2 DEF DataValid
    <3>6. /\ Waiting' /\ state' = "SERVICING" /\ ~Fresh' /\ latched' = latched
          /\ timeOut' = timeOut - 1
      BY <1>6, <3>4, <3>5, ServedGoesOn
    <3>7. FlSlack' = 4 * ShiftClocks + 9
      BY <3>2 DEF FlSlack
    <3> QED BY <1>6, <3>3, <3>4, <3>6, <3>7 DEF Served
  <2>2. CASE FlBusy
    <3>1. ~FlStartRead(latched) /\ Served("flash") /\ ~BusErr /\ timeOut >= 1 /\ timeOut >= FlSlack
      BY <1>7, <2>2
    <3>2. ~End
      <4> SUFFICES ASSUME End PROVE FALSE
        OBVIOUS
      <4>1. flState = "IDLE" /\ ~flWordValid
        BY <2>2, FlashEndsLast
      <4> QED BY <1>3, <1>5, <3>1, <4>1 DEF FlMoves, FlBusy
    <3>3. /\ Waiting' /\ state' = "SERVICING" /\ ~Fresh' /\ latched' = latched
          /\ timeOut' = IF DataValid THEN Timeout ELSE timeOut - 1
      BY <1>6, <3>1, <3>2, ServedGoesOn DEF Served
    <3>4. flData # flNoWord => DataValid
      BY DEF DataValid, Answers, NoWord, flNoWord
    <3>5. /\ FlSlack \in Nat /\ FlSlack >= 1 /\ FlSlack' \in Nat
          /\ flData # flNoWord => FlSlack' <= 4 * ShiftClocks + 9
          /\ flData = flNoWord => FlSlack' <= FlSlack - 1
      BY <2>2, SlackStep
    <3>6. FlSlack <= 4 * ShiftClocks + 9
      BY <1>1, <1>6 DEF FlashInv, FlSlack
    <3>7. timeOut' >= FlSlack'
      BY <1>6, <3>1, <3>3, <3>4, <3>5, <3>6
    <3> QED BY <3>1, <3>3, <3>7 DEF Served
  <2> QED BY <2>1, <2>2
<1>10. (flState \in {"WAITADDRESS", "WAITDUMMY", "WAITWORD"} \/ flWordValid => flNext \in Nat)'
  <2> SUFFICES ASSUME flState' \in {"WAITADDRESS", "WAITDUMMY", "WAITWORD"} \/ flWordValid'
               PROVE  flNext' \in Nat
    OBVIOUS
  <2>1. \/ flState \in {"WAITADDRESS", "WAITDUMMY", "WAITWORD"}
        \/ flState = "WAITCOMMAND" /\ flShift = 0
    BY <1>1, <1>3 DEF FlMoves, FlashInv, FlStates
  <2>2. latched.from \in Nat
    BY <1>7, <2>1 DEF FlBusy, Served, SbInv, SlavesInv, LatchedInv
  <2>3. flNext' = IF flState = "WAITCOMMAND" /\ flShift = 0 THEN latched.from
                  ELSE IF flWordValid THEN flNext + 1 ELSE flNext
    BY <1>2 DEF FlWords, FlShiftDone
  <2> QED BY <1>1, <2>1, <2>2, <2>3 DEF FlashInv
<1>11. (flActive => InProgress \/ flEndSeen)'
  <2> SUFFICES ASSUME flActive', ~flEndSeen' PROVE InProgress'
    OBVIOUS
  <2>1. ~flEndSeen /\ (flActive \/ Begin) /\ ~End
    BY <1>2 DEF FlBusRegisters
  <2>2. InProgress \/ Begin
    BY <1>1, <2>1 DEF FlashInv
  <2> QED BY <2>1, <2>2, ProgressStep
<1>12. (flError => /\ latched.slave = "flash" /\ ~(latched.read /\ latched.whole)
                   /\ InProgress /\ ~Fresh)'
  <2> SUFFICES ASSUME flError'
               PROVE  /\ latched'.slave = "flash" /\ ~(latched'.read /\ latched'.whole)
                      /\ InProgress' /\ ~Fresh'
    OBVIOUS
  <2>1. ~End /\ ~flEndSeen /\ flActive /\ latched.slave = "flash" /\ ~(latched.read /\ latched.whole)
    BY <1>2 DEF FlBusRegisters, FlRefused, FlMyTransaction
  <2>2. InProgress /\ ~Begin
    BY <1>1, <2>1 DEF FlashInv, InProgress
  <2> QED BY <2>1, <2>2, ProgressStep
<1>13. (flEnd => flState = "IDLE" /\ ~flWordValid /\ ~Fresh)'
  <2> SUFFICES ASSUME flEnd' PROVE flState' = "IDLE" /\ ~flWordValid' /\ ~Fresh'
    OBVIOUS
  <2>1. flActive /\ ((flData # flNoWord /\ ~FlQuadBusy) \/ BusErr)
    BY <1>2 DEF FlBusRegisters
  <2>2. ~Begin
    BY <2>1, AtBegin DEF FlBusy
  <2>3. flState = "IDLE" /\ ~FlStartRead(latched)
    <3>1. CASE flData # flNoWord /\ ~FlQuadBusy
      BY <1>1, <1>7, <3>1 DEF FlashInv, FlQuadBusy, FlBusy
    <3>2. CASE BusErr
      <4>1. ~Fresh
        BY <3>2 DEF SbInv, SlavesInv, FreshInv
      <4> QED BY <1>1, <1>7, <3>2, <4>1 DEF FlBusy, FlStartRead, Fresh
    <3> QED BY <2>1, <3>1, <3>2
  <2> QED BY <1>3, <2>2, <2>3, ProgressStep DEF FlMoves
<1> QED BY <1>3, <1>4, <1>8, <1>9, <1>10, <1>11, <1>12, <1>13 DEF FlashInv

-----------------------------------------------------------------------------
(* The bus. *)

LEMMA BusInitial ==
    ASSUME Circumstances
    PROVE  SbInit => SbInv
<1> SUFFICES ASSUME SbInit PROVE SbInv
  OBVIOUS
<1>1. MastersInv
  BY MastersInitial
<1>2. LatchedInv
  BY FetchAssumption DEF LatchedInv, SbInit, FsInit, DcInit, NoOp, Transaction
<1>3. FreshInv
  BY DEF FreshInv, Fresh, SbInit, UrInit, FlInit
<1>4. BiosInv
  BY DEF BiosInv, BsStates, BsBusy, SbInit, BsInit
<1>5. UartInv
  BY DEF UartInv, UrStates, SbInit, UrInit
<1>6. FlashInv
  <2>1. /\ flState = "IDLE" /\ flShift = 0 /\ ~flActive /\ ~flError /\ ~flEnd
        /\ ~flWordValid /\ flData = flNoWord /\ flashBusy = FALSE
    BY DEF SbInit, FlInit
  <2>2. ~FlBusy
    BY <2>1 DEF FlBusy
  <2>3. 0 \in 0 .. ShiftClocks
    BY FlashAssumption
  <2> QED BY <2>1, <2>2, <2>3 DEF FlashInv, FlStates
<1> QED BY <1>1, <1>2, <1>3, <1>4, <1>5, <1>6 DEF SbInv, SlavesInv

LEMMA BusUnchanged ==
    ASSUME SbInv, UNCHANGED busVars
    PROVE  SbInv'
<1> USE DEF busVars, vars, dcVars, fsVars, fillVars, bsVars, urVars, flVars
<1>1. MastersInv'
  BY DEF SbInv, MastersInv, Tenure, ArbiterSignals, DcInTransaction, FsInTransaction, Begin, DcBegin,
     FsBegin, Waiting
<1>2. LatchedInv'
  BY DEF SbInv, SlavesInv, LatchedInv
<1>3. FreshInv'
  BY DEF SbInv, SlavesInv, FreshInv, Fresh, Waiting, End, BusErr, DcEnd, FsEnd, BsBusy, FlBusy
<1>4. BiosInv'
  BY DEF SbInv, SlavesInv, BiosInv, BsBusy, Fresh, Served, Waiting
<1>5. UartInv'
  BY DEF SbInv, SlavesInv, UartInv, Fresh, Served, Waiting, InProgress, DcInTransaction,
     FsInTransaction, Begin, DcBegin, FsBegin
<1>6. FlashInv'
  <2>1. FlSlack' = FlSlack
    BY DEF FlSlack
  <2> QED BY <2>1 DEF SbInv, SlavesInv, FlashInv, FlBusy, Fresh, Served, Waiting, InProgress,
     DcInTransaction, FsInTransaction, Begin, DcBegin, FsBegin
<1> QED BY <1>1, <1>2, <1>3, <1>4, <1>5, <1>6 DEF SbInv, SlavesInv

LEMMA BusInvariance ==
    ASSUME Circumstances
    PROVE  SbSpec => []SbInv
<1>1. IInv /\ SbInv /\ [SbNext]_busVars => SbInv'
  <2> SUFFICES ASSUME IInv, SbInv, [SbNext]_busVars PROVE SbInv'
    OBVIOUS
  <2>1. CASE SbNext
    <3>1. PICK pause \in Pauses, nextOp \in Program \cup {NoOp}, jump \in JumpTargets \cup {NoJump} :
              ClockEdge(pause, nextOp, jump)
      BY <2>1 DEF SbNext
    <3>2. MastersInv'
      BY <3>1, MastersStep DEF SbInv
    <3>3. LatchedInv'
      BY <3>1, LatchedStep
    <3>4. FreshInv'
      BY <3>1, FreshStep
    <3>5. BiosInv'
      BY <3>1, BiosStep
    <3>6. UartInv'
      BY <3>1, UartStep
    <3>7. FlashInv'
      BY <3>1, FlashStep
    <3> QED BY <3>2, <3>3, <3>4, <3>5, <3>6, <3>7 DEF SbInv, SlavesInv
  <2>2. CASE UNCHANGED busVars
    BY <2>2, BusUnchanged
  <2> QED BY <2>1, <2>2
<1>2. TwoLines
  BY DEF Circumstances
<1> QED BY <1>1, <1>2, BusInitial, ArbiterOnBus, PTL DEF SbSpec

(* The wires of the bus have one driver at a time, for every program without *)
(* byte loads from the flash, every layout of the code and every time-out   *)
(* that is longer than the flash takes to deliver its first word.           *)
THEOREM WiresHaveOneDriver ==
    ASSUME Circumstances
    PROVE  SbSpec => []OneDriver
<1>1. SbInv => OneDriver
  <2> SUFFICES ASSUME SbInv PROVE OneDriver
    OBVIOUS
  <2>1. OneMaster
    BY DEF SbInv, MastersInv, Tenure, OneMaster
  <2>2. /\ bsData # NoWord => Served("bios")
        /\ urData # NoWord => Served("uart")
        /\ flData # NoWord => Served("flash")
    BY DEF SbInv, SlavesInv, BiosInv, UartInv, FlashInv, FlBusy, NoWord, bsNoWord, urNoWord, flNoWord
  <2>3. ASSUME Answers # {} PROVE ~Begin /\ ~DcDataValid
    <3>1. Waiting /\ state = "SERVICING"
      BY <2>2, <2>3 DEF Answers, Served
    <3> QED BY <3>1 DEF SbInv, MastersInv, Tenure, Waiting, DcInTransaction, FsInTransaction, DcDataValid
  <2> QED BY <2>1, <2>2, <2>3 DEF OneDriver, OneSlave, Served
<1> QED BY <1>1, BusInvariance, PTL

-----------------------------------------------------------------------------
(* What the processor asks for.                                             *)

(* Programs use the accesses of the address map, the code is in memory, and *)
(* shifting a word takes time.                                              *)
KnownOps == {NoOp} \cup [kind : {"load", "store"},
                         target : {"rom", "uart", "uartWord", "flash", "flashByte", "unmapped", Spm}]

ProgramKnown   == Program \subseteq KnownOps
CodeInMemory   == \A pc \in Pcs : CodeSlave[LineOf(pc)] \in {"bios", "flash"}
ShiftsTakeTime == ShiftClocks > 0

Workable == Circumstances /\ ProgramKnown /\ CodeInMemory /\ ShiftsTakeTime

(* The machines of the two units: a unit that has a transaction stalls the  *)
(* pipeline and holds what it asked for.                                    *)
UnitsInv ==
    /\ exeOp \in KnownOps /\ dcOp \in KnownOps
    /\ fsPc \in Pcs /\ fsProgramCounter \in Pcs
    /\ dcState \in DcStates /\ fsState \in FsStates
    /\ dcBus # "NOOP" <=> dcState = "WAIT_FOR_ACTION"
    /\ dcState # "IDLE" => dcStall
    /\ dcStall => dcOp.kind \in {"load", "store"} /\ dcOp.target # Spm
    /\ fsBus # "NOP" => fsState = "WAIT_CACHE_LINE"
    /\ fsState # "IDLE" => fsStall

(* The slaves have latched what the master has asked for, which it still    *)
(* asks for.                                                                *)
AsAsked ==
    /\ DcInTransaction /\ ~DcBegin => latched = DataTransaction
    /\ FsInTransaction /\ ~FsBegin => latched = CodeTransaction
    /\ dcBus = "WAIT_READ" => dcOp.kind = "load"
    /\ dcBus \in {"DO_WRITE", "END_WRITE"} => dcOp.kind = "store"
    /\ dcBus = "DO_WRITE" => Fresh

LEMMA UnitsInitial ==
    ASSUME SbInit
    PROVE  UnitsInv /\ AsAsked
<1>1. ResetVector \in Pcs
  BY FetchAssumption DEF Pcs
<1> QED BY <1>1 DEF SbInit, DcInit, FsInit, UnitsInv, KnownOps, DcStates, FsStates, AsAsked, DcInTransaction,
     FsInTransaction

LEMMA UnitsStep ==
    ASSUME Workable, UnitsInv, NEW pause, NEW nextOp \in Program \cup {NoOp}, NEW jump,
           ClockEdge(pause, nextOp, jump)
    PROVE  UnitsInv'
<1>1. exeOp' \in KnownOps /\ dcOp' \in KnownOps
  <2>1. nextOp \in KnownOps
    BY DEF Workable, ProgramKnown, KnownOps
  <2>2. UNCHANGED <<exeOp, dcOp>> \/ (exeOp' = nextOp /\ dcOp' = exeOp)
    BY DEF ClockEdge, DcClock, StallRegisters
  <2> QED BY <2>1, <2>2 DEF UnitsInv
<1>2. fsPc' \in Pcs /\ fsProgramCounter' \in Pcs
  <2>1. \/ UNCHANGED <<fsPc, fsProgramCounter>>
        \/ /\ fsProgramCounter' = fsPc
           /\ fsPc' = NextPc(FALSE, jump \in JumpTargets, jump)
    BY DEF ClockEdge, FsClock, ProgramCounters
  <2>2. jump \in JumpTargets => jump \in Pcs
    BY DEF Workable, Circumstances, JumpsToCode
  <2>3. (fsPc + 1) % Addresses \in Pcs
    BY FetchAssumption DEF UnitsInv, Pcs
  <2>4. NextPc(FALSE, jump \in JumpTargets, jump) \in Pcs
    BY <2>2, <2>3 DEF NextPc
  <2> QED BY <2>1, <2>4 DEF UnitsInv
<1>3. /\ dcState' = CASE dcState = "IDLE"            -> IF dcStall THEN "REQUEST_ACTION" ELSE "IDLE"
                      [] dcState = "REQUEST_ACTION"  -> "WAIT_FOR_ACTION"
                      [] dcState = "WAIT_FOR_ACTION" -> IF dcBus = "SIG_DONE" THEN "SIGNAL_DONE"
                                                        ELSE "WAIT_FOR_ACTION"
                      [] dcState = "SIGNAL_DONE"     -> "IDLE"
      /\ dcStall' = (dcState # "SIGNAL_DONE" /\ (dcStall \/ (NeedsBus /\ ~FsStallOut /\ pause # "ci")))
  BY DEF ClockEdge, DcClock, StateMachine, StallRegisters, BusActionDone
<1>4. dcState' \in DcStates /\ (dcState' # "IDLE" => dcStall')
  <2>1. CASE dcState = "IDLE"
    BY <1>3, <2>1 DEF DcStates
  <2>2. CASE dcState = "REQUEST_ACTION"
    BY <1>3, <2>2 DEF DcStates, UnitsInv
  <2>3. CASE dcState = "WAIT_FOR_ACTION"
    BY <1>3, <2>3 DEF DcStates, UnitsInv
  <2>4. CASE dcState = "SIGNAL_DONE"
    BY <1>3, <2>4 DEF DcStates
  <2> QED BY <2>1, <2>2, <2>3, <2>4 DEF UnitsInv, DcStates
<1>5. (dcBus # "NOOP")' <=> (dcState = "WAIT_FOR_ACTION")'
  <2>1. CASE dcBus = "NOOP"
    <3>1. dcBus' = IF dcState = "REQUEST_ACTION" THEN "REQUEST_BUS" ELSE "NOOP"
      BY <2>1 DEF ClockEdge, DcClock, BusMachine, Noop, RequestBus, InitTransaction, WaitRead, DoWrite,
         EndTransfer, SigDone
    <3>2. dcState # "WAIT_FOR_ACTION"
      BY <2>1 DEF UnitsInv
    <3> QED BY <1>3, <3>1, <3>2 DEF UnitsInv, DcStates
  <2>2. CASE dcBus = "SIG_DONE"
    BY <1>3, <2>2 DEF UnitsInv, ClockEdge, DcClock, BusMachine, Noop, RequestBus, InitTransaction, WaitRead,
       DoWrite, EndTransfer, SigDone
  <2>3. CASE dcBus \notin {"NOOP", "SIG_DONE"}
    <3>1. dcBus' # "NOOP"
      BY <2>3 DEF ClockEdge, DcClock, BusMachine, Noop, RequestBus, InitTransaction, WaitRead, DoWrite,
         EndTransfer, SigDone
    <3> QED BY <1>3, <2>3, <3>1 DEF UnitsInv
  <2> QED BY <2>1, <2>2, <2>3
<1>6. (dcStall => dcOp.kind \in {"load", "store"} /\ dcOp.target # Spm)'
  <2> SUFFICES ASSUME dcStall' PROVE dcOp'.kind \in {"load", "store"} /\ dcOp'.target # Spm
    OBVIOUS
  <2>1. CASE dcStall
    BY <2>1 DEF UnitsInv, ClockEdge, DcClock, StallRegisters
  <2>2. CASE ~dcStall
    <3>1. NeedsBus /\ ~FsStallOut /\ pause # "ci"
      BY <1>3, <2>2
    <3>2. dcOp' = exeOp
      BY <2>2, <3>1 DEF ClockEdge, DcClock, StallRegisters
    <3>3. exeOp.kind # "none" /\ exeOp.target # Spm /\ exeOp \in KnownOps
      BY <3>1 DEF NeedsBus, UnitsInv
    <3> QED BY <3>2, <3>3 DEF KnownOps, NoOp
  <2> QED BY <2>1, <2>2
<1>7. fsState' = CASE fsState = "IDLE"               -> IF fsStall THEN "REQUEST_CACHE_LINE" ELSE "IDLE"
                   [] fsState = "REQUEST_CACHE_LINE" -> "WAIT_CACHE_LINE"
                   [] fsState = "WAIT_CACHE_LINE"    -> IF fsBus = "SIGNAL_DONE" THEN "UPDATE_TAG"
                                                        ELSE "WAIT_CACHE_LINE"
                   [] fsState = "UPDATE_TAG"         -> "LOOKUP"
                   [] fsState = "LOOKUP"             -> "IDLE"
  BY DEF ClockEdge, FsClock, FillMachine, AckLine
<1>8. fsState' \in FsStates /\ (fsState' # "IDLE" => fsStall')
  <2>1. fsState # "LOOKUP" /\ fsStall => fsStall'
    BY DEF ClockEdge, FsClock, StallRegister
  <2> QED BY <1>7, <2>1 DEF UnitsInv, FsStates
<1>9. (fsBus # "NOP" => fsState = "WAIT_CACHE_LINE")'
  <2>1. \/ fsBus = "NOP" /\ fsBus' = IF fsState = "REQUEST_CACHE_LINE" THEN "REQUEST_BUS" ELSE "NOP"
        \/ fsBus = "SIGNAL_DONE" /\ fsBus' = "NOP"
        \/ fsBus \notin {"NOP", "SIGNAL_DONE"}
    BY DEF ClockEdge, FsClock, FsBusMachine, FsNop, FsRequestBus, FsInitTransaction, FsWaitBurst,
       FsBusErrorState, FsSignalDone
  <2>2. CASE fsBus = "NOP"
    BY <1>7, <2>1, <2>2
  <2>3. CASE fsBus # "NOP"
    BY <1>7, <2>1, <2>3 DEF UnitsInv
  <2> QED BY <2>2, <2>3
<1> QED BY <1>1, <1>2, <1>4, <1>5, <1>6, <1>8, <1>9 DEF UnitsInv

(* While a unit stalls for its transaction, it asks for the same.           *)
LEMMA RequestHeld ==
    ASSUME UnitsInv, NEW pause, NEW nextOp, NEW jump, ClockEdge(pause, nextOp, jump)
    PROVE  /\ dcBus # "NOOP" => dcOp' = dcOp /\ DataTransaction' = DataTransaction
           /\ fsBus # "NOP" => fsProgramCounter' = fsProgramCounter /\ CodeTransaction' = CodeTransaction
<1>1. dcBus # "NOOP" => dcStall
  BY DEF UnitsInv
<1>2. dcBus # "NOOP" => dcOp' = dcOp
  BY <1>1 DEF ClockEdge, DcClock, StallRegisters
<1>3. fsBus # "NOP" => fsStall
  BY DEF UnitsInv
<1>4. fsBus # "NOP" => fsProgramCounter' = fsProgramCounter
  BY <1>3 DEF ClockEdge, FsClock, ProgramCounters
<1> QED BY <1>2, <1>4 DEF DataTransaction, CodeTransaction, FsAddress

LEMMA AsAskedStep ==
    ASSUME IInv, SbInv, UnitsInv, AsAsked, NEW pause, NEW nextOp, NEW jump,
           ClockEdge(pause, nextOp, jump)
    PROVE  AsAsked'
<1>0. Moves
  BY BusStep
<1>1. /\ dcBus # "NOOP" => dcOp' = dcOp /\ DataTransaction' = DataTransaction
      /\ fsBus # "NOP" => fsProgramCounter' = fsProgramCounter /\ CodeTransaction' = CodeTransaction
  BY RequestHeld
<1>2. (~Begin => latched' = latched) /\ (Fresh' <=> Begin)
  BY ProgressStep
<1>3. Begin => latched' = IF DcBegin THEN DataTransaction ELSE CodeTransaction
  BY AtBegin DEF ClockEdge, Latch, SbInv, MastersInv, DcBegin, FsBegin, DcInTransaction, FsInTransaction
<1>4. ~(DcInTransaction /\ FsInTransaction)
  BY DEF SbInv, MastersInv
<1>5. ASSUME DcInTransaction', ~DcBegin' PROVE latched' = DataTransaction' /\ DcInTransaction
  <2>1. DcInTransaction
    BY <1>0, <1>5 DEF Moves, DcMoves, DcInTransaction, DcBegin
  <2>2. dcBus # "NOOP"
    BY <2>1 DEF DcInTransaction
  <2>3. CASE DcBegin
    BY <1>1, <1>3, <2>1, <2>2, <2>3 DEF Begin
  <2>4. CASE ~DcBegin
    <3>1. ~Begin
      BY <1>4, <2>1, <2>4 DEF Begin, FsBegin, FsInTransaction
    <3> QED BY <1>1, <1>2, <2>1, <2>2, <2>4, <3>1 DEF AsAsked
  <2> QED BY <2>1, <2>3, <2>4
<1>6. ASSUME FsInTransaction', ~FsBegin' PROVE latched' = CodeTransaction'
  <2>1. FsInTransaction
    BY <1>0, <1>6 DEF Moves, FsMoves, FsInTransaction, FsBegin
  <2>2. fsBus # "NOP" /\ ~DcBegin
    BY <1>4, <2>1 DEF FsInTransaction, DcInTransaction, DcBegin
  <2>3. CASE FsBegin
    BY <1>1, <1>3, <2>2, <2>3 DEF Begin
  <2>4. CASE ~FsBegin
    BY <1>1, <1>2, <2>1, <2>2, <2>4 DEF AsAsked, Begin
  <2> QED BY <2>3, <2>4
<1>7. (dcBus = "WAIT_READ" => dcOp.kind = "load")'
  BY <1>0, <1>1 DEF Moves, DcMoves, AsAsked
<1>8. /\ (dcBus \in {"DO_WRITE", "END_WRITE"} => dcOp.kind = "store")'
      /\ (dcBus = "DO_WRITE" => Fresh)'
  <2>1. dcBus = "INIT_TRANSACTION" => dcOp.kind \in {"load", "store"} /\ Begin
    BY DEF UnitsInv, Begin, DcBegin
  <2> QED BY <1>0, <1>1, <1>2, <2>1 DEF Moves, DcMoves, AsAsked
<1> QED BY <1>5, <1>6, <1>7, <1>8 DEF AsAsked

-----------------------------------------------------------------------------
(* Who is in a transaction in each state of the arbiter, and who is not.    *)

(* The arbiter has nothing to do but to serve a transaction, except that it *)
(* ends those that nobody answers.                                          *)
Errand ==
    /\ state \in {"IDLE", "GRANT", "REMOVE"} => ~DcInTransaction /\ ~FsInTransaction
    /\ state = "WAIT_BEGIN" => ~InProgress
    /\ state = "SERVICING" => Waiting \/ dcBus \in {"DO_WRITE", "END_WRITE"}
    /\ state = "SERVICING" => timeOut > 0 \/ (dcBus = "WAIT_READ" /\ latched.slave = "none")
    /\ state = "INIT_BUS_ERROR" => dcBus = "WAIT_READ" /\ latched.slave = "none"
    /\ state = "BUS_ERROR" =>
           /\ busErrorOut /\ latched.slave = "none" /\ timeOut > 0
           /\ (dcBus = "WAIT_READ" /\ timeOut = Timeout) \/ dcBus = "BUS_ERROR"
    /\ state # "END_TRANSACTION" /\ ~endTransactionOut
    /\ dcBus = "BUS_ERROR" => state = "BUS_ERROR"
    /\ fsBus # "BUS_ERROR"
    /\ dcBus = "END_WRITE" => state = "SERVICING"

(* The slaves see the begin of every transaction, and no end of an earlier  *)
(* one meets it.                                                            *)
Ended ==
    /\ bsEnd \/ urEnd => state = "SERVICING" /\ Waiting
    /\ flEnd => state \notin {"GRANT", "WAIT_BEGIN"}
    /\ flEnd /\ Waiting => latched.slave = "flash"
    /\ state = "WAIT_BEGIN" => ~bsEndSeen /\ ~flEndSeen
    /\ Fresh => bsState = "INTERPRET" /\ bsActive /\ urActive
    /\ Waiting => flActive /\ ~flEndSeen
    /\ urState = "WAIT" => urData # urNoWord /\ ~urEnd
    /\ urState = "END" => Waiting /\ urData = urNoWord /\ ~urEnd /\ timeOut = Timeout
    /\ bsState = "ENDTRANSACTION" => bsData # bsNoWord
    /\ bsEnd => bsState = "IDLE"
    /\ urError => ~latched.read

(* A slave that is read answers, or has answered and ends the transaction.  *)
Awake ==
    Waiting /\ ~Fresh /\ state = "SERVICING" =>
        /\ latched.slave = "bios" => BsBusy \/ bsEnd
        /\ latched.slave = "uart" => urState # "IDLE" \/ urEnd
        /\ latched.slave = "flash" => FlBusy \/ flEnd

CalmInv == UnitsInv /\ AsAsked /\ Errand /\ Ended /\ Awake

(* What the two units ask for.                                              *)
LEMMA TransactionsKnown ==
    ASSUME Workable, UnitsInv
    PROVE  /\ DataTransaction.words = 1 /\ DataTransaction.slave = SlaveOf(dcOp.target)
           /\ DataTransaction.read <=> dcOp.kind = "load"
           /\ DataTransaction.from = WordAt(dcOp.target)
           /\ DataTransaction.whole <=> dcOp.target \notin {"uart", "flashByte"}
           /\ CodeTransaction.slave \in {"bios", "flash"}
           /\ CodeTransaction.read /\ CodeTransaction.whole
           /\ CodeTransaction.words = WordsPerLine /\ CodeTransaction.from = FsAddress
  BY DEF DataTransaction, CodeTransaction, Transaction, Workable, CodeInMemory, UnitsInv

(* A master that waits has its own transaction latched.                     *)
LEMMA WaitingKnown ==
    ASSUME Workable, SbInv, CalmInv, Waiting
    PROVE  /\ latched = IF dcBus = "WAIT_READ" THEN DataTransaction ELSE CodeTransaction
           /\ dcBus = "WAIT_READ" => fsBus # "WAIT_BURST"
           /\ ~Begin /\ ~DcDataValid /\ ~DcEnd /\ ~FsEnd
           /\ latched.read
           /\ state \in {"SERVICING", "INIT_BUS_ERROR", "BUS_ERROR"}
           /\ latched.slave # "none" => state = "SERVICING" /\ timeOut > 0
           /\ dcBus # "WAIT_READ" => latched.slave \in {"bios", "flash"}
<1>1. /\ ~(DcInTransaction /\ FsInTransaction)
      /\ state \in {"SERVICING", "INIT_BUS_ERROR", "BUS_ERROR"}
      /\ ~Begin
  BY DEF SbInv, MastersInv, Tenure
<1>2. ~DcDataValid /\ ~DcEnd /\ ~FsEnd /\ (dcBus = "WAIT_READ" => fsBus # "WAIT_BURST")
  BY <1>1 DEF Waiting, DcInTransaction, FsInTransaction, DcDataValid, DcEnd, FsEnd
<1>3. latched = IF dcBus = "WAIT_READ" THEN DataTransaction ELSE CodeTransaction
  BY <1>2 DEF CalmInv, AsAsked, Waiting, DcInTransaction, FsInTransaction, DcBegin, FsBegin
<1>4. /\ dcBus = "WAIT_READ" => dcOp.kind = "load"
      /\ DataTransaction.read <=> dcOp.kind = "load"
      /\ CodeTransaction.slave \in {"bios", "flash"} /\ CodeTransaction.read
  BY TransactionsKnown DEF CalmInv, AsAsked
<1>5. latched.slave # "none" => state = "SERVICING" /\ timeOut > 0
  BY <1>1 DEF CalmInv, Errand
<1> QED BY <1>1, <1>2, <1>3, <1>4, <1>5

(* Errors end stores, which do not notice, and loads that nobody answers.   *)
LEMMA ErrorsKnown ==
    ASSUME Workable, SbInv, CalmInv, BusErr
    PROVE  dcBus = "END_WRITE" \/ (state = "BUS_ERROR" /\ DcInTransaction)
<1>0. DcInTransaction /\ ~Begin => latched = DataTransaction
  BY DEF CalmInv, AsAsked, Begin
<1>1. CASE busErrorOut
  <2>1. state = "BUS_ERROR"
    BY <1>1 DEF SbInv, MastersInv, ArbiterSignals, CalmInv, Errand
  <2> QED BY <2>1 DEF CalmInv, Errand, DcInTransaction
<1>2. ASSUME urError \/ flError PROVE dcBus = "END_WRITE" \/ (state = "BUS_ERROR" /\ DcInTransaction)
  <2>1. /\ InProgress /\ ~Fresh
        /\ \/ latched.slave = "uart" /\ ~latched.read
           \/ latched.slave = "flash" /\ ~(latched.read /\ latched.whole)
    BY <1>2 DEF SbInv, SlavesInv, UartInv, FlashInv, CalmInv, Ended
  <2>2. ~Waiting
    <3> SUFFICES ASSUME Waiting PROVE FALSE
      OBVIOUS
    <3>1. latched.read
      BY WaitingKnown
    <3> QED BY <2>1, <3>1 DEF SbInv, SlavesInv, LatchedInv
  <2>3. dcBus # "DO_WRITE"
    BY <2>1 DEF CalmInv, AsAsked
  <2>4. dcBus \in {"END_WRITE", "BUS_ERROR"}
    BY <2>1, <2>2, <2>3 DEF InProgress, Begin, DcBegin, FsBegin, DcInTransaction, FsInTransaction, Waiting,
       CalmInv, Errand
  <2> QED BY <2>4 DEF CalmInv, Errand, DcInTransaction
<1>3. ~bsError
  BY DEF SbInv, SlavesInv, BiosInv
<1> QED BY <1>1, <1>2, <1>3 DEF BusErr

(* Only the slave that was read ends a read.                                *)
LEMMA EndsKnown ==
    ASSUME Workable, SbInv, CalmInv, Waiting, End
    PROVE  /\ state = "SERVICING" /\ timeOut > 0 /\ ~BusErr
           /\ \/ bsEnd /\ latched.slave = "bios"
              \/ urEnd /\ latched.slave = "uart"
              \/ flEnd /\ latched.slave = "flash"
           /\ ~BsBusy /\ urState = "IDLE"
<1>1. ~Begin /\ ~DcEnd /\ ~FsEnd /\ latched.read
      /\ (latched.slave # "none" => state = "SERVICING" /\ timeOut > 0)
  BY WaitingKnown
<1>2. ~endTransactionOut
  BY DEF CalmInv, Errand
<1>3. \/ bsEnd /\ latched.slave = "bios"
      \/ urEnd /\ latched.slave = "uart"
      \/ flEnd /\ latched.slave = "flash"
  BY <1>1, <1>2 DEF End, SbInv, SlavesInv, BiosInv, UartInv, CalmInv, Ended
<1>4. state = "SERVICING" /\ timeOut > 0
  BY <1>1, <1>3
<1>5. ~BusErr
  BY <1>4, ErrorsKnown DEF Waiting, SbInv, MastersInv, DcInTransaction, FsInTransaction
<1>6. ~BsBusy
  BY <1>3 DEF SbInv, SlavesInv, BiosInv, Served, CalmInv, Ended, BsBusy
<1>7. urState = "IDLE"
  BY <1>3 DEF SbInv, SlavesInv, UartInv, UrStates, Served, CalmInv, Ended
<1> QED BY <1>3, <1>4, <1>5, <1>6, <1>7

(* No end is on the wires while the arbiter grants the bus.                 *)
LEMMA NoEndBefore ==
    ASSUME SbInv, CalmInv, state \in {"GRANT", "WAIT_BEGIN"}
    PROVE  ~End
<1>1. ~DcEnd /\ ~FsEnd
  BY DEF SbInv, MastersInv, Tenure, DcEnd, FsEnd
<1> QED BY <1>1 DEF End, CalmInv, Errand, Ended

(* The flash is done when its last word is on the wires.                    *)
LEMMA FlashDone ==
    ASSUME SbInv, NEW pause, NEW nextOp, NEW jump, ClockEdge(pause, nextOp, jump), Circumstances,
           FlBusy, ~FlBusy'
    PROVE  flData # flNoWord /\ flState = "IDLE"
<1>0. FlMoves(FlStartRead(latched)) /\ (flWordValid' <=> flState = "WAITWORD" /\ flShift = 0)
  BY FlashMoves
<1>1. flState \in FlStates /\ (flWordValid => flNext \in Nat)
  BY DEF SbInv, SlavesInv, FlashInv
<1>2. flData' = IF flWordValid THEN flNext ELSE flNoWord
  BY DEF ClockEdge, FlClock, FlWords
<1>3. ~flWordValid
  BY <1>1, <1>2 DEF FlBusy, flNoWord
<1>4. flState = "IDLE"
  BY <1>0, <1>1 DEF FlBusy, FlMoves, FlStates
<1> QED BY <1>3, <1>4 DEF FlBusy

(* A slave that is read goes on to answer, in time.                         *)
LEMMA AnswersStep ==
    ASSUME Workable, IInv, SbInv, SbInv', CalmInv, NEW pause, NEW nextOp, NEW jump,
           ClockEdge(pause, nextOp, jump),
           Waiting, ~End, state = "SERVICING", timeOut > 0, latched.slave # "none"
    PROVE  /\ timeOut' > 0
           /\ latched.slave = "bios" => BsBusy' \/ bsEnd'
           /\ latched.slave = "uart" => urState' # "IDLE" \/ urEnd'
           /\ latched.slave = "flash" => FlBusy' \/ flEnd'
<1>0. Moves
  BY BusStep
<1>1. Timeout > 1 /\ Timeout \in Nat
  BY <1>0, FlashAssumption DEF Workable, Circumstances, PatientArbiter, Moves
<1>2. ~Begin /\ latched.read
  BY WaitingKnown
<1>3. ~BusErr
  BY ErrorsKnown DEF SbInv, MastersInv, Waiting, DcInTransaction, FsInTransaction
<1>4. timeOut' = IF DataValid THEN Timeout ELSE timeOut - 1
  BY <1>2, <1>0 DEF Moves, ArbiterMoves
<1>5. timeOut' > 0 \/ (timeOut = 1 /\ ~DataValid)
  BY <1>0, <1>1, <1>4 DEF Moves
<1>6. latched.slave \in {"bios", "uart", "flash"}
  <2>1. \/ latched = DataTransaction /\ DataTransaction.slave = SlaveOf(dcOp.target)
        \/ latched.slave \in {"bios", "flash"}
    BY WaitingKnown, TransactionsKnown DEF CalmInv
  <2>2. dcBus = "WAIT_READ" => dcOp \in KnownOps /\ dcOp.kind = "load" /\ dcOp.target # Spm
    BY DEF CalmInv, UnitsInv, AsAsked
  <2>3. CASE dcBus = "WAIT_READ"
    <3>1. dcOp.target \in {"rom", "uart", "uartWord", "flash", "flashByte", "unmapped"}
      BY <2>2, <2>3 DEF KnownOps, NoOp
    <3>2. SlaveOf(dcOp.target) \in {"bios", "uart", "flash", "none"}
      BY <3>1 DEF SlaveOf
    <3> QED BY <2>1, <3>2
  <2>4. CASE dcBus # "WAIT_READ"
    BY <2>4, WaitingKnown
  <2> QED BY <2>3, <2>4
<1>7. CASE Fresh
  <2>1. timeOut = Timeout /\ bsState = "INTERPRET" /\ bsActive /\ urActive /\ flBegun /\ urState = "IDLE"
        /\ flState = "IDLE" /\ flActive
    BY <1>7 DEF SbInv, SlavesInv, FreshInv, Fresh, FlBusy, CalmInv, Ended
  <2>2. timeOut' > 0
    BY <1>1, <1>5, <2>1
  <2>3. latched.slave = "bios" => bsState' = "BURST"
    BY <1>2, <2>1 DEF ClockEdge, BsClock, BsIdle, BsInterpret, BsBurst, BsBusError, BsEndTransaction,
       BsMyBurst
  <2>4. latched.slave = "uart" => urState' = "WAIT"
    BY <1>2, <1>7, <2>1 DEF ClockEdge, UrClock, UrReadMachine, UrRead, UrMyTransaction, Fresh
  <2>5. latched.slave = "flash" => flState' = "WAITBUSY"
    <3>1. FlMoves(FlStartRead(latched))
      BY FlashMoves DEF Workable
    <3> QED BY <1>2, <2>1, <3>1 DEF FlMoves, FlStartRead, FlMyTransaction
  <2> QED BY <2>2, <2>3, <2>4, <2>5 DEF BsBusy, FlBusy
<1>8. CASE ~Fresh /\ latched.slave = "bios"
  <2>1. BsBusy
    BY <1>8 DEF CalmInv, Awake, End
  <2>2. CASE bsState = "BURST"
    <3>1. bsState' \in {"BURST", "ENDTRANSACTION"}
      BY <2>2 DEF ClockEdge, BsClock, BsIdle, BsInterpret, BsBurst, BsBusError, BsEndTransaction
    <3>2. timeOut' >= IF bsData' # bsNoWord THEN 1 ELSE IF bsState' = "BURST" THEN 2 ELSE 1
      BY <3>1 DEF SbInv, SlavesInv, BiosInv, BsBusy
    <3>3. timeOut' > 0
      BY <1>4, <1>1, <1>0, <3>2 DEF Moves
    <3> QED BY <1>8, <3>1, <3>3 DEF BsBusy
  <2>3. CASE bsState = "ENDTRANSACTION"
    <3>1. DataValid
      BY <2>3 DEF CalmInv, Ended, DataValid, Answers, bsNoWord, NoWord
    <3>2. bsEnd'
      BY <2>3 DEF ClockEdge, BsClock, BsOutputs
    <3> QED BY <1>5, <1>8, <3>1, <3>2
  <2> QED BY <2>1, <2>2, <2>3 DEF BsBusy
<1>9. CASE ~Fresh /\ latched.slave = "uart"
  <2>1. urState \in {"WAIT", "END"}
    BY <1>9 DEF CalmInv, Awake, End, SbInv, SlavesInv, UartInv, UrStates
  <2>2. CASE urState = "WAIT"
    <3>1. DataValid
      BY <2>2 DEF CalmInv, Ended, DataValid, Answers, urNoWord, NoWord
    <3>2. urState' = "END"
      BY <2>2 DEF ClockEdge, UrClock, UrReadMachine
    <3> QED BY <1>5, <1>9, <3>1, <3>2
  <2>3. CASE urState = "END"
    <3>1. urEnd'
      BY <2>3 DEF ClockEdge, UrClock, UrRegisters
    <3>2. timeOut = Timeout
      BY <2>3 DEF CalmInv, Ended
    <3> QED BY <1>1, <1>5, <1>9, <3>1, <3>2
  <2> QED BY <2>1, <2>2, <2>3
<1>10. CASE ~Fresh /\ latched.slave = "flash"
  <2>1. FlBusy /\ flActive
    BY <1>10 DEF CalmInv, Awake, Ended, End
  <2>2. CASE FlBusy'
    <3>1. timeOut' >= FlSlack'
      BY <2>2 DEF SbInv, SlavesInv, FlashInv
    <3>2. FlSlack' \in Nat /\ FlSlack' >= 1
      <4>1. PICK shift \in 0 .. ShiftClocks : shift = flShift'
        BY DEF SbInv, SlavesInv, FlashInv
      <4>2. FlSlack' \in {1, 2, shift + 3, shift + ShiftClocks + 4, shift + 2 * ShiftClocks + 5,
                          shift + 3 * ShiftClocks + 6, 4 * ShiftClocks + 7, 4 * ShiftClocks + 8,
                          4 * ShiftClocks + 9}
        BY <4>1 DEF FlSlack
      <4> HIDE DEF FlSlack
      <4>3. PICK slack : slack = FlSlack'
        OBVIOUS
      <4>4. slack \in Nat /\ slack >= 1
        BY FlashAssumption, <4>2, <4>3
      <4> QED BY <4>3, <4>4
    <3>3. timeOut' > 0
      BY <1>4, <1>1, <1>0, <3>1, <3>2 DEF Moves
    <3> QED BY <1>10, <2>2, <3>3
  <2>3. CASE ~FlBusy'
    <3>1. flData # flNoWord /\ flState = "IDLE"
      BY <2>1, <2>3, FlashDone DEF Workable
    <3>2. DataValid
      BY <3>1 DEF DataValid, Answers, flNoWord, NoWord
    <3>3. flEnd'
      BY <2>1, <3>1 DEF ClockEdge, FlClock, FlBusRegisters, FlQuadBusy
    <3> QED BY <1>5, <1>10, <3>2, <3>3
  <2> QED BY <2>2, <2>3
<1> QED BY <1>6, <1>7, <1>8, <1>9, <1>10

LEMMA ErrandStep ==
    ASSUME Workable, IInv, SbInv, CalmInv, NEW pause, NEW nextOp, NEW jump,
           ClockEdge(pause, nextOp, jump), SbInv'
    PROVE  Errand'
<1>0. Moves /\ state \in States
  BY BusStep DEF IInv, TypeOK
<1>1. Timeout > 1
  BY FlashAssumption, TimeoutAssumption DEF Workable, Circumstances, PatientArbiter
<1>2. ~(DcInTransaction /\ FsInTransaction) /\ (Begin => state = "WAIT_BEGIN")
  BY DEF SbInv, MastersInv, Tenure
<1>3. (~Begin => latched' = latched) /\ (Fresh' <=> Begin)
  BY ProgressStep
<1> USE <1>0 DEF Moves, ArbiterMoves, DcMoves, FsMoves
<1>4. ~Waiting \/ (~DcEnd /\ ~FsEnd /\ ~Begin)
  BY WaitingKnown
<1>5. CASE state \in {"IDLE", "GRANT", "REMOVE", "WAIT_BEGIN"} /\ ~Begin
  <2>1. ~DcInTransaction /\ ~FsInTransaction
    BY <1>5 DEF CalmInv, Errand, InProgress
  <2>2. ~InProgress'
    BY <1>5, <2>1, TransactionStep DEF SbInv, InProgress
  <2>3. state' \in {"IDLE", "GRANT", "REMOVE", "WAIT_BEGIN"}
    BY <1>5
  <2>4. state' # "WAIT_BEGIN" => ~Begin'
    BY BeginStep DEF SbInv
  <2>5. state' \in {"IDLE", "GRANT", "REMOVE"} => ~DcInTransaction' /\ ~FsInTransaction'
    BY <2>2, <2>4 DEF InProgress
  <2>6. dcBus' \notin {"BUS_ERROR", "END_WRITE"} /\ fsBus' # "BUS_ERROR"
    BY <2>1 DEF DcInTransaction, FsInTransaction
  <2>7. ~endTransactionOut'
    BY <1>5
  <2> QED BY <2>2, <2>3, <2>5, <2>6, <2>7 DEF Errand
<1>6. CASE Begin
  <2>1. state = "WAIT_BEGIN" /\ state' = "SERVICING" /\ timeOut' = Timeout
    BY <1>2, <1>6
  <2>2. Waiting' \/ dcBus' = "DO_WRITE"
    BY <1>6 DEF Begin, DcBegin, FsBegin, Waiting
  <2>3. dcBus' \notin {"BUS_ERROR", "END_WRITE"} /\ fsBus' # "BUS_ERROR"
    BY <1>2, <1>6 DEF Begin, DcBegin, FsBegin, DcInTransaction, FsInTransaction
  <2> QED BY <1>1, <2>1, <2>2, <2>3 DEF Errand
<1>7. CASE state = "SERVICING" /\ ~Begin
  <2>1. ~endTransactionOut' /\ latched' = latched
    BY <1>3, <1>7
  <2>2. CASE Waiting /\ End
    <3>1. timeOut > 0 /\ ~BusErr
      BY <2>2, EndsKnown
    <3>2. state' = "REMOVE"
      BY <1>7, <2>2, <3>1
    <3>3. ~DcInTransaction' /\ ~FsInTransaction'
      <4>1. ~Waiting' /\ dcBus' \notin {"BUS_ERROR", "END_WRITE", "DO_WRITE"} /\ fsBus' # "BUS_ERROR"
        BY <1>2, <2>2, <3>1 DEF Waiting, DcInTransaction, FsInTransaction
      <4>2. ~Begin'
        BY <3>2, BeginStep DEF SbInv
      <4> QED BY <4>1, <4>2 DEF Waiting, Begin, DcBegin, FsBegin, DcInTransaction, FsInTransaction
    <3> QED BY <2>1, <3>2, <3>3 DEF Errand, DcInTransaction, FsInTransaction
  <2>3. CASE Waiting /\ ~End
    <3>1. ~BusErr
      BY <1>2, <1>7, <2>3, ErrorsKnown DEF Waiting, DcInTransaction, FsInTransaction
    <3>2. Waiting' /\ (dcBus' = "WAIT_READ" <=> dcBus = "WAIT_READ")
          /\ dcBus' \notin {"BUS_ERROR", "END_WRITE"} /\ fsBus' # "BUS_ERROR"
      BY <1>2, <1>7, <2>3, <3>1 DEF Waiting, DcInTransaction, FsInTransaction, Begin, DcBegin, FsBegin
    <3>3. CASE timeOut > 0
      <4>1. state' = "SERVICING"
        BY <1>7, <2>3, <3>3
      <4>2. timeOut' > 0 \/ (dcBus' = "WAIT_READ" /\ latched'.slave = "none")
        BY <1>7, <2>1, <2>3, <3>2, <3>3, AnswersStep, WaitingKnown
      <4> QED BY <2>1, <3>2, <4>1, <4>2 DEF Errand
    <3>4. CASE timeOut = 0
      <4>1. dcBus = "WAIT_READ" /\ latched.slave = "none"
        BY <1>7, <3>4 DEF CalmInv, Errand
      <4> QED BY <1>7, <2>1, <2>3, <3>2, <4>1 DEF Errand
    <3> QED BY <3>3, <3>4
  <2>4. CASE dcBus = "DO_WRITE"
    <3>1. Fresh
      BY <2>4 DEF CalmInv, AsAsked
    <3>2. ~End /\ ~BusErr /\ timeOut = Timeout /\ DataValid
      BY <2>4, <3>1 DEF SbInv, SlavesInv, FreshInv, DataValid, DcDataValid
    <3>3. state' = "SERVICING" /\ timeOut' = Timeout
      BY <1>1, <1>7, <3>2
    <3>4. dcBus' = "END_WRITE" /\ fsBus' # "BUS_ERROR"
      BY <2>4, <3>2
    <3> QED BY <1>1, <2>1, <3>3, <3>4 DEF Errand
  <2>5. CASE dcBus = "END_WRITE"
    <3>1. End
      BY <2>5 DEF End, DcEnd
    <3>2. timeOut > 0
      BY <1>7, <2>5 DEF CalmInv, Errand
    <3>3. state' = "REMOVE"
      BY <1>7, <3>1, <3>2
    <3>4. dcBus' \notin {"WAIT_READ", "BUS_ERROR", "END_WRITE", "DO_WRITE"} /\ fsBus' \notin {"WAIT_BURST", "BUS_ERROR"}
      BY <1>2, <2>5 DEF DcInTransaction, FsInTransaction
    <3>5. ~Begin'
      BY <3>3, BeginStep DEF SbInv
    <3>6. ~DcInTransaction' /\ ~FsInTransaction'
      BY <3>4, <3>5 DEF Begin, DcBegin, FsBegin, DcInTransaction, FsInTransaction
    <3> QED BY <2>1, <3>3, <3>4, <3>6 DEF Errand
  <2> QED BY <1>7, <2>2, <2>3, <2>4, <2>5 DEF CalmInv, Errand
<1>8. CASE state = "INIT_BUS_ERROR"
  <2>1. dcBus = "WAIT_READ" /\ latched.slave = "none" /\ Waiting /\ ~Begin
    BY <1>2, <1>8 DEF CalmInv, Errand, Waiting
  <2>2. ~End
    BY <1>8, <2>1, EndsKnown
  <2>3. ~BusErr
    BY <1>8, <2>1, ErrorsKnown
  <2>4. state' = "BUS_ERROR" /\ timeOut' = Timeout /\ busErrorOut' /\ ~endTransactionOut'
    BY <1>8, <2>2
  <2>5. dcBus' = "WAIT_READ" /\ fsBus' # "BUS_ERROR"
    BY <2>1, <2>2, <2>3
  <2> QED BY <1>1, <1>3, <2>1, <2>4, <2>5 DEF Errand
<1>9. CASE state = "BUS_ERROR"
  <2>1. /\ busErrorOut /\ latched.slave = "none" /\ timeOut > 0
        /\ (dcBus = "WAIT_READ" /\ timeOut = Timeout) \/ dcBus = "BUS_ERROR"
    BY <1>9 DEF CalmInv, Errand
  <2>2. ~Begin /\ BusErr /\ fsBus # "WAIT_BURST" /\ fsBus' # "BUS_ERROR" /\ ~endTransactionOut'
    BY <1>2, <1>9, <2>1 DEF BusErr, DcInTransaction, FsInTransaction
  <2>3. CASE dcBus = "WAIT_READ"
    <3>1. ~End
      BY <1>9, <2>3, EndsKnown DEF Waiting
    <3>2. /\ state' = "BUS_ERROR" /\ busErrorOut' /\ timeOut' = Timeout - 1
          /\ dcBus' = "BUS_ERROR"
      BY <1>9, <2>1, <2>2, <2>3, <3>1
    <3>3. timeOut' > 0
      BY <1>1, <3>2
    <3> QED BY <1>3, <2>1, <2>2, <3>2, <3>3 DEF Errand
  <2>4. CASE dcBus = "BUS_ERROR"
    <3>1. End
      BY <2>4 DEF End, DcEnd
    <3>2. state' \in {"REMOVE", "IDLE"}
      BY <1>9, <2>1, <3>1
    <3>3. dcBus' \notin {"WAIT_READ", "BUS_ERROR", "END_WRITE", "DO_WRITE"}
      BY <2>4
    <3>4. ~Begin' /\ fsBus' # "WAIT_BURST"
      BY <2>2, <3>2, BeginStep DEF SbInv, Begin, FsBegin
    <3>5. ~DcInTransaction' /\ ~FsInTransaction'
      BY <2>2, <3>3, <3>4 DEF Begin, DcBegin, FsBegin, DcInTransaction, FsInTransaction
    <3> QED BY <2>2, <3>2, <3>3, <3>5 DEF Errand
  <2> QED BY <2>1, <2>3, <2>4
<1>10. state # "END_TRANSACTION"
  BY DEF CalmInv, Errand
<1> QED BY <1>5, <1>6, <1>7, <1>8, <1>9, <1>10 DEF States

(* A read that a slave serves goes on.                                      *)
LEMMA ServiceGoesOn ==
    ASSUME Workable, IInv, SbInv, CalmInv, NEW pause, NEW nextOp, NEW jump,
           ClockEdge(pause, nextOp, jump), Waiting, ~End, latched.slave # "none"
    PROVE  /\ Waiting' /\ state' = "SERVICING" /\ ~Fresh' /\ latched' = latched
           /\ timeOut' = IF DataValid THEN Timeout ELSE timeOut - 1
<1>1. state = "SERVICING" /\ timeOut > 0
  BY WaitingKnown
<1>2. ~BusErr
  BY <1>1, ErrorsKnown DEF Waiting, SbInv, MastersInv, DcInTransaction, FsInTransaction
<1> QED BY <1>1, <1>2, ServedGoesOn

LEMMA EndedStep ==
    ASSUME Workable, IInv, SbInv, CalmInv, NEW pause, NEW nextOp, NEW jump,
           ClockEdge(pause, nextOp, jump)
    PROVE  Ended'
<1>0. Moves /\ state \in States
  BY BusStep DEF IInv, TypeOK
<1>1. ~(DcInTransaction /\ FsInTransaction) /\ (Begin => state = "WAIT_BEGIN")
  BY DEF SbInv, MastersInv, Tenure
<1>2. (~Begin => latched' = latched) /\ (Fresh' <=> Begin)
  BY ProgressStep
<1>3. /\ BsClock(Begin, End, latched) /\ UrClock(Begin, End, DataValid, FALSE, latched)
      /\ FlClock(Begin, End, BusErr, flashBusy, latched)
  BY DEF ClockEdge
<1>4. (bsEnd \/ urEnd => state = "SERVICING" /\ Waiting)'
  <2>1. ASSUME bsEnd' PROVE state' = "SERVICING" /\ Waiting'
    <3>1. bsState = "ENDTRANSACTION"
      BY <1>3, <2>1 DEF BsClock, BsOutputs
    <3>2. Waiting /\ latched.slave = "bios"
      BY <3>1 DEF SbInv, SlavesInv, BiosInv, BsBusy, Served
    <3>3. ~End
      BY <3>1, <3>2, EndsKnown DEF BsBusy
    <3> QED BY <3>2, <3>3, ServiceGoesOn
  <2>2. ASSUME urEnd' PROVE state' = "SERVICING" /\ Waiting'
    <3>1. urState = "END"
      BY <1>3, <2>2 DEF UrClock, UrRegisters
    <3>2. Waiting /\ latched.slave = "uart"
      BY <3>1 DEF SbInv, SlavesInv, UartInv, CalmInv, Ended
    <3>3. ~End
      BY <3>1, <3>2, EndsKnown
    <3> QED BY <3>2, <3>3, ServiceGoesOn
  <2> QED BY <2>1, <2>2
<1>5. /\ (flEnd => state \notin {"GRANT", "WAIT_BEGIN"})'
      /\ (flEnd /\ Waiting => latched.slave = "flash")'
  <2> SUFFICES ASSUME flEnd'
               PROVE  /\ state' \notin {"GRANT", "WAIT_BEGIN"}
                      /\ Waiting' => latched'.slave = "flash"
    OBVIOUS
  <2>1. flData # flNoWord \/ BusErr
    BY <1>3 DEF FlClock, FlBusRegisters
  <2>2. CASE flData # flNoWord
    <3>1. state = "SERVICING" /\ latched.slave = "flash"
      BY <2>2 DEF SbInv, SlavesInv, FlashInv, FlBusy, Served
    <3> QED BY <1>0, <1>1, <1>2, <3>1 DEF Moves, ArbiterMoves
  <2>3. CASE BusErr
    <3>1. (dcBus = "END_WRITE" /\ state = "SERVICING") \/ (state = "BUS_ERROR" /\ DcInTransaction)
      BY <2>3, ErrorsKnown DEF CalmInv, Errand
    <3>2. ~Begin /\ DcInTransaction /\ ~FsInTransaction
      BY <1>1, <3>1 DEF DcInTransaction
    <3>3. state' \notin {"GRANT", "WAIT_BEGIN"}
      BY <1>0, <3>1 DEF Moves, ArbiterMoves
    <3>4. ~Waiting'
      BY <1>0, <2>3, <3>2 DEF Moves, DcMoves, FsMoves, Waiting, Begin, DcBegin, FsBegin, FsInTransaction
    <3> QED BY <3>3, <3>4
  <2> QED BY <2>1, <2>2, <2>3
<1>6. (state = "WAIT_BEGIN" => ~bsEndSeen /\ ~flEndSeen)'
  <2> SUFFICES ASSUME state' = "WAIT_BEGIN" PROVE ~bsEndSeen' /\ ~flEndSeen'
    OBVIOUS
  <2>1. state \in {"GRANT", "WAIT_BEGIN"}
    BY <1>0, <1>1 DEF Moves, ArbiterMoves, States
  <2>2. ~End
    BY <2>1, NoEndBefore
  <2> QED BY <1>3, <2>2 DEF BsClock, BsCounters, FlClock, FlBusRegisters
<1>7. ASSUME Begin PROVE ~End /\ ~bsEndSeen /\ ~flEndSeen /\ bsState = "IDLE"
  BY <1>1, <1>7, NoEndBefore, AtBegin DEF CalmInv, Ended
<1>8. (Fresh => bsState = "INTERPRET" /\ bsActive /\ urActive)'
  <2> SUFFICES ASSUME Begin PROVE bsState' = "INTERPRET" /\ bsActive' /\ urActive'
    BY <1>2
  <2>1. bsState' = "INTERPRET"
    BY <1>3, <1>7 DEF BsClock, BsIdle, BsInterpret, BsBurst, BsBusError, BsEndTransaction
  <2>2. bsActive'
    BY <1>3, <1>7 DEF BsClock, BsCounters
  <2>3. urActive'
    BY <1>3, <1>7 DEF UrClock, UrRegisters
  <2> QED BY <2>1, <2>2, <2>3
<1>9. (Waiting => flActive /\ ~flEndSeen)'
  <2> SUFFICES ASSUME Waiting' PROVE flActive' /\ ~flEndSeen'
    OBVIOUS
  <2>1. Begin \/ (Waiting /\ ~End)
    BY <1>0 DEF Moves, DcMoves, FsMoves, Waiting, Begin, DcBegin, FsBegin
  <2>2. ~End /\ ~flEndSeen /\ (flActive \/ Begin)
    BY <1>7, <2>1 DEF CalmInv, Ended
  <2> QED BY <1>3, <2>2 DEF FlClock, FlBusRegisters
<1>10. (urState = "WAIT" => urData # urNoWord /\ ~urEnd)'
  <2> SUFFICES ASSUME urState' = "WAIT" PROVE urData' # urNoWord /\ ~urEnd'
    OBVIOUS
  <2>1. urState = "IDLE" /\ UrRead(latched)
    BY <1>3 DEF UrClock, UrReadMachine, SbInv, SlavesInv, UartInv, UrStates
  <2>2. urData' = latched.from /\ ~urEnd'
    BY <1>3, <2>1 DEF UrClock, UrRegisters
  <2>3. latched.from \in Nat
    BY <2>1 DEF UrRead, UrMyTransaction, SbInv, SlavesInv, LatchedInv
  <2> QED BY <2>2, <2>3 DEF urNoWord
<1>11. (urState = "END" => Waiting /\ urData = urNoWord /\ ~urEnd /\ timeOut = Timeout)'
  <2> SUFFICES ASSUME urState' = "END"
               PROVE  Waiting' /\ urData' = urNoWord /\ ~urEnd' /\ timeOut' = Timeout
    OBVIOUS
  <2>1. urState = "WAIT"
    BY <1>3 DEF UrClock, UrReadMachine, SbInv, SlavesInv, UartInv, UrStates
  <2>2. Waiting /\ latched.slave = "uart" /\ DataValid
    BY <2>1 DEF SbInv, SlavesInv, UartInv, Served, CalmInv, Ended, DataValid, Answers, urNoWord, NoWord
  <2>3. ~End
    BY <2>1, <2>2, EndsKnown
  <2>4. Waiting' /\ timeOut' = Timeout
    BY <2>2, <2>3, ServiceGoesOn
  <2> QED BY <1>3, <2>1, <2>4 DEF UrClock, UrRegisters
<1>12. (bsState = "ENDTRANSACTION" => bsData # bsNoWord)'
  <2> SUFFICES ASSUME bsState' = "ENDTRANSACTION" PROVE bsData' # bsNoWord
    OBVIOUS
  <2>1. bsState = "BURST" /\ ~End
    BY <1>3 DEF BsClock, BsIdle, BsInterpret, BsBurst, BsBusError, BsEndTransaction
  <2>2. bsData' = bsAddress /\ bsAddress \in Nat
    BY <1>3, <2>1 DEF BsClock, BsOutputs, SbInv, SlavesInv, BiosInv
  <2> QED BY <2>2 DEF bsNoWord
<1>13. (bsEnd => bsState = "IDLE")'
  BY <1>3 DEF BsClock, BsOutputs, BsIdle, BsInterpret, BsBurst, BsBusError, BsEndTransaction
<1>14. (urError => ~latched.read)'
  <2> SUFFICES ASSUME urError' PROVE ~latched'.read
    OBVIOUS
  <2>1. urActive /\ latched.slave = "uart" /\ (latched.words # 1 \/ ~latched.read)
    BY <1>3 DEF UrClock, UrRegisters, UrIsBusError, UrMyTransaction
  <2>2. InProgress
    BY <2>1 DEF SbInv, SlavesInv, UartInv
  <2>3. latched = DataTransaction \/ latched = CodeTransaction
    BY <2>2 DEF InProgress, Begin, CalmInv, AsAsked
  <2>4. latched.words = 1
    BY <2>1, <2>3, TransactionsKnown DEF CalmInv
  <2> QED BY <1>2, <2>1, <2>2, <2>4 DEF InProgress
<1> QED BY <1>4, <1>5, <1>6, <1>8, <1>9, <1>10, <1>11, <1>12, <1>13, <1>14 DEF Ended

LEMMA AwakeStep ==
    ASSUME Workable, IInv, SbInv, SbInv', CalmInv, NEW pause, NEW nextOp, NEW jump,
           ClockEdge(pause, nextOp, jump)
    PROVE  Awake'
<1> SUFFICES ASSUME Waiting', ~Fresh', state' = "SERVICING"
             PROVE  /\ latched'.slave = "bios" => BsBusy' \/ bsEnd'
                    /\ latched'.slave = "uart" => urState' # "IDLE" \/ urEnd'
                    /\ latched'.slave = "flash" => FlBusy' \/ flEnd'
  BY DEF Awake
<1>1. ~Begin /\ latched' = latched
  BY ProgressStep
<1>2. Waiting /\ ~End
  BY <1>1, BusStep DEF Moves, DcMoves, FsMoves, Waiting, Begin, DcBegin, FsBegin
<1>3. CASE latched.slave # "none"
  <2>1. state = "SERVICING" /\ timeOut > 0
    BY <1>2, <1>3, WaitingKnown
  <2> QED BY <1>1, <1>2, <1>3, <2>1, AnswersStep
<1>4. CASE latched.slave = "none"
  BY <1>1, <1>4
<1> QED BY <1>3, <1>4

LEMMA CalmStep ==
    ASSUME Workable, IInv, SbInv, SbInv', CalmInv, NEW pause, NEW nextOp \in Program \cup {NoOp}, NEW jump,
           ClockEdge(pause, nextOp, jump)
    PROVE  CalmInv'
<1>1. UnitsInv' /\ AsAsked'
  BY UnitsStep, AsAskedStep DEF CalmInv
<1>2. Errand'
  BY ErrandStep
<1>3. Ended'
  BY EndedStep
<1>4. Awake'
  BY AwakeStep
<1> QED BY <1>1, <1>2, <1>3, <1>4 DEF CalmInv

LEMMA CalmInitial == SbInit => CalmInv
<1> SUFFICES ASSUME SbInit PROVE CalmInv
  OBVIOUS
<1>1. UnitsInv /\ AsAsked
  BY UnitsInitial
<1>2. Errand /\ Ended /\ Awake
  BY DEF SbInit, Init, DcInit, FsInit, BsInit, UrInit, FlInit, Errand, Ended, Awake, Waiting, Fresh, InProgress,
     DcInTransaction, FsInTransaction, bsNoWord
<1> QED BY <1>1, <1>2 DEF CalmInv

LEMMA CalmUnchanged ==
    ASSUME CalmInv, UNCHANGED busVars
    PROVE  CalmInv'
<1> USE DEF busVars, vars, dcVars, fsVars, fillVars, bsVars, urVars, flVars
<1>1. UnitsInv'
  BY DEF CalmInv, UnitsInv
<1>2. AsAsked'
  BY DEF CalmInv, AsAsked, DcInTransaction, FsInTransaction, DcBegin, FsBegin, DataTransaction, CodeTransaction,
     FsAddress, Fresh
<1>3. Errand'
  BY DEF CalmInv, Errand, Waiting, InProgress, Begin, DcInTransaction, FsInTransaction, DcBegin, FsBegin
<1>4. Ended'
  BY DEF CalmInv, Ended, Waiting, Fresh
<1>5. Awake'
  BY DEF CalmInv, Awake, Waiting, Fresh, BsBusy, FlBusy
<1> QED BY <1>1, <1>2, <1>3, <1>4, <1>5 DEF CalmInv

LEMMA CalmInvariance ==
    ASSUME Workable
    PROVE  SbSpec => []CalmInv
<1>1. IInv /\ SbInv /\ SbInv' /\ CalmInv /\ [SbNext]_busVars => CalmInv'
  <2> SUFFICES ASSUME IInv, SbInv, SbInv', CalmInv, [SbNext]_busVars PROVE CalmInv'
    OBVIOUS
  <2>1. CASE SbNext
    <3>1. PICK pause \in Pauses, nextOp \in Program \cup {NoOp}, jump \in JumpTargets \cup {NoJump} :
             ClockEdge(pause, nextOp, jump)
      BY <2>1 DEF SbNext
    <3> QED BY <3>1, CalmStep
  <2>2. CASE UNCHANGED busVars
    BY <2>2, CalmUnchanged
  <2> QED BY <2>1, <2>2
<1>2. TwoLines
  BY DEF Workable, Circumstances
<1>3. SbSpec => []SbInv
  BY BusInvariance DEF Workable
<1> QED BY <1>1, <1>2, <1>3, CalmInitial, ArbiterOnBus, PTL DEF SbSpec

-----------------------------------------------------------------------------
(* The words of a read, one after the other.                                *)

Bit(b) == IF b THEN 1 ELSE 0

\* The address after the last word that is asked for.
LastWord == latched.from + latched.words

BiosCounts ==
    /\ bsState = "BURST" =>
           /\ bsCount \in Int /\ bsCount >= -1 /\ bsAddress + bsCount = LastWord - 2
           /\ bsAddress >= latched.from
           /\ bsData = IF bsAddress = latched.from THEN bsNoWord ELSE bsAddress - 1
    /\ bsState = "ENDTRANSACTION" => bsAddress = LastWord /\ bsData = bsAddress - 1
    /\ bsEnd => bsAddress = LastWord

UartCounts == urState = "WAIT" => urData = latched.from

FlashCounts ==
    /\ flState \notin {"IDLE", "WAITWORD"} => flCount = latched.words - 1
    /\ flState \in {"WAITADDRESS", "WAITDUMMY"} => flNext = latched.from
    /\ flState = "WAITWORD" =>
           /\ flCount \in Int /\ flCount >= -1
           /\ flNext >= latched.from /\ flCount = LastWord - 2 - flNext - Bit(flWordValid)
           /\ flWordValid => flShift = ShiftClocks
    /\ flState = "IDLE" /\ FlBusy => flNext + Bit(flWordValid) = LastWord
    /\ flData # flNoWord => flData = flNext - 1 /\ flNext > latched.from /\ ~flWordValid
    /\ flNext \in Int
    /\ flEnd /\ Waiting => flNext = LastWord /\ ~FlBusy

Counts == BiosCounts /\ UartCounts /\ FlashCounts

(* What is latched for a master that waits.                                 *)
LEMMA WordsKnown ==
    ASSUME Workable, SbInv, CalmInv, Waiting
    PROVE  /\ latched.words \in Nat \ {0} /\ latched.words = IF dcBus = "WAIT_READ" THEN 1 ELSE WordsPerLine
           /\ latched.slave \in {"bios", "uart", "flash"} => latched.from \in Nat
           /\ latched.slave = "uart" => latched.words = 1
  BY WaitingKnown, TransactionsKnown, FetchAssumption DEF CalmInv, SbInv, SlavesInv, LatchedInv

LEMMA BiosCountsStep ==
    ASSUME Workable, IInv, SbInv, CalmInv, BiosCounts, NEW pause, NEW nextOp, NEW jump,
           ClockEdge(pause, nextOp, jump)
    PROVE  BiosCounts'
<1>1. BsClock(Begin, End, latched) /\ BiosInv /\ (~Begin => latched' = latched)
  BY ProgressStep DEF ClockEdge, SbInv, SlavesInv
<1>2. CASE bsState = "INTERPRET" /\ BsMyBurst(latched) /\ latched.read
  <2>1. Fresh /\ latched.slave = "bios"
    BY <1>1, <1>2 DEF BiosInv, BsMyBurst
  <2>2. Waiting /\ ~Begin
    BY <2>1, <1>2 DEF SbInv, SlavesInv, FreshInv, MastersInv, Tenure
  <2>3. latched.words \in Nat \ {0} /\ latched.from \in Nat
    BY <2>1, <2>2, WordsKnown
  <2>4. bsState' = "BURST" /\ ~bsEnd'
    BY <1>1, <1>2 DEF BsClock, BsIdle, BsInterpret, BsBurst, BsBusError, BsEndTransaction, BsOutputs
  <2>5. bsCount' = latched.words - 2 /\ bsAddress' = latched.from /\ bsData' = bsNoWord
    BY <1>1, <1>2 DEF BsClock, BsCounters, BsOutputs
  <2> QED BY <1>1, <2>2, <2>3, <2>4, <2>5 DEF BiosCounts, LastWord
<1>3. CASE bsState = "BURST"
  <2>1. Waiting /\ latched.slave = "bios" /\ ~Begin /\ bsAddress \in Nat
    BY <1>1, <1>3 DEF BiosInv, BsBusy, Served, SbInv, MastersInv, Tenure
  <2>2. ~End
    BY <1>3, <2>1, EndsKnown DEF BsBusy
  <2>3. latched.words \in Nat \ {0} /\ latched.from \in Nat
    BY <2>1, WordsKnown
  <2>4. bsState' = IF bsCount < 0 THEN "ENDTRANSACTION" ELSE "BURST"
    BY <1>1, <1>3, <2>2 DEF BsClock, BsIdle, BsInterpret, BsBurst, BsBusError, BsEndTransaction
  <2>5. bsCount' = bsCount - 1 /\ bsAddress' = bsAddress + 1 /\ bsData' = bsAddress /\ ~bsEnd'
    BY <1>1, <1>3, <2>2 DEF BsClock, BsCounters, BsOutputs
  <2>6. /\ bsCount \in Int /\ bsCount >= -1 /\ bsAddress + bsCount = LastWord - 2
        /\ bsAddress >= latched.from
    BY <1>3 DEF BiosCounts
  <2> QED BY <1>1, <2>1, <2>3, <2>4, <2>5, <2>6 DEF BiosCounts, LastWord
<1>4. CASE bsState = "ENDTRANSACTION"
  <2>1. ~Begin
    BY <1>1, <1>4 DEF BiosInv, BsBusy, Served, SbInv, MastersInv, Tenure
  <2>2. bsState' = "IDLE" /\ bsAddress' = bsAddress
    BY <1>1, <1>4 DEF BsClock, BsIdle, BsInterpret, BsBurst, BsBusError, BsEndTransaction, BsCounters
  <2> QED BY <1>1, <1>4, <2>1, <2>2 DEF BiosCounts, LastWord
<1>5. CASE bsState \notin {"BURST", "ENDTRANSACTION"} /\ ~(bsState = "INTERPRET" /\ BsMyBurst(latched) /\ latched.read)
  <2>1. bsState' \notin {"BURST", "ENDTRANSACTION"} /\ ~bsEnd'
    BY <1>1, <1>5 DEF BsClock, BsIdle, BsInterpret, BsBurst, BsBusError, BsEndTransaction, BsOutputs
  <2> QED BY <2>1 DEF BiosCounts
<1> QED BY <1>2, <1>3, <1>4, <1>5

LEMMA UartCountsStep ==
    ASSUME SbInv, IInv, NEW pause, NEW nextOp, NEW jump, ClockEdge(pause, nextOp, jump)
    PROVE  UartCounts'
<1> SUFFICES ASSUME urState' = "WAIT" PROVE urData' = latched'.from
  BY DEF UartCounts
<1>1. UrClock(Begin, End, DataValid, FALSE, latched) /\ (~Begin => latched' = latched)
  BY ProgressStep DEF ClockEdge
<1>2. urState = "IDLE" /\ UrRead(latched)
  BY <1>1 DEF UrClock, UrReadMachine, SbInv, SlavesInv, UartInv, UrStates
<1>3. ~Begin
  BY <1>2, AtBegin DEF UrRead, Fresh
<1> QED BY <1>1, <1>2, <1>3 DEF UrClock, UrRegisters

LEMMA FlashCountsStep ==
    ASSUME Workable, IInv, SbInv, CalmInv, FlashCounts, NEW pause, NEW nextOp, NEW jump,
           ClockEdge(pause, nextOp, jump)
    PROVE  FlashCounts'
<1>1. /\ FlMoves(FlStartRead(latched))
      /\ flState' \in FlStates /\ flShift' \in 0 .. ShiftClocks
      /\ flWordValid' <=> flState = "WAITWORD" /\ flShift = 0
  BY FlashMoves DEF Workable
<1>2. /\ FlBusRegisters(Begin, End, BusErr, latched) /\ FlWords(BusErr, latched) /\ FlShifting
      /\ FlIdle(latched) \/ FlWaitBusy(flashBusy) \/ FlCheckBusy(flashBusy)
         \/ FlSendCommand \/ FlPreamble \/ FlWaitWord
  BY DEF ClockEdge, FlClock
<1>3. (~Begin => latched' = latched) /\ FlashInv
  BY ProgressStep DEF SbInv, SlavesInv
<1>4. flNext' = IF flState = "WAITCOMMAND" /\ flShift = 0 THEN latched.from
                ELSE IF flWordValid THEN flNext + 1 ELSE flNext
  BY <1>2 DEF FlWords, FlShiftDone
<1>5. flData' = IF flWordValid THEN flNext ELSE flNoWord
  BY <1>2 DEF FlWords
<1>6. (flEnd /\ Waiting => flNext = LastWord /\ ~FlBusy)'
  <2> SUFFICES ASSUME flEnd', Waiting' PROVE flNext' = LastWord' /\ ~FlBusy'
    OBVIOUS
  <2>1. CASE flData # flNoWord /\ ~FlQuadBusy
    <3>1. flState = "IDLE" /\ Served("flash") /\ ~flBegun
      BY <1>3, <2>1 DEF FlashInv, FlQuadBusy, FlBusy, Served, Fresh, SbInv, SlavesInv, FreshInv
    <3>2. ~flWordValid /\ flNext = LastWord /\ flNext \in Int
      BY <2>1, <3>1 DEF FlashCounts, FlBusy, Bit
    <3>3. ~Begin
      BY <3>1 DEF Served, SbInv, MastersInv, Tenure
    <3>4. flState' = "IDLE" /\ ~flWordValid' /\ flData' = flNoWord /\ flNext' = flNext
      BY <1>1, <1>4, <1>5, <3>1, <3>2 DEF FlMoves, FlStartRead
    <3> QED BY <1>3, <3>2, <3>3, <3>4 DEF LastWord, FlBusy
  <2>2. CASE ~(flData # flNoWord /\ ~FlQuadBusy)
    <3>1. BusErr
      BY <1>2, <2>2 DEF FlBusRegisters
    <3>2. DcInTransaction /\ (dcBus = "END_WRITE" \/ state = "BUS_ERROR")
      BY <3>1, ErrorsKnown DEF DcInTransaction
    <3>3. ~Begin /\ ~FsInTransaction
      BY <3>2, <3>1, AtBegin DEF SbInv, MastersInv
    <3> QED BY <3>1, <3>2, <3>3, BusStep DEF Moves, DcMoves, FsMoves, Waiting, Begin, DcBegin, FsBegin, FsInTransaction
  <2> QED BY <2>1, <2>2
<1>7. CASE ~FlBusy
  <2>1. flState = "IDLE" /\ ~flWordValid /\ flData = flNoWord
    BY <1>7 DEF FlBusy
  <2>2. ~flWordValid' /\ flData' = flNoWord /\ flState' \in {"IDLE", "WAITBUSY"}
    BY <1>1, <1>5, <2>1 DEF FlMoves
  <2>3. CASE flState' = "IDLE"
    <3>1. flNext' = flNext /\ flNext \in Int
      BY <1>4, <2>1 DEF FlashCounts
    <3> QED BY <1>6, <2>2, <2>3, <3>1 DEF FlashCounts, FlBusy
  <2>4. CASE flState' = "WAITBUSY"
    <3>1. FlStartRead(latched)
      BY <1>1, <2>1, <2>4 DEF FlMoves
    <3>2. Fresh /\ latched.slave = "flash" /\ latched.read
      BY <3>1 DEF FlStartRead, FlMyTransaction, Fresh, SbInv, SlavesInv, FreshInv
    <3>3. ~BusErr /\ ~Begin
      BY <3>2 DEF SbInv, SlavesInv, FreshInv, MastersInv, Tenure
    <3>4. flCount' = latched.words - 1 /\ latched' = latched
      BY <1>2, <1>3, <3>1, <3>3 DEF FlWords
    <3>5. flNext' = flNext /\ flNext \in Int
      BY <1>4, <2>1 DEF FlashCounts
    <3> QED BY <1>6, <2>2, <2>4, <3>4, <3>5 DEF FlashCounts
  <2> QED BY <2>2, <2>3, <2>4
<1>8. CASE FlBusy
  <2>1. Served("flash") /\ ~BusErr /\ ~Begin /\ ~FlStartRead(latched) /\ latched' = latched
    <3>1. Served("flash")
      BY <1>3, <1>8 DEF FlashInv
    <3>2. ~BusErr
      BY <3>1, ServedNoError
    <3>3. ~Begin
      BY <3>1 DEF Served, SbInv, MastersInv, Tenure
    <3>4. ~FlStartRead(latched)
      BY <3>1 DEF FlStartRead, Served, Fresh, SbInv, SlavesInv, FreshInv
    <3> QED BY <1>3, <3>1, <3>2, <3>3, <3>4
  <2>2. latched.words \in Nat \ {0} /\ latched.from \in Nat /\ ShiftClocks \in Nat \ {0} /\ CountLimit \in Nat \ {0}
    BY <2>1, WordsKnown, FlashAssumption DEF Served, Workable, ShiftsTakeTime
  <2>3. flCount' = IF FlNextWord THEN FlDecrement(flCount) ELSE flCount
    BY <1>2, <2>1 DEF FlWords
  <2>4. flNext \in Int
    BY DEF FlashCounts
  <2>5. flWordValid \/ flData # flNoWord => flState \in {"WAITWORD", "IDLE"}
    BY <1>3 DEF FlashInv
  <2>6. CASE flState \in {"WAITBUSY", "CHECKBUSY", "SENDCOMMAND"}
    <3>1. flState' \in {"CHECKBUSY", "SENDCOMMAND", "WAITCOMMAND"}
      BY <1>1, <2>6 DEF FlMoves
    <3>2. ~flWordValid' /\ flData' = flNoWord /\ flNext' = flNext
      BY <1>1, <1>4, <1>5, <2>5, <2>6
    <3>3. flCount' = latched'.words - 1
      BY <2>1, <2>3, <2>6 DEF FlashCounts, FlNextWord
    <3> QED BY <1>6, <2>4, <3>1, <3>2, <3>3 DEF FlashCounts
  <2>7. CASE flState \in {"WAITCOMMAND", "WAITADDRESS"}
    <3>1. flState' \in {"WAITCOMMAND", "WAITADDRESS", "WAITDUMMY"}
      BY <1>1, <2>7 DEF FlMoves
    <3>2. ~flWordValid' /\ flData' = flNoWord
      BY <1>1, <1>5, <2>5, <2>7
    <3>3. flCount' = latched'.words - 1
      BY <2>1, <2>3, <2>7 DEF FlashCounts, FlNextWord
    <3>4. flNext' \in Int /\ (flState' \in {"WAITADDRESS", "WAITDUMMY"} => flNext' = latched'.from)
      BY <1>1, <1>4, <2>1, <2>2, <2>4, <2>5, <2>7 DEF FlMoves, FlashCounts
    <3> QED BY <1>6, <3>1, <3>2, <3>3, <3>4 DEF FlashCounts
  <2>8. CASE flState = "WAITDUMMY"
    <3>1. ~flWordValid' /\ flData' = flNoWord /\ flNext' = latched'.from
      BY <1>1, <1>4, <1>5, <2>1, <2>5, <2>8 DEF FlashCounts
    <3>2. flCount = latched.words - 1
      BY <2>8 DEF FlashCounts
    <3>3. CASE flShift = 0
      <4>1. flState' = "WAITWORD" /\ flCount' = latched.words - 2
        BY <1>1, <2>2, <2>3, <2>8, <3>2, <3>3 DEF FlMoves, FlNextWord, FlShiftDone, FlDecrement
      <4> QED BY <1>6, <2>1, <2>2, <3>1, <4>1 DEF FlashCounts, LastWord, Bit
    <3>4. CASE flShift # 0
      <4>1. flState' = "WAITDUMMY" /\ flCount' = flCount
        BY <1>1, <2>3, <2>8, <3>4 DEF FlMoves, FlNextWord, FlShiftDone
      <4> QED BY <1>6, <2>1, <2>2, <3>1, <3>2, <4>1 DEF FlashCounts
    <3> QED BY <3>3, <3>4
  <2>9. CASE flState = "WAITWORD"
    <3>1. /\ flCount \in Int /\ flCount >= -1 /\ flNext >= latched.from
          /\ flCount = LastWord - 2 - flNext - Bit(flWordValid)
          /\ flWordValid => flShift = ShiftClocks
          /\ LastWord' = LastWord /\ LastWord \in Int
      BY <2>1, <2>2, <2>9 DEF FlashCounts, LastWord
    <3>2. flNext' = flNext + Bit(flWordValid) /\ flNext' >= latched.from /\ flNext' \in Int
      BY <1>4, <2>2, <2>4, <2>9, <3>1 DEF Bit
    <3>3. (flWordValid => ~flWordValid') /\ (flWordValid' => ~flWordValid)
      BY <1>1, <2>2, <3>1
    <3>4. (flData # flNoWord => flData = flNext - 1 /\ flNext > latched.from /\ ~flWordValid)'
      <4>1. CASE flWordValid
        <5>1. flNext' = flNext + 1 /\ flData' = flNext /\ ~flWordValid'
          BY <1>5, <3>2, <3>3, <4>1 DEF Bit
        <5> QED BY <2>1, <2>2, <2>4, <3>1, <5>1
      <4>2. CASE ~flWordValid
        BY <1>5, <4>2
      <4> QED BY <4>1, <4>2
    <3>5. CASE flShift # 0
      <4>1. flState' = "WAITWORD" /\ ~flWordValid' /\ flCount' = flCount
        BY <1>1, <2>3, <2>9, <3>5 DEF FlMoves, FlNextWord, FlShiftDone
      <4>2. flCount' = LastWord' - 2 - flNext' - Bit(flWordValid')
        BY <2>4, <3>1, <3>2, <4>1 DEF Bit
      <4> QED BY <1>6, <2>1, <3>1, <3>2, <3>4, <4>1, <4>2 DEF FlashCounts
    <3>6. CASE flShift = 0 /\ flCount >= 0
      <4>1. flState' = "WAITWORD" /\ flWordValid' /\ flShift' = ShiftClocks /\ flCount' = flCount - 1
        <5>1. FlNextWord /\ FlShiftDone
          BY <2>9, <3>6 DEF FlNextWord, FlShiftDone
        <5>2. FlDecrement(flCount) = flCount - 1
          BY <2>2, <3>1, <3>6 DEF FlDecrement
        <5>3. flState' = "WAITWORD"
          BY <1>2, <2>9, <5>1 DEF FlIdle, FlWaitBusy, FlCheckBusy, FlSendCommand, FlPreamble, FlWaitWord
        <5> QED BY <1>1, <1>2, <2>3, <2>9, <3>6, <5>1, <5>2, <5>3 DEF FlShifting
      <4>2. flCount' = LastWord' - 2 - flNext' - Bit(flWordValid')
        BY <2>4, <3>1, <3>2, <3>3, <4>1 DEF Bit
      <4>3. flCount' \in Int /\ flCount' >= -1
        BY <3>1, <3>6, <4>1
      <4> QED BY <1>6, <2>1, <3>2, <3>4, <4>1, <4>2, <4>3 DEF FlashCounts
    <3>7. CASE flShift = 0 /\ flCount = -1
      <4>1. flState' = "IDLE" /\ flWordValid'
        BY <1>1, <1>2, <2>9, <3>7 DEF FlIdle, FlWaitBusy, FlCheckBusy, FlSendCommand, FlPreamble, FlWaitWord,
           FlNextWord, FlShiftDone
      <4>2. flNext' + Bit(flWordValid') = LastWord'
        BY <2>4, <3>1, <3>2, <3>3, <3>7, <4>1 DEF Bit
      <4> QED BY <1>6, <3>2, <3>4, <4>1, <4>2 DEF FlashCounts
    <3> QED BY <3>1, <3>5, <3>6, <3>7
  <2>10. CASE flState = "IDLE"
    <3>1. flNext + Bit(flWordValid) = LastWord /\ LastWord' = LastWord
      BY <1>8, <2>1, <2>10 DEF FlashCounts, LastWord
    <3>2. flState' = "IDLE" /\ ~flWordValid' /\ flNext' = LastWord' /\ flNext' \in Int
      BY <1>1, <1>4, <2>1, <2>4, <2>10, <3>1 DEF FlMoves, Bit
    <3>3. (flData # flNoWord => flData = flNext - 1 /\ flNext > latched.from /\ ~flWordValid)'
      BY <1>5, <2>1, <2>2, <2>4, <3>1, <3>2 DEF Bit, LastWord
    <3>4. flNext' + Bit(flWordValid') = LastWord'
      <4>1. Bit(flWordValid') = 0
        BY <3>2 DEF Bit
      <4>2. PICK next \in Int : next = flNext'
        BY <3>2
      <4>3. next + 0 = next
        OBVIOUS
      <4> QED BY <3>2, <4>1, <4>2, <4>3
    <3> QED BY <1>6, <3>2, <3>3, <3>4 DEF FlashCounts
  <2> QED BY <1>3, <2>6, <2>7, <2>8, <2>9, <2>10 DEF FlashInv, FlStates
<1> QED BY <1>7, <1>8

LEMMA CountsInvariance ==
    ASSUME Workable
    PROVE  SbSpec => []Counts
<1>1. IInv /\ SbInv /\ CalmInv /\ Counts /\ [SbNext]_busVars => Counts'
  <2> SUFFICES ASSUME IInv, SbInv, CalmInv, Counts, [SbNext]_busVars PROVE Counts'
    OBVIOUS
  <2>1. CASE SbNext
    <3>1. PICK pause \in Pauses, nextOp \in Program \cup {NoOp}, jump \in JumpTargets \cup {NoJump} :
              ClockEdge(pause, nextOp, jump)
      BY <2>1 DEF SbNext
    <3>2. BiosCounts'
      BY <3>1, BiosCountsStep DEF Counts
    <3>3. UartCounts'
      BY <3>1, UartCountsStep
    <3>4. FlashCounts'
      BY <3>1, FlashCountsStep DEF Counts
    <3> QED BY <3>2, <3>3, <3>4 DEF Counts
  <2>2. CASE UNCHANGED busVars
    BY <2>2 DEF busVars, dcVars, fsVars, fillVars, bsVars, urVars, flVars, Counts, BiosCounts, UartCounts,
       FlashCounts, LastWord, FlBusy, Waiting
  <2> QED BY <2>1, <2>2
<1>2. SbInit => Counts
  BY DEF SbInit, DcInit, FsInit, BsInit, UrInit, FlInit, Counts, BiosCounts, UartCounts, FlashCounts, FlBusy,
     Waiting
<1>3. TwoLines
  BY DEF Workable, Circumstances
<1>4. SbSpec => []SbInv
  BY BusInvariance DEF Workable
<1> QED BY <1>1, <1>2, <1>3, <1>4, CalmInvariance, ArbiterOnBus, PTL DEF SbSpec

\* How many words of its read the waiting master has got.
Sent ==
    IF ~Waiting \/ Fresh THEN 0
    ELSE IF latched.slave = "bios" THEN bsAddress - latched.from - Bit(bsData # bsNoWord)
    ELSE IF latched.slave = "uart" THEN Bit(urEnd \/ urState = "END")
    ELSE IF latched.slave = "flash" /\ flState \notin {"WAITBUSY", "CHECKBUSY", "SENDCOMMAND", "WAITCOMMAND"}
         THEN flNext - latched.from - Bit(flData # flNoWord)
    ELSE 0

(* The wires carry the word of the slave that is read.                      *)
LEMMA AnswersKnown ==
    ASSUME SbInv
    PROVE  /\ Answers # {} => Served(latched.slave) /\ latched.slave \in {"bios", "uart", "flash"}
           /\ latched.slave = "bios" => Answers = {bsData} \ {NoWord} /\ (bsData # NoWord => BusWord = bsData)
           /\ latched.slave = "uart" => Answers = {urData} \ {NoWord} /\ (urData # NoWord => BusWord = urData)
           /\ latched.slave = "flash" => Answers = {flData} \ {NoWord} /\ (flData # NoWord => BusWord = flData)
<1>1. /\ bsData # NoWord => Served("bios")
      /\ urData # NoWord => Served("uart")
      /\ flData # NoWord => Served("flash")
  BY DEF SbInv, SlavesInv, BiosInv, UartInv, FlashInv, FlBusy, NoWord, bsNoWord, urNoWord, flNoWord
<1>2. Answers # {} => Served(latched.slave) /\ latched.slave \in {"bios", "uart", "flash"}
  BY <1>1 DEF Answers, Served
<1>3. ASSUME NEW w, w # NoWord, Answers = {w} PROVE BusWord = w
  BY <1>3 DEF BusWord
<1>4. /\ latched.slave = "bios" => Answers = {bsData} \ {NoWord}
      /\ latched.slave = "uart" => Answers = {urData} \ {NoWord}
      /\ latched.slave = "flash" => Answers = {flData} \ {NoWord}
  BY <1>1 DEF Answers, Served
<1>5. /\ latched.slave = "bios" /\ bsData # NoWord => BusWord = bsData
      /\ latched.slave = "uart" /\ urData # NoWord => BusWord = urData
      /\ latched.slave = "flash" /\ flData # NoWord => BusWord = flData
  BY <1>3, <1>4
<1> QED BY <1>2, <1>4, <1>5

(* The words come in the order of their addresses, and the end after the    *)
(* last of them.                                                            *)
LEMMA Delivery ==
    ASSUME Workable, SbInv, CalmInv, Counts, Waiting
    PROVE  /\ Answers # {} => BusWord = latched.from + Sent /\ Sent \in Nat /\ Sent < latched.words
                              /\ latched.from \in Nat /\ latched.slave # "none"
           /\ End => Sent = latched.words /\ Answers = {}
<1>1. /\ latched.words \in Nat \ {0}
      /\ latched.slave \in {"bios", "uart", "flash"} => latched.from \in Nat
      /\ latched.slave = "uart" => latched.words = 1
  BY WordsKnown
<1>2. ASSUME Answers # {}
      PROVE  /\ BusWord = latched.from + Sent /\ Sent \in Nat /\ Sent < latched.words
             /\ latched.from \in Nat /\ latched.slave # "none"
  <2>1. Served(latched.slave) /\ latched.slave \in {"bios", "uart", "flash"} /\ ~Fresh /\ latched.from \in Nat
    BY <1>1, <1>2, AnswersKnown DEF Served
  <2>2. CASE latched.slave = "bios"
    <3>1. BusWord = bsData /\ bsData # bsNoWord
      BY <1>2, <2>2, AnswersKnown DEF NoWord, bsNoWord
    <3>2. bsState \in {"BURST", "ENDTRANSACTION"}
      BY <3>1 DEF SbInv, SlavesInv, BiosInv, BsBusy
    <3>3. bsData = bsAddress - 1 /\ bsAddress \in Int /\ bsAddress > latched.from /\ bsAddress <= LastWord
      <4>1. CASE bsState = "BURST"
        BY <1>1, <2>1, <3>1, <4>1 DEF Counts, BiosCounts, LastWord, SbInv, SlavesInv, BiosInv
      <4>2. CASE bsState = "ENDTRANSACTION"
        BY <1>1, <2>1, <4>2 DEF Counts, BiosCounts, LastWord
      <4> QED BY <3>2, <4>1, <4>2
    <3>4. Sent = bsAddress - latched.from - 1
      BY <2>1, <2>2, <3>1 DEF Sent, Served, Bit
    <3> QED BY <1>1, <2>1, <2>2, <3>1, <3>3, <3>4 DEF LastWord
  <2>3. CASE latched.slave = "uart"
    <3>1. BusWord = urData /\ urData # urNoWord
      BY <1>2, <2>3, AnswersKnown DEF NoWord, urNoWord
    <3>2. urState = "WAIT"
      BY <3>1 DEF SbInv, SlavesInv, UartInv
    <3>3. ~urEnd /\ urData = latched.from
      BY <3>2 DEF CalmInv, Ended, Counts, UartCounts
    <3>4. Sent = 0
      BY <2>1, <2>3, <3>2, <3>3 DEF Sent, Served, Bit
    <3> QED BY <1>1, <2>1, <2>3, <3>1, <3>3, <3>4
  <2>4. CASE latched.slave = "flash"
    <3>1. BusWord = flData /\ flData # flNoWord
      BY <1>2, <2>4, AnswersKnown DEF NoWord, flNoWord
    <3>2. flState \in {"WAITWORD", "IDLE"} /\ FlBusy
      BY <3>1 DEF SbInv, SlavesInv, FlashInv, FlBusy
    <3>3. flData = flNext - 1 /\ flNext > latched.from /\ ~flWordValid /\ flNext \in Int
      BY <3>1 DEF Counts, FlashCounts
    <3>4. flNext <= LastWord
      <4>1. Bit(flWordValid) = 0
        BY <3>3 DEF Bit
      <4>2. CASE flState = "WAITWORD"
        BY <1>1, <2>1, <3>3, <4>1, <4>2 DEF Counts, FlashCounts, LastWord
      <4>3. CASE flState = "IDLE"
        BY <1>1, <2>1, <3>2, <3>3, <4>1, <4>3 DEF Counts, FlashCounts, LastWord
      <4> QED BY <3>2, <4>2, <4>3
    <3>5. Sent = flNext - latched.from - 1
      BY <2>1, <2>4, <3>1, <3>2 DEF Sent, Served, Bit
    <3> QED BY <1>1, <2>1, <2>4, <3>1, <3>3, <3>4, <3>5 DEF LastWord
  <2> QED BY <2>1, <2>2, <2>3, <2>4
<1>3. ASSUME End PROVE Sent = latched.words /\ Answers = {}
  <2>1. /\ \/ bsEnd /\ latched.slave = "bios"
           \/ urEnd /\ latched.slave = "uart"
           \/ flEnd /\ latched.slave = "flash"
        /\ ~BsBusy /\ urState = "IDLE"
    BY <1>3, EndsKnown
  <2>2. ~Fresh
    BY <1>3 DEF SbInv, SlavesInv, FreshInv
  <2>3. CASE bsEnd /\ latched.slave = "bios"
    <3>1. bsAddress = latched.from + latched.words
      BY <2>3 DEF Counts, BiosCounts, LastWord
    <3>2. bsData = bsNoWord
      BY <2>1 DEF SbInv, SlavesInv, BiosInv
    <3>3. Answers = {}
      BY <2>3, <3>2, AnswersKnown DEF bsNoWord, NoWord
    <3>4. Sent = bsAddress - latched.from - 0
      BY <2>2, <2>3, <3>2 DEF Sent, Bit
    <3> QED BY <1>1, <2>3, <3>1, <3>3, <3>4
  <2>4. CASE urEnd /\ latched.slave = "uart"
    <3>1. urData = urNoWord
      BY <2>1 DEF SbInv, SlavesInv, UartInv
    <3>2. Answers = {}
      BY <2>4, <3>1, AnswersKnown DEF urNoWord, NoWord
    <3>3. Sent = 1
      BY <2>2, <2>4 DEF Sent, Bit
    <3> QED BY <1>1, <2>4, <3>2, <3>3
  <2>5. CASE flEnd /\ latched.slave = "flash"
    <3>1. flNext = latched.from + latched.words /\ flState = "IDLE" /\ flData = flNoWord
      BY <2>5 DEF Counts, FlashCounts, LastWord, FlBusy
    <3>2. Answers = {}
      BY <2>5, <3>1, AnswersKnown DEF flNoWord, NoWord
    <3>3. Sent = flNext - latched.from - 0
      BY <2>2, <2>5, <3>1 DEF Sent, Bit
    <3> QED BY <1>1, <2>5, <3>1, <3>2, <3>3
  <2> QED BY <2>1, <2>3, <2>4, <2>5
<1> QED BY <1>2, <1>3

(* Each clock with a word on the wires counts for one word.                 *)
LEMMA SentStep ==
    ASSUME Workable, IInv, SbInv, CalmInv, Counts, NEW pause, NEW nextOp, NEW jump,
           ClockEdge(pause, nextOp, jump), Waiting'
    PROVE  /\ Begin => Sent' = 0
           /\ ~Begin => /\ Waiting /\ ~End /\ latched' = latched
                        /\ Sent' = IF Answers = {} THEN Sent ELSE Sent + 1
<1>1. (~Begin => latched' = latched) /\ (Fresh' <=> Begin)
  BY ProgressStep
<1>2. Begin => Sent' = 0
  BY <1>1 DEF Sent
<1> SUFFICES ASSUME ~Begin
             PROVE  /\ Waiting /\ ~End /\ latched' = latched
                    /\ Sent' = IF Answers = {} THEN Sent ELSE Sent + 1
  BY <1>2
<1>3. Waiting /\ ~End /\ latched' = latched /\ ~Fresh'
  BY <1>1, BusStep DEF Moves, DcMoves, FsMoves, Waiting, Begin, DcBegin, FsBegin
<1> SUFFICES Sent' = IF Answers = {} THEN Sent ELSE Sent + 1
  BY <1>3
<1>4. /\ latched.slave \in {"bios", "uart", "flash"} => latched.from \in Nat /\ state = "SERVICING"
      /\ latched.read
  BY <1>3, WordsKnown, WaitingKnown
<1>5. /\ BsClock(Begin, End, latched) /\ UrClock(Begin, End, DataValid, FALSE, latched)
      /\ FlClock(Begin, End, BusErr, flashBusy, latched)
  BY DEF ClockEdge
<1>6. CASE latched.slave \notin {"bios", "uart", "flash"}
  <2>1. Answers = {}
    BY <1>6, AnswersKnown
  <2> QED BY <1>3, <1>6, <2>1 DEF Sent
<1>7. CASE latched.slave = "bios"
  <2>1. Sent' = bsAddress' - latched.from - Bit((bsData # bsNoWord)')
    BY <1>3, <1>7 DEF Sent
  <2>2. CASE Fresh
    <3>1. bsState = "INTERPRET" /\ bsActive /\ bsData = bsNoWord
      BY <2>2 DEF CalmInv, Ended, SbInv, SlavesInv, FreshInv, BiosInv
    <3>2. bsAddress' = latched.from /\ bsData' = bsNoWord
      BY <1>5, <1>7, <3>1 DEF BsClock, BsCounters, BsOutputs, BsMyBurst
    <3>3. Sent' = latched.from - latched.from - 0
      BY <2>1, <3>2 DEF Bit
    <3>4. Answers = {}
      BY <1>7, <3>1, AnswersKnown DEF bsNoWord, NoWord
    <3> QED BY <1>4, <1>7, <2>2, <3>3, <3>4 DEF Sent
  <2>3. CASE ~Fresh /\ bsState = "BURST"
    <3>1. bsAddress \in Nat
      BY <2>3 DEF SbInv, SlavesInv, BiosInv
    <3>2. bsAddress' = bsAddress + 1 /\ bsData' = bsAddress
      BY <1>3, <1>5, <2>3 DEF BsClock, BsCounters, BsOutputs
    <3>3. Sent' = (bsAddress + 1) - latched.from - 1
      BY <2>1, <3>1, <3>2 DEF Bit, bsNoWord
    <3>4. Sent = bsAddress - latched.from - Bit(bsData # bsNoWord)
      BY <1>3, <1>7, <2>3 DEF Sent
    <3>5. Bit(bsData # bsNoWord) = IF Answers = {} THEN 0 ELSE 1
      BY <1>7, AnswersKnown DEF bsNoWord, NoWord, Bit
    <3> QED BY <1>4, <1>7, <3>1, <3>3, <3>4, <3>5
  <2>4. CASE ~Fresh /\ bsState = "ENDTRANSACTION"
    <3>1. bsData # bsNoWord /\ bsAddress \in Int
      <4>1. latched.words \in Nat
        BY <1>3, WordsKnown
      <4> QED BY <1>4, <1>7, <2>4, <4>1 DEF CalmInv, Ended, Counts, BiosCounts, LastWord
    <3>2. bsAddress' = bsAddress /\ bsData' = bsNoWord
      BY <1>5, <2>4 DEF BsClock, BsCounters, BsOutputs
    <3>3. Sent' = bsAddress - latched.from - 0
      BY <2>1, <3>2 DEF Bit
    <3>4. Sent = bsAddress - latched.from - 1
      BY <1>3, <1>7, <2>4, <3>1 DEF Sent, Bit
    <3>5. Answers # {}
      BY <1>7, <3>1, AnswersKnown DEF bsNoWord, NoWord
    <3> QED BY <1>4, <1>7, <3>1, <3>3, <3>4, <3>5
  <2> QED BY <1>3, <1>4, <1>7, <2>2, <2>3, <2>4 DEF CalmInv, Awake, End, BsBusy
<1>8. CASE latched.slave = "uart"
  <2>1. Sent' = Bit((urEnd \/ urState = "END")') /\ ~urEnd
    BY <1>3, <1>8 DEF Sent, End
  <2>2. CASE Fresh
    <3>1. urState = "IDLE" /\ urData = urNoWord
      BY <2>2 DEF SbInv, SlavesInv, FreshInv, UartInv
    <3>2. ~urEnd' /\ urState' # "END"
      BY <1>5, <3>1 DEF UrClock, UrRegisters, UrReadMachine
    <3>3. Answers = {}
      BY <1>8, <3>1, AnswersKnown DEF urNoWord, NoWord
    <3> QED BY <2>1, <2>2, <3>2, <3>3 DEF Sent, Bit
  <2>3. CASE ~Fresh /\ urState = "WAIT"
    <3>1. urState' = "END" /\ urData # urNoWord
      BY <1>5, <2>3 DEF UrClock, UrReadMachine, CalmInv, Ended
    <3>2. Answers # {}
      BY <1>8, <3>1, AnswersKnown DEF urNoWord, NoWord
    <3>3. Sent = 0
      BY <1>3, <1>8, <2>1, <2>3 DEF Sent, Bit
    <3> QED BY <2>1, <3>1, <3>2, <3>3 DEF Bit
  <2>4. CASE ~Fresh /\ urState = "END"
    <3>1. urEnd' /\ urData = urNoWord
      BY <1>5, <2>4 DEF UrClock, UrRegisters, CalmInv, Ended
    <3>2. Answers = {}
      BY <1>8, <3>1, AnswersKnown DEF urNoWord, NoWord
    <3>3. Sent = 1
      BY <1>3, <1>8, <2>4 DEF Sent, Bit
    <3> QED BY <2>1, <3>1, <3>2, <3>3 DEF Bit
  <2> QED BY <1>3, <1>4, <1>8, <2>1, <2>2, <2>3, <2>4 DEF CalmInv, Awake, SbInv, SlavesInv, UartInv, UrStates
<1>9. CASE latched.slave = "flash"
  <2>1. /\ FlMoves(FlStartRead(latched)) /\ flState' \in FlStates /\ flState \in FlStates
        /\ flNext' = IF flState = "WAITCOMMAND" /\ flShift = 0 THEN latched.from
                     ELSE IF flWordValid THEN flNext + 1 ELSE flNext
        /\ flData' = IF flWordValid THEN flNext ELSE flNoWord
    BY <1>5, FlashMoves DEF Workable, FlClock, FlWords, FlShiftDone, SbInv, SlavesInv, FlashInv
  <2>2. flNext \in Int
    BY DEF Counts, FlashCounts
  <2>3. CASE Fresh
    <3>1. flState = "IDLE" /\ flData = flNoWord /\ flBegun /\ flActive
      BY <1>3, <2>3 DEF SbInv, SlavesInv, FreshInv, FlBusy, Fresh, CalmInv, Ended
    <3>2. flState' = "WAITBUSY"
      BY <1>4, <1>9, <2>1, <3>1 DEF FlMoves, FlStartRead, FlMyTransaction
    <3>3. Answers = {}
      BY <1>9, <3>1, AnswersKnown DEF flNoWord, NoWord
    <3> QED BY <1>3, <1>9, <2>3, <3>2, <3>3 DEF Sent
  <2>4. CASE ~Fresh /\ flState \in {"WAITBUSY", "CHECKBUSY", "SENDCOMMAND", "WAITCOMMAND"}
    <3>1. flData = flNoWord /\ ~flWordValid
      BY <2>4 DEF SbInv, SlavesInv, FlashInv
    <3>2. Answers = {} /\ Sent = 0
      BY <1>3, <1>9, <2>4, <3>1, AnswersKnown DEF flNoWord, NoWord, Sent
    <3>3. CASE flState' = "WAITADDRESS"
      <4>1. flNext' = latched.from /\ flData' = flNoWord
        BY <2>1, <2>4, <3>1, <3>3 DEF FlMoves
      <4>2. Sent' = latched.from - latched.from - 0
        BY <1>3, <1>9, <3>3, <4>1 DEF Sent, Bit
      <4> QED BY <1>4, <1>9, <3>2, <4>2
    <3>4. CASE flState' # "WAITADDRESS"
      <4>1. flState' \in {"WAITBUSY", "CHECKBUSY", "SENDCOMMAND", "WAITCOMMAND"}
        BY <2>1, <2>4, <3>4 DEF FlMoves
      <4> QED BY <1>3, <1>9, <3>2, <4>1 DEF Sent
    <3> QED BY <3>3, <3>4
  <2>5. CASE ~Fresh /\ flState \in {"WAITADDRESS", "WAITDUMMY", "WAITWORD", "IDLE"}
    <3>1. flState' \notin {"WAITBUSY", "CHECKBUSY", "SENDCOMMAND", "WAITCOMMAND"}
      BY <2>1, <2>5 DEF FlMoves, FlStartRead, SbInv, SlavesInv, FreshInv, Fresh
    <3>2. Sent' = flNext' - latched.from - Bit((flData # flNoWord)')
      BY <1>3, <1>9, <3>1 DEF Sent
    <3>3. flNext' - latched.from - Bit((flData # flNoWord)') = flNext - latched.from
      <4>1. CASE flWordValid
        <5>1. flNext' = flNext + 1 /\ flData' = flNext
          BY <2>1, <2>5, <4>1
        <5>2. flNext # flNoWord
          BY <4>1 DEF SbInv, SlavesInv, FlashInv, flNoWord
        <5>3. Bit((flData # flNoWord)') = 1
          BY <5>1, <5>2 DEF Bit
        <5> QED BY <1>4, <1>9, <2>2, <5>1, <5>3
      <4>2. CASE ~flWordValid
        <5>1. flNext' = flNext /\ Bit((flData # flNoWord)') = 0
          BY <2>1, <2>5, <4>2 DEF Bit
        <5> QED BY <1>4, <1>9, <2>2, <5>1
      <4> QED BY <4>1, <4>2
    <3>4. Sent = flNext - latched.from - Bit(flData # flNoWord)
      BY <1>3, <1>9, <2>5 DEF Sent
    <3>5. Bit(flData # flNoWord) = IF Answers = {} THEN 0 ELSE 1
      BY <1>9, AnswersKnown DEF flNoWord, NoWord, Bit
    <3> QED BY <1>4, <1>9, <2>2, <3>2, <3>3, <3>4, <3>5
  <2> QED BY <2>1, <2>3, <2>4, <2>5 DEF FlStates
<1> QED BY <1>3, <1>6, <1>7, <1>8, <1>9

-----------------------------------------------------------------------------
(* What becomes of an access of the load/store unit.                        *)

\* The access has ended, with this result.
Concluded(failed) ==
    /\ failed <=> Reported(dcOp)
    /\ dcOp.kind = "load" /\ ~failed => dcFetched = WordAt(dcOp.target)
    /\ uartWritten <=> dcOp.kind = "store" /\ dcOp.target = "uart"

Outcome ==
    /\ dcBusError \in BOOLEAN /\ dcCacheError \in BOOLEAN /\ uartWritten \in BOOLEAN /\ urWrite \in BOOLEAN
    /\ dcBus \in {"INIT_TRANSACTION", "WAIT_READ", "DO_WRITE", "END_WRITE"} => ~dcBusError
    /\ DcInTransaction => ~uartWritten
    /\ urWrite <=> dcBus = "END_WRITE" /\ dcOp.target = "uart"
    /\ dcBus = "WAIT_READ" /\ Sent = 1 => dcFetched = latched.from
    /\ dcBus = "BUS_ERROR" => dcOp.kind = "load" /\ SlaveOf(dcOp.target) = "none"
    /\ dcBus = "SIG_DONE" => Concluded(dcBusError)
    /\ dcState = "SIGNAL_DONE" => Concluded(dcCacheError)

LEMMA OutcomeStep ==
    ASSUME Workable, IInv, SbInv, CalmInv, Counts, Outcome, NEW pause, NEW nextOp, NEW jump,
           ClockEdge(pause, nextOp, jump)
    PROVE  Outcome'
<1>0. Moves
  BY BusStep
<1>1. dcBus # "NOOP" => dcOp' = dcOp
  BY RequestHeld DEF CalmInv
<1>2. BusMachine(DCacheLine \in busGrants, BusErr, FALSE, End, DataValid, BusWord)
  BY DEF ClockEdge, DcClock
<1>3. /\ uartWritten' = (~DcRequest /\ (uartWritten \/ urWrite))
      /\ UrRegisters(Begin, End, DataValid, FALSE, latched)
  BY DEF ClockEdge, UrClock
<1>4. (dcBusError \in BOOLEAN /\ dcCacheError \in BOOLEAN /\ uartWritten \in BOOLEAN /\ urWrite \in BOOLEAN)'
  <2>1. dcBusError' \in BOOLEAN
    BY <1>2 DEF Outcome, BusMachine, Noop, RequestBus, InitTransaction, WaitRead, DoWrite, EndTransfer, SigDone
  <2>2. dcCacheError' \in BOOLEAN
    BY DEF ClockEdge, DcClock, StallRegisters
  <2>3. uartWritten' \in BOOLEAN /\ urWrite' \in BOOLEAN
    BY <1>3 DEF UrRegisters
  <2> QED BY <2>1, <2>2, <2>3
<1>5. ~(DcInTransaction /\ FsInTransaction)
  BY DEF SbInv, MastersInv
<1>6. dcBus = "DO_WRITE" => Fresh /\ ~BusErr /\ urActive /\ ~DcBegin
  BY DEF CalmInv, AsAsked, Ended, SbInv, SlavesInv, FreshInv, DcBegin
<1>7. (dcBus \in {"INIT_TRANSACTION", "WAIT_READ", "DO_WRITE", "END_WRITE"} => ~dcBusError)'
  BY <1>0, <1>2 DEF Moves, DcMoves, Outcome, BusMachine, Noop, RequestBus, InitTransaction, WaitRead, DoWrite,
     EndTransfer, SigDone
<1>8. (DcInTransaction => ~uartWritten)'
  <2> SUFFICES ASSUME DcInTransaction' PROVE ~uartWritten'
    OBVIOUS
  <2>1. dcBus = "REQUEST_BUS" \/ (DcInTransaction /\ dcBus # "END_WRITE")
    BY <1>0 DEF Moves, DcMoves, DcInTransaction
  <2> QED BY <1>3, <2>1 DEF Outcome, DcRequest
<1>9. (urWrite <=> dcBus = "END_WRITE" /\ dcOp.target = "uart")'
  <2>1. urWrite' <=> DataValid /\ UrMyTransaction(latched) /\ ~UrIsBusError(latched) /\ ~latched.read
    BY <1>3 DEF UrRegisters
  <2>2. dcBus' = "END_WRITE" <=> dcBus = "DO_WRITE"
    BY <1>0, <1>6 DEF Moves, DcMoves
  <2>3. ASSUME urWrite' PROVE dcBus = "DO_WRITE"
    <3>1. ~latched.read /\ DataValid
      BY <2>1, <2>3
    <3>2. Answers = {}
      BY <3>1, AnswersKnown DEF Served
    <3> QED BY <3>1, <3>2 DEF DataValid, DcDataValid
  <2>4. ASSUME dcBus = "DO_WRITE" PROVE urWrite' <=> dcOp.target = "uart"
    <3>1. latched = DataTransaction
      BY <1>6, <2>4 DEF CalmInv, AsAsked, DcInTransaction
    <3>2. dcOp.kind = "store" /\ DataValid /\ urActive
      BY <1>6, <2>4 DEF CalmInv, AsAsked, DataValid, DcDataValid
    <3>3. /\ latched.slave = SlaveOf(dcOp.target) /\ ~latched.read /\ latched.words = 1
          /\ latched.whole <=> dcOp.target \notin {"uart", "flashByte"}
      BY <3>1, <3>2, TransactionsKnown DEF CalmInv
    <3>4. urWrite' <=> SlaveOf(dcOp.target) = "uart" /\ dcOp.target \in {"uart", "flashByte"}
      BY <2>1, <3>2, <3>3 DEF UrMyTransaction, UrIsBusError
    <3>5. SlaveOf("uart") = "uart" /\ SlaveOf("flashByte") # "uart"
      BY DEF SlaveOf
    <3> QED BY <3>4, <3>5
  <2> QED BY <1>1, <2>2, <2>3, <2>4
<1>10. (dcBus = "WAIT_READ" /\ Sent = 1 => dcFetched = latched.from)'
  <2> SUFFICES ASSUME dcBus' = "WAIT_READ", Sent' = 1 PROVE dcFetched' = latched'.from
    OBVIOUS
  <2>1. ~Begin /\ Waiting /\ latched' = latched /\ Sent' = IF Answers = {} THEN Sent ELSE Sent + 1
    BY SentStep DEF Waiting
  <2>2. dcBus = "WAIT_READ"
    BY <1>0, <2>1 DEF Moves, DcMoves, Begin, DcBegin
  <2>3. latched.words = 1 /\ ~DcDataValid
    BY <2>1, <2>2, WordsKnown, WaitingKnown
  <2>4. dcFetched' = IF DataValid THEN BusWord ELSE dcFetched
    BY <1>2, <2>2 DEF BusMachine, Noop, RequestBus, InitTransaction, WaitRead, DoWrite, EndTransfer, SigDone
  <2>5. CASE Answers = {}
    BY <2>1, <2>2, <2>3, <2>4, <2>5 DEF DataValid, Outcome
  <2>6. CASE Answers # {}
    <3>1. BusWord = latched.from + Sent /\ Sent \in Nat /\ Sent < 1 /\ latched.from \in Nat
      BY <2>1, <2>3, <2>6, Delivery
    <3>2. BusWord = latched.from
      BY <3>1
    <3> QED BY <2>1, <2>4, <2>6, <3>2 DEF DataValid
  <2> QED BY <2>5, <2>6
<1>11. (dcBus = "BUS_ERROR" => dcOp.kind = "load" /\ SlaveOf(dcOp.target) = "none")'
  <2> SUFFICES ASSUME dcBus' = "BUS_ERROR" PROVE dcOp.kind = "load" /\ SlaveOf(dcOp.target) = "none"
    <3>1. dcBus' = "BUS_ERROR" => dcBus # "NOOP"
      BY <1>0 DEF Moves, DcMoves
    <3> QED BY <1>1, <3>1
  <2>1. dcBus = "WAIT_READ" /\ BusErr
    BY <1>0, <1>6 DEF Moves, DcMoves
  <2>2. state = "BUS_ERROR" /\ Waiting
    BY <2>1, ErrorsKnown DEF Waiting
  <2>3. latched.slave = "none" /\ latched = DataTransaction
    BY <2>1, <2>2, WaitingKnown DEF CalmInv, Errand
  <2> QED BY <2>1, <2>3, TransactionsKnown DEF CalmInv, AsAsked
<1>12. (dcBus = "SIG_DONE" => Concluded(dcBusError))'
  <2> SUFFICES ASSUME dcBus' = "SIG_DONE" PROVE Concluded(dcBusError)'
    OBVIOUS
  <2>1. dcOp' = dcOp /\ dcBus \in {"WAIT_READ", "END_WRITE", "BUS_ERROR"}
    BY <1>1, <1>2 DEF BusMachine, Noop, RequestBus, InitTransaction, WaitRead, DoWrite, EndTransfer, SigDone
  <2>2. uartWritten' <=> urWrite
    BY <1>3, <2>1 DEF DcRequest, Outcome, DcInTransaction
  <2>3. CASE dcBus = "WAIT_READ"
    <3>1. Waiting /\ End /\ ~BusErr /\ dcBusError' = dcBusError
          /\ dcFetched' = IF DataValid THEN BusWord ELSE dcFetched
      BY <1>2, <2>3 DEF BusMachine, Noop, RequestBus, InitTransaction, WaitRead, DoWrite, EndTransfer, SigDone,
         Waiting
    <3>2. latched.slave # "none" /\ latched = DataTransaction /\ latched.words = 1 /\ ~DcDataValid
      BY <2>3, <3>1, EndsKnown, WaitingKnown, WordsKnown
    <3>3. Sent = 1 /\ Answers = {}
      BY <3>1, <3>2, Delivery
    <3>4. dcFetched' = latched.from
      BY <2>3, <3>1, <3>2, <3>3 DEF DataValid, Outcome
    <3>5. dcOp.kind = "load" /\ latched.from = WordAt(dcOp.target) /\ SlaveOf(dcOp.target) # "none"
      BY <2>3, <3>2, TransactionsKnown DEF CalmInv, AsAsked
    <3>6. ~dcBusError' /\ ~urWrite
      BY <2>3, <3>1 DEF Outcome
    <3> QED BY <2>1, <2>2, <3>4, <3>5, <3>6 DEF Concluded, Reported
  <2>4. CASE dcBus = "END_WRITE"
    <3>1. ~dcBusError' /\ dcOp.kind = "store" /\ (urWrite <=> dcOp.target = "uart")
      BY <1>2, <2>4 DEF BusMachine, Noop, RequestBus, InitTransaction, WaitRead, DoWrite, EndTransfer, SigDone,
         Outcome, CalmInv, AsAsked
    <3> QED BY <2>1, <2>2, <3>1 DEF Concluded, Reported
  <2>5. CASE dcBus = "BUS_ERROR"
    <3>1. dcBusError' /\ dcOp.kind = "load" /\ SlaveOf(dcOp.target) = "none" /\ ~urWrite
      BY <1>2, <2>5 DEF BusMachine, Noop, RequestBus, InitTransaction, WaitRead, DoWrite, EndTransfer, SigDone,
         Outcome
    <3> QED BY <2>1, <2>2, <3>1 DEF Concluded, Reported
  <2> QED BY <2>1, <2>3, <2>4, <2>5
<1>13. (dcState = "SIGNAL_DONE" => Concluded(dcCacheError))'
  <2> SUFFICES ASSUME dcState' = "SIGNAL_DONE" PROVE Concluded(dcCacheError)'
    OBVIOUS
  <2>1. dcState = "WAIT_FOR_ACTION" /\ dcBus = "SIG_DONE"
    BY DEF ClockEdge, DcClock, StateMachine, BusActionDone, CalmInv, UnitsInv, DcStates
  <2>2. dcStall
    BY <2>1 DEF CalmInv, UnitsInv
  <2>3. dcCacheError' <=> dcBusError
    BY <2>1, <2>2 DEF ClockEdge, DcClock, StallRegisters, BusActionDone
  <2>4. dcOp' = dcOp /\ dcFetched' = dcFetched
    BY <1>1, <1>2, <2>1 DEF BusMachine, Noop, RequestBus, InitTransaction, WaitRead, DoWrite, EndTransfer, SigDone
  <2>5. uartWritten' <=> uartWritten
    BY <1>3, <2>1 DEF Outcome, DcRequest
  <2> QED BY <2>1, <2>3, <2>4, <2>5 DEF Outcome, Concluded, Reported
<1> QED BY <1>4, <1>7, <1>8, <1>9, <1>10, <1>11, <1>12, <1>13 DEF Outcome

LEMMA OutcomeInvariance ==
    ASSUME Workable
    PROVE  SbSpec => []Outcome
<1>1. IInv /\ SbInv /\ CalmInv /\ Counts /\ Outcome /\ [SbNext]_busVars => Outcome'
  <2> SUFFICES ASSUME IInv, SbInv, CalmInv, Counts, Outcome, [SbNext]_busVars PROVE Outcome'
    OBVIOUS
  <2>1. CASE SbNext
    BY <2>1, OutcomeStep DEF SbNext
  <2>2. CASE UNCHANGED busVars
    <3>1. Sent' = Sent
      BY <2>2 DEF busVars, dcVars, fsVars, fillVars, bsVars, urVars, flVars, Sent, Waiting, Fresh
    <3> QED BY <2>2, <3>1 DEF busVars, dcVars, urVars, Outcome, Concluded, DcInTransaction
  <2> QED BY <2>1, <2>2
<1>2. SbInit => Outcome
  BY DEF SbInit, DcInit, UrInit, Outcome, DcInTransaction
<1>3. TwoLines
  BY DEF Workable, Circumstances
<1>4. SbSpec => []SbInv
  BY BusInvariance DEF Workable
<1> QED BY <1>1, <1>2, <1>3, <1>4, CountsInvariance, CalmInvariance, ArbiterOnBus, PTL DEF SbSpec

(* The load/store unit lets the pipeline go on when the access has had its  *)
(* effect and no other, and reports the loads that nobody answers: for an   *)
(* idle flash and an arbiter that waits for its first word, programs that   *)
(* load no single byte from it and code in the boot ROM and the flash, with *)
(* any length of a line (dCache.v, busArbiter.v).                           *)
THEOREM AccessesConclude ==
    ASSUME Workable
    PROVE  SbSpec => []AccessOutcome
<1>1. CalmInv /\ Outcome => AccessOutcome
  <2> SUFFICES ASSUME CalmInv, Outcome, dcState = "SIGNAL_DONE"
               PROVE  /\ dcCacheError = Reported(dcOp)
                      /\ dcOp.kind = "load" /\ ~dcCacheError => dcFetched = WordAt(dcOp.target)
                      /\ uartWritten = (dcOp = [kind |-> "store", target |-> "uart"])
    BY DEF AccessOutcome
  <2>1. Concluded(dcCacheError) /\ dcCacheError \in BOOLEAN /\ uartWritten \in BOOLEAN
    BY DEF Outcome
  <2>2. dcOp.kind = "store" /\ dcOp.target = "uart" <=> dcOp = [kind |-> "store", target |-> "uart"]
    BY DEF CalmInv, UnitsInv, KnownOps, NoOp
  <2>3. Reported(dcOp) \in BOOLEAN
    BY DEF Reported
  <2> QED BY <2>1, <2>2, <2>3 DEF Concluded
<1> QED BY <1>1, CalmInvariance, OutcomeInvariance, PTL

-----------------------------------------------------------------------------
(* The fetch stage: the bus is one of the memories that the fetch stage     *)
(* alone is proved correct with, one that never fails.                      *)

\* The words that the memory has yet to deliver.
TheBurst ==
    IF fsBus = "WAIT_BURST" THEN [from |-> latched.from + Sent, left |-> latched.words - Sent]
    ELSE [from |-> 0, left |-> -1]

\* The module has other units as well; nothing of them is used.
Alone == INSTANCE UnitsProofs WITH
    burst <- TheBurst, error <- FALSE, failedLines <- {},
    failed <- FALSE, part <- "fetch",
    Words <- {}, Depth <- 2, rfPush <- 0, rfPop <- 0, rfFull <- FALSE, rfEmpty <- TRUE,
    rfMemory <- 0, rfOut <- 0,
    Divisors <- {}, ClockRatio <- 1, xcDivisor <- 0, xcCounter <- 0, xcEighth <- 0, xcCells <- 0,
    xcEdges <- 0, xcOwed <- 0

\* No fetch fails, and the decode stage hears of no failure.
FetchesSucceed == fsBus # "BUS_ERROR" /\ ~fsBusError /\ fsValidInstruction

LEMMA FetchesSucceedInvariance ==
    ASSUME Workable
    PROVE  SbSpec => []FetchesSucceed
<1>1. CalmInv' /\ FetchesSucceed /\ [SbNext]_busVars => FetchesSucceed'
  <2> SUFFICES ASSUME CalmInv', FetchesSucceed, [SbNext]_busVars PROVE FetchesSucceed'
    OBVIOUS
  <2>1. fsBus' # "BUS_ERROR"
    BY DEF CalmInv, Errand
  <2>2. CASE SbNext
    BY <2>1, <2>2 DEF SbNext, ClockEdge, FsClock, InstructionRegister, BurstRegisters, FetchesSucceed
  <2>3. CASE UNCHANGED busVars
    BY <2>3 DEF busVars, fsVars, fillVars, FetchesSucceed
  <2> QED BY <2>2, <2>3
<1>2. SbInit => FetchesSucceed
  BY DEF SbInit, FsInit, FetchesSucceed
<1> QED BY <1>1, <1>2, CalmInvariance, PTL DEF SbSpec

(* What the fetch stage sees of the wires.                                  *)
FetchWord == IF fsBus = "WAIT_BURST" THEN BusWord ELSE NoWord
FetchEnd  == fsBus = "WAIT_BURST" /\ End

LEMMA FetchAnswer ==
    ASSUME Workable, SbInv, CalmInv, Counts
    PROVE  /\ FetchWord \in {TheBurst.from, NoWord} /\ FetchEnd \in BOOLEAN
           /\ Alone!Answer(FetchWord, FetchEnd)
           /\ fsBus = "WAIT_BURST" => ~BusErr
<1> USE DEF FetchWord, FetchEnd
<1>1. fsBus # "WAIT_BURST" => FetchWord = Alone!NoWord /\ ~FetchEnd
  BY DEF NoWord, Alone!NoWord
<1>2. ASSUME fsBus = "WAIT_BURST"
      PROVE  /\ ~BusErr /\ FetchWord = BusWord /\ FetchEnd = End
             /\ TheBurst.from = latched.from + Sent /\ TheBurst.left = latched.words - Sent
             /\ Answers = {} => BusWord = NoWord
             /\ latched.words \in Nat
  <2>1. Waiting
    BY <1>2 DEF Waiting
  <2>2. ~BusErr
    BY <1>2, ErrorsKnown DEF SbInv, MastersInv, DcInTransaction, FsInTransaction
  <2> QED BY <1>2, <2>1, <2>2, WordsKnown DEF TheBurst, BusWord, End
<1>3. CASE fsBus = "WAIT_BURST" /\ Answers # {}
  <2>1. BusWord = latched.from + Sent /\ Sent \in Nat /\ Sent < latched.words /\ ~End
    BY <1>3, Delivery DEF Waiting
  <2>2. TheBurst.left > 0
    BY <1>2, <1>3, <2>1
  <2> QED BY <1>2, <1>3, <2>1, <2>2 DEF Alone!Answer
<1>4. CASE fsBus = "WAIT_BURST" /\ Answers = {} /\ ~End
  BY <1>2, <1>4 DEF Alone!Answer, NoWord, Alone!NoWord
<1>5. CASE fsBus = "WAIT_BURST" /\ End
  <2>1. Sent = latched.words /\ Answers = {}
    BY <1>5, Delivery DEF Waiting
  <2>2. TheBurst.left = 0
    BY <1>2, <1>5, <2>1
  <2> QED BY <1>2, <1>5, <2>1, <2>2 DEF Alone!Answer, NoWord, Alone!NoWord
<1>6. CASE fsBus # "WAIT_BURST"
  BY <1>1, <1>6 DEF Alone!Answer, NoWord, Alone!NoWord
<1> QED BY <1>3, <1>4, <1>5, <1>6, <1>2

LEMMA FetchMemoryStep ==
    ASSUME Workable, IInv, SbInv, CalmInv, Counts, FetchesSucceed, NEW pause, NEW nextOp, NEW jump,
           ClockEdge(pause, nextOp, jump)
    PROVE  Alone!FsMemory(FetchWord, FetchEnd)
<1>0. Moves
  BY BusStep
<1>1. FsBegin <=> Alone!FsBegin
  BY DEF FsBegin, Alone!FsBegin
<1>2. ~Alone!FsEnd
  BY DEF Alone!FsEnd, FetchesSucceed
<1>3. CASE FsBegin
  <2>1. Begin /\ ~DcBegin
    BY <1>3 DEF Begin, SbInv, MastersInv, DcInTransaction, FsInTransaction, FsBegin, DcBegin
  <2>2. fsBus' = "WAIT_BURST"
    BY <1>0, <1>3 DEF Moves, FsMoves, FsBegin
  <2>3. Sent' = 0
    BY <2>1, <2>2, SentStep DEF Waiting
  <2>4. latched' = CodeTransaction
    BY <2>1, AtBegin DEF ClockEdge, Latch
  <2>5. CodeTransaction.words = WordsPerLine /\ CodeTransaction.from = FsAddress
    BY TransactionsKnown DEF CalmInv
  <2>6. FsAddress \in Int /\ WordsPerLine \in Int
    BY FetchAssumption DEF FsAddress, LineOf, CalmInv, UnitsInv, Pcs
  <2>7. TheBurst' = [from |-> FsAddress, left |-> WordsPerLine]
    BY <2>2, <2>3, <2>4, <2>5, <2>6 DEF TheBurst
  <2>8. FsAddress = Alone!FsAddress
    BY DEF FsAddress, Alone!FsAddress, LineOf, Alone!LineOf
  <2> QED BY <1>1, <1>3, <2>7, <2>8 DEF Alone!FsMemory
<1>4. CASE fsBus = "WAIT_BURST"
  <2>1. ~FsBegin /\ Waiting /\ ~BusErr
    BY <1>4, FetchAnswer DEF FsBegin, Waiting
  <2>2. CASE End
    <3>1. fsBus' # "WAIT_BURST"
      BY <1>0, <1>4, <2>1, <2>2 DEF Moves, FsMoves
    <3> QED BY <1>1, <1>2, <1>4, <2>1, <2>2, <3>1 DEF Alone!FsMemory, Alone!NoBurst, TheBurst, FetchEnd
  <2>3. CASE ~End
    <3>1. fsBus' = "WAIT_BURST" /\ Waiting'
      BY <1>0, <1>4, <2>1, <2>3 DEF Moves, FsMoves, Waiting
    <3>2. ~Begin
      BY <2>1, WaitingKnown
    <3>3. latched' = latched /\ Sent' = IF Answers = {} THEN Sent ELSE Sent + 1
      BY <3>1, <3>2, SentStep
    <3>4. TheBurst' = [from |-> latched.from + Sent', left |-> latched.words - Sent']
      BY <3>1, <3>3 DEF TheBurst
    <3>5. TheBurst = [from |-> latched.from + Sent, left |-> latched.words - Sent]
      BY <1>4 DEF TheBurst
    <3>6. CASE Answers = {}
      <4>1. FetchWord = Alone!NoWord
        BY <1>4, <3>6 DEF FetchWord, BusWord, NoWord, Alone!NoWord
      <4>2. TheBurst' = TheBurst
        BY <3>3, <3>4, <3>5, <3>6
      <4> QED BY <1>1, <1>2, <2>1, <2>3, <4>1, <4>2 DEF Alone!FsMemory, FetchEnd
    <3>7. CASE Answers # {}
      <4>1. BusWord = latched.from + Sent /\ Sent \in Nat /\ latched.from \in Nat /\ latched.words \in Nat
        BY <2>1, <3>7, Delivery, WordsKnown
      <4>2. FetchWord # Alone!NoWord
        BY <1>4, <4>1 DEF FetchWord, Alone!NoWord
      <4>3. TheBurst' = [from |-> TheBurst.from + 1, left |-> TheBurst.left - 1]
        <5>1. Sent' = Sent + 1
          BY <3>3, <3>7
        <5>2. /\ latched.from + (Sent + 1) = (latched.from + Sent) + 1
              /\ latched.words - (Sent + 1) = (latched.words - Sent) - 1
          BY <4>1
        <5>3. TheBurst.from = latched.from + Sent /\ TheBurst.left = latched.words - Sent
          BY <3>5
        <5> QED BY <3>4, <5>1, <5>2, <5>3
      <4> QED BY <1>1, <1>2, <2>1, <2>3, <4>2, <4>3 DEF Alone!FsMemory, FetchEnd
    <3> QED BY <3>6, <3>7
  <2> QED BY <2>2, <2>3
<1>5. CASE ~FsBegin /\ fsBus # "WAIT_BURST"
  <2>1. fsBus' # "WAIT_BURST"
    BY <1>0, <1>5 DEF Moves, FsMoves, FsBegin
  <2>2. FetchWord = Alone!NoWord /\ ~FetchEnd
    BY <1>5 DEF FetchWord, FetchEnd, NoWord, Alone!NoWord
  <2> QED BY <1>1, <1>2, <1>5, <2>1, <2>2 DEF Alone!FsMemory, TheBurst
<1> QED BY <1>3, <1>4, <1>5

(* Each clock edge of the bus is one that the fetch stage alone may take.   *)
LEMMA FetchStep ==
    ASSUME Workable, IInv, SbInv, CalmInv, Counts, FetchesSucceed,
           NEW pause, NEW nextOp, NEW jump \in JumpTargets \cup {NoJump}, ClockEdge(pause, nextOp, jump)
    PROVE  Alone!FsAloneNext
<1> DEFINE stall == dcStall \/ pause # "none"
           granted == ICacheLine \in busGrants /\ FsRequest
<1>1. (jump \in JumpTargets <=> jump # Alone!NoJump) /\ jump \in JumpTargets \cup {Alone!NoJump}
  BY FetchAssumption DEF Workable, Circumstances, JumpsToCode, Pcs, NoJump, Alone!NoJump
<1>2. FsClock(stall, FALSE, jump \in JumpTargets, jump, ICacheLine \in busGrants, BusErr, End, BusWord)
  BY DEF ClockEdge
<1>3. /\ FetchWord \in {TheBurst.from, NoWord} /\ FetchEnd \in BOOLEAN
      /\ Alone!Answer(FetchWord, FetchEnd)
      /\ fsBus = "WAIT_BURST" => ~BusErr
  BY FetchAnswer
<1>4. Alone!FsBusMachine(granted, FALSE, FetchEnd)
  BY <1>2, <1>3 DEF FsClock, FsBusMachine, FsNop, FsRequestBus, FsInitTransaction, FsWaitBurst, FsBusErrorState,
     FsSignalDone, Alone!FsBusMachine, Alone!FsNop, Alone!FsRequestBus, Alone!FsInitTransaction,
     Alone!FsWaitBurst, Alone!FsBusErrorState, Alone!FsSignalDone, FsRequest, FetchEnd
<1>5. Alone!BurstRegisters(FetchWord)
  BY <1>2 DEF FsClock, BurstRegisters, Alone!BurstRegisters, FetchWord, NoWord, Alone!NoWord, WordOf,
     Alone!WordOf
<1>6. Alone!NextPc(FALSE, jump # Alone!NoJump, jump) = NextPc(FALSE, jump \in JumpTargets, jump)
  BY <1>1 DEF NextPc, Alone!NextPc
<1> DEFINE next == NextPc(FALSE, jump \in JumpTargets, jump)
<1>7. Alone!ProgramCounters(stall \/ fsStall, FALSE, next)
  BY <1>2 DEF FsClock, ProgramCounters, Alone!ProgramCounters
<1>8. Alone!StallRegister(stall)
  BY <1>2 DEF FsClock, StallRegister, Alone!StallRegister
<1>9. Alone!Cache(stall \/ fsStall, next)
  BY <1>2 DEF FsClock, Cache, Alone!Cache, LookupAddress, Alone!LookupAddress, ReadAddress, Alone!ReadAddress,
     IndexOf, Alone!IndexOf, TagOf, Alone!TagOf, WordOf, Alone!WordOf, NoWord, Alone!NoWord
<1>10. Alone!InstructionRegister(stall \/ fsStall)
  BY <1>2 DEF FsClock, InstructionRegister, Alone!InstructionRegister, AckLine, Alone!AckLine, Nop, Alone!Nop
<1>11. Alone!FillMachine
  BY <1>2 DEF FsClock, FillMachine, Alone!FillMachine, AckLine, Alone!AckLine
<1>12. Alone!FsClock(stall, FALSE, jump # Alone!NoJump, jump, granted, FALSE, FetchEnd, FetchWord)
  BY <1>4, <1>5, <1>6, <1>7, <1>8, <1>9, <1>10, <1>11 DEF Alone!FsClock
<1>13. Alone!FsMemory(FetchWord, FetchEnd)
  BY FetchMemoryStep
<1>14. Alone!FsHistory
  BY DEF Alone!FsHistory, FetchesSucceed
<1>15. granted => Alone!FsRequest
  BY DEF FsRequest, Alone!FsRequest
<1>16. Alone!FsAloneClock(stall, FALSE, jump, granted, FetchWord, FetchEnd)
  BY <1>3, <1>12, <1>13, <1>14, <1>15 DEF Alone!FsAloneClock
<1>17. stall \in BOOLEAN /\ granted \in BOOLEAN /\ FetchWord \in {TheBurst.from, Alone!NoWord}
  BY <1>3 DEF NoWord, Alone!NoWord
<1> HIDE DEF stall, granted
<1> QED BY <1>1, <1>3, <1>16, <1>17 DEF Alone!FsAloneNext

(* The fetch stage on the bus behaves like the fetch stage alone.           *)
LEMMA FetchRefines ==
    ASSUME Workable
    PROVE  SbSpec => Alone!FsAloneSpec
<1>1. SbInit => Alone!FsAloneInit
  BY DEF SbInit, FsInit, Alone!FsAloneInit, Alone!FsInit, TheBurst, Alone!NoBurst, Nop, Alone!Nop, NoWord,
     Alone!NoWord, Junk, Alone!Junk, Indices, Alone!Indices, Tags, Alone!Tags, Pcs, Alone!Pcs, TagOf, Alone!TagOf
<1>2. IInv /\ SbInv /\ CalmInv /\ Counts /\ FetchesSucceed /\ [SbNext]_busVars
          => [Alone!FsAloneNext]_Alone!fsAloneVars
  <2> SUFFICES ASSUME IInv, SbInv, CalmInv, Counts, FetchesSucceed, [SbNext]_busVars
               PROVE  [Alone!FsAloneNext]_Alone!fsAloneVars
    OBVIOUS
  <2>1. CASE SbNext
    <3>1. PICK pause \in Pauses, nextOp \in Program \cup {NoOp}, jump \in JumpTargets \cup {NoJump} :
              ClockEdge(pause, nextOp, jump)
      BY <2>1 DEF SbNext
    <3> QED BY <3>1, FetchStep
  <2>2. CASE UNCHANGED busVars
    <3>1. Sent' = Sent /\ TheBurst' = TheBurst
      BY <2>2 DEF busVars, dcVars, fsVars, fillVars, bsVars, urVars, flVars, Sent, Waiting, Fresh, TheBurst
    <3> QED BY <2>2, <3>1 DEF busVars, fsVars, cacheVars, fillVars, Alone!fsAloneVars, Alone!fsVars, Alone!cacheVars,
       Alone!fillVars
  <2> QED BY <2>1, <2>2
<1>3. TwoLines
  BY DEF Workable, Circumstances
<1>4. SbSpec => []SbInv
  BY BusInvariance DEF Workable
<1> QED BY <1>1, <1>2, <1>3, <1>4, FetchesSucceedInvariance, CountsInvariance, CalmInvariance, ArbiterOnBus, PTL
        DEF SbSpec, Alone!FsAloneSpec

LEMMA FetchesCorrect ==
    ASSUME Workable
    PROVE  SbSpec => []FetchCorrect
<1>1. JumpTargets \subseteq Alone!Pcs
  BY DEF Workable, Circumstances, JumpsToCode, Pcs, Alone!Pcs
<1>2. PowerUpMasks \subseteq SUBSET Alone!Masters
  BY PowerUpAssumption DEF Alone!Masters, Masters
<1>3. /\ WordsPerLine \in Nat \ {0} /\ Lines \in Nat \ {0}
      /\ Addresses \in Nat \ {0} /\ ResetVector \in 0 .. Addresses - 1
      /\ Addresses % (WordsPerLine * Lines) = 0
  BY FetchAssumption
<1>4. /\ N \in Nat \ {0} /\ Timeout \in Nat \ {0}
      /\ 2 \in Nat \ {0, 1} /\ {} \subseteq 0 .. 65535 /\ 1 \in Nat \ {0}
  BY NAssumption, TimeoutAssumption
<1>5. Alone!FsAloneSpec => []Alone!FetchTruthful
  BY <1>1, <1>2, <1>3, <1>4, Alone!FetchIsTruthful
<1>6. Alone!FetchTruthful /\ FetchesSucceed => FetchCorrect
  BY DEF Alone!FetchTruthful, Alone!InstructionCorrect, FetchesSucceed, FetchCorrect, FsStallOut, Alone!FsStallOut,
     Nop, Alone!Nop
<1> QED BY <1>5, <1>6, FetchesSucceedInvariance, FetchRefines, PTL

(* Both units of the processor get from the shared bus what they asked for  *)
(* (dCache.v, fetchStage.v, busArbiter.v and the slaves), under what is      *)
(* assumed: the flash is never busy with itself and no single byte is loaded *)
(* from it, the arbiter waits for its first word, all code and all jumps are *)
(* in boot ROM and flash. With a busy flash, or a load of a byte, the load   *)
(* may be given up and nothing is claimed about the words that come then.    *)
THEOREM UnitsGetTheirResults ==
    ASSUME TwoLines, ShiftsTakeTime, FlashIdle, PatientArbiter,
           ProgramKnown, WholeWords, CodeInMemory, JumpsToCode
    PROVE  SbSpec => []ResultsCorrect
<1>1. Workable
  BY DEF Workable, Circumstances
<1> QED BY <1>1, AccessesConclude, FetchesCorrect, PTL DEF ResultsCorrect
=============================================================================
