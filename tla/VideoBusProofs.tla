---------------------------- MODULE VideoBusProofs ----------------------------
(***************************************************************************)
(* One master at a time has the bus, in the composition of the arbiter     *)
(* with the picture masters, the processor and the memory, and the camera  *)
(* writes only into its frame buffer and stores whole images there, and    *)
(* the screen shows the picture that the program asked for.                *)
(***************************************************************************)
EXTENDS VideoBus, BusArbiterProofs

-----------------------------------------------------------------------------
(* The inductive invariant: what each master does in which state of the    *)
(* arbiter.                                                                *)

CpuActs == cpState \in {"begin", "data", "wait", "end"}
GrActs  == GrStarts \/ GrReads \/ grState = "ERROR"
CmActs  == cmState \notin {"IDLE", "REQUEST_BUS1"} \/ cmEnd
Reading == GrReads /\ ~grBegin      \* the transaction of the screen has begun

Registers == {"width", "height", "mode", "base"}
Setups ==
    [width : Int, dual : BOOLEAN, gray : BOOLEAN, dualLine : BOOLEAN, base : Int, aligned : BOOLEAN]

VideoTyped ==
    /\ cpState \in {"rest", "request", "begin", "data", "wait", "end"}
    /\ cpState # "rest" => cpOp \in RegisterOps
    /\ grState \in GrStates /\ cmState \in CmStates
    /\ grSetup \in Setups
    /\ grWrite => grData \in RegisterOps /\ grSelected.reg \in Registers
    /\ grSelected.mine => grSelected.reg \in Registers
    /\ {grActive, grBegun, grDataValid, grWrite, grAnswer, grBegin, grEndSeen,
        cmValid, cmBegin, cmEnd, fmActive, fmValid, fmEnd, fmDone} \subseteq BOOLEAN

\* The master that is granted the bus finds it free.
ArbiterOutputs ==
    /\ busErrorOut => state \in {"BUS_ERROR", "END_TRANSACTION"}
    /\ state = "BUS_ERROR" => busErrorOut
    /\ endTransactionOut => state = "IDLE"
    /\ busGrants # {} => state = "WAIT_BEGIN" /\ timeOut = Timeout /\ ~CpuActs /\ ~GrActs /\ ~CmActs

\* The registers answer before the arbiter gives up.
CpuPhase ==
    /\ cpState = "begin" => state = "WAIT_BEGIN"
    /\ cpState = "data" => state = "SERVICING" /\ timeOut = Timeout /\ grBegun /\ ~cpOp.read
    /\ cpState = "wait" => /\ state = "SERVICING" /\ timeOut > 0 /\ cpOp.read
                           /\ grAnswer \/ (grBegun /\ GrMine /\ grSelected.read /\ timeOut = Timeout)
    /\ cpState = "end" => state = "SERVICING" /\ timeOut = Timeout /\ ~cpOp.read
    /\ grBegun => state = "SERVICING"
    /\ grAnswer => cpState = "wait" /\ ~grBegun
    /\ GrMine => cpState \in {"data", "wait", "end"} /\ grSelected.read = cpOp.read

\* The words of the camera keep the arbiter from giving up.
CmPhase ==
    /\ cmState = "INIT_BURST1" => state = "WAIT_BEGIN" /\ timeOut > 0
    /\ cmBegin => cmState = "DO_BURST1" /\ state = "WAIT_BEGIN" /\ ~cmValid /\ cmCount >= 0
    /\ cmState = "DO_BURST1" /\ ~cmBegin => state = "SERVICING" /\ timeOut = Timeout /\ cmValid
    /\ cmState = "END_TRANS1" => state = "SERVICING" /\ timeOut = Timeout
    /\ cmState # "END_TRANS2"
    /\ cmEnd => cmState \in {"IDLE", "REQUEST_BUS1"} /\ state = "SERVICING" /\ timeOut > 0
    /\ cmValid => cmState = "DO_BURST1"
    /\ cmState \in {"REQUEST_BUS1", "INIT_BURST1"} => cmLeft > 0

\* The screen may be in a transaction that the arbiter has given up, but not for
\* long enough to meet the next master.
GrPhase ==
    /\ GrStarts => state = "WAIT_BEGIN" /\ timeOut > 0
    /\ grBegin => GrReads /\ state = "WAIT_BEGIN" /\ ~grEndSeen
    /\ Reading => \/ state = "SERVICING" /\ ~grEndSeen
                  \/ state = "INIT_BUS_ERROR"
                  \/ state = "BUS_ERROR" /\ timeOut = Timeout /\ ~grEndSeen
                  \/ state \in {"REMOVE", "IDLE"} /\ grEndSeen
    /\ grState = "ERROR" => \/ state = "BUS_ERROR" /\ ~grEndSeen
                            \/ state = "END_TRANSACTION"
                            \/ state \in {"REMOVE", "GRANT"} /\ grEndSeen
                            \/ state = "IDLE" /\ (grEndSeen \/ endTransactionOut)

Exclusive == ~(CpuActs /\ GrActs) /\ ~(CpuActs /\ CmActs) /\ ~(CmActs /\ GrActs)

\* The memory serves the master that is in its transaction.
FmPhase ==
    /\ FmMine /\ fmOp.read =>
         \/ Reading /\ ~grEndSeen /\ state \in {"SERVICING", "INIT_BUS_ERROR", "BUS_ERROR"}
         \/ grState = "ERROR" /\ state = "BUS_ERROR" /\ fmEnd
    /\ FmMine /\ ~fmOp.read => state = "SERVICING" /\ CmActs
    /\ fmValid => FmMine /\ fmOp.read /\ Reading
    /\ fmEnd => \/ FmMine /\ fmOp.read
                \/ state \in {"REMOVE", "IDLE", "END_TRANSACTION"} /\ ~FmMine
    /\ fmLeft # 0 => FmMine /\ fmOp.read

\* Words that are still on the way to the line buffer.
Coming == fmLeft + (IF fmValid THEN 1 ELSE 0) + (IF grDataValid THEN 1 ELSE 0)

\* No burst is longer than its place.
Room ==
    /\ grWords \in 1 .. BurstWords /\ fmLeft \in 0 .. BurstWords
    /\ grWriteAddress \in 0 .. BufferWords
    /\ cmLeft \in 0 .. LineWords /\ cmCount \in -1 .. CameraBurst - 1 /\ cmWords \in 1 .. CameraBurst
    /\ grBegin => ~grDataValid /\ grWriteAddress <= (IF grState = "READ" THEN 0 ELSE BurstWords)
    /\ grState \in {"REQUEST1", "INIT1"} => grWriteAddress <= BurstWords
    /\ Reading => grWriteAddress + Coming <= IF grState = "READ" THEN BurstWords ELSE BufferWords

VbInv ==
    /\ IInv /\ VideoTyped /\ ArbiterOutputs
    /\ CpuPhase /\ CmPhase /\ GrPhase /\ Exclusive /\ FmPhase /\ Room

OwnLines == {CameraLine, ScreenLine, CpuLine} \subseteq Masters

-----------------------------------------------------------------------------
(* The wires.                                                              *)

LEMMA WiresBoolean ==
    ASSUME VbInv
    PROVE  /\ Begin \in BOOLEAN /\ End \in BOOLEAN /\ Valid \in BOOLEAN
           /\ {CpuBegin, CpuData, CpuEnd, busErrorOut, endTransactionOut} \subseteq BOOLEAN
BY DEF VbInv, VideoTyped, Begin, End, Valid, CpuBegin, CpuData, CpuEnd, IInv, TypeOK

\* A transaction begins only when the arbiter waits for it, and finds the other
\* wires at rest.
LEMMA BeginsAlone ==
    ASSUME VbInv
    PROVE  /\ Begin => state = "WAIT_BEGIN"
           /\ state \in {"WAIT_BEGIN", "GRANT"} => ~End /\ ~Valid /\ ~FmMine /\ ~GrMine /\ ~grBegun
BY Zenon DEF VbInv, CpuPhase, CmPhase, GrPhase, FmPhase, ArbiterOutputs, Begin, End, Valid, CpuBegin,
       CpuData, CpuEnd

\* What a clock does to the state of the arbiter.
ArbiterStep ==
    \/ /\ state = "IDLE" /\ state' \in {"IDLE", "GRANT"}
       /\ busGrants' = {} /\ ~busErrorOut' /\ ~endTransactionOut'
    \/ /\ state = "GRANT" /\ state' = "WAIT_BEGIN" /\ timeOut' = Timeout
       /\ \E m \in Masters : busGrants' = {m}
       /\ ~busErrorOut' /\ ~endTransactionOut'
    \/ /\ state = "WAIT_BEGIN" /\ Begin /\ state' = "SERVICING" /\ timeOut' = Timeout
       /\ busGrants' = {} /\ ~busErrorOut' /\ ~endTransactionOut'
    \/ /\ state = "WAIT_BEGIN" /\ ~Begin
       /\ IF timeOut = 0 THEN state' = "REMOVE" ELSE state' = "WAIT_BEGIN" /\ timeOut' = timeOut - 1
       /\ busGrants' = {} /\ ~busErrorOut' /\ ~endTransactionOut'
    \/ /\ state = "SERVICING"
       /\ state' = IF timeOut = 0 THEN "INIT_BUS_ERROR" ELSE IF End THEN "REMOVE" ELSE "SERVICING"
       /\ timeOut' = IF Valid THEN Timeout ELSE IF timeOut = 0 THEN 0 ELSE timeOut - 1
       /\ busGrants' = {} /\ ~busErrorOut' /\ ~endTransactionOut'
    \/ /\ state = "INIT_BUS_ERROR"
       /\ IF End THEN state' = "IDLE" /\ ~busErrorOut' ELSE state' = "BUS_ERROR" /\ busErrorOut'
       /\ timeOut' = Timeout /\ busGrants' = {} /\ ~endTransactionOut'
    \/ /\ state = "BUS_ERROR"
       /\ \/ timeOut = 0 /\ state' = "END_TRANSACTION"
          \/ timeOut # 0 /\ End /\ state' \in {"REMOVE", "IDLE"} /\ ~busErrorOut'
          \/ timeOut # 0 /\ ~End /\ state' = "BUS_ERROR" /\ busErrorOut' /\ timeOut' = timeOut - 1
       /\ busGrants' = {} /\ ~endTransactionOut'
    \/ /\ state = "END_TRANSACTION" /\ state' = "IDLE" /\ endTransactionOut'
       /\ busGrants' = {} /\ ~busErrorOut'
    \/ /\ state = "REMOVE" /\ state' = "IDLE"
       /\ busGrants' = {} /\ ~busErrorOut' /\ ~endTransactionOut'

LEMMA HeadSingleton ==
    ASSUME IInv, state = "GRANT"
    PROVE  \E m \in Masters : grantMask = {m}
<1>1. queuedRequests # {} /\ grantMask = memory[removePointer] /\ removePointer \in Slots
      /\ insertPointer \in Slots
  BY DEF IInv, TypeOK, ServesHead
<1>2. removePointer \in Occupied
  BY <1>1 DEF Occupied, Slots
<1> QED BY <1>1, <1>2 DEF IInv, TypeOK, QueueConsistent

LEMMA ArbiterClock ==
    ASSUME VbInv, IInv', Clock(Requests, Begin, End, Valid)
    PROVE  ArbiterStep
<1>1. timeOut \in 0 .. Timeout /\ Timeout \in Nat \ {0}
  BY TimeoutAssumption DEF VbInv, IInv, TypeOK
<1>2. Begin => state = "WAIT_BEGIN"
  BY BeginsAlone
<1>3. Begin \in BOOLEAN /\ End \in BOOLEAN /\ Valid \in BOOLEAN
  BY WiresBoolean
<1>4. CASE Idle(Requests, Begin, End)
  BY <1>2, <1>4 DEF Idle, NoGrant, RegisteredOutputs, ArbiterStep
<1>5. CASE Grant(Requests, Begin, End)
  <2>1. \E m \in Masters : grantMask = {m}
    BY <1>5, HeadSingleton DEF Grant, VbInv
  <2> QED BY <1>2, <1>5, <2>1 DEF Grant, Reload, RegisteredOutputs, ArbiterStep
<1>6. CASE WaitBegin(Requests, Begin, End)
  BY <1>1, <1>6 DEF WaitBegin, NoGrant, RegisteredOutputs, ArbiterStep, Reload, CountDown, Expired
<1>7. CASE Servicing(Requests, Begin, End, Valid)
  BY <1>1, <1>2, <1>7 DEF Servicing, NoGrant, RegisteredOutputs, ArbiterStep, Reload, CountDown, Expired
<1>8. CASE InitBusError(Requests, End)
  BY <1>3, <1>8 DEF InitBusError, NoGrant, RegisteredOutputs, ArbiterStep, Reload
<1>9. CASE BusError(Requests, End)
  BY <1>1, <1>3, <1>9 DEF BusError, NoGrant, RegisteredOutputs, ArbiterStep, CountDown, Expired
<1>10. CASE EndTransaction(Requests, End)
  BY <1>10 DEF EndTransaction, NoGrant, RegisteredOutputs, ArbiterStep
<1>11. CASE Remove(Requests, End)
  BY <1>11 DEF Remove, NoGrant, RegisteredOutputs, ArbiterStep
<1> QED BY <1>4, <1>5, <1>6, <1>7, <1>8, <1>9, <1>10, <1>11 DEF Clock

-----------------------------------------------------------------------------
(* The processor and the registers.                                        *)

\* What happens when the bus is granted.
LEMMA Granted ==
    ASSUME VbInv, busGrants # {}
    PROVE  /\ state = "WAIT_BEGIN" /\ timeOut = Timeout /\ timeOut > 0 /\ ~Begin
           /\ ~CpuActs /\ ~GrActs /\ ~CmActs
           /\ \A m, n \in Masters : m \in busGrants /\ n \in busGrants => m = n
<1>1. /\ state = "WAIT_BEGIN" /\ timeOut = Timeout /\ timeOut > 0
      /\ ~CpuActs /\ ~GrActs /\ ~CmActs
  BY VideoAssumption, TimeoutAssumption DEF VbInv, ArbiterOutputs
<1>2. ~Begin
  BY <1>1 DEF VbInv, GrPhase, CmPhase, CpuActs, GrActs, CmActs, Begin, CpuBegin
<1>3. \E m : busGrants = {m}
  BY DEF VbInv, IInv, GrantsOldest, QueueConsistent
<1> QED BY <1>1, <1>2, <1>3

LEMMA CpuStep ==
    ASSUME VbInv, ArbiterStep, Processor,
           GrSlave(Begin, End, Valid, busErrorOut, RegisterAccess, Word)
    PROVE  CpuPhase'
<1>1. timeOut \in 0 .. Timeout /\ Timeout \in Nat /\ Timeout >= 2
  BY VideoAssumption, TimeoutAssumption DEF VbInv, IInv, TypeOK
<1>2. /\ Begin => state = "WAIT_BEGIN"
      /\ state \in {"WAIT_BEGIN", "GRANT"} => ~End /\ ~Valid /\ ~FmMine /\ ~GrMine /\ ~grBegun
      /\ {Begin, End, Valid} \subseteq BOOLEAN
  BY BeginsAlone, WiresBoolean
<1>3. \A op \in RegisterOps : op.read \in BOOLEAN
  BY VideoAssumption
<1>4. CpuPhase /\ VideoTyped /\ Exclusive /\ ArbiterOutputs
  BY DEF VbInv
<1>5. /\ grBegun' <=> Begin
      /\ grActive' <=> (~End /\ ~busErrorOut /\ (Begin \/ grActive))
      /\ grAnswer' <=> (grBegun /\ GrMine /\ grSelected.read)
      /\ Begin => grSelected' = RegisterAccess
      /\ ~Begin /\ End => grSelected' = NotSelected
      /\ ~Begin /\ ~End => grSelected' = grSelected
  BY Zenon DEF GrSlave
<1>13. GrMine' => /\ ~End
                  /\ \/ Begin /\ RegisterAccess.mine
                     \/ ~Begin /\ GrMine /\ grSelected' = grSelected
  BY <1>5 DEF GrMine
<1>6. grBegun' => state' = "SERVICING"
  BY <1>2, <1>5 DEF ArbiterStep
<1>7. cpState' = "begin" => state' = "WAIT_BEGIN"
  BY <1>1, <1>4, Granted DEF Processor, ArbiterStep, VideoTyped
<1>8. CASE cpState = "begin"
  <2>1. Begin /\ state = "WAIT_BEGIN" /\ state' = "SERVICING" /\ timeOut' = Timeout /\ grBegun'
    BY <1>4, <1>5, <1>8 DEF CpuPhase, ArbiterStep, Begin, CpuBegin
  <2>2. ~grBegin /\ ~cmBegin
    BY <1>4, <1>8 DEF Exclusive, CpuActs, VbInv, GrPhase, CmPhase, GrActs, CmActs
  <2>3. RegisterAccess = [mine |-> TRUE, read |-> cpOp.read, reg |-> cpOp.reg]
    BY <1>8, <2>2 DEF RegisterAccess, CpuBegin
  <2>4. grSelected'.mine /\ grSelected'.read = cpOp.read
    BY <1>5, <2>1, <2>3
  <2>5. ~grAnswer' /\ cpOp' = cpOp /\ cpState' = IF cpOp.read THEN "wait" ELSE "data"
    BY <1>2, <1>5, <1>8, <2>1 DEF Processor
  <2>6. grActive'
    BY <1>2, <1>4, <1>5, <2>1 DEF ArbiterOutputs
  <2> QED BY <1>1, <1>6, <2>1, <2>4, <2>5, <2>6 DEF CpuPhase, GrMine
<1>9. CASE cpState = "data"
  <2>1. state = "SERVICING" /\ timeOut = Timeout /\ grBegun /\ ~cpOp.read /\ ~grAnswer /\ ~Begin
    BY <1>2, <1>4, <1>9 DEF CpuPhase
  <2>2. cpState' = "end" /\ cpOp' = cpOp
    BY <1>9 DEF Processor
  <2>3. Valid /\ ~End
    BY <1>9, <2>1 DEF Valid, CpuData, End, CpuEnd, VbInv, Exclusive, CpuActs, CmActs, FmPhase,
                      ArbiterOutputs, GrActs, Reading
  <2>4. state' = "SERVICING" /\ timeOut' = Timeout
    BY <1>1, <2>1, <2>3 DEF ArbiterStep
  <2>5. ~grAnswer'
    BY <1>4, <1>5, <2>1 DEF CpuPhase
  <2> QED BY <1>4, <1>5, <1>13, <2>1, <2>2, <2>4, <2>5 DEF CpuPhase
<1>10. CASE cpState = "wait"
  <2>1. state = "SERVICING" /\ timeOut > 0 /\ cpOp.read /\ ~Begin /\ ~busErrorOut
    BY <1>2, <1>4, <1>10 DEF CpuPhase, ArbiterOutputs
  <2>2. CASE grAnswer
    <3>1. End /\ cpState' = "rest"
      BY <1>10, <2>1, <2>2 DEF End, Processor
    <3>2. ~GrMine' /\ ~grBegun' /\ ~grAnswer'
      BY <1>4, <1>5, <1>13, <2>1, <2>2, <3>1 DEF CpuPhase
    <3> QED BY <3>1, <3>2 DEF CpuPhase
  <2>3. CASE ~grAnswer
    <3>1. grBegun /\ GrMine /\ grSelected.read /\ timeOut = Timeout
      BY <1>4, <1>10, <2>3 DEF CpuPhase
    <3>2. ~End
      BY <1>10, <2>1, <2>3 DEF End, CpuEnd, VbInv, Exclusive, CpuActs, CmActs, FmPhase,
                               ArbiterOutputs, GrActs, Reading
    <3>3. cpState' = "wait" /\ cpOp' = cpOp
      BY <1>10, <2>1, <3>2 DEF Processor
    <3>4. state' = "SERVICING" /\ timeOut' > 0
      BY <1>1, <2>1, <3>1, <3>2 DEF ArbiterStep
    <3>5. grAnswer' /\ ~grBegun'
      BY <1>5, <2>1, <3>1
    <3> QED BY <1>4, <1>13, <2>1, <3>1, <3>3, <3>4, <3>5 DEF CpuPhase
  <2> QED BY <2>2, <2>3
<1>11. CASE cpState \in {"rest", "request"}
  <2>1. ~GrMine /\ ~grAnswer
    BY <1>4, <1>11 DEF CpuPhase
  <2>2. ~RegisterAccess.mine
    BY <1>11 DEF RegisterAccess, CpuBegin, NotSelected
  <2>3. ~GrMine' /\ ~grAnswer'
    BY <1>5, <1>13, <2>1, <2>2
  <2> QED BY <1>6, <1>7, <1>11, <2>3 DEF CpuPhase, Processor
<1>12. CASE cpState = "end"
  <2>1. state = "SERVICING" /\ ~Begin /\ End /\ ~grAnswer
    BY <1>2, <1>4, <1>12 DEF CpuPhase, End, CpuEnd
  <2>2. cpState' = "rest"
    BY <1>12 DEF Processor
  <2>3. ~GrMine' /\ ~grBegun'
    BY <1>5, <1>13, <2>1
  <2>4. ~grAnswer'
    BY <1>4, <1>5, <1>12 DEF CpuPhase
  <2> QED BY <2>2, <2>3, <2>4 DEF CpuPhase
<1> QED BY <1>4, <1>8, <1>9, <1>10, <1>11, <1>12 DEF VideoTyped

-----------------------------------------------------------------------------
(* The camera.                                                             *)

CmRoom == cmLeft \in 0 .. LineWords /\ cmCount \in -1 .. CameraBurst - 1 /\ cmWords \in 1 .. CameraBurst

LEMMA CmStep ==
    ASSUME VbInv, ArbiterStep, NEW command, NEW newScreen, NEW newLine \in BOOLEAN, NEW written,
           CmClock(command, CameraLine \in busGrants, busErrorOut, Busy, newScreen, newLine, written)
    PROVE  CmPhase' /\ CmRoom'
<1>1. timeOut \in 0 .. Timeout /\ Timeout \in Nat /\ Timeout >= 2
  BY VideoAssumption, TimeoutAssumption DEF VbInv, IInv, TypeOK
<1>2. /\ Begin => state = "WAIT_BEGIN"
      /\ state = "WAIT_BEGIN" => ~End /\ ~Valid
  BY BeginsAlone
<1>3. CmPhase /\ VideoTyped /\ Exclusive /\ ArbiterOutputs /\ CmRoom
  BY DEF VbInv, Room, CmRoom
<1>4. LineWords \in Nat \ {0} /\ CameraBurst \in Nat \ {0}
  BY CameraAssumption
<1> DEFINE writes == CmWrites(Busy)
<1>5. /\ cmBegin' <=> cmState = "INIT_BURST1"
      /\ cmEnd' <=> cmState \in {"END_TRANS1", "END_TRANS2"}
      /\ cmValid' <=> (writes \/ (Busy /\ cmValid))
      /\ cmWords' = IF cmState = "INIT_BURST1" THEN NextBurst ELSE 1
  BY Zenon DEF CmClock, CmOutputs
<1>6. /\ cmLeft' = IF newLine THEN LineWords
                   ELSE IF cmState = "INIT_BURST1" THEN cmLeft - NextBurst ELSE cmLeft
      /\ cmCount' = IF cmState = "INIT_BURST1" THEN NextBurst - 1
                    ELSE IF writes THEN cmCount - 1 ELSE cmCount
  BY DEF CmClock, CmPosition
<1>7. \/ CmIdle(newLine) \/ CmRequestBus(CameraLine \in busGrants) \/ CmInitBurst
      \/ CmDoBurst(busErrorOut, Busy) \/ CmEndBurst
  BY DEF CmClock
<1>8. cmState = "INIT_BURST1" => NextBurst \in 1 .. CameraBurst /\ NextBurst <= cmLeft
  BY <1>3, <1>4 DEF NextBurst, CmRoom, CmPhase
<1>9. writes => cmState = "DO_BURST1" /\ cmCount >= 0 /\ ~Busy
  BY <1>3 DEF CmWrites, BurstOver, CmRoom
<1>10. CmRoom'
  BY <1>3, <1>4, <1>5, <1>6, <1>8, <1>9 DEF CmRoom
<1> HIDE DEF writes
<1>11. CASE cmState = "IDLE"
  <2>1. cmState' \in {"IDLE", "REQUEST_BUS1"} /\ (cmState' = "REQUEST_BUS1" => newLine)
    BY <1>7, <1>11 DEF CmIdle, CmRequestBus, CmInitBurst, CmDoBurst, CmEndBurst
  <2>2. ~cmBegin' /\ ~cmEnd' /\ ~cmValid'
    BY <1>3, <1>5, <1>9, <1>11 DEF CmPhase
  <2> QED BY <1>4, <1>6, <1>10, <2>1, <2>2 DEF CmPhase
<1>12. CASE cmState = "REQUEST_BUS1"
  <2>1. cmState' = IF CameraLine \in busGrants THEN "INIT_BURST1" ELSE "REQUEST_BUS1"
    BY <1>7, <1>12 DEF CmIdle, CmRequestBus, CmInitBurst, CmDoBurst, CmEndBurst
  <2>2. ~cmBegin' /\ ~cmEnd' /\ ~cmValid'
    BY <1>3, <1>5, <1>9, <1>12 DEF CmPhase
  <2>3. cmLeft' > 0
    BY <1>3, <1>4, <1>6, <1>12 DEF CmPhase
  <2>4. CameraLine \in busGrants => state' = "WAIT_BEGIN" /\ timeOut' > 0
    BY <1>1, Granted DEF ArbiterStep
  <2> QED BY <1>10, <2>1, <2>2, <2>3, <2>4 DEF CmPhase
<1>13. CASE cmState = "INIT_BURST1"
  <2>1. state = "WAIT_BEGIN" /\ timeOut > 0 /\ ~cmBegin
    BY <1>3, <1>13 DEF CmPhase
  <2>2. ~Begin
    BY <1>3, <1>13, <2>1 DEF Exclusive, CmActs, CpuActs, GrActs, Begin, CpuBegin, VbInv, GrPhase
  <2>3. state' = "WAIT_BEGIN"
    BY <2>1, <2>2 DEF ArbiterStep
  <2>4. cmState' = "DO_BURST1" /\ cmBegin' /\ ~cmEnd' /\ ~cmValid'
    BY <1>3, <1>5, <1>7, <1>9, <1>13 DEF CmPhase, CmIdle, CmRequestBus, CmInitBurst, CmDoBurst, CmEndBurst
  <2>5. cmCount' >= 0
    BY <1>4, <1>6, <1>8, <1>13
  <2> QED BY <1>10, <2>3, <2>4, <2>5 DEF CmPhase
<1>14. ASSUME cmState \in {"DO_BURST1", "END_TRANS1"}, ~cmBegin
       PROVE  /\ state' = "SERVICING" /\ timeOut' > 0 /\ (Valid => timeOut' = Timeout)
              /\ ~busErrorOut
  <2>1. state = "SERVICING" /\ timeOut = Timeout /\ ~cmEnd /\ ~busErrorOut /\ ~endTransactionOut
    BY <1>3, <1>14 DEF CmPhase, ArbiterOutputs
  <2>2. ~CpuActs /\ ~GrActs
    BY <1>3, <1>14 DEF Exclusive, CmActs
  <2>3. ~CpuEnd /\ ~grAnswer /\ ~fmEnd
    BY <2>1, <2>2 DEF VbInv, CpuActs, CpuEnd, CpuPhase, FmPhase, GrActs, Reading
  <2>4. ~End
    BY <2>1, <2>3 DEF End
  <2> QED BY <1>1, <2>1, <2>4 DEF ArbiterStep
<1>15. CASE cmState = "DO_BURST1" /\ cmBegin
  <2>1. state = "WAIT_BEGIN" /\ Begin /\ ~cmValid /\ cmCount >= 0 /\ ~cmEnd
    BY <1>3, <1>15 DEF CmPhase, Begin
  <2>2. ~Busy /\ ~busErrorOut
    BY <1>2, <1>3, <2>1 DEF Busy, FmBusy, ArbiterOutputs
  <2>3. state' = "SERVICING" /\ timeOut' = Timeout
    BY <2>1 DEF ArbiterStep
  <2>4. writes
    BY <1>3, <1>15, <2>1, <2>2 DEF writes, CmWrites, BurstOver, CmRoom
  <2>5. cmState' = "DO_BURST1"
    BY <1>3, <1>7, <1>15, <2>1, <2>2 DEF CmIdle, CmRequestBus, CmInitBurst, CmDoBurst, CmEndBurst, BurstOver, CmRoom
  <2> QED BY <1>5, <1>10, <1>15, <2>3, <2>4, <2>5 DEF CmPhase
<1>16. CASE cmState = "DO_BURST1" /\ ~cmBegin
  <2>1. cmValid /\ Valid
    BY <1>3, <1>16 DEF CmPhase, Valid
  <2>2. state' = "SERVICING" /\ timeOut' = Timeout /\ ~busErrorOut
    BY <1>14, <1>16, <2>1
  <2>3. cmState' = IF BurstOver /\ ~Busy THEN "END_TRANS1" ELSE "DO_BURST1"
    BY <1>7, <1>16, <2>2 DEF CmIdle, CmRequestBus, CmInitBurst, CmDoBurst, CmEndBurst
  <2>4. cmState' = "DO_BURST1" <=> cmValid'
    BY <1>5, <1>16, <2>1, <2>3 DEF writes, CmWrites
  <2>5. ~cmBegin' /\ ~cmEnd'
    BY <1>5, <1>16
  <2> QED BY <1>10, <2>2, <2>3, <2>4, <2>5 DEF CmPhase
<1>17. CASE cmState = "END_TRANS1"
  <2>1. state' = "SERVICING" /\ timeOut' > 0 /\ ~cmBegin /\ ~cmValid
    BY <1>3, <1>14, <1>17 DEF CmPhase
  <2>2. cmState' = IF cmLeft # 0 THEN "REQUEST_BUS1" ELSE "IDLE"
    BY <1>7, <1>17 DEF CmIdle, CmRequestBus, CmInitBurst, CmDoBurst, CmEndBurst
  <2>3. ~cmBegin' /\ cmEnd' /\ ~cmValid'
    BY <1>5, <1>9, <1>17, <2>1
  <2>4. cmLeft # 0 => cmLeft' > 0
    BY <1>3, <1>4, <1>6, <1>17 DEF CmRoom
  <2> QED BY <1>10, <2>1, <2>2, <2>3, <2>4 DEF CmPhase
<1> QED BY <1>3, <1>11, <1>12, <1>13, <1>15, <1>16, <1>17 DEF VideoTyped, CmStates, CmPhase

-----------------------------------------------------------------------------
(* The screen.                                                             *)

LEMMA GrStep ==
    ASSUME VbInv, ArbiterStep, NEW newScreen, NEW newLine,
           GrClock(ScreenLine \in busGrants, Begin, End, Valid, busErrorOut, RegisterAccess, Word,
                   newScreen, newLine)
    PROVE  GrPhase'
<1>1. timeOut \in 0 .. Timeout /\ Timeout \in Nat /\ Timeout >= 2
  BY VideoAssumption, TimeoutAssumption DEF VbInv, IInv, TypeOK
<1>2. /\ Begin => state = "WAIT_BEGIN"
      /\ state = "WAIT_BEGIN" => ~End /\ ~Valid
      /\ {Begin, End, Valid, busErrorOut, endTransactionOut} \subseteq BOOLEAN
  BY BeginsAlone, WiresBoolean
<1>3. GrPhase /\ VideoTyped /\ Exclusive /\ ArbiterOutputs
  BY DEF VbInv
<1>4. grBegin' <=> GrStarts
  BY Zenon DEF GrClock, GrOutputs
<1>5. grEndSeen' <=> End
  BY Zenon DEF GrClock, GrOutputs
<1>6. \/ GrIdle(newScreen, newLine) \/ GrRequestBus(ScreenLine \in busGrants) \/ GrInit
      \/ GrRead(End, busErrorOut) \/ GrReadDone \/ GrWriteBlack \/ GrError
  BY DEF GrClock
<1> DEFINE quiet == {"IDLE", "REQUEST", "REQUEST1", "READ_DONE", "INIT_WRITE_BLACK", "WRITE_BLACK"}
<1>7. ASSUME grState' \in quiet, ~grBegin' PROVE GrPhase'
  BY <1>7 DEF GrPhase, GrStarts, GrReads, Reading
<1>8. CASE grState \in {"REQUEST", "REQUEST1"}
  <2>1. /\ ~grBegin'
        /\ grState' \in IF ScreenLine \in busGrants THEN {"INIT", "INIT1"} ELSE quiet
    BY <1>4, <1>6, <1>8 DEF GrStarts, GrReads, GrIdle, GrRequestBus, GrInit, GrRead, GrReadDone, GrWriteBlack, GrError
  <2>2. ScreenLine \in busGrants => state' = "WAIT_BEGIN" /\ timeOut' > 0
    BY <1>1, Granted DEF ArbiterStep
  <2> QED BY <1>7, <2>1, <2>2 DEF GrPhase, GrStarts, GrReads, Reading
<1>9. CASE GrStarts
  <2>1. state = "WAIT_BEGIN" /\ timeOut > 0 /\ ~grBegin /\ ~End
    BY <1>2, <1>3, <1>9 DEF GrPhase, GrStarts, GrReads
  <2>2. ~Begin
    BY <1>3, <1>9, <2>1 DEF Exclusive, CmActs, CpuActs, GrActs, Begin, CpuBegin, VbInv, CmPhase
  <2>3. state' = "WAIT_BEGIN"
    BY <2>1, <2>2 DEF ArbiterStep
  <2>4. grState' \in {"READ", "READ1"}
    BY <1>6, <1>9 DEF GrStarts, GrReads, GrIdle, GrRequestBus, GrInit, GrRead, GrReadDone, GrWriteBlack, GrError
  <2> QED BY <1>4, <1>5, <1>9, <2>1, <2>3, <2>4 DEF GrPhase, GrStarts, GrReads, Reading
<1>10. CASE GrReads
  <2>1. ~grBegin'
    BY <1>4, <1>10 DEF GrStarts, GrReads
  <2>2. grState' = IF busErrorOut /\ ~End THEN "ERROR"
                  ELSE IF busErrorOut THEN "IDLE"
                  ELSE IF ~grEndSeen THEN grState
                  ELSE IF grState = "READ" /\ DualBurst THEN "REQUEST1" ELSE "READ_DONE"
    BY <1>6, <1>10 DEF GrReads, GrIdle, GrRequestBus, GrInit, GrRead, GrReadDone, GrWriteBlack, GrError
  <2>3. CASE busErrorOut
    <3>1. state = "BUS_ERROR"
      BY <1>3, <1>10, <2>3 DEF ArbiterOutputs, GrPhase, Reading
    <3>2. timeOut = Timeout
      BY <1>3, <1>10, <3>1 DEF GrPhase, Reading
    <3>3. CASE End
      <4>1. grState' = "IDLE"
        BY <2>2, <2>3, <3>3
      <4> QED BY <1>7, <2>1, <4>1
    <3>4. CASE ~End
      <4>1. grState' = "ERROR" /\ ~grEndSeen'
        BY <1>5, <2>2, <2>3, <3>4
      <4>2. state' = "BUS_ERROR"
        BY <1>1, <3>1, <3>2, <3>4 DEF ArbiterStep
      <4> QED BY <2>1, <4>1, <4>2 DEF GrPhase, GrStarts, GrReads, Reading
    <3> QED BY <3>3, <3>4
  <2>4. CASE ~busErrorOut /\ grEndSeen
    <3>1. grState' \in quiet
      BY <2>2, <2>4
    <3> QED BY <1>7, <2>1, <3>1
  <2>5. CASE ~busErrorOut /\ ~grEndSeen
    <3>1. grState' = grState
      BY <2>2, <2>5
    <3>2. CASE grBegin
      <4>1. state' = "SERVICING" /\ ~End
        BY <1>2, <1>3, <3>2 DEF GrPhase, ArbiterStep, Begin
      <4> QED BY <1>5, <1>10, <2>1, <3>1, <4>1 DEF GrPhase, GrStarts, GrReads, Reading
    <3>3. CASE ~grBegin /\ state = "SERVICING"
      <4>1. state' = "INIT_BUS_ERROR" \/ (End /\ state' = "REMOVE") \/ (~End /\ state' = "SERVICING")
        BY <3>3 DEF ArbiterStep
      <4> QED BY <1>5, <1>10, <2>1, <3>1, <4>1 DEF GrPhase, GrStarts, GrReads, Reading
    <3>4. CASE ~grBegin /\ state = "INIT_BUS_ERROR"
      <4>1. (End /\ state' = "IDLE") \/ (~End /\ state' = "BUS_ERROR" /\ timeOut' = Timeout)
        BY <3>4 DEF ArbiterStep
      <4> QED BY <1>5, <1>10, <2>1, <3>1, <4>1 DEF GrPhase, GrStarts, GrReads, Reading
    <3> QED BY <1>3, <1>10, <2>5, <3>2, <3>3, <3>4 DEF GrPhase, Reading, ArbiterOutputs
  <2> QED BY <1>2, <1>3, <2>3, <2>4, <2>5
<1>11. CASE grState = "ERROR"
  <2>1. ~grBegin' /\ grState' = IF grEndSeen THEN "IDLE" ELSE "ERROR"
    BY <1>4, <1>6, <1>11 DEF GrStarts, GrReads, GrIdle, GrRequestBus, GrInit, GrRead, GrReadDone, GrWriteBlack, GrError
  <2>2. CASE grEndSeen
    BY <1>7, <2>1, <2>2
  <2>3. CASE ~grEndSeen
    <3>1. \/ state' = "BUS_ERROR" /\ ~End
          \/ state' = "END_TRANSACTION"
          \/ state' \in {"REMOVE", "GRANT"} /\ End
          \/ state' = "IDLE" /\ (End \/ endTransactionOut')
      <4>1. \/ state \in {"BUS_ERROR", "END_TRANSACTION"}
            \/ state = "IDLE" /\ endTransactionOut
        BY <1>3, <1>11, <2>3 DEF GrPhase
      <4>2. endTransactionOut => End
        BY DEF End
      <4> QED BY <4>1, <4>2 DEF ArbiterStep
    <3> QED BY <1>5, <2>1, <2>3, <3>1 DEF GrPhase, GrStarts, GrReads, Reading
  <2> QED BY <2>2, <2>3
<1>12. CASE grState \in {"IDLE", "READ_DONE", "INIT_WRITE_BLACK", "WRITE_BLACK"}
  <2>1. ~grBegin' /\ grState' \in quiet
    BY <1>4, <1>6, <1>12 DEF GrStarts, GrReads, GrIdle, GrRequestBus, GrInit, GrRead, GrReadDone, GrWriteBlack, GrError
  <2> QED BY <1>7, <2>1
<1> QED BY <1>3, <1>8, <1>9, <1>10, <1>11, <1>12 DEF VideoTyped, GrStates, GrStarts, GrReads

-----------------------------------------------------------------------------
(* One at a time.                                                          *)

LEMMA ActsOnGrant ==
    ASSUME VbInv, ArbiterStep, Processor, NEW command, NEW newScreen, NEW newLine, NEW written,
           NEW screen, NEW line,
           CmClock(command, CameraLine \in busGrants, busErrorOut, Busy, newScreen, newLine, written),
           GrClock(ScreenLine \in busGrants, Begin, End, Valid, busErrorOut, RegisterAccess, Word,
                   screen, line)
    PROVE  /\ CpuActs' => CpuActs \/ CpuLine \in busGrants
           /\ CmActs'  => CmActs \/ CameraLine \in busGrants
           /\ GrActs'  => (GrActs /\ (grState = "ERROR" => ~grEndSeen)) \/ ScreenLine \in busGrants
<1>1. CpuActs' => CpuActs \/ CpuLine \in busGrants
  BY DEF CpuActs, Processor, VbInv, VideoTyped
<1>2. CmActs' => CmActs \/ CameraLine \in busGrants
  <2>1. cmEnd' <=> cmState \in {"END_TRANS1", "END_TRANS2"}
    BY Zenon DEF CmClock, CmOutputs
  <2>2. \/ CmIdle(newLine) \/ CmRequestBus(CameraLine \in busGrants) \/ CmInitBurst
        \/ CmDoBurst(busErrorOut, Busy) \/ CmEndBurst
    BY DEF CmClock
  <2> QED BY <2>1, <2>2 DEF CmActs, CmIdle, CmRequestBus, CmInitBurst, CmDoBurst, CmEndBurst
<1>3. GrActs' => (GrActs /\ (grState = "ERROR" => ~grEndSeen)) \/ ScreenLine \in busGrants
  <2>1. \/ GrIdle(screen, line) \/ GrRequestBus(ScreenLine \in busGrants) \/ GrInit
        \/ GrRead(End, busErrorOut) \/ GrReadDone \/ GrWriteBlack \/ GrError
    BY DEF GrClock
  <2> QED BY <2>1 DEF GrActs, GrStarts, GrReads, GrIdle, GrRequestBus, GrInit, GrRead, GrReadDone,
                      GrWriteBlack, GrError
<1> QED BY <1>1, <1>2, <1>3

LEMMA ExclusiveStep ==
    ASSUME VbInv, OwnLines, ArbiterStep,
           CpuActs' => CpuActs \/ CpuLine \in busGrants,
           CmActs'  => CmActs \/ CameraLine \in busGrants,
           GrActs'  => (GrActs /\ (grState = "ERROR" => ~grEndSeen)) \/ ScreenLine \in busGrants
    PROVE  Exclusive' /\ ArbiterOutputs'
<1>1. ~(ScreenLine \in busGrants /\ CameraLine \in busGrants)
      /\ ~(ScreenLine \in busGrants /\ CpuLine \in busGrants)
      /\ ~(CameraLine \in busGrants /\ CpuLine \in busGrants)
  BY Granted, VideoAssumption DEF OwnLines
<1>2. busGrants # {} => ~CpuActs /\ ~GrActs /\ ~CmActs
  BY Granted
<1>3. Exclusive'
  BY <1>1, <1>2 DEF Exclusive, VbInv
<1>4. state = "GRANT" => busGrants = {} /\ ~CpuActs /\ ~CmActs /\ (GrActs => grState = "ERROR" /\ grEndSeen)
  BY DEF VbInv, ArbiterOutputs, CpuPhase, CmPhase, GrPhase, CpuActs, CmActs, GrActs, Reading, GrReads,
         VideoTyped, CmStates, GrStarts
<1>5. busGrants' # {} => state = "GRANT" /\ state' = "WAIT_BEGIN" /\ timeOut' = Timeout
  BY DEF ArbiterStep
<1>6. /\ busErrorOut' => state' \in {"BUS_ERROR", "END_TRANSACTION"}
      /\ state' = "BUS_ERROR" => busErrorOut'
      /\ endTransactionOut' => state' = "IDLE"
  BY DEF ArbiterStep
<1> QED BY <1>3, <1>4, <1>5, <1>6 DEF ArbiterOutputs

-----------------------------------------------------------------------------
(* The memory.                                                             *)

LEMMA CmGoesOn ==
    ASSUME VbInv, CmPhase', NEW command, NEW newScreen, NEW newLine, NEW written,
           CmClock(command, CameraLine \in busGrants, busErrorOut, Busy, newScreen, newLine, written),
           cmState \in {"DO_BURST1", "END_TRANS1"}
    PROVE  CmActs' /\ state' = "SERVICING"
<1>1. /\ cmEnd' <=> cmState \in {"END_TRANS1", "END_TRANS2"}
      /\ cmBegin' <=> cmState = "INIT_BURST1"
  BY Zenon DEF CmClock, CmOutputs
<1>2. \/ CmIdle(newLine) \/ CmRequestBus(CameraLine \in busGrants) \/ CmInitBurst
      \/ CmDoBurst(busErrorOut, Busy) \/ CmEndBurst
  BY DEF CmClock
<1> QED BY <1>1, <1>2 DEF CmActs, CmPhase, CmIdle, CmRequestBus, CmInitBurst, CmDoBurst, CmEndBurst

\* A read of the screen goes on until its end or the error.
LEMMA GrGoesOn ==
    ASSUME VbInv, GrPhase', NEW newScreen, NEW newLine,
           GrClock(ScreenLine \in busGrants, Begin, End, Valid, busErrorOut, RegisterAccess, Word,
                   newScreen, newLine),
           GrReads, ~grEndSeen
    PROVE  /\ ~busErrorOut => Reading' /\ grState' = grState
           /\ busErrorOut /\ ~End => grState' = "ERROR"
           /\ grEndSeen' <=> End
<1>1. (grBegin' <=> GrStarts) /\ (grEndSeen' <=> End)
  BY Zenon DEF GrClock, GrOutputs
<1>2. \/ GrIdle(newScreen, newLine) \/ GrRequestBus(ScreenLine \in busGrants) \/ GrInit
      \/ GrRead(End, busErrorOut) \/ GrReadDone \/ GrWriteBlack \/ GrError
  BY DEF GrClock
<1> QED BY <1>1, <1>2 DEF Reading, GrStarts, GrReads, GrIdle, GrRequestBus, GrInit, GrRead, GrReadDone,
                          GrWriteBlack, GrError

LEMMA FmStep ==
    ASSUME VbInv, ArbiterStep, GrPhase', CmPhase',
           NEW command, NEW newScreen, NEW newLine, NEW written, NEW screen, NEW line,
           CmClock(command, CameraLine \in busGrants, busErrorOut, Busy, newScreen, newLine, written),
           GrClock(ScreenLine \in busGrants, Begin, End, Valid, busErrorOut, RegisterAccess, Word,
                   screen, line),
           FmClock(Begin, End, Valid, busErrorOut, MemoryAccess)
    PROVE  FmPhase'
<1>1. timeOut \in 0 .. Timeout /\ Timeout \in Nat /\ Timeout >= 2
  BY VideoAssumption, TimeoutAssumption DEF VbInv, IInv, TypeOK
<1>2. /\ Begin => state = "WAIT_BEGIN"
      /\ state = "WAIT_BEGIN" => ~End /\ ~Valid /\ ~FmMine
      /\ {Begin, End, Valid, busErrorOut, endTransactionOut} \subseteq BOOLEAN
  BY BeginsAlone, WiresBoolean
<1>3. GrPhase /\ CmPhase /\ FmPhase /\ VideoTyped /\ Exclusive /\ ArbiterOutputs /\ fmLeft \in Nat
  BY GraphicsAssumption DEF VbInv, Room
<1>4. /\ fmActive' <=> (~End /\ (Begin \/ fmActive))
      /\ Begin => fmOp' = MemoryAccess
      /\ ~Begin /\ End => fmOp' = NoAccess
      /\ ~Begin /\ ~End => fmOp' = fmOp
  BY Zenon DEF FmClock, FmTransaction
<1>5. fmLeft' = IF Begin /\ MemoryAccess.mine /\ MemoryAccess.read THEN MemoryAccess.words
               ELSE IF Begin \/ End THEN 0
               ELSE IF fmValid' THEN fmLeft - 1 ELSE fmLeft
  BY DEF FmClock, FmTransaction
<1>6. FmMine' => /\ ~End
                 /\ \/ Begin /\ MemoryAccess.mine
                    \/ ~Begin /\ FmMine /\ fmOp' = fmOp
  BY <1>4 DEF FmMine
<1>7. /\ fmValid' => FmMine /\ fmOp.read /\ ~busErrorOut /\ ~fmEnd /\ fmLeft > 0
      /\ fmEnd' => FmMine /\ (busErrorOut \/ (fmOp.read /\ ~fmEnd))
      /\ FmMine /\ busErrorOut => fmEnd'
  <2>1. FmReads(busErrorOut) \/ FmWrites(Valid, busErrorOut) \/ FmRests(busErrorOut)
    BY DEF FmClock
  <2>2. CASE FmReads(busErrorOut)
    BY <2>2 DEF FmReads, FmPauses
  <2>3. CASE FmWrites(Valid, busErrorOut)
    BY <2>3 DEF FmWrites, FmPauses
  <2>4. CASE FmRests(busErrorOut)
    BY <1>2, <2>4 DEF FmRests
  <2> QED BY <2>1, <2>2, <2>3, <2>4
<1>8. /\ MemoryAccess.mine /\ MemoryAccess.read => grBegin
      /\ MemoryAccess.mine /\ ~MemoryAccess.read => cmBegin
  BY DEF MemoryAccess, NoAccess
\* While it reads, only the memory ends the transaction.
<1>9. ASSUME FmMine, fmOp.read, ~busErrorOut
      PROVE  /\ Reading /\ ~grEndSeen /\ state \in {"SERVICING", "INIT_BUS_ERROR"} /\ ~Begin
             /\ End => fmEnd
  <2>1. Reading /\ ~grEndSeen /\ state \in {"SERVICING", "INIT_BUS_ERROR"}
    BY <1>3, <1>9 DEF FmPhase, ArbiterOutputs
  <2>2. ~CpuActs /\ ~CmActs
    BY <1>3, <2>1 DEF Exclusive, GrActs, Reading
  <2>3. ~CpuEnd /\ ~grAnswer /\ ~cmEnd /\ ~endTransactionOut
    BY <1>3, <2>1, <2>2 DEF CpuActs, CpuEnd, CmActs, ArbiterOutputs, VbInv, CpuPhase
  <2> QED BY <1>2, <2>1, <2>3 DEF End
<1>10. ASSUME FmMine', fmOp'.read
       PROVE  \/ Reading' /\ ~grEndSeen' /\ state' \in {"SERVICING", "INIT_BUS_ERROR", "BUS_ERROR"}
              \/ grState' = "ERROR" /\ state' = "BUS_ERROR" /\ fmEnd'
  <2>1. CASE Begin
    <3>1. grBegin
      BY <1>4, <1>6, <1>8, <1>10, <2>1
    <3>2. GrReads /\ ~grEndSeen /\ ~busErrorOut /\ state = "WAIT_BEGIN"
      BY <1>3, <3>1 DEF GrPhase, ArbiterOutputs
    <3>3. state' = "SERVICING"
      BY <2>1, <3>2 DEF ArbiterStep
    <3> QED BY <1>2, <3>2, <3>3, GrGoesOn
  <2>2. CASE ~Begin
    <3>1. FmMine /\ fmOp.read /\ ~End
      BY <1>6, <1>10, <2>2
    <3>2. CASE busErrorOut
      <4>1. Reading /\ ~grEndSeen /\ state = "BUS_ERROR" /\ timeOut = Timeout
        BY <1>3, <3>1, <3>2 DEF FmPhase, End, ArbiterOutputs, GrPhase
      <4>2. grState' = "ERROR"
        BY <3>1, <3>2, <4>1, GrGoesOn DEF Reading
      <4>3. state' = "BUS_ERROR"
        BY <1>1, <3>1, <4>1 DEF ArbiterStep
      <4> QED BY <1>7, <3>1, <3>2, <4>2, <4>3
    <3>3. CASE ~busErrorOut
      <4>1. Reading /\ ~grEndSeen /\ state \in {"SERVICING", "INIT_BUS_ERROR"}
        BY <1>9, <3>1, <3>3
      <4>2. Reading' /\ ~grEndSeen'
        BY <3>1, <3>3, <4>1, GrGoesOn DEF Reading
      <4>3. state' \in {"SERVICING", "INIT_BUS_ERROR", "BUS_ERROR"}
        BY <3>1, <4>1 DEF ArbiterStep
      <4> QED BY <4>2, <4>3
    <3> QED BY <1>2, <3>2, <3>3
  <2> QED BY <1>2, <2>1, <2>2
<1>11. ASSUME FmMine', ~fmOp'.read
       PROVE  state' = "SERVICING" /\ CmActs'
  <2>1. cmState \in {"DO_BURST1", "END_TRANS1"}
    <3>1. CASE Begin
      BY <1>3, <1>4, <1>6, <1>8, <1>11, <3>1 DEF CmPhase
    <3>2. CASE ~Begin
      <4>1. FmMine /\ ~fmOp.read /\ ~End
        BY <1>6, <1>11, <3>2
      <4> QED BY <1>3, <4>1 DEF FmPhase, CmActs, CmPhase, End, VideoTyped, CmStates
    <3> QED BY <1>2, <3>1, <3>2
  <2> QED BY <2>1, CmGoesOn
<1>12. fmValid' => FmMine' /\ fmOp'.read /\ Reading'
  <2> SUFFICES ASSUME fmValid' PROVE FmMine' /\ fmOp'.read /\ Reading'
    OBVIOUS
  <2>1. ~Begin /\ ~End /\ Reading /\ ~grEndSeen /\ FmMine /\ fmOp.read /\ ~busErrorOut
    BY <1>7, <1>9
  <2>2. FmMine' /\ fmOp'.read
    BY <1>4, <2>1 DEF FmMine
  <2> QED BY <2>1, <2>2, GrGoesOn DEF Reading
<1>13. fmEnd' => \/ FmMine' /\ fmOp'.read
                 \/ state' \in {"REMOVE", "IDLE", "END_TRANSACTION"} /\ ~FmMine'
  <2> SUFFICES ASSUME fmEnd' PROVE \/ FmMine' /\ fmOp'.read
                                   \/ state' \in {"REMOVE", "IDLE", "END_TRANSACTION"} /\ ~FmMine'
    OBVIOUS
  <2>1. CASE busErrorOut
    <3>1. FmMine /\ fmOp.read /\ state = "BUS_ERROR" /\ ~Begin
      BY <1>2, <1>3, <1>7, <2>1 DEF FmPhase, ArbiterOutputs
    <3>2. CASE End
      <4>1. state' \in {"REMOVE", "IDLE", "END_TRANSACTION"}
        BY <3>1, <3>2 DEF ArbiterStep
      <4> QED BY <1>6, <3>2, <4>1
    <3>3. CASE ~End
      BY <1>4, <3>1, <3>3 DEF FmMine
    <3> QED BY <3>2, <3>3
  <2>2. CASE ~busErrorOut
    <3>1. FmMine /\ fmOp.read /\ ~fmEnd
      BY <1>7, <2>2
    <3>2. ~Begin /\ ~End
      BY <1>9, <2>2, <3>1
    <3> QED BY <1>4, <3>1, <3>2 DEF FmMine
  <2> QED BY <2>1, <2>2
<1>14. fmLeft' # 0 => FmMine' /\ fmOp'.read
  <2>1. CASE Begin
    BY <1>2, <1>4, <1>5, <2>1 DEF FmMine
  <2>2. CASE ~Begin
    <3> SUFFICES ASSUME fmLeft' # 0 PROVE FmMine' /\ fmOp'.read
      OBVIOUS
    <3>1. ~End /\ fmLeft # 0
      BY <1>3, <1>5, <1>7, <2>2
    <3> QED BY <1>3, <1>4, <2>2, <3>1 DEF FmPhase, FmMine
  <2> QED BY <1>2, <2>1, <2>2
<1> QED BY <1>10, <1>11, <1>12, <1>13, <1>14 DEF FmPhase

-----------------------------------------------------------------------------
(* Types.                                                                  *)

\* A register is written with the word of the processor.
LEMMA WritesOp ==
    ASSUME VbInv, Valid, GrMine, ~grSelected.read
    PROVE  /\ Word = cpOp /\ cpOp \in RegisterOps /\ ~Begin /\ ~End
           /\ grSelected.reg \in Registers
<1>1. CpuPhase /\ CmPhase /\ FmPhase /\ Exclusive /\ ArbiterOutputs /\ VideoTyped
  BY DEF VbInv
<1>2. cpState \in {"data", "end"} /\ state = "SERVICING" /\ ~grAnswer /\ ~cpOp.read
  BY <1>1 DEF CpuPhase
<1>3. ~CmActs /\ ~GrActs
  BY <1>1, <1>2 DEF Exclusive, CpuActs
<1>4. ~fmValid /\ ~cmValid /\ ~cmEnd /\ ~fmEnd /\ ~endTransactionOut
  BY <1>1, <1>2, <1>3 DEF FmPhase, CmPhase, CmActs, GrActs, Reading, ArbiterOutputs
<1>5. CpuData
  BY <1>2, <1>4 DEF Valid
<1>6. ~End
  BY <1>2, <1>4, <1>5 DEF End, CpuData, CpuEnd
<1>7. ~Begin
  BY <1>2, BeginsAlone
<1>8. Word = cpOp
  BY <1>4, <1>5 DEF Word
<1> QED BY <1>1, <1>2, <1>6, <1>7, <1>8 DEF VideoTyped, GrMine

LEMMA SetupTyped ==
    ASSUME VideoTyped, GrWriteRegister
    PROVE  grSetup' \in Setups
<1>1. CASE ~grWrite
  BY <1>1 DEF VideoTyped, GrWriteRegister
<1>2. CASE grWrite
  <2>1. grData.value \in Int /\ grData.flag \in BOOLEAN /\ grSelected.reg \in Registers
    BY <1>2, VideoAssumption DEF VideoTyped
  <2>2. WidthOf(grData.value, grData.flag) \in Int
    BY <2>1, GraphicsAssumption DEF WidthOf
  <2>3. grSetup \in Setups
    BY DEF VideoTyped
  <2>4. CASE grSelected.reg = "width"
    BY <1>2, <2>1, <2>2, <2>3, <2>4 DEF GrWriteRegister, Setups
  <2>5. CASE grSelected.reg = "height"
    BY <1>2, <2>1, <2>3, <2>5 DEF GrWriteRegister, Setups
  <2>6. CASE grSelected.reg = "mode"
    BY <1>2, <2>1, <2>3, <2>6 DEF GrWriteRegister, Setups
  <2>7. CASE grSelected.reg = "base"
    BY <1>2, <2>1, <2>3, <2>7 DEF GrWriteRegister, Setups
  <2> QED BY <2>1, <2>4, <2>5, <2>6, <2>7 DEF Registers
<1> QED BY <1>1, <1>2

LEMMA TypedStep ==
    ASSUME VbInv, CmPhase', Processor,
           NEW command, NEW newScreen, NEW newLine, NEW written, NEW screen, NEW line,
           CmClock(command, CameraLine \in busGrants, busErrorOut, Busy, newScreen, newLine, written),
           GrClock(ScreenLine \in busGrants, Begin, End, Valid, busErrorOut, RegisterAccess, Word,
                   screen, line),
           FmClock(Begin, End, Valid, busErrorOut, MemoryAccess)
    PROVE  VideoTyped'
<1>1. VideoTyped
  BY DEF VbInv
<1>2. /\ cpState' \in {"rest", "request", "begin", "data", "wait", "end"}
      /\ cpState' # "rest" => cpOp' \in RegisterOps
  BY <1>1 DEF Processor, VideoTyped
<1>3. grState' \in GrStates
  BY <1>1 DEF VideoTyped, GrStates, GrClock, GrIdle, GrRequestBus, GrInit, GrRead, GrReadDone,
              GrWriteBlack, GrError, GrReads
<1>4. cmState' \in CmStates
  BY <1>1 DEF VideoTyped, CmStates, CmClock, CmIdle, CmRequestBus, CmInitBurst, CmDoBurst, CmEndBurst
<1>5. grSetup' \in Setups
  BY <1>1, SetupTyped DEF GrClock, GrSlave
<1>6. /\ grSelected' = IF Begin THEN RegisterAccess ELSE IF End THEN NotSelected ELSE grSelected
      /\ grData' = IF Valid THEN Word ELSE Nothing
      /\ grWrite' <=> (Valid /\ GrMine /\ ~grSelected.read)
  BY Zenon DEF GrClock, GrSlave
<1>7. grWrite' => grData' \in RegisterOps /\ grSelected'.reg \in Registers
  BY <1>6, WritesOp
<1>8. grSelected'.mine => grSelected'.reg \in Registers
  <2>1. RegisterAccess.mine => RegisterAccess.reg \in Registers
    <3> SUFFICES ASSUME RegisterAccess.mine PROVE RegisterAccess.reg \in Registers
      OBVIOUS
    <3>1. CpuBegin /\ RegisterAccess.reg = cpOp.reg
      BY DEF RegisterAccess, NotSelected
    <3>2. cpOp \in RegisterOps
      BY <1>1, <3>1 DEF VideoTyped, CpuBegin
    <3> QED BY <3>1, <3>2, VideoAssumption DEF Registers
  <2> QED BY <1>1, <1>6, <2>1 DEF VideoTyped, NotSelected
<1>9. {grActive', grBegun', grDataValid', grWrite', grAnswer', grBegin', grEndSeen'} \subseteq BOOLEAN
  <2>1. Begin \in BOOLEAN /\ End \in BOOLEAN /\ Valid \in BOOLEAN
    BY WiresBoolean
  <2>2. grBegun' = Begin /\ grDataValid' = Valid /\ grEndSeen' = End
    BY DEF GrClock, GrSlave, GrOutputs
  <2>3. grActive' \in BOOLEAN /\ grWrite' \in BOOLEAN /\ grAnswer' \in BOOLEAN /\ grBegin' \in BOOLEAN
    <3>1. /\ grActive' = (~End /\ ~busErrorOut /\ (Begin \/ grActive))
          /\ grWrite' = (Valid /\ GrMine /\ ~grSelected.read)
          /\ grAnswer' = (grBegun /\ GrMine /\ grSelected.read)
          /\ grBegin' = (grState \in {"INIT", "INIT1"})
      BY DEF GrClock, GrSlave, GrOutputs, GrStarts
    <3> QED BY <3>1
  <2> QED BY <2>1, <2>2, <2>3
<1>10. {cmValid', cmBegin', cmEnd'} \subseteq BOOLEAN
  BY DEF CmClock, CmOutputs
<1>11. {fmActive', fmValid', fmEnd', fmDone'} \subseteq BOOLEAN
  BY DEF FmClock, FmTransaction, FmReads, FmWrites, FmRests, FmPauses
<1> QED BY <1>2, <1>3, <1>4, <1>5, <1>7, <1>8, <1>9, <1>10, <1>11 DEF VideoTyped

-----------------------------------------------------------------------------
(* No burst is longer than its place.                                      *)

LEMMA Remainder ==
    ASSUME NEW a \in Int, NEW n \in Nat \ {0}
    PROVE  a % n \in 0 .. n - 1
BY Z3

LEMMA BurstBounded ==
    ASSUME grSetup \in Setups
    PROVE  Burst \in 1 .. BurstWords
<1>1. BurstWords \in Nat \ {0} /\ BufferWords \in Int /\ 4 * BurstWords \in Nat \ {0}
  BY GraphicsAssumption DEF BufferWords
<1>2. grSetup.width \in Int /\ grSetup.dual \in BOOLEAN /\ grSetup.gray \in BOOLEAN
  BY DEF Setups
<1>3. /\ grSetup.width \div 4 \in Int
      /\ grSetup.width \div 2 \in Int
  BY <1>2
<1> DEFINE pixels == CASE DualBurst /\ grState = "INIT" -> BufferWords - 2
                       [] DualBurst /\ grState # "INIT" -> grSetup.width - BufferWords - 2
                       [] grSetup.dual /\ grSetup.gray -> grSetup.width \div 4 - 2
                       [] grSetup.dual # grSetup.gray -> grSetup.width \div 2 - 2
                       [] OTHER -> grSetup.width - 2
           half == (pixels % (4 * BurstWords)) \div 2
<1>4. pixels \in Int
  <2>1. BufferWords - 2 \in Int /\ grSetup.width - BufferWords - 2 \in Int /\ grSetup.width - 2 \in Int
        /\ grSetup.width \div 4 - 2 \in Int /\ grSetup.width \div 2 - 2 \in Int
    BY <1>1, <1>2, <1>3
  <2> QED BY <2>1, Zenon
<1>5. Burst = 1 + (half % BurstWords)
  BY Zenon DEF Burst
<1> HIDE DEF pixels
<1>6. pixels % (4 * BurstWords) \in Int
  BY <1>1, <1>4, Remainder
<1>7. half \in Int
  BY <1>6
<1> HIDE DEF half
<1>8. half % BurstWords \in 0 .. BurstWords - 1
  BY <1>1, <1>7, Remainder
<1> QED BY <1>1, <1>5, <1>8

\* What the memory delivers, it has still to deliver.
LEMMA WordsLeft ==
    ASSUME VbInv, FmClock(Begin, End, Valid, busErrorOut, MemoryAccess)
    PROVE  /\ fmLeft' \in 0 .. BurstWords
           /\ fmValid' => FmMine /\ fmLeft > 0
           /\ ~Begin => fmLeft' + (IF fmValid' THEN 1 ELSE 0) <= fmLeft
           /\ Begin => fmLeft' <= grWords
<1>1. /\ fmLeft \in 0 .. BurstWords /\ grWords \in 1 .. BurstWords /\ BurstWords \in Nat \ {0}
      /\ VideoTyped
  BY GraphicsAssumption DEF VbInv, Room
<1>2. fmValid' => FmMine /\ fmLeft > 0
  <2>1. CASE FmReads(busErrorOut)
    BY <2>1 DEF FmReads, FmPauses
  <2>2. CASE FmWrites(Valid, busErrorOut)
    BY <2>2 DEF FmWrites
  <2>3. CASE FmRests(busErrorOut)
    BY <2>3 DEF FmRests
  <2> QED BY <2>1, <2>2, <2>3 DEF FmClock
<1>3. fmLeft' = IF Begin /\ MemoryAccess.mine /\ MemoryAccess.read THEN MemoryAccess.words
                ELSE IF Begin \/ End THEN 0
                ELSE IF fmValid' THEN fmLeft - 1 ELSE fmLeft
  BY DEF FmClock, FmTransaction
<1>4. MemoryAccess.mine /\ MemoryAccess.read => MemoryAccess.words = grWords
  BY DEF MemoryAccess, NoAccess
<1> QED BY <1>1, <1>2, <1>3, <1>4

\* The words on the way to the line buffer.
LEMMA ComingStep ==
    ASSUME VbInv, GrPhase', GrReads, NEW newScreen, NEW newLine,
           GrClock(ScreenLine \in busGrants, Begin, End, Valid, busErrorOut, RegisterAccess, Word,
                   newScreen, newLine),
           FmClock(Begin, End, Valid, busErrorOut, MemoryAccess)
    PROVE  /\ grWriteAddress' + Coming' <= IF grState = "READ" THEN BurstWords ELSE BufferWords
           /\ grWriteAddress' \in 0 .. BufferWords
           /\ Coming' >= 0
<1>1. /\ BurstWords \in Nat \ {0} /\ BufferWords = 2 * BurstWords
      /\ grWriteAddress \in 0 .. BufferWords /\ fmLeft \in 0 .. BurstWords /\ grWords \in 1 .. BurstWords
  BY GraphicsAssumption DEF VbInv, Room, BufferWords
<1>2. grWriteAddress' = IF grDataValid THEN (grWriteAddress + 1) % (2 * BufferWords) ELSE grWriteAddress
  BY DEF GrClock, GrAddresses, GrReads
<1>3. grDataValid' <=> Valid
  BY Zenon DEF GrClock, GrSlave
<1>8. fmLeft' \in 0 .. BurstWords
  BY WordsLeft
<1>6. PICK left \in 0 .. BurstWords : left = fmLeft'
  BY <1>8
<1>7. Coming' = left + (IF fmValid' THEN 1 ELSE 0) + (IF Valid THEN 1 ELSE 0)
  <2>1. Coming' = fmLeft' + (IF fmValid' THEN 1 ELSE 0) + (IF grDataValid' THEN 1 ELSE 0)
    BY DEF Coming
  <2> QED BY <1>3, <1>6, <2>1
<1>4. CASE grBegin
  <2>1. state = "WAIT_BEGIN" /\ Begin /\ ~grDataValid
        /\ grWriteAddress <= IF grState = "READ" THEN 0 ELSE BurstWords
    BY <1>4 DEF VbInv, GrPhase, Room, Begin
  <2>2. ~Valid /\ ~FmMine
    BY <2>1, BeginsAlone
  <2>3. ~fmValid'
    BY <2>2, WordsLeft
  <2>4. Coming' = left
    BY <1>1, <1>7, <2>2, <2>3
  <2>5. left <= grWords
    BY <1>6, <2>1, WordsLeft
  <2>6. grWriteAddress' = grWriteAddress
    BY <1>2, <2>1
  <2> QED BY <1>1, <2>1, <2>4, <2>5, <2>6
<1>5. CASE ~grBegin
  <2>1. Reading /\ grWriteAddress + Coming <= IF grState = "READ" THEN BurstWords ELSE BufferWords
    BY <1>5 DEF Reading, VbInv, Room
  <2>2. ~Begin /\ (Valid <=> fmValid)
    <3>1. ~CpuActs /\ ~CmActs /\ state # "WAIT_BEGIN"
      BY <2>1 DEF VbInv, Exclusive, GrActs, Reading, GrPhase
    <3>2. ~CpuData /\ ~grAnswer /\ ~cmValid
      BY <3>1 DEF CpuActs, CpuData, VbInv, CpuPhase, CmPhase, CmActs
    <3> QED BY <3>1, <3>2, BeginsAlone DEF Valid
  <2> DEFINE on  == IF grDataValid THEN 1 ELSE 0
             in  == IF fmValid THEN 1 ELSE 0
             out == IF fmValid' THEN 1 ELSE 0
  <2>3. Coming = fmLeft + in + on /\ Coming' = left + out + in
    BY <1>7, <2>2 DEF Coming
  <2>4. left + out <= fmLeft
    BY <1>6, <2>2, WordsLeft
  <2>5. grWriteAddress' = grWriteAddress + on
    <3>1. CASE grDataValid
      <4>1. grWriteAddress + 1 <= BufferWords
        BY <1>1, <2>1, <2>3, <3>1
      <4>2. (grWriteAddress + 1) % (2 * BufferWords) = grWriteAddress + 1
        BY <1>1, <4>1, Z3
      <4> QED BY <1>2, <3>1, <4>2
    <3> QED BY <1>1, <1>2, <3>1
  <2>6. on \in 0 .. 1 /\ in \in 0 .. 1 /\ out \in 0 .. 1
    OBVIOUS
  <2> DEFINE now == grWriteAddress + (fmLeft + in + on)
             next == left + out + in
  <2>7. now <= (IF grState = "READ" THEN BurstWords ELSE BufferWords) /\ Coming' = next
    BY <2>1, <2>3
  <2> HIDE DEF on, in, out
  <2>8. /\ (grWriteAddress + on) + next <= now /\ now \in Int
        /\ next \in Nat /\ grWriteAddress + on \in Nat
    BY <1>1, <2>4, <2>6
  <2> HIDE DEF now, next
  <2>9. /\ (grWriteAddress + on) + next <= (IF grState = "READ" THEN BurstWords ELSE BufferWords)
        /\ grWriteAddress + on \in 0 .. BufferWords
        /\ next >= 0
    BY <1>1, <2>7, <2>8
  <2> QED BY <2>5, <2>7, <2>9, Zenon
<1> QED BY <1>4, <1>5 DEF VbInv, VideoTyped

LEMMA RoomStep ==
    ASSUME VbInv, GrPhase', CmRoom', NEW newScreen, NEW newLine,
           GrClock(ScreenLine \in busGrants, Begin, End, Valid, busErrorOut, RegisterAccess, Word,
                   newScreen, newLine),
           FmClock(Begin, End, Valid, busErrorOut, MemoryAccess)
    PROVE  Room'
<1>1. /\ BurstWords \in Nat \ {0} /\ BufferWords = 2 * BurstWords
      /\ grWriteAddress \in 0 .. BufferWords
  BY GraphicsAssumption DEF VbInv, Room, BufferWords
<1>2. /\ grBegin' <=> GrStarts
      /\ grDataValid' <=> Valid
  BY Zenon DEF GrClock, GrSlave, GrOutputs
<1>3. \/ GrIdle(newScreen, newLine) \/ GrRequestBus(ScreenLine \in busGrants) \/ GrInit
      \/ GrRead(End, busErrorOut) \/ GrReadDone \/ GrWriteBlack \/ GrError
  BY DEF GrClock
<1>4. grWriteAddress' = IF grState \in {"INIT_WRITE_BLACK", "INIT"} THEN 0
                        ELSE IF (grState = "WRITE_BLACK" /\ ~BufferFull) \/ (GrReads /\ grDataValid)
                        THEN (grWriteAddress + 1) % (2 * BufferWords) ELSE grWriteAddress
  BY DEF GrClock, GrAddresses
<1>5. grWords' \in 1 .. BurstWords
  <2>1. grWords' = IF GrStarts THEN Burst ELSE 1
    BY DEF GrClock, GrOutputs
  <2> QED BY <1>1, <2>1, BurstBounded DEF VbInv, VideoTyped
<1>6. fmLeft' \in 0 .. BurstWords
  BY WordsLeft
<1>7. grWriteAddress' \in 0 .. BufferWords
  <2>1. CASE GrReads
    BY <2>1, ComingStep
  <2>2. CASE ~GrReads /\ grState = "WRITE_BLACK" /\ ~BufferFull
    <3>1. grWriteAddress + 1 <= BufferWords
      BY <1>1, <2>2 DEF BufferFull
    <3>2. (grWriteAddress + 1) % (2 * BufferWords) = grWriteAddress + 1
      BY <1>1, <3>1, Z3
    <3> QED BY <1>1, <1>4, <2>2, <3>1, <3>2
  <2>3. CASE ~GrReads /\ ~(grState = "WRITE_BLACK" /\ ~BufferFull)
    BY <1>1, <1>4, <2>3
  <2> QED BY <2>1, <2>2, <2>3
<1>8. grBegin' => ~grDataValid' /\ grWriteAddress' <= (IF grState' = "READ" THEN 0 ELSE BurstWords)
  <2> SUFFICES ASSUME GrStarts
               PROVE  ~grDataValid' /\ grWriteAddress' <= (IF grState' = "READ" THEN 0 ELSE BurstWords)
    BY <1>2
  <2>1. state = "WAIT_BEGIN"
    BY DEF VbInv, GrPhase
  <2>2. ~grDataValid'
    BY <1>2, <2>1, BeginsAlone
  <2>3. CASE grState = "INIT"
    <3>1. grState' = "READ" /\ grWriteAddress' = 0
      BY <1>3, <1>4, <2>3 DEF GrIdle, GrRequestBus, GrInit, GrRead, GrReadDone, GrWriteBlack, GrError, GrReads
    <3> QED BY <2>2, <3>1
  <2>4. CASE grState = "INIT1"
    <3>1. grState' = "READ1" /\ grWriteAddress' = grWriteAddress
      BY <1>3, <1>4, <2>4 DEF GrIdle, GrRequestBus, GrInit, GrRead, GrReadDone, GrWriteBlack, GrError, GrReads
    <3>2. grWriteAddress <= BurstWords
      BY <2>4 DEF VbInv, Room
    <3> QED BY <2>2, <3>1, <3>2
  <2> QED BY <2>3, <2>4 DEF GrStarts
<1>9. grState' \in {"REQUEST1", "INIT1"} => grWriteAddress' <= BurstWords
  <2> SUFFICES ASSUME grState' \in {"REQUEST1", "INIT1"} PROVE grWriteAddress' <= BurstWords
    OBVIOUS
  <2>1. grState = "REQUEST1" \/ (grState = "READ" /\ grEndSeen)
    BY <1>3 DEF GrIdle, GrRequestBus, GrInit, GrRead, GrReadDone, GrWriteBlack, GrError, GrReads
  <2>2. CASE grState = "REQUEST1"
    BY <1>4, <2>2 DEF GrReads, VbInv, Room
  <2>3. CASE grState = "READ" /\ grEndSeen
    <3>1. ~grBegin
      BY <2>3 DEF VbInv, GrPhase
    <3>2. grWriteAddress + Coming <= BurstWords
      BY <2>3, <3>1 DEF VbInv, Room, Reading, GrReads
    <3>3. fmLeft \in 0 .. BurstWords
      BY DEF VbInv, Room
    <3>4. grWriteAddress <= BurstWords /\ (grDataValid => grWriteAddress + 1 <= BurstWords)
      BY <1>1, <3>2, <3>3 DEF Coming
    <3>5. CASE grDataValid
      <4>1. (grWriteAddress + 1) % (2 * BufferWords) = grWriteAddress + 1
        BY <1>1, <3>4, <3>5, Z3
      <4> QED BY <1>4, <2>3, <3>4, <3>5, <4>1 DEF GrReads
    <3>6. CASE ~grDataValid
      BY <1>4, <2>3, <3>4, <3>6
    <3> QED BY <3>5, <3>6
  <2> QED BY <2>1, <2>2, <2>3
<1>10. Reading' => grWriteAddress' + Coming' <= (IF grState' = "READ" THEN BurstWords ELSE BufferWords)
  <2> SUFFICES ASSUME Reading'
               PROVE  grWriteAddress' + Coming' <= (IF grState' = "READ" THEN BurstWords ELSE BufferWords)
    OBVIOUS
  <2>1. GrReads /\ grState' = grState
    BY <1>2, <1>3 DEF Reading, GrReads, GrStarts, GrIdle, GrRequestBus, GrInit, GrRead, GrReadDone, GrWriteBlack, GrError
  <2>2. grWriteAddress' + Coming' <= (IF grState = "READ" THEN BurstWords ELSE BufferWords)
    BY <2>1, ComingStep
  <2> QED BY <2>1, <2>2
<1> QED BY <1>5, <1>6, <1>7, <1>8, <1>9, <1>10 DEF Room, CmRoom

-----------------------------------------------------------------------------
(* The invariant.                                                          *)

LEMMA InitVb == VideoInit => VbInv
<1> SUFFICES ASSUME VideoInit PROVE VbInv
  OBVIOUS
<1>1. /\ Init /\ GrReset /\ CmInit /\ FmInit /\ cpState = "rest"
  BY DEF VideoInit
<1>2. IInv
  BY <1>1, InitIInv
<1>3. /\ state = "IDLE" /\ busGrants = {} /\ ~busErrorOut /\ ~endTransactionOut
  BY <1>1 DEF Init
<1>4. BurstWords \in Nat \ {0} /\ BufferWords = 2 * BurstWords /\ LineWords \in Nat \ {0}
      /\ CameraBurst \in Nat \ {0}
  BY GraphicsAssumption, CameraAssumption DEF BufferWords
<1>5. VideoTyped
  <2>1. grSetup \in Setups
    BY <1>1, <1>4 DEF GrReset, Setups
  <2>2. {grActive, grBegun, grDataValid, grWrite, grAnswer, grBegin, grEndSeen,
         cmValid, cmBegin, cmEnd, fmActive, fmValid, fmEnd, fmDone} \subseteq BOOLEAN
    BY <1>1 DEF GrReset, CmInit, FmInit
  <2> QED BY <1>1, <2>1, <2>2 DEF GrReset, CmInit, VideoTyped, GrStates, CmStates, NotSelected
<1>6. /\ ~CpuActs /\ ~GrActs /\ ~CmActs /\ ~GrMine /\ ~FmMine
  BY <1>1 DEF GrReset, CmInit, FmInit, CpuActs, GrActs, CmActs, GrStarts, GrReads, GrMine, FmMine
<1>7. ArbiterOutputs
  BY <1>3 DEF ArbiterOutputs
<1>8. CpuPhase
  BY <1>1, <1>6 DEF CpuPhase, GrReset
<1>9. CmPhase
  BY <1>1 DEF CmPhase, CmInit
<1>10. GrPhase
  BY <1>1 DEF GrPhase, GrReset, GrStarts, GrReads, Reading
<1>11. Exclusive
  BY <1>6 DEF Exclusive
<1>12. FmPhase
  BY <1>1, <1>6 DEF FmPhase, FmInit
<1>13. Room
  <2>1. grState = "IDLE" /\ ~grBegin /\ grWriteAddress = 0 /\ grWords = 1 /\ fmLeft = 0
        /\ cmLeft = 0 /\ cmCount = -1 /\ cmWords = 1
    BY <1>1 DEF GrReset, CmInit, FmInit
  <2> QED BY <1>4, <2>1 DEF Room, Reading, GrReads
<1> QED BY <1>2, <1>5, <1>7, <1>8, <1>9, <1>10, <1>11, <1>12, <1>13 DEF VbInv

LEMMA NextVb ==
    ASSUME VbInv, OwnLines, [VideoNext]_videoVars
    PROVE  VbInv'
<1>1. CASE UNCHANGED videoVars
  <2>1. UNCHANGED <<vars, grVars, cmVars, fmVars, cpState, cpOp>>
    BY <1>1 DEF videoVars
  <2>2. IInv'
    BY <2>1, NextIInv DEF VbInv
  <2>3. VideoTyped'
    BY <2>1 DEF VbInv, VideoTyped, grVars, cmVars, fmVars
  <2>4. CpuActs' = CpuActs /\ GrActs' = GrActs /\ CmActs' = CmActs /\ Reading' = Reading
        /\ GrMine' = GrMine /\ FmMine' = FmMine /\ GrStarts' = GrStarts /\ GrReads' = GrReads
    BY <2>1 DEF CpuActs, GrActs, CmActs, Reading, GrMine, FmMine, GrStarts, GrReads, grVars, cmVars, fmVars
  <2>5. ArbiterOutputs' /\ Exclusive'
    BY <2>1, <2>4 DEF VbInv, ArbiterOutputs, Exclusive, vars
  <2>6. CpuPhase'
    BY <2>1, <2>4 DEF VbInv, CpuPhase, vars, grVars
  <2>7. CmPhase'
    BY <2>1, <2>4 DEF VbInv, CmPhase, vars, cmVars
  <2>8. GrPhase'
    BY <2>1, <2>4 DEF VbInv, GrPhase, vars, grVars
  <2>9. FmPhase'
    BY <2>1, <2>4 DEF VbInv, FmPhase, vars, grVars, fmVars
  <2>10. Coming' = Coming
    BY <2>1 DEF Coming, grVars, fmVars
  <2>11. Room'
    BY <2>1, <2>4, <2>10 DEF VbInv, Room, grVars, cmVars, fmVars
  <2> QED BY <2>2, <2>3, <2>5, <2>6, <2>7, <2>8, <2>9, <2>11 DEF VbInv
<1>2. ASSUME NEW screenEvent \in ScreenEvents, NEW sensorEvent \in SensorEvents,
             NEW command \in CameraCommands, VideoClock(screenEvent, sensorEvent, command)
      PROVE  VbInv'
  <2>1. /\ Processor
        /\ Clock(Requests, Begin, End, Valid)
        /\ GrClock(ScreenLine \in busGrants, Begin, End, Valid, busErrorOut, RegisterAccess, Word,
                   NewScreen(screenEvent), NewLine(screenEvent))
        /\ CmClock(command, CameraLine \in busGrants, busErrorOut, Busy, sensorEvent = "frame",
                   sensorEvent = "line", Written(sensorEvent))
        /\ FmClock(Begin, End, Valid, busErrorOut, MemoryAccess)
    BY <1>2 DEF VideoClock
  <2>2. IInv'
    <3>1. Requests \in SUBSET Masters
      BY DEF Requests, OwnLines
    <3>2. Begin \in BOOLEAN /\ End \in BOOLEAN /\ Valid \in BOOLEAN
      BY WiresBoolean
    <3>3. Next
      BY <2>1, <3>1, <3>2 DEF Next
    <3> QED BY <3>3, NextIInv DEF VbInv
  <2>3. ArbiterStep
    BY <2>1, <2>2, ArbiterClock
  <2>4. CpuPhase'
    BY <2>1, <2>3, CpuStep DEF GrClock
  <2>5. CmPhase' /\ CmRoom'
    BY <2>1, <2>3, CmStep
  <2>6. GrPhase'
    BY <2>1, <2>3, GrStep
  <2>7. Exclusive' /\ ArbiterOutputs'
    BY <2>1, <2>3, ActsOnGrant, ExclusiveStep
  <2>8. FmPhase'
    BY <2>1, <2>3, <2>5, <2>6, FmStep
  <2>9. VideoTyped'
    BY <2>1, <2>5, TypedStep
  <2>10. Room'
    BY <2>1, <2>5, <2>6, RoomStep
  <2> QED BY <2>2, <2>4, <2>5, <2>6, <2>7, <2>8, <2>9, <2>10 DEF VbInv
<1> QED BY <1>1, <1>2 DEF VideoNext

\* The invariant says what the run checks.
LEMMA VbShared == VbInv => BusShared
<1> SUFFICES ASSUME VbInv PROVE BusShared
  OBVIOUS
<1>1. VideoTypeOK
  BY DEF VbInv, VideoTyped, Room, VideoTypeOK
<1>2. Cardinality(Transacting) <= 1
  <2>1. \E m : Transacting \subseteq {m}
    <3>1. Exclusive
      BY DEF VbInv
    <3> QED BY <3>1 DEF Transacting, Exclusive, CpuActs, GrActs, CmActs
  <2>2. PICK m : Transacting = {} \/ Transacting = {m}
    BY <2>1
  <2> HIDE DEF Transacting
  <2>3. Cardinality({}) = 0 /\ Cardinality({m}) = 1
    BY FS_EmptySet, FS_Singleton
  <2> QED BY <2>2, <2>3
<1>3. Begin => state = "WAIT_BEGIN" /\ ~Valid
  BY BeginsAlone
<1>4. fmValid => ~cmValid /\ ~CpuData /\ ~grAnswer
  BY DEF VbInv, FmPhase, CmPhase, CpuPhase, Exclusive, CpuActs, GrActs, CmActs, Reading, CpuData
<1> QED BY <1>1, <1>2, <1>3, <1>4 DEF BusShared, OneMaster

(* The bus is shared rightly for any number of request lines, any time-out   *)
(* of at least two clocks, any lengths of bursts, lines and pictures, any     *)
(* program and any behaviour of the screen and the sensor: one master at a    *)
(* time is in a transaction, though the arbiter may give up the one of the    *)
(* screen and the screen notices only later; no master begins while words of  *)
(* another transaction are on the wires; and the controller never writes      *)
(* beyond its line buffer.                                                    *)
THEOREM BusIsShared ==
    ASSUME OwnLines
    PROVE  VideoSpec => []BusShared
<1>1. VideoInit => VbInv
  BY InitVb
<1>2. VbInv /\ [VideoNext]_videoVars => VbInv'
  BY NextVb
<1>3. VbInv => BusShared
  BY VbShared
<1> QED BY <1>1, <1>2, <1>3, PTL DEF VideoSpec

-----------------------------------------------------------------------------
(* Where the camera writes.                                                *)

\* Words that the master has still to copy, of the lines that the sensor has sent.
Owed == IF cmState = "IDLE" THEN 0 ELSE cmLeft + cmCount + 1

\* The master is within the lines that the sensor has sent, also when a line comes
\* before the last one is copied, and the memory stores each word where the
\* master counts it.
InFrame ==
    /\ cmBase \in Int /\ cmAddress \in Int /\ snBase[1] \in Int /\ snLine \in -1 .. SensorLines
    /\ snLine = -1 => cmState = "IDLE"
    /\ cmState # "DO_BURST1" => cmCount = -1
    /\ cmBegin /\ snTrouble[1] # "overlap" => cmOut = cmAddress
    /\ snTrouble[1] # "overlap" /\ snLine >= 0 =>
         /\ snBase[1] <= cmAddress
         /\ cmAddress + Owed <= snBase[1] + LineWords * snLine
         /\ cmState = "DO_BURST1" /\ ~cmBegin =>
              /\ snBase[1] < cmAddress
              /\ FmMine => fmNext = cmAddress - (IF fmDone THEN 0 ELSE 1)

LEMMA Lines ==
    /\ \A n \in Int : LineWords * (n + 1) = LineWords * n + LineWords
    /\ \A n \in Int : n <= SensorLines => LineWords * n <= FrameWords
    /\ LineWords * 0 = 0
<1>1. LineWords \in Nat /\ SensorLines \in Nat
  BY CameraAssumption, VideoAssumption
<1>2. \A n \in Int : LineWords * (n + 1) = LineWords * n + LineWords
  BY <1>1, Z3
<1>3. LineWords * 0 = 0
  BY <1>1
<1>4. ASSUME NEW n \in Int, n <= SensorLines PROVE LineWords * n <= FrameWords
  <2>1. PICK d \in Nat : SensorLines = n + d
    <3>1. SensorLines - n \in Nat /\ SensorLines = n + (SensorLines - n)
      BY <1>1, <1>4
    <3> QED BY <3>1
  <2>2. LineWords * d \in Nat
    BY <1>1, Z3
  <2>3. LineWords * n \in Int
    BY <1>1, Z3
  <2>4. SensorLines * LineWords = LineWords * n + LineWords * d
    BY <1>1, <2>1, Z3
  <2> QED BY <2>2, <2>3, <2>4 DEF FrameWords
<1> QED BY <1>2, <1>3, <1>4

\* Every word is counted once, when it leaves, and a new line adds at most its
\* own words.
LEMMA OwedStep ==
    ASSUME VbInv, InFrame, CmRoom', NEW command, NEW newScreen, NEW newLine \in BOOLEAN, NEW written,
           CmClock(command, CameraLine \in busGrants, busErrorOut, Busy, newScreen, newLine, written)
    PROVE  /\ Owed \in Nat
           /\ Owed' + (IF CmWrites(Busy) THEN 1 ELSE 0) <= Owed + (IF newLine THEN LineWords ELSE 0)
           /\ cmState' # "DO_BURST1" => cmCount' = -1
           /\ cmState = "IDLE" /\ ~newLine => cmState' = "IDLE"
           /\ cmBegin' <=> cmState = "INIT_BURST1"
<1> DEFINE writes == CmWrites(Busy)
<1>1. /\ cmLeft \in 0 .. LineWords /\ cmCount \in -1 .. CameraBurst - 1
      /\ LineWords \in Nat \ {0} /\ CameraBurst \in Nat \ {0}
      /\ CmPhase /\ cmState \in CmStates
      /\ cmState # "DO_BURST1" => cmCount = -1
  BY CameraAssumption DEF VbInv, Room, VideoTyped, InFrame
<1>2. PICK left \in 0 .. LineWords : left = cmLeft'
  BY DEF CmRoom
<1>3. PICK count \in -1 .. CameraBurst - 1 : count = cmCount'
  BY DEF CmRoom
<1>4. /\ left = IF newLine THEN LineWords
                ELSE IF cmState = "INIT_BURST1" THEN cmLeft - NextBurst ELSE cmLeft
      /\ count = IF cmState = "INIT_BURST1" THEN NextBurst - 1
                 ELSE IF writes THEN cmCount - 1 ELSE cmCount
  BY <1>2, <1>3 DEF CmClock, CmPosition
<1>5. \/ CmIdle(newLine) \/ CmRequestBus(CameraLine \in busGrants) \/ CmInitBurst
      \/ CmDoBurst(busErrorOut, Busy) \/ CmEndBurst
  BY DEF CmClock
<1>6. cmState = "INIT_BURST1" => NextBurst \in 1 .. CameraBurst /\ NextBurst <= cmLeft
  BY <1>1 DEF NextBurst, CmPhase
<1>7. writes => cmState = "DO_BURST1" /\ cmCount >= 0
  BY <1>1 DEF CmWrites, BurstOver
<1>8. cmBegin' <=> cmState = "INIT_BURST1"
  BY Zenon DEF CmClock, CmOutputs
<1>9. Owed' = IF cmState' = "IDLE" THEN 0 ELSE left + count + 1
  <2>1. Owed' = IF cmState' = "IDLE" THEN 0 ELSE cmLeft' + cmCount' + 1
    BY DEF Owed
  <2> QED BY <1>2, <1>3, <2>1
<1> HIDE DEF writes
<1>10. cmState = "IDLE" => cmState' = IF (cmRunning \/ cmAction[1]) /\ newLine THEN "REQUEST_BUS1" ELSE "IDLE"
  BY <1>5 DEF CmIdle, CmRequestBus, CmInitBurst, CmDoBurst, CmEndBurst
<1>11. cmState' # "IDLE" => cmState # "IDLE" \/ newLine
  BY <1>10
<1>12. cmState' # "DO_BURST1" /\ cmState = "DO_BURST1" => busErrorOut \/ (cmCount < 0 /\ ~writes)
  BY <1>5, <1>7 DEF CmIdle, CmRequestBus, CmInitBurst, CmDoBurst, CmEndBurst, BurstOver, writes, CmWrites
<1>13. cmState = "DO_BURST1" => ~busErrorOut
  BY <1>1 DEF CmPhase, VbInv, ArbiterOutputs
<1>14. cmState = "INIT_BURST1" => cmState' = "DO_BURST1"
  BY <1>5 DEF CmIdle, CmRequestBus, CmInitBurst, CmDoBurst, CmEndBurst
<1>15. cmState' # "DO_BURST1" => count = -1
  BY <1>1, <1>4, <1>7, <1>12, <1>13, <1>14
<1>16. Owed = IF cmState = "IDLE" THEN 0 ELSE cmLeft + cmCount + 1
  BY DEF Owed
<1>17. Owed' + (IF writes THEN 1 ELSE 0) <= Owed + (IF newLine THEN LineWords ELSE 0)
  <2>1. CASE cmState' = "IDLE"
    BY <1>1, <1>7, <1>9, <1>16, <2>1
  <2>2. CASE cmState' # "IDLE" /\ cmState = "IDLE"
    BY <1>1, <1>4, <1>7, <1>9, <1>11, <1>16, <2>2
  <2>3. CASE cmState' # "IDLE" /\ cmState # "IDLE"
    BY <1>1, <1>4, <1>6, <1>7, <1>9, <1>16, <2>3
  <2> QED BY <2>1, <2>2, <2>3
<1>18. Owed \in Nat
  BY <1>1, <1>16
<1> QED BY <1>3, <1>8, <1>10, <1>15, <1>17, <1>18 DEF writes

\* The memory is where the master is.
LEMMA StoredStep ==
    ASSUME VbInv, InFrame, CmPhase', NEW command, NEW newScreen \in BOOLEAN, NEW newLine, NEW written,
           CmClock(command, CameraLine \in busGrants, busErrorOut, Busy, newScreen, newLine, written),
           FmClock(Begin, End, Valid, busErrorOut, MemoryAccess),
           snTrouble[1] # "overlap", snLine >= 0, snBase[1] <= cmAddress, ~newScreen,
           cmState' = "DO_BURST1", ~cmBegin'
    PROVE  /\ snBase[1] < cmAddress'
           /\ FmMine' => fmNext' = cmAddress' - (IF fmDone' THEN 0 ELSE 1)
<1>1. /\ CmPhase /\ FmPhase /\ Exclusive /\ VideoTyped /\ ArbiterOutputs
      /\ cmAddress \in Int /\ snBase[1] \in Int /\ cmCount \in -1 .. CameraBurst - 1 /\ CameraBurst \in Nat
  BY CameraAssumption DEF VbInv, InFrame, Room
<1>2. /\ cmBegin' <=> cmState = "INIT_BURST1"
      /\ cmAddress' = IF CmWrites(Busy) THEN cmAddress + 1 ELSE cmAddress
  BY Zenon DEF CmClock, CmOutputs, CmPosition
<1>3. cmState = "DO_BURST1" /\ (BurstOver => Busy)
  BY <1>1, <1>2 DEF CmClock, CmIdle, CmRequestBus, CmInitBurst, CmDoBurst, CmEndBurst
<1>4. /\ fmActive' <=> (~End /\ (Begin \/ fmActive))
      /\ fmOp' = IF Begin THEN MemoryAccess ELSE IF End THEN NoAccess ELSE fmOp
      /\ fmNext' = IF Begin THEN MemoryAccess.address ELSE IF End THEN 0
                   ELSE IF fmValid' \/ fmDone' THEN fmNext + 1 ELSE fmNext
  BY Zenon DEF FmClock, FmTransaction
<1>5. CASE cmBegin
  <2>1. state = "WAIT_BEGIN" /\ Begin /\ cmCount >= 0 /\ cmOut = cmAddress
    BY <1>1, <1>5 DEF CmPhase, Begin, InFrame
  <2>2. ~FmMine /\ ~Busy
    BY <2>1, BeginsAlone DEF Busy, FmBusy
  <2>3. CmWrites(Busy)
    BY <1>1, <1>3, <2>1, <2>2 DEF CmWrites, BurstOver
  <2>4. ~grBegin
    BY <1>1, <1>5 DEF Exclusive, GrActs, CmActs, CmPhase, VbInv, GrPhase
  <2>5. MemoryAccess.address = cmAddress
    BY <1>5, <2>1, <2>4 DEF MemoryAccess
  <2>6. fmDone' = FALSE
    BY <2>2 DEF FmClock, FmReads, FmWrites, FmRests
  <2> QED BY <1>1, <1>2, <1>4, <2>1, <2>3, <2>5, <2>6
<1>6. CASE ~cmBegin
  <2>1. state = "SERVICING" /\ cmValid /\ ~Begin /\ Valid /\ ~busErrorOut
    BY <1>1, <1>3, <1>6, BeginsAlone DEF CmPhase, Valid, ArbiterOutputs
  <2>2. snBase[1] < cmAddress /\ (FmMine => fmNext = cmAddress - (IF fmDone THEN 0 ELSE 1))
    BY <1>3, <1>6 DEF InFrame
  <2>3. snBase[1] < cmAddress'
    BY <1>1, <1>2, <2>2
  <2> SUFFICES ASSUME FmMine' PROVE fmNext' = cmAddress' - (IF fmDone' THEN 0 ELSE 1)
    BY <2>3
  <2>4. FmMine /\ ~End
    BY <1>4, <2>1 DEF FmMine, NoAccess
  <2>5. ~GrActs
    BY <1>1, <1>3 DEF Exclusive, CmActs
  <2>6. ~fmOp.read /\ ~fmEnd
    BY <1>1, <2>1, <2>4, <2>5 DEF FmPhase, GrActs, Reading
  <2>7. Busy <=> ~fmDone
    BY <2>1, <2>4, <2>6 DEF Busy, FmBusy
  <2>8. FmWrites(Valid, busErrorOut)
    BY <2>1, <2>4, <2>6 DEF FmClock, FmReads, FmRests
  <2>9. fmValid' = FALSE /\ (~Busy => fmDone' = FALSE)
    BY <2>8 DEF FmWrites, Busy
  <2>10. fmNext' = IF fmDone' THEN fmNext + 1 ELSE fmNext
    BY <1>4, <2>1, <2>4, <2>9
  <2>11. CASE fmDone
    <3>1. CmWrites(Busy) /\ fmDone' = FALSE
      BY <1>3, <2>7, <2>9, <2>11 DEF CmWrites
    <3> QED BY <1>1, <1>2, <2>2, <2>4, <2>10, <2>11, <3>1
  <2>12. CASE ~fmDone
    <3>1. ~CmWrites(Busy)
      BY <2>7, <2>12 DEF CmWrites
    <3> QED BY <1>1, <1>2, <2>2, <2>4, <2>10, <2>12, <3>1
  <2> QED BY <2>11, <2>12
<1> QED BY <1>1, <1>5, <1>6 DEF VideoTyped

LEMMA InitFrame == VideoInit => InFrame
BY VideoAssumption DEF VideoInit, CmInit, InFrame

LEMMA FrameStep ==
    ASSUME VbInv, InFrame, CmPhase', CmRoom', NEW command \in CameraCommands, NEW event \in SensorEvents,
           CmClock(command, CameraLine \in busGrants, busErrorOut, Busy, event = "frame",
                   event = "line", Written(event)),
           FmClock(Begin, End, Valid, busErrorOut, MemoryAccess), Sensor(event)
    PROVE  InFrame'
<1> DEFINE late == \/ event = "line" /\ cmState # "IDLE"
                   \/ event = "word" /\ cmState # "IDLE" /\ snSent >= cmSelect
                   \/ busErrorOut /\ cmState = "DO_BURST1"
           worst == IF snTrouble[1] = "clean" /\ late THEN "late" ELSE snTrouble[1]
           writes == CmWrites(Busy)
           overlap == snTrouble[1] = "overlap"
<1>1. /\ cmBase \in Int /\ cmAddress \in Int /\ snBase[1] \in Int /\ snLine \in -1 .. SensorLines
      /\ SensorLines \in Nat /\ LineWords \in Nat
  BY CameraAssumption, VideoAssumption DEF InFrame
<1>2. /\ event = "line" => snLine \in 0 .. SensorLines - 1
      /\ snLine' = IF event = "frame" THEN 0 ELSE IF event = "line" THEN snLine + 1 ELSE snLine
      /\ snBase' = IF event = "frame" THEN <<cmBase, snBase[1]>> ELSE snBase
      /\ snTrouble' = IF event # "frame" THEN <<worst, snTrouble[2]>>
                      ELSE IF cmState = "IDLE" THEN <<"clean", worst>> ELSE <<"overlap", "late">>
  BY DEF Sensor, SensorEventPossible
<1>3. /\ snBase'[1] = IF event = "frame" THEN cmBase ELSE snBase[1]
      /\ event # "frame" /\ snTrouble'[1] # "overlap" => ~overlap
      /\ event = "frame" /\ snTrouble'[1] # "overlap" => cmState = "IDLE"
  BY <1>2
<1>4. cmAddress' = IF event = "frame" THEN cmBase ELSE IF writes THEN cmAddress + 1 ELSE cmAddress
  BY DEF CmClock, CmPosition
<1>5. cmBase' \in Int
  <2>1. cmBase' = IF command.name = "base" THEN command.address ELSE cmBase
    BY DEF CmClock, CmControl
  <2>2. command.name = "base" => command.address \in Int
    <3>1. \/ command \in [name : {"none", "start", "stop", "single", "poll"}]
          \/ command \in [name : {"base"}, address : FrameBuffers]
      BY VideoAssumption DEF Commands
    <3>2. CASE command \in [name : {"none", "start", "stop", "single", "poll"}]
      BY <3>2
    <3>3. CASE command \in [name : {"base"}, address : FrameBuffers]
      <4>1. command.address \in FrameBuffers
        BY <3>3
      <4>2. FrameBuffers \subseteq Int
        BY CameraAssumption
      <4> QED BY <4>1, <4>2, Zenon
    <3> QED BY <3>1, <3>2, <3>3
  <2> QED BY <1>1, <2>1, <2>2
<1>6. cmAddress' \in Int /\ snBase'[1] \in Int /\ snLine' \in -1 .. SensorLines
  BY <1>1, <1>2, <1>3, <1>4
<1>7. /\ Owed \in Nat
      /\ Owed' + (IF writes THEN 1 ELSE 0) <= Owed + (IF event = "line" THEN LineWords ELSE 0)
      /\ cmState' # "DO_BURST1" => cmCount' = -1
      /\ cmState = "IDLE" /\ event # "line" => cmState' = "IDLE"
      /\ cmBegin' <=> cmState = "INIT_BURST1"
  BY OwedStep
<1>8. snLine' = -1 => cmState' = "IDLE"
  BY <1>1, <1>2, <1>7 DEF InFrame
<1>9. cmBegin' /\ snTrouble'[1] # "overlap" => cmOut' = cmAddress'
  <2> SUFFICES ASSUME cmState = "INIT_BURST1", snTrouble'[1] # "overlap" PROVE cmOut' = cmAddress'
    BY <1>7
  <2>1. cmOut' = cmAddress /\ event # "frame" /\ ~writes
    BY <1>3 DEF CmClock, CmOutputs, CmWrites
  <2> QED BY <1>4, <2>1
<1>10. ASSUME snTrouble'[1] # "overlap", snLine' >= 0
       PROVE  /\ snBase'[1] <= cmAddress'
              /\ cmAddress' + Owed' <= snBase'[1] + LineWords * snLine'
              /\ cmState' = "DO_BURST1" /\ ~cmBegin' =>
                   /\ snBase'[1] < cmAddress'
                   /\ FmMine' => fmNext' = cmAddress' - (IF fmDone' THEN 0 ELSE 1)
  <2>1. CASE event = "frame"
    <3>1. cmState' = "IDLE" /\ Owed' = 0 /\ snLine' = 0
      BY <1>2, <1>3, <1>7, <1>10, <2>1 DEF Owed
    <3>2. cmAddress' = cmBase /\ snBase'[1] = cmBase
      BY <1>3, <1>4, <2>1
    <3> QED BY <1>1, <3>1, <3>2, Lines
  <2>2. CASE event # "frame"
    <3>1. ~overlap /\ snLine >= 0 /\ snBase'[1] = snBase[1]
      BY <1>1, <1>2, <1>3, <1>10, <2>2
    <3>2. snBase[1] <= cmAddress /\ cmAddress + Owed <= snBase[1] + LineWords * snLine
      BY <3>1 DEF InFrame
    <3>3. snBase'[1] <= cmAddress'
      BY <1>1, <1>4, <2>2, <3>1, <3>2
    <3>4. cmState' = "DO_BURST1" /\ ~cmBegin' =>
            /\ snBase[1] < cmAddress'
            /\ FmMine' => fmNext' = cmAddress' - (IF fmDone' THEN 0 ELSE 1)
      BY <2>2, <3>1, <3>2, StoredStep
    <3>5. cmAddress' + Owed' <= snBase[1] + LineWords * snLine'
      <4>1. PICK more : more = IF event = "line" THEN LineWords ELSE 0
        OBVIOUS
      <4>2. LineWords * snLine \in Int /\ LineWords * snLine' = LineWords * snLine + more
        <5>1. LineWords * snLine \in Int
          BY <1>1, Z3
        <5> QED BY <1>1, <1>2, <2>2, <4>1, <5>1, Lines
      <4>3. PICK owed : owed = Owed'
        OBVIOUS
      <4>4. owed + (IF writes THEN 1 ELSE 0) <= Owed + more /\ owed \in Int
        <5>1. owed \in Int
          BY <4>3 DEF Owed, CmRoom
        <5> QED BY <1>7, <4>1, <4>3, <5>1
      <4>5. cmAddress' = IF writes THEN cmAddress + 1 ELSE cmAddress
        BY <1>4, <2>2
      <4>6. more \in Int
        BY <1>1, <4>1
      <4>7. PICK sent \in Int : sent = LineWords * snLine
        BY <4>2
      <4>8. cmAddress + Owed <= snBase[1] + sent
        BY <3>2, <4>7
      <4> HIDE DEF writes
      <4>9. (IF writes THEN cmAddress + 1 ELSE cmAddress) + owed <= snBase[1] + (sent + more)
        BY <1>1, <1>7, <4>4, <4>6, <4>8
      <4> QED BY <4>2, <4>3, <4>5, <4>7, <4>9, Zenon
    <3> QED BY <3>1, <3>3, <3>4, <3>5
  <2> QED BY <2>1, <2>2
<1> QED BY <1>5, <1>6, <1>7, <1>8, <1>9, <1>10 DEF InFrame

LEMMA NextFrame ==
    ASSUME VbInv, InFrame, VbInv', [VideoNext]_videoVars
    PROVE  InFrame'
<1>1. CASE UNCHANGED videoVars
  <2>1. UNCHANGED <<cmVars, fmVars, snBase, snLine, snTrouble>>
    BY <1>1 DEF videoVars
  <2>2. Owed' = Owed /\ FmMine' = FmMine
    BY <2>1 DEF Owed, FmMine, cmVars, fmVars
  <2> QED BY <2>1, <2>2 DEF InFrame, cmVars, cmControlVars, fmVars
<1>2. ASSUME NEW screenEvent \in ScreenEvents, NEW sensorEvent \in SensorEvents,
             NEW command \in CameraCommands, VideoClock(screenEvent, sensorEvent, command)
      PROVE  InFrame'
  <2>1. CmPhase' /\ CmRoom'
    BY DEF VbInv, Room, CmRoom
  <2> QED BY <1>2, <2>1, FrameStep DEF VideoClock
<1> QED BY <1>1, <1>2 DEF VideoNext

\* A word that the memory stores comes from the camera, and belongs to a line that
\* the sensor has sent.
LEMMA StoresInFrame ==
    ASSUME VbInv, InFrame, Stored, snTrouble[1] # "overlap"
    PROVE  fmNext - snBase[1] \in 0 .. FrameWords - 1
<1>1. FmMine /\ ~fmOp.read /\ ~fmDone /\ Valid
  BY DEF Stored, FmBusy
<1>2. state = "SERVICING" /\ CmActs
  BY <1>1 DEF VbInv, FmPhase
<1>3. cmValid
  BY <1>1, <1>2 DEF Valid, VbInv, Exclusive, CpuActs, CpuData, CpuPhase, FmPhase
<1>4. cmState = "DO_BURST1" /\ ~cmBegin
  BY <1>3 DEF VbInv, CmPhase
<1>5. /\ cmAddress \in Int /\ snBase[1] \in Int /\ snLine \in Int /\ snLine >= 0 /\ snLine <= SensorLines
      /\ cmAddress + Owed <= snBase[1] + LineWords * snLine
      /\ snBase[1] < cmAddress /\ fmNext = cmAddress - 1
  BY <1>1, <1>4, VideoAssumption DEF InFrame
<1>6. Owed \in Nat
  BY <1>4, CameraAssumption DEF Owed, VbInv, Room
<1>7. PICK sent \in Int : sent = LineWords * snLine
  BY <1>5, CameraAssumption, Z3
<1>8. PICK all \in Int : all = FrameWords
  BY CameraAssumption, VideoAssumption, Z3 DEF FrameWords
<1>9. sent <= all
  BY <1>5, <1>7, <1>8, Lines
<1> QED BY <1>5, <1>6, <1>7, <1>8, <1>9

(* The camera writes only into the frame buffer that the program gave it, for *)
(* any lengths of lines and images and any delays, as long as no image begins *)
(* during a transfer: when a line comes before the last one is copied, the    *)
(* count of words is loaded again in the middle of a line, but the master     *)
(* never owes more words than the sensor has sent.                            *)
THEOREM ImageConfined ==
    ASSUME OwnLines
    PROVE  VideoSpec => Confined
<1>1. VideoInit => VbInv /\ InFrame
  BY InitVb, InitFrame
<1>2. VbInv /\ InFrame /\ [VideoNext]_videoVars => VbInv' /\ InFrame'
  BY NextVb, NextFrame
<1>3. VbInv /\ InFrame /\ [VideoNext]_videoVars =>
        [Stored /\ snTrouble[1] # "overlap" => fmNext - snBase[1] \in 0 .. FrameWords - 1]_videoVars
  BY StoresInFrame
<1> QED BY <1>1, <1>2, <1>3, PTL DEF VideoSpec, Confined

-----------------------------------------------------------------------------
(* What the camera stores: each word of an image stays where it belongs    *)
(* on its way from the line buffer over the port of the buffer, which is a *)
(* clock late, and the bus to the memory.                                  *)


\* The frame buffers that the program may give.
Bases == FrameBuffers \cup {0}

\* The words of the present line that the sensor has sent are in the line buffer.
LineBuffer ==
    /\ DOMAIN frame = 0 .. FrameArea - 1 /\ DOMAIN cmLine = 0 .. LinePlaces - 1
    /\ cmBase \in Bases /\ snBase[1] \in Bases /\ snBase[2] \in Bases
    /\ snSent \in 0 .. LineWords
    /\ snLine \notin 0 .. SensorLines - 1 => snSent = 0
    /\ snLine = -1 => snTrouble[1] # "clean"
    /\ \A p \in 0 .. snSent - 1 : cmLine[p] = Pixels(snLine, p)

\* An image that is being copied without trouble, and its burst after the begin.
Copying == (cmRunning \/ cmAction[1]) /\ snTrouble[1] = "clean" /\ snLine >= 0
OnBus   == cmState = "DO_BURST1" /\ ~cmBegin

\* The address up to which the memory has the image.
Complete == IF OnBus /\ ~fmDone THEN cmAddress - 1 ELSE cmAddress

\* Where a word is: in the line buffer, on its way out of it, on the bus, in the memory.
ImageUnderWay ==
    /\ OnBus => FmMine /\ ~fmOp.read
    /\ Copying =>
         /\ cmAddress + Owed = snBase[1] + LineWords * snLine /\ Owed <= LineWords
         /\ cmState # "IDLE" /\ Owed > 0 => cmSelect = LineWords - Owed
         /\ cmState # "IDLE" =>
              \A p \in LineWords - Owed .. LineWords - 1 : cmLine[p] = Pixels(snLine - 1, p)
         /\ cmState = "INIT_BURST1" \/ (cmState = "DO_BURST1" /\ (cmBegin \/ fmDone) /\ cmCount >= 0)
              => cmShown = cmAddress - snBase[1]
         /\ OnBus => cmOut = cmAddress - snBase[1] - 1
         /\ \A a \in snBase[1] .. Complete - 1 : frame[a] = "new"

CameraClock(command, event) ==
    /\ CmClock(command, CameraLine \in busGrants, busErrorOut, Busy, event = "frame",
               event = "line", Written(event))
    /\ FmClock(Begin, End, Valid, busErrorOut, MemoryAccess)
    /\ Sensor(event) /\ Memory(event)

LEMMA SizesOfImages ==
    /\ LineWords \in Nat \ {0} /\ LinePlaces \in Nat /\ LineWords <= LinePlaces
    /\ CameraBurst \in Nat \ {0} /\ SensorLines \in Nat /\ FrameArea \in Nat
    /\ Bases \subseteq Nat
    /\ FrameWords \in Nat
    /\ \A b \in Bases : b + FrameWords <= FrameArea
<1>1. FrameWords \in Nat
  BY CameraAssumption, VideoAssumption, Z3 DEF FrameWords
<1>2. Bases \subseteq Nat
  BY CameraAssumption DEF Bases
<1> QED BY <1>1, <1>2, CameraAssumption, VideoAssumption DEF Bases, FrameWords

\* What the sensor does in a clock.
LEMMA SensorStep ==
    ASSUME NEW event \in SensorEvents, Sensor(event), LineBuffer
    PROVE  /\ event = "line" => snLine \in 0 .. SensorLines - 1 /\ snSent = LineWords
           /\ event = "word" => snLine \in 0 .. SensorLines - 1 /\ snSent < LineWords
           /\ event = "frame" => snLine \in {-1, SensorLines} /\ snSent = 0
           /\ snLine' = IF event = "frame" THEN 0 ELSE IF event = "line" THEN snLine + 1 ELSE snLine
           /\ snSent' = IF event = "word" THEN snSent + 1 ELSE IF event = "line" THEN 0 ELSE snSent
           /\ snBase'[1] = IF event = "frame" THEN cmBase ELSE snBase[1]
           /\ event = "frame" => snBase'[2] = snBase[1]
           /\ event # "frame" => snBase'[2] = snBase[2] /\ snTrouble'[2] = snTrouble[2]
           /\ event # "frame" /\ snTrouble'[1] = "clean" =>
                /\ snTrouble[1] = "clean"
                /\ event = "line" => cmState = "IDLE"
                /\ event = "word" => cmState = "IDLE" \/ ~(snSent >= cmSelect)
           /\ event = "frame" /\ snTrouble'[1] = "clean" => cmState = "IDLE"
           /\ event = "frame" /\ snTrouble'[2] = "clean" => cmState = "IDLE" /\ snTrouble[1] = "clean"
<1> DEFINE late == \/ event = "line" /\ cmState # "IDLE"
                   \/ event = "word" /\ cmState # "IDLE" /\ snSent >= cmSelect
                   \/ busErrorOut /\ cmState = "DO_BURST1"
           worst == IF snTrouble[1] = "clean" /\ late THEN "late" ELSE snTrouble[1]
<1>1. /\ SensorEventPossible(event)
      /\ snLine' = IF event = "frame" THEN 0 ELSE IF event = "line" THEN snLine + 1 ELSE snLine
      /\ snSent' = IF event = "word" THEN snSent + 1 ELSE IF event = "line" THEN 0 ELSE snSent
      /\ snBase' = IF event = "frame" THEN <<cmBase, snBase[1]>> ELSE snBase
      /\ snTrouble' = IF event # "frame" THEN <<worst, snTrouble[2]>>
                      ELSE IF cmState = "IDLE" THEN <<"clean", worst>> ELSE <<"overlap", "late">>
  BY DEF Sensor
<1>2. /\ event = "line" => snLine \in 0 .. SensorLines - 1 /\ snSent = LineWords
      /\ event = "word" => snLine \in 0 .. SensorLines - 1 /\ snSent < LineWords
      /\ event = "frame" => snLine \in {-1, SensorLines}
  BY <1>1 DEF SensorEventPossible
<1>3. event = "frame" => snSent = 0
  BY <1>2, VideoAssumption DEF LineBuffer
<1>4. worst = "clean" => snTrouble[1] = "clean" /\ ~late
  OBVIOUS
<1>5. event # "frame" => snTrouble'[1] = worst /\ snTrouble'[2] = snTrouble[2]
  BY <1>1
<1>6. event = "frame" /\ cmState = "IDLE" => snTrouble'[1] = "clean" /\ snTrouble'[2] = worst
  BY <1>1
<1>7. event = "frame" /\ cmState # "IDLE" => snTrouble'[1] = "overlap" /\ snTrouble'[2] = "late"
  BY <1>1
<1>8. snSent \in Int
  BY CameraAssumption DEF LineBuffer
<1>9. event # "frame" /\ snTrouble'[1] = "clean" =>
         /\ snTrouble[1] = "clean"
         /\ event = "line" => cmState = "IDLE"
         /\ event = "word" => cmState = "IDLE" \/ ~(snSent >= cmSelect)
  BY <1>4, <1>5
<1>10. snBase'[1] = (IF event = "frame" THEN cmBase ELSE snBase[1])
       /\ (event = "frame" => snBase'[2] = snBase[1]) /\ (event # "frame" => snBase'[2] = snBase[2])
  BY <1>1
<1>11. event = "frame" /\ snTrouble'[1] = "clean" => cmState = "IDLE"
  BY <1>7
<1>12. event = "frame" /\ snTrouble'[2] = "clean" => cmState = "IDLE" /\ snTrouble[1] = "clean"
  BY <1>4, <1>6, <1>7
<1> QED BY <1>1, <1>2, <1>3, <1>5, <1>9, <1>10, <1>11, <1>12

\* The line buffer takes the words of the line.
LEMMA LineBufferStep ==
    ASSUME NEW event \in SensorEvents, NEW command \in CameraCommands, LineBuffer,
           CameraClock(command, event)
    PROVE  LineBuffer'
<1>1. /\ Sensor(event) /\ Memory(event)
      /\ cmBase' = IF command.name = "base" THEN command.address ELSE cmBase
      /\ cmLine' = IF Written(event).place \in DOMAIN cmLine
                   THEN [cmLine EXCEPT ![Written(event).place] = Written(event).pixels] ELSE cmLine
  BY DEF CameraClock, CmClock, CmControl, CmLineBuffer
<1>2. DOMAIN frame' = 0 .. FrameArea - 1
  BY <1>1 DEF Memory, LineBuffer
<1>3. DOMAIN cmLine' = 0 .. LinePlaces - 1
  BY <1>1 DEF LineBuffer
<1>4. cmBase' \in Bases
  <2>1. command.name = "base" => command.address \in FrameBuffers
    <3>1. \/ command \in [name : {"none", "start", "stop", "single", "poll"}]
          \/ command \in [name : {"base"}, address : FrameBuffers]
      BY VideoAssumption DEF Commands
    <3> QED BY <3>1
  <2> QED BY <1>1, <2>1 DEF LineBuffer, Bases
<1>5. /\ event = "line" => snLine \in 0 .. SensorLines - 1 /\ snSent = LineWords
      /\ event = "word" => snLine \in 0 .. SensorLines - 1 /\ snSent < LineWords
      /\ event = "frame" => snLine \in {-1, SensorLines} /\ snSent = 0
      /\ snLine' = IF event = "frame" THEN 0 ELSE IF event = "line" THEN snLine + 1 ELSE snLine
      /\ snSent' = IF event = "word" THEN snSent + 1 ELSE IF event = "line" THEN 0 ELSE snSent
      /\ snBase'[1] = IF event = "frame" THEN cmBase ELSE snBase[1]
      /\ snBase'[2] = IF event = "frame" THEN snBase[1] ELSE snBase[2]
      /\ event # "frame" /\ snTrouble'[1] = "clean" => snTrouble[1] = "clean"
  BY <1>1, SensorStep
<1>6. LineWords \in Nat \ {0} /\ SensorLines \in Nat /\ LinePlaces \in Nat /\ LineWords <= LinePlaces
  BY SizesOfImages
<1>7. /\ snSent \in 0 .. LineWords
      /\ snLine \notin 0 .. SensorLines - 1 => snSent = 0
      /\ snLine = -1 => snTrouble[1] # "clean"
      /\ \A p \in 0 .. snSent - 1 : cmLine[p] = Pixels(snLine, p)
      /\ DOMAIN cmLine = 0 .. LinePlaces - 1
      /\ snBase[1] \in Bases /\ snBase[2] \in Bases /\ cmBase \in Bases
  BY DEF LineBuffer
<1>8. snBase'[1] \in Bases /\ snBase'[2] \in Bases /\ snSent' \in 0 .. LineWords
  BY <1>5, <1>6, <1>7
<1>9. snLine' \notin 0 .. SensorLines - 1 => snSent' = 0
  BY <1>5, <1>6, <1>7
<1>10. snLine' = -1 => snTrouble'[1] # "clean"
  BY <1>5, <1>6, <1>7
<1>11. \A p \in 0 .. snSent' - 1 : cmLine'[p] = Pixels(snLine', p)
  <2>1. CASE event = "word"
    <3>1. Written(event).place = snSent /\ Written(event).pixels = Pixels(snLine, snSent)
      BY <2>1 DEF Written
    <3>2. snSent \in DOMAIN cmLine /\ snSent' = snSent + 1 /\ snLine' = snLine
      BY <1>5, <1>6, <1>7, <2>1
    <3>3. cmLine' = [cmLine EXCEPT ![snSent] = Pixels(snLine, snSent)]
      BY <1>1, <3>1, <3>2
    <3>4. ASSUME NEW p \in 0 .. snSent PROVE cmLine'[p] = Pixels(snLine, p)
      <4>1. p \in DOMAIN cmLine
        BY <1>6, <1>7, <3>2, <3>4
      <4>2. CASE p = snSent
        BY <3>3, <4>1, <4>2
      <4>3. CASE p # snSent
        <5>1. p \in 0 .. snSent - 1
          BY <1>7, <3>4, <4>3
        <5> QED BY <1>7, <3>3, <4>1, <4>3, <5>1
      <4> QED BY <4>2, <4>3
    <3>5. 0 .. snSent' - 1 = 0 .. snSent
      BY <1>7, <3>2
    <3> QED BY <3>2, <3>4, <3>5 DEF Pixels
  <2>2. CASE event \in {"line", "frame"}
    <3>1. snSent' = 0
      BY <1>5, <2>2
    <3> QED BY <3>1
  <2>3. CASE event \notin {"word", "line", "frame"}
    <3>1. Written(event).place \notin DOMAIN cmLine
      BY <1>6, <1>7, <2>3 DEF Written, NoPixels
    <3>2. cmLine' = cmLine /\ snSent' = snSent /\ snLine' = snLine
      BY <1>1, <1>5, <2>3, <3>1
    <3> QED BY <1>7, <3>2 DEF Pixels
  <2> QED BY <2>1, <2>2, <2>3
<1> QED BY <1>2, <1>3, <1>4, <1>8, <1>9, <1>10, <1>11 DEF LineBuffer

\* A grabber that is on after a clock without a new image was on before it.
LEMMA GrabberStep ==
    ASSUME NEW command, NEW newScreen \in BOOLEAN, CmControl(command, newScreen), ~newScreen,
           cmRunning' \/ cmAction'[1]
    PROVE  cmRunning \/ cmAction[1]
<1>1. cmRunning' = cmRunning
  BY DEF CmControl
<1>2. cmAction' = IF cmAction[2] THEN <<FALSE, FALSE>> ELSE cmAction
  BY DEF CmControl
<1>3. cmAction'[1] => cmAction[1]
  BY <1>2
<1> QED BY <1>1, <1>3

LEMMA CopyingStep ==
    ASSUME NEW event \in SensorEvents, NEW command \in CameraCommands, LineBuffer,
           CameraClock(command, event), event # "frame", Copying'
    PROVE  Copying
<1>1. cmRunning \/ cmAction[1]
  BY GrabberStep DEF CameraClock, CmClock, Copying
<1>2. snTrouble[1] = "clean" /\ (snLine' = IF event = "line" THEN snLine + 1 ELSE snLine)
      /\ (event = "line" => snLine \in 0 .. SensorLines - 1) /\ snLine' >= 0
  BY SensorStep DEF CameraClock, Copying
<1>3. snLine >= 0
  BY <1>2, VideoAssumption
<1> QED BY <1>1, <1>2, <1>3 DEF Copying

\* What the machine of the camera does in a clock of the bus; it meets no error.
LEMMA CameraStep ==
    ASSUME VbInv, InFrame, NEW event \in SensorEvents, NEW command \in CameraCommands,
           CameraClock(command, event)
    PROVE  /\ cmState = "IDLE" =>
                cmState' = IF (cmRunning \/ cmAction[1]) /\ event = "line" THEN "REQUEST_BUS1" ELSE "IDLE"
           /\ cmState = "REQUEST_BUS1" => cmState' \in {"REQUEST_BUS1", "INIT_BURST1"}
           /\ cmState = "INIT_BURST1" => cmState' = "DO_BURST1"
           /\ cmState = "DO_BURST1" =>
                cmState' = IF BurstOver /\ ~Busy THEN "END_TRANS1" ELSE "DO_BURST1"
           /\ cmState = "END_TRANS1" => cmState' = IF cmLeft # 0 THEN "REQUEST_BUS1" ELSE "IDLE"
           /\ cmState \in {"IDLE", "REQUEST_BUS1", "INIT_BURST1", "DO_BURST1", "END_TRANS1"}
           /\ cmBegin' <=> cmState = "INIT_BURST1"
<1>1. \/ CmIdle(event = "line") \/ CmRequestBus(CameraLine \in busGrants) \/ CmInitBurst
      \/ CmDoBurst(busErrorOut, Busy) \/ CmEndBurst
  BY DEF CameraClock, CmClock
<1>2. cmState = "DO_BURST1" => ~busErrorOut
  BY DEF VbInv, CmPhase, ArbiterOutputs
<1>3. cmState \in {"IDLE", "REQUEST_BUS1", "INIT_BURST1", "DO_BURST1", "END_TRANS1"}
  BY DEF VbInv, VideoTyped, CmStates, CmPhase
<1>4. cmBegin' <=> cmState = "INIT_BURST1"
  BY Zenon DEF CameraClock, CmClock, CmOutputs
<1> QED BY <1>1, <1>2, <1>3, <1>4 DEF CmIdle, CmRequestBus, CmInitBurst, CmDoBurst, CmEndBurst

\* No word is lost or counted twice, unless a line comes during the copy of the last one.
LEMMA OwedExactly ==
    ASSUME VbInv, InFrame, CmRoom', NEW event \in SensorEvents, NEW command \in CameraCommands,
           CameraClock(command, event), cmRunning \/ cmAction[1], event = "line" => cmState = "IDLE"
    PROVE  /\ Owed \in 0 .. LineWords + CameraBurst /\ Owed' \in 0 .. LineWords + CameraBurst
           /\ CmWrites(Busy) => Owed > 0 /\ event # "line"
           /\ Owed' = IF event = "line" THEN LineWords ELSE IF CmWrites(Busy) THEN Owed - 1 ELSE Owed
<1>1. /\ cmLeft \in 0 .. LineWords /\ cmCount \in -1 .. CameraBurst - 1
      /\ LineWords \in Nat \ {0} /\ CameraBurst \in Nat \ {0}
      /\ cmState # "DO_BURST1" => cmCount = -1
  BY CameraAssumption DEF VbInv, Room, InFrame
<1>2. PICK left \in 0 .. LineWords : left = cmLeft'
  BY DEF CmRoom
<1>3. PICK count \in -1 .. CameraBurst - 1 : count = cmCount'
  BY DEF CmRoom
<1>4. PICK writes \in BOOLEAN : writes <=> CmWrites(Busy)
  BY DEF CmWrites
<1>5. /\ left = IF event = "line" THEN LineWords
                ELSE IF cmState = "INIT_BURST1" THEN cmLeft - NextBurst ELSE cmLeft
      /\ count = IF cmState = "INIT_BURST1" THEN NextBurst - 1
                 ELSE IF writes THEN cmCount - 1 ELSE cmCount
  BY <1>2, <1>3, <1>4 DEF CameraClock, CmClock, CmPosition
<1>6. cmState = "INIT_BURST1" => NextBurst \in 1 .. CameraBurst /\ NextBurst <= cmLeft /\ ~writes
  BY <1>1, <1>4 DEF NextBurst, CmPhase, VbInv, CmWrites
<1>7. writes => cmState = "DO_BURST1" /\ cmCount >= 0
  BY <1>1, <1>4 DEF CmWrites, BurstOver
<1>8. Owed' = IF cmState' = "IDLE" THEN 0 ELSE left + count + 1
  <2>1. Owed' = IF cmState' = "IDLE" THEN 0 ELSE cmLeft' + cmCount' + 1
    BY DEF Owed
  <2> QED BY <1>2, <1>3, <2>1
<1>9. Owed = IF cmState = "IDLE" THEN 0 ELSE cmLeft + cmCount + 1
  BY DEF Owed
<1>10. /\ cmState = "IDLE" => cmState' = IF event = "line" THEN "REQUEST_BUS1" ELSE "IDLE"
       /\ cmState = "END_TRANS1" => cmState' = IF cmLeft # 0 THEN "REQUEST_BUS1" ELSE "IDLE"
       /\ cmState \in {"REQUEST_BUS1", "INIT_BURST1", "DO_BURST1"} => cmState' # "IDLE"
       /\ cmState \in {"IDLE", "REQUEST_BUS1", "INIT_BURST1", "DO_BURST1", "END_TRANS1"}
  <2>1. /\ cmState = "IDLE" =>
             cmState' = IF (cmRunning \/ cmAction[1]) /\ event = "line" THEN "REQUEST_BUS1" ELSE "IDLE"
        /\ cmState = "REQUEST_BUS1" => cmState' \in {"REQUEST_BUS1", "INIT_BURST1"}
        /\ cmState = "INIT_BURST1" => cmState' = "DO_BURST1"
        /\ cmState = "DO_BURST1" => cmState' = IF BurstOver /\ ~Busy THEN "END_TRANS1" ELSE "DO_BURST1"
        /\ cmState = "END_TRANS1" => cmState' = IF cmLeft # 0 THEN "REQUEST_BUS1" ELSE "IDLE"
        /\ cmState \in {"IDLE", "REQUEST_BUS1", "INIT_BURST1", "DO_BURST1", "END_TRANS1"}
    BY CameraStep
  <2> QED BY <2>1
<1>11. CASE cmState = "IDLE"
  BY <1>1, <1>4, <1>5, <1>7, <1>8, <1>9, <1>10, <1>11
<1>12. CASE cmState = "END_TRANS1"
  BY <1>1, <1>4, <1>5, <1>7, <1>8, <1>9, <1>10, <1>12
<1>13. CASE cmState \in {"REQUEST_BUS1", "DO_BURST1"}
  <2>1. left = cmLeft /\ count = (IF writes THEN cmCount - 1 ELSE cmCount) /\ event # "line"
    BY <1>5, <1>13
  <2>2. Owed = cmLeft + cmCount + 1 /\ Owed' = left + count + 1
    BY <1>8, <1>9, <1>10, <1>13
  <2> QED BY <1>1, <1>4, <1>7, <2>1, <2>2
<1>14. CASE cmState = "INIT_BURST1"
  <2>1. PICK next \in 1 .. CameraBurst : next = NextBurst /\ next <= cmLeft /\ ~writes
    BY <1>6, <1>14
  <2>2. left = cmLeft - next /\ count = next - 1 /\ event # "line" /\ cmCount = -1
    BY <1>1, <1>5, <1>14, <2>1
  <2>3. Owed = cmLeft + cmCount + 1 /\ Owed' = left + count + 1
    BY <1>8, <1>9, <1>10, <1>14
  <2> QED BY <1>1, <1>4, <2>1, <2>2, <2>3
<1> QED BY <1>10, <1>11, <1>12, <1>13, <1>14

\* A burst that has begun is the memory's, and each word waits until it is stored.
LEMMA BurstOnBus ==
    ASSUME VbInv, ImageUnderWay, OnBus, NEW command, NEW event, CameraClock(command, event)
    PROVE  /\ ~Begin /\ ~End /\ FmMine /\ ~fmOp.read /\ (Busy <=> ~fmDone)
           /\ Word = cmOut
           /\ fmDone' => Busy
           /\ Stored <=> ~fmDone /\ fmDone'
<1>1. /\ CmPhase /\ FmPhase /\ Exclusive /\ VideoTyped /\ ArbiterOutputs /\ CpuPhase
  BY DEF VbInv
<1>2. state = "SERVICING" /\ cmValid /\ ~Begin /\ Valid /\ ~busErrorOut
  BY <1>1, BeginsAlone DEF CmPhase, Valid, ArbiterOutputs, OnBus
<1>3. FmMine /\ ~fmOp.read
  BY DEF ImageUnderWay
<1>4. ~GrActs /\ ~CpuActs
  BY <1>1 DEF Exclusive, CmActs, OnBus
<1>5. ~fmEnd /\ ~fmValid
  BY <1>1, <1>2, <1>3, <1>4 DEF FmPhase, GrActs, Reading
<1>6. ~End
  BY <1>1, <1>2, <1>4, <1>5 DEF End, CpuEnd, CpuActs, CpuPhase, CmPhase, ArbiterOutputs, OnBus
<1>7. Busy <=> ~fmDone
  BY <1>2, <1>3 DEF Busy, FmBusy
<1>8. Word = cmOut
  <2>1. ~CpuData
    BY <1>4 DEF CpuData, CpuActs
  <2> QED BY <1>2, <1>5, <2>1 DEF Word
<1>9. FmWrites(Valid, busErrorOut)
  BY <1>2, <1>3, <1>5 DEF CameraClock, FmClock, FmReads, FmRests
<1>10. fmDone' => Busy
  BY <1>9 DEF FmWrites, FmPauses, Busy
<1>11. Stored <=> ~fmDone /\ fmDone'
  BY <1>7 DEF Stored, Busy
<1> QED BY <1>2, <1>3, <1>6, <1>7, <1>8, <1>10, <1>11

LEMMA BurstBegins ==
    ASSUME VbInv, cmBegin, NEW command, NEW event, CameraClock(command, event)
    PROVE  /\ Begin /\ ~End /\ ~Busy /\ CmWrites(Busy)
           /\ fmDone' = FALSE /\ FmMine' /\ ~fmOp'.read
<1>1. /\ CmPhase /\ FmPhase /\ Exclusive /\ VideoTyped /\ GrPhase
      /\ cmCount \in -1 .. CameraBurst - 1 /\ CameraBurst \in Nat
  BY CameraAssumption DEF VbInv, Room
<1>2. cmState = "DO_BURST1" /\ state = "WAIT_BEGIN" /\ cmCount >= 0 /\ Begin
  BY <1>1 DEF CmPhase, Begin
<1>3. ~End /\ ~FmMine /\ ~Busy
  BY <1>2, BeginsAlone DEF Busy, FmBusy
<1>4. CmWrites(Busy)
  BY <1>1, <1>2, <1>3 DEF CmWrites, BurstOver
<1>5. ~grBegin
  BY <1>1, <1>2 DEF Exclusive, GrActs, CmActs, GrPhase
<1>6. MemoryAccess = [mine |-> TRUE, read |-> FALSE, address |-> cmOut, words |-> cmWords]
  BY <1>5 DEF MemoryAccess
<1>7. fmActive' /\ fmOp' = MemoryAccess
  BY <1>2, <1>3, Zenon DEF CameraClock, FmClock, FmTransaction
<1>8. FmMine' /\ ~fmOp'.read
  BY <1>6, <1>7 DEF FmMine
<1>9. fmDone' = FALSE
  BY <1>3 DEF CameraClock, FmClock, FmReads, FmWrites, FmRests
<1> QED BY <1>2, <1>3, <1>4, <1>8, <1>9

LEMMA StoredOnBus ==
    ASSUME VbInv, Stored
    PROVE  OnBus
<1>1. FmMine /\ ~fmOp.read /\ ~fmDone /\ Valid
  BY DEF Stored, FmBusy
<1>2. state = "SERVICING" /\ CmActs
  BY <1>1 DEF VbInv, FmPhase
<1>3. cmValid
  BY <1>1, <1>2 DEF Valid, VbInv, Exclusive, CpuActs, CpuData, CpuPhase, FmPhase
<1> QED BY <1>3 DEF VbInv, CmPhase, OnBus

LEMMA MineStep ==
    ASSUME VbInv, InFrame, ImageUnderWay, NEW event \in SensorEvents, NEW command \in CameraCommands,
           CameraClock(command, event), OnBus'
    PROVE  FmMine' /\ ~fmOp'.read /\ cmState = "DO_BURST1" /\ (BurstOver => Busy)
<1>1. cmState' = "DO_BURST1" /\ ~cmBegin'
  BY DEF OnBus
<1>2. cmState = "DO_BURST1" /\ (BurstOver => Busy)
  BY <1>1, CameraStep
<1>3. CASE cmBegin
  BY <1>2, <1>3, BurstBegins
<1>4. CASE ~cmBegin
  <2>1. OnBus
    BY <1>2, <1>4 DEF OnBus
  <2>2. ~Begin /\ ~End /\ FmMine /\ ~fmOp.read
    BY <2>1, BurstOnBus
  <2>3. fmActive' /\ fmOp' = fmOp
    BY <2>2, Zenon DEF CameraClock, FmClock, FmTransaction, FmMine
  <2> QED BY <1>2, <2>2, <2>3 DEF FmMine
<1> QED BY <1>3, <1>4

\* The words of an image and where they are, from one clock to the next.
LEMMA CopyStep ==
    ASSUME VbInv, InFrame, LineBuffer, ImageUnderWay, CmRoom', NEW event \in SensorEvents, NEW command \in CameraCommands,
           CameraClock(command, event), event # "frame", Copying'
    PROVE  /\ Copying
           /\ (cmAddress + Owed = snBase[1] + LineWords * snLine)' /\ Owed' <= LineWords
           /\ cmState' # "IDLE" /\ Owed' > 0 => cmSelect' = LineWords - Owed'
           /\ cmState' # "IDLE" =>
                \A p \in LineWords - Owed' .. LineWords - 1 : cmLine'[p] = Pixels(snLine' - 1, p)
<1>1. Copying /\ (cmRunning \/ cmAction[1])
  BY CopyingStep DEF Copying
<1>2. /\ snTrouble[1] = "clean" /\ snLine' >= 0
      /\ event = "line" => snLine \in 0 .. SensorLines - 1 /\ snSent = LineWords /\ cmState = "IDLE"
      /\ event = "word" => snSent < LineWords /\ (cmState = "IDLE" \/ ~(snSent >= cmSelect))
      /\ snLine' = IF event = "line" THEN snLine + 1 ELSE snLine
      /\ snBase'[1] = snBase[1]
  BY SensorStep DEF CameraClock, Copying
<1>3. /\ LineWords \in Nat \ {0} /\ LinePlaces \in Nat /\ LineWords <= LinePlaces
      /\ CameraBurst \in Nat \ {0} /\ SensorLines \in Nat
  BY SizesOfImages
<1>4. /\ cmAddress \in Int /\ snBase[1] \in Int /\ snLine \in Int
      /\ snSent \in 0 .. LineWords /\ DOMAIN cmLine = 0 .. LinePlaces - 1
  BY <1>3 DEF InFrame, LineBuffer
<1>5. /\ Owed \in 0 .. LineWords + CameraBurst /\ Owed' \in 0 .. LineWords + CameraBurst
      /\ CmWrites(Busy) => Owed > 0 /\ event # "line"
      /\ Owed' = IF event = "line" THEN LineWords ELSE IF CmWrites(Busy) THEN Owed - 1 ELSE Owed
  BY <1>1, <1>2, OwedExactly
<1>6. PICK writes \in BOOLEAN : writes <=> CmWrites(Busy)
  BY DEF CmWrites
<1>7. PICK owed \in 0 .. LineWords + CameraBurst : owed = Owed
  BY <1>5
<1>8. PICK next \in 0 .. LineWords + CameraBurst : next = Owed'
  BY <1>5
<1>9. /\ writes => owed > 0 /\ event # "line"
      /\ next = IF event = "line" THEN LineWords ELSE IF writes THEN owed - 1 ELSE owed
  BY <1>5, <1>6, <1>7, <1>8
<1>10. /\ cmAddress + owed = snBase[1] + LineWords * snLine /\ owed <= LineWords
       /\ cmState # "IDLE" /\ owed > 0 => cmSelect = LineWords - owed
       /\ cmState # "IDLE" =>
              \A p \in LineWords - owed .. LineWords - 1 : cmLine[p] = Pixels(snLine - 1, p)
  BY <1>1, <1>7 DEF ImageUnderWay
<1>11. /\ cmAddress' = IF writes THEN cmAddress + 1 ELSE cmAddress
       /\ cmSelect' = IF cmState = "IDLE" THEN 0
                   ELSE IF writes THEN (cmSelect + 1) % LinePlaces ELSE cmSelect
       /\ cmLine' = IF Written(event).place \in DOMAIN cmLine
                    THEN [cmLine EXCEPT ![Written(event).place] = Written(event).pixels] ELSE cmLine
  BY <1>6 DEF CameraClock, CmClock, CmPosition, CmLineBuffer
<1>12. /\ cmState = "IDLE" /\ cmState' # "IDLE" => event = "line"
       /\ writes => cmState # "IDLE"
       /\ event = "line" => owed = 0
  BY <1>2, <1>6, <1>7, CameraStep DEF CmWrites, Owed
<1>13. PICK sent \in Int : sent = LineWords * snLine
  BY <1>3, <1>4, Z3
<1>14. LineWords * snLine' = IF event = "line" THEN sent + LineWords ELSE sent
  <2>1. event = "line" => LineWords * (snLine + 1) = LineWords * snLine + LineWords
    BY <1>4, Lines
  <2> QED BY <1>2, <1>13, <2>1
<1>15. (cmAddress + Owed = snBase[1] + LineWords * snLine)'
  <2>1. (IF writes THEN cmAddress + 1 ELSE cmAddress) + next
          = snBase[1] + (IF event = "line" THEN sent + LineWords ELSE sent)
    BY <1>3, <1>4, <1>9, <1>10, <1>12, <1>13
  <2> QED BY <1>2, <1>8, <1>11, <1>14, <2>1, Zenon
<1>16. next <= LineWords
  BY <1>3, <1>9, <1>10
<1>17. ASSUME cmState' # "IDLE", next > 0 PROVE cmSelect' = LineWords - next
  <2>1. CASE cmState = "IDLE"
    BY <1>3, <1>9, <1>11, <1>12, <1>17, <2>1
  <2>2. CASE cmState # "IDLE" /\ ~writes
    BY <1>2, <1>9, <1>10, <1>11, <1>17, <2>2
  <2>3. CASE cmState # "IDLE" /\ writes
    <3>1. next = owed - 1 /\ cmSelect = LineWords - owed
      BY <1>2, <1>9, <1>10, <1>17, <2>3
    <3>2. cmSelect + 1 = LineWords - next /\ LineWords - next \in 0 .. LinePlaces - 1
      BY <1>3, <1>10, <1>17, <3>1
    <3>3. \A x \in 0 .. LinePlaces - 1 : x % LinePlaces = x
      BY <1>3, Remainder
    <3> QED BY <1>11, <2>3, <3>2, <3>3
  <2> QED BY <2>1, <2>2, <2>3
<1>18. ASSUME cmState' # "IDLE", NEW p \in LineWords - next .. LineWords - 1
       PROVE  cmLine'[p] = Pixels(snLine' - 1, p)
  <2>1. CASE event = "line"
    <3>1. Written(event).place \notin DOMAIN cmLine
      BY <1>4, <2>1 DEF Written, NoPixels
    <3>2. p \in 0 .. snSent - 1
      BY <1>2, <1>3, <1>9, <1>18, <2>1
    <3>3. cmLine'[p] = Pixels(snLine, p)
      BY <1>11, <3>1, <3>2 DEF LineBuffer
    <3>4. snLine' - 1 = snLine
      BY <1>2, <1>4, <2>1
    <3> QED BY <3>3, <3>4
  <2>2. CASE event # "line"
    <3>1. cmState # "IDLE" /\ next <= owed /\ snLine' = snLine
      BY <1>2, <1>9, <1>12, <1>18, <2>2
    <3>2. p \in LineWords - owed .. LineWords - 1 /\ owed > 0
      BY <1>3, <1>18, <3>1
    <3>3. cmLine[p] = Pixels(snLine - 1, p)
      BY <1>10, <3>1, <3>2
    <3>4. cmLine'[p] = cmLine[p]
      <4>1. CASE event = "word"
        <5>1. Written(event).place = snSent /\ p # snSent
          BY <1>2, <1>4, <1>10, <3>1, <3>2, <4>1 DEF Written
        <5>2. p \in DOMAIN cmLine
          BY <1>3, <1>4, <1>10, <3>2
        <5> QED BY <1>11, <5>1, <5>2
      <4>2. CASE event # "word"
        <5>1. Written(event).place \notin DOMAIN cmLine
          BY <1>4, <4>2 DEF Written, NoPixels
        <5> QED BY <1>11, <5>1
      <4> QED BY <4>1, <4>2
    <3> QED BY <3>1, <3>3, <3>4
  <2> QED BY <2>1, <2>2
<1> QED BY <1>1, <1>8, <1>15, <1>16, <1>17, <1>18

\* The word that the line buffer shows is the next one of the image, unless one has just left.
LEMMA ShownStep ==
    ASSUME VbInv, InFrame, LineBuffer, ImageUnderWay, CmRoom', NEW event \in SensorEvents, NEW command \in CameraCommands,
           CameraClock(command, event), event # "frame", Copying'
    PROVE  /\ cmState' = "INIT_BURST1" \/ (cmState' = "DO_BURST1" /\ (cmBegin' \/ fmDone') /\ cmCount' >= 0)
                => cmShown' = cmAddress' - snBase'[1]
           /\ OnBus' => cmOut' = cmAddress' - snBase'[1] - 1
<1>1. Copying /\ (cmRunning \/ cmAction[1])
  BY CopyingStep DEF Copying
<1>2. snBase'[1] = snBase[1] /\ (event = "line" => cmState = "IDLE")
  BY SensorStep DEF CameraClock, Copying
<1>3. /\ LineWords \in Nat \ {0} /\ LinePlaces \in Nat /\ LineWords <= LinePlaces
      /\ CameraBurst \in Nat \ {0} /\ SensorLines \in Nat
  BY SizesOfImages
<1>4. /\ cmAddress \in Int /\ snBase[1] \in Int /\ snLine \in Int
      /\ cmLeft \in 0 .. LineWords /\ cmCount \in -1 .. CameraBurst - 1
      /\ cmState # "DO_BURST1" => cmCount = -1
      /\ CmPhase
  BY <1>3 DEF InFrame, VbInv, Room
<1>5. PICK owed \in 0 .. LineWords + CameraBurst : owed = Owed
  BY <1>1, <1>2, OwedExactly
<1>6. /\ cmAddress + owed = snBase[1] + LineWords * snLine /\ owed <= LineWords
      /\ cmState # "IDLE" /\ owed > 0 => cmSelect = LineWords - owed
      /\ cmState # "IDLE" =>
             \A p \in LineWords - owed .. LineWords - 1 : cmLine[p] = Pixels(snLine - 1, p)
      /\ (cmState = "DO_BURST1" /\ (cmBegin \/ fmDone) /\ cmCount >= 0)
           => cmShown = cmAddress - snBase[1]
      /\ OnBus => cmOut = cmAddress - snBase[1] - 1
  BY <1>1, <1>5 DEF ImageUnderWay
<1>7. /\ cmAddress' = IF CmWrites(Busy) THEN cmAddress + 1 ELSE cmAddress
      /\ cmShown' = cmLine[cmSelect]
      /\ cmOut' = IF cmState = "INIT_BURST1" THEN cmAddress
                  ELSE IF CmWrites(Busy) THEN cmShown
                  ELSE IF Busy THEN cmOut ELSE NoPixels
      /\ cmCount' = IF cmState = "INIT_BURST1" THEN NextBurst - 1
                    ELSE IF CmWrites(Busy) THEN cmCount - 1 ELSE cmCount
  BY DEF CameraClock, CmClock, CmPosition, CmLineBuffer, CmOutputs
<1>8. ASSUME cmState \in {"REQUEST_BUS1", "INIT_BURST1", "DO_BURST1"}, owed > 0
      PROVE  cmLine[cmSelect] = cmAddress - snBase[1]
  <2>1. cmSelect = LineWords - owed /\ cmSelect \in LineWords - owed .. LineWords - 1
    BY <1>3, <1>6, <1>8
  <2>2. cmLine[cmSelect] = Pixels(snLine - 1, cmSelect)
    BY <1>6, <1>8, <2>1
  <2>3. LineWords * snLine = LineWords * (snLine - 1) + LineWords
    <3>1. LineWords * ((snLine - 1) + 1) = LineWords * (snLine - 1) + LineWords /\ (snLine - 1) + 1 = snLine
      BY <1>4, Lines
    <3> QED BY <3>1
  <2>4. PICK before \in Int : before = LineWords * (snLine - 1)
    BY <1>3, <1>4, Z3
  <2>5. Pixels(snLine - 1, cmSelect) = before + (LineWords - owed)
    BY <2>1, <2>4 DEF Pixels
  <2>6. cmAddress + owed = snBase[1] + (before + LineWords)
    BY <1>6, <2>3, <2>4
  <2> QED BY <1>3, <1>4, <2>2, <2>5, <2>6
<1>9. cmState \in {"REQUEST_BUS1", "INIT_BURST1"} => owed > 0 /\ ~CmWrites(Busy)
  BY <1>3, <1>4, <1>5 DEF Owed, CmPhase, CmWrites
<1>10. cmState = "DO_BURST1" /\ cmCount >= 0 => owed > 0
  BY <1>3, <1>4, <1>5 DEF Owed
<1>11. /\ cmState' = "INIT_BURST1" => cmState = "REQUEST_BUS1"
       /\ cmState' = "DO_BURST1" => cmState \in {"INIT_BURST1", "DO_BURST1"}
       /\ cmBegin' <=> cmState = "INIT_BURST1"
  BY CameraStep
<1>12. ASSUME cmState' = "INIT_BURST1" \/ (cmState' = "DO_BURST1" /\ (cmBegin' \/ fmDone') /\ cmCount' >= 0)
       PROVE  cmShown' = cmAddress' - snBase'[1]
  <2>1. CASE cmState \in {"REQUEST_BUS1", "INIT_BURST1"}
    BY <1>2, <1>7, <1>8, <1>9, <2>1
  <2>2. CASE cmState = "DO_BURST1"
    <3>1. ~cmBegin' /\ fmDone'
      BY <1>11, <1>12, <2>2
    <3>2. OnBus
      BY <2>2, <3>1, BurstBegins DEF OnBus
    <3>3. ~CmWrites(Busy)
      BY <3>1, <3>2, BurstOnBus DEF CmWrites
    <3>4. cmCount >= 0
      BY <1>7, <1>11, <1>12, <2>2, <3>3
    <3> QED BY <1>2, <1>7, <1>8, <1>10, <2>2, <3>3, <3>4
  <2> QED BY <1>11, <1>12, <2>1, <2>2
<1>13. ASSUME OnBus'
       PROVE  cmOut' = cmAddress' - snBase'[1] - 1
  <2>1. cmState = "DO_BURST1" /\ (BurstOver => Busy)
    BY <1>13, MineStep
  <2>2. CASE cmBegin
    <3>1. CmWrites(Busy) /\ cmCount >= 0
      BY <1>4, <2>2, BurstBegins DEF CmPhase
    <3> QED BY <1>2, <1>4, <1>6, <1>7, <2>1, <2>2, <3>1
  <2>3. CASE ~cmBegin
    <3>1. OnBus
      BY <2>1, <2>3 DEF OnBus
    <3>2. Busy <=> ~fmDone
      BY <3>1, BurstOnBus
    <3>3. CmWrites(Busy) <=> ~Busy
      BY <2>1 DEF CmWrites
    <3>4. ~Busy => cmCount >= 0
      BY <1>4, <2>1 DEF BurstOver
    <3> QED BY <1>2, <1>4, <1>6, <1>7, <2>1, <3>1, <3>2, <3>3, <3>4
  <2> QED BY <2>2, <2>3
<1> QED BY <1>12, <1>13

\* What is stored is the next word of the image, at its place, and nothing else changes.
LEMMA StoreStep ==
    ASSUME VbInv, InFrame, LineBuffer, ImageUnderWay, CmRoom', NEW event \in SensorEvents, NEW command \in CameraCommands,
           CameraClock(command, event), event # "frame", Copying',
           NEW a \in snBase'[1] .. Complete' - 1
    PROVE  frame'[a] = "new"
<1>1. Copying
  BY CopyingStep
<1>2. /\ snBase'[1] = snBase[1] /\ snTrouble'[1] = "clean" /\ snTrouble[1] = "clean" /\ snLine >= 0
      /\ event = "line" => cmState = "IDLE"
      /\ snLine' = IF event = "line" THEN snLine + 1 ELSE snLine
      /\ event = "line" => snLine \in 0 .. SensorLines - 1
  BY <1>1, SensorStep DEF CameraClock, Copying
<1>3. /\ LineWords \in Nat \ {0} /\ LinePlaces \in Nat /\ LineWords <= LinePlaces
      /\ CameraBurst \in Nat \ {0} /\ SensorLines \in Nat /\ Bases \subseteq Nat /\ FrameArea \in Nat
  BY SizesOfImages
<1>4. /\ cmAddress \in Int /\ snBase[1] \in Nat /\ snLine \in -1 .. SensorLines
      /\ DOMAIN frame = 0 .. FrameArea - 1
  BY <1>3 DEF InFrame, LineBuffer
<1>5. PICK writes \in BOOLEAN : writes <=> CmWrites(Busy)
  BY DEF CmWrites
<1>6. PICK address \in Int : address = cmAddress' /\ address = IF writes THEN cmAddress + 1 ELSE cmAddress
  BY <1>4, <1>5 DEF CameraClock, CmClock, CmPosition
<1>7. PICK complete \in Int : complete = Complete' /\ complete = IF OnBus' /\ ~fmDone' THEN address - 1 ELSE address
  BY <1>6 DEF Complete
<1>8. a \in Int /\ snBase[1] <= a /\ a < complete
  BY <1>2, <1>4, <1>7
<1>9. \A b \in snBase[1] .. Complete - 1 : frame[b] = "new"
  BY <1>1 DEF ImageUnderWay
<1>10. a \in DOMAIN frame
  <2>1. (cmAddress + Owed = snBase[1] + LineWords * snLine)'
    BY CopyStep
  <2>2. Owed' \in Nat
    BY <1>1, <1>2, OwedExactly DEF Copying
  <2>3. snLine' \in Int /\ snLine' <= SensorLines
    BY <1>2, <1>3, <1>4
  <2>4. LineWords * snLine' <= FrameWords
    BY <2>3, Lines
  <2>5. snBase[1] + FrameWords <= FrameArea /\ FrameWords \in Nat
    BY SizesOfImages DEF LineBuffer
  <2>6. PICK sent \in Int : sent = LineWords * snLine'
    <3>1. PICK line \in Int : line = snLine'
      BY <2>3
    <3>2. LineWords * line \in Int
      BY <1>3, Z3
    <3> QED BY <3>1, <3>2
  <2>7. PICK owed \in Nat : owed = Owed'
    BY <2>2
  <2>8. address + owed = snBase[1] + sent
    BY <1>2, <1>6, <2>1, <2>6, <2>7
  <2>9. sent <= FrameWords
    BY <2>4, <2>6
  <2> QED BY <1>3, <1>4, <1>7, <1>8, <2>5, <2>8, <2>9
<1>11. frame'[a] = IF Stored /\ fmNext = a
                   THEN IF Word = a - snBase[1] THEN "new" ELSE "other"
                   ELSE frame[a]
  BY <1>2, <1>10 DEF CameraClock, Memory
<1>12. ASSUME ~Stored \/ fmNext # a, a < Complete PROVE frame'[a] = "new"
  <2>1. Complete \in Int
    BY <1>4 DEF Complete
  <2> QED BY <1>8, <1>9, <1>11, <1>12, <2>1
<1>13. CASE OnBus
  <2>1. /\ Busy <=> ~fmDone
        /\ Word = cmOut
        /\ fmDone' => Busy
        /\ Stored <=> ~fmDone /\ fmDone'
    BY <1>13, BurstOnBus DEF CameraClock
  <2>2. cmOut = cmAddress - snBase[1] - 1
    BY <1>1, <1>13 DEF ImageUnderWay
  <2>3. Stored => fmNext = cmAddress - 1
    <3>1. Stored => fmNext = cmAddress - (IF fmDone THEN 0 ELSE 1)
      BY <1>2, <1>13 DEF InFrame, OnBus, Stored, FmBusy
    <3> QED BY <2>1, <3>1
  <2>4. cmState = "DO_BURST1" /\ cmState' = (IF BurstOver /\ ~Busy THEN "END_TRANS1" ELSE "DO_BURST1") /\ ~cmBegin'
    BY <1>13, CameraStep DEF OnBus
  <2>5. writes <=> ~BurstOver /\ ~Busy
    BY <1>5, <2>4 DEF CmWrites
  <2>6. CASE fmDone
    <3>1. ~fmDone' /\ ~Busy /\ ~Stored
      BY <2>1, <2>6
    <3>2. complete = cmAddress
      BY <1>4, <1>6, <1>7, <2>4, <2>5, <3>1 DEF OnBus
    <3>3. Complete = cmAddress
      BY <2>6 DEF Complete
    <3> QED BY <1>8, <1>12, <3>1, <3>2, <3>3
  <2>7. CASE ~fmDone
    <3>1. Busy /\ ~writes /\ OnBus' /\ address = cmAddress /\ Complete = cmAddress - 1
      BY <1>6, <1>13, <2>1, <2>4, <2>5, <2>7 DEF OnBus, Complete
    <3>2. CASE ~fmDone'
      <4>1. ~Stored /\ complete = cmAddress - 1
        BY <1>7, <2>1, <3>1, <3>2
      <4> QED BY <1>8, <1>12, <3>1, <4>1
    <3>3. CASE fmDone'
      <4>1. Stored /\ complete = cmAddress /\ fmNext = cmAddress - 1
        BY <1>7, <2>1, <2>3, <2>7, <3>1, <3>3
      <4>2. CASE a = cmAddress - 1
        BY <1>4, <1>11, <2>1, <2>2, <4>1, <4>2
      <4>3. CASE a # cmAddress - 1
        BY <1>4, <1>8, <1>12, <3>1, <4>1, <4>3
      <4> QED BY <4>2, <4>3
    <3> QED BY <3>2, <3>3
  <2> QED BY <2>6, <2>7
<1>14. CASE ~OnBus
  <2>1. ~Stored
    BY <1>14, StoredOnBus
  <2>2. Complete = cmAddress
    BY <1>14 DEF Complete
  <2>3. CASE cmState = "DO_BURST1"
    <3>1. cmBegin
      BY <1>14, <2>3 DEF OnBus
    <3>2. writes /\ ~Busy /\ fmDone' = FALSE
      BY <1>5, <3>1, BurstBegins
    <3>3. OnBus'
      <4>1. cmState' = (IF BurstOver /\ ~Busy THEN "END_TRANS1" ELSE "DO_BURST1") /\ ~cmBegin'
        BY <2>3, CameraStep
      <4> QED BY <1>5, <3>2, <4>1 DEF OnBus, CmWrites
    <3>4. complete = cmAddress
      BY <1>4, <1>6, <1>7, <3>2, <3>3
    <3> QED BY <1>8, <1>12, <2>1, <2>2, <3>4
  <2>4. CASE cmState # "DO_BURST1"
    <3>1. ~writes /\ ~OnBus'
      <4>1. ~OnBus'
        BY <2>4, MineStep
      <4> QED BY <1>5, <2>4, <4>1 DEF CmWrites
    <3> QED BY <1>6, <1>7, <1>8, <1>12, <2>1, <2>2, <3>1
  <2> QED BY <2>3, <2>4
<1> QED BY <1>13, <1>14

LEMMA ImageStep ==
    ASSUME VbInv, InFrame, LineBuffer, ImageUnderWay, CmRoom', NEW event \in SensorEvents, NEW command \in CameraCommands,
           CameraClock(command, event)
    PROVE  ImageUnderWay'
<1>1. OnBus' => FmMine' /\ ~fmOp'.read
  BY MineStep
<1>2. ASSUME Copying', event # "frame"
      PROVE  /\ (cmAddress + Owed = snBase[1] + LineWords * snLine)' /\ Owed' <= LineWords
             /\ cmState' # "IDLE" /\ Owed' > 0 => cmSelect' = LineWords - Owed'
             /\ cmState' # "IDLE" =>
                  \A p \in LineWords - Owed' .. LineWords - 1 : cmLine'[p] = Pixels(snLine' - 1, p)
             /\ cmState' = "INIT_BURST1" \/ (cmState' = "DO_BURST1" /\ (cmBegin' \/ fmDone') /\ cmCount' >= 0)
                  => cmShown' = cmAddress' - snBase'[1]
             /\ OnBus' => cmOut' = cmAddress' - snBase'[1] - 1
             /\ \A a \in snBase'[1] .. Complete' - 1 : frame'[a] = "new"
  BY <1>2, CopyStep, ShownStep, StoreStep
<1>3. ASSUME Copying', event = "frame"
      PROVE  /\ (cmAddress + Owed = snBase[1] + LineWords * snLine)' /\ Owed' <= LineWords
             /\ cmState' = "IDLE"
             /\ \A a \in snBase'[1] .. Complete' - 1 : frame'[a] = "new"
  <2>1. cmState = "IDLE" /\ snLine' = 0 /\ snBase'[1] = cmBase
    BY <1>3, SensorStep DEF CameraClock, Copying
  <2>2. cmState' = "IDLE"
    BY <1>3, <2>1, CameraStep
  <2>3. cmAddress' = cmBase
    BY <1>3 DEF CameraClock, CmClock, CmPosition
  <2>4. Owed' = 0 /\ Complete' = cmAddress'
    BY <2>2 DEF Owed, Complete, OnBus
  <2>5. LineWords * 0 = 0 /\ LineWords \in Nat /\ cmBase \in Nat
    BY SizesOfImages, Lines DEF LineBuffer
  <2>6. (cmAddress + Owed = snBase[1] + LineWords * snLine)'
    <3>1. cmBase + 0 = cmBase + LineWords * 0
      BY <2>5
    <3> QED BY <2>1, <2>3, <2>4, <3>1
  <2>7. \A a \in snBase'[1] .. Complete' - 1 : FALSE
    BY <2>1, <2>3, <2>4, <2>5
  <2> QED BY <2>2, <2>4, <2>5, <2>6, <2>7
<1>4. Copying' =>
         /\ (cmAddress + Owed = snBase[1] + LineWords * snLine)' /\ Owed' <= LineWords
         /\ cmState' # "IDLE" /\ Owed' > 0 => cmSelect' = LineWords - Owed'
         /\ cmState' # "IDLE" =>
              \A p \in LineWords - Owed' .. LineWords - 1 : cmLine'[p] = Pixels(snLine' - 1, p)
         /\ cmState' = "INIT_BURST1" \/ (cmState' = "DO_BURST1" /\ (cmBegin' \/ fmDone') /\ cmCount' >= 0)
              => cmShown' = cmAddress' - snBase'[1]
         /\ OnBus' => cmOut' = cmAddress' - snBase'[1] - 1
         /\ \A a \in snBase'[1] .. Complete' - 1 : frame'[a] = "new"
  BY <1>2, <1>3 DEF OnBus
<1> QED BY <1>1, <1>4 DEF ImageUnderWay, Pixels

-----------------------------------------------------------------------------
(* A single image.                                                         *)

SingleDone ==
    /\ cmDone => ~cmSingle /\ ~cmAction[1]
    /\ cmAction[2] => (~cmSingle \/ cmAction[1]) /\ snSent = 0 /\ snLine = 0
    /\ cmAction[2] /\ snTrouble[2] = "clean" =>
         cmState = "IDLE" /\ \A p \in 0 .. FrameWords - 1 : frame[snBase[2] + p] = "last"
    /\ cmState # "IDLE" /\ cmDone /\ snTrouble[2] = "clean" => cmRunning

LEMMA ImageThere == InFrame /\ LineBuffer /\ ImageUnderWay => ImageStored
<1> SUFFICES ASSUME LineBuffer, ImageUnderWay, InFrame,
                    snTrouble[1] = "clean", snLine = SensorLines, cmState = "IDLE", cmRunning \/ cmAction[1],
                    NEW p \in 0 .. FrameWords - 1
             PROVE  frame[snBase[1] + p] = "new"
  BY DEF ImageStored
<1>1. LineWords \in Nat /\ SensorLines \in Nat /\ FrameWords \in Nat /\ FrameWords = SensorLines * LineWords
  BY SizesOfImages DEF FrameWords
<1>2. Copying
  BY <1>1 DEF Copying
<1>3. cmAddress + Owed = snBase[1] + LineWords * SensorLines /\ \A a \in snBase[1] .. Complete - 1 : frame[a] = "new"
  BY <1>2 DEF ImageUnderWay
<1>4. Owed = 0 /\ Complete = cmAddress
  BY DEF Owed, Complete, OnBus
<1>5. LineWords * SensorLines = FrameWords
  BY <1>1, Z3
<1>6. cmAddress \in Int /\ snBase[1] \in Int
  BY DEF InFrame
<1>7. snBase[1] + p \in snBase[1] .. Complete - 1
  BY <1>1, <1>3, <1>4, <1>5, <1>6
<1> QED BY <1>3, <1>7

LEMMA SingleStep ==
    ASSUME VbInv, InFrame, LineBuffer, ImageUnderWay, SingleDone, NEW event \in SensorEvents, NEW command \in CameraCommands,
           CameraClock(command, event)
    PROVE  SingleDone'
<1>1. /\ cmAction' = IF cmAction[2] THEN <<FALSE, FALSE>>
                     ELSE IF event = "frame" THEN <<cmSingle, cmAction[1]>> ELSE cmAction
      /\ cmDone' <=> command.name # "single" /\ (cmAction[2] \/ cmDone)
      /\ cmSingle' = IF cmAction[1] THEN FALSE
                     ELSE IF command.name \in {"start", "stop", "single"} THEN command.name = "single"
                     ELSE cmSingle
      /\ cmRunning' = IF event = "frame" THEN cmActive ELSE cmRunning
  BY DEF CameraClock, CmClock, CmControl
<1>2. /\ cmAction[2] => ~cmAction'[1] /\ ~cmAction'[2]
      /\ ~cmAction[2] /\ event = "frame" => cmAction'[1] = cmSingle /\ cmAction'[2] = cmAction[1]
      /\ ~cmAction[2] /\ event # "frame" => cmAction' = cmAction
  BY <1>1
<1>3. /\ event = "line" => snSent = LineWords
      /\ event = "frame" => snLine \in {-1, SensorLines} /\ snSent = 0
      /\ snSent' = IF event = "word" THEN snSent + 1 ELSE IF event = "line" THEN 0 ELSE snSent
      /\ snLine' = IF event = "frame" THEN 0 ELSE IF event = "line" THEN snLine + 1 ELSE snLine
      /\ event = "frame" => snBase'[2] = snBase[1]
      /\ event # "frame" => snTrouble'[2] = snTrouble[2]
      /\ event = "frame" /\ snTrouble'[2] = "clean" => cmState = "IDLE" /\ snTrouble[1] = "clean"
  BY SensorStep DEF CameraClock
<1>4. LineWords \in Nat \ {0} /\ FrameWords \in Nat /\ FrameArea \in Nat
  BY SizesOfImages
<1>5. cmDone' => ~cmSingle' /\ ~cmAction'[1]
  BY <1>1, <1>2, Zenon DEF SingleDone
<1>6. cmAction'[2] => cmAction[1] /\ ~cmAction[2] /\ event = "frame"
  BY <1>2 DEF SingleDone
<1>7. cmAction'[2] => ~cmSingle' /\ snSent' = 0 /\ snLine' = 0
  BY <1>1, <1>3, <1>6
<1>8. ASSUME cmAction'[2], snTrouble'[2] = "clean"
      PROVE  cmState' = "IDLE" /\ \A p \in 0 .. FrameWords - 1 : frame'[snBase'[2] + p] = "last"
  <2>1. event = "frame" /\ cmState = "IDLE" /\ snTrouble[1] = "clean" /\ cmAction[1] /\ snBase'[2] = snBase[1]
    BY <1>3, <1>6, <1>8
  <2>2. cmState' = "IDLE"
    BY <2>1, CameraStep
  <2>3. snLine = SensorLines
    BY <1>3, <2>1 DEF LineBuffer
  <2>4. ~Stored
    BY <2>1, StoredOnBus DEF OnBus
  <2>5. ASSUME NEW p \in 0 .. FrameWords - 1 PROVE frame'[snBase[1] + p] = "last"
    <3>1. frame[snBase[1] + p] = "new"
      BY <2>1, <2>3, <2>5, ImageThere DEF ImageStored
    <3>2. snBase[1] + p \in DOMAIN frame
      <4>1. snBase[1] \in Nat /\ snBase[1] + FrameWords <= FrameArea
        BY SizesOfImages DEF LineBuffer
      <4> QED BY <1>4, <2>5, <4>1 DEF LineBuffer
    <3> QED BY <2>1, <2>4, <3>1, <3>2 DEF CameraClock, Memory
  <2> QED BY <2>1, <2>2, <2>5
<1>9. ASSUME cmState' # "IDLE", cmDone', snTrouble'[2] = "clean"
      PROVE  cmRunning'
  <2>1. event # "frame" /\ snTrouble[2] = "clean" /\ cmRunning' = cmRunning
    BY <1>1, <1>3, <1>9, CameraStep
  <2>2. cmState = "IDLE" => event = "line" /\ (cmRunning \/ cmAction[1])
    BY <1>9, CameraStep
  <2>3. ~cmAction[2]
    BY <1>3, <1>4, <2>1, <2>2 DEF SingleDone
  <2>4. cmDone
    BY <1>1, <1>9, <2>3
  <2> QED BY <2>1, <2>2, <2>4 DEF SingleDone
<1> QED BY <1>5, <1>7, <1>8, <1>9 DEF SingleDone

\* What is done in a clock in which the program may read that its image is done.
LEMMA SingleHolds ==
    ASSUME VbInv, InFrame, LineBuffer, ImageUnderWay, SingleDone, NEW event \in SensorEvents, NEW command \in CameraCommands,
           CameraClock(command, event), snTrouble[2] = "clean", cmDone'
    PROVE  IF cmDone THEN Stored => cmRunning
           ELSE \A p \in 0 .. FrameWords - 1 : frame'[snBase[2] + p] = "last"
<1>1. CASE cmDone
  BY <1>1, StoredOnBus DEF SingleDone, OnBus
<1>2. CASE ~cmDone
  <2>1. cmAction[2]
    BY <1>2 DEF CameraClock, CmClock, CmControl
  <2>2. cmState = "IDLE" /\ snLine = 0 /\ \A p \in 0 .. FrameWords - 1 : frame[snBase[2] + p] = "last"
    BY <2>1 DEF SingleDone
  <2>3. ~Stored
    BY <2>2, StoredOnBus DEF OnBus
  <2>4. ASSUME NEW p \in 0 .. FrameWords - 1 PROVE frame'[snBase[2] + p] = "last"
    <3>1. event # "frame"
      <4>1. event = "frame" => SensorLines = 0
        BY <2>2, SensorStep DEF CameraClock
      <4>2. SensorLines # 0
        BY <2>4, SizesOfImages DEF FrameWords
      <4> QED BY <4>1, <4>2
    <3>2. frame' = [a \in DOMAIN frame |-> IF snTrouble'[1] # "clean" /\ frame[a] = "new" THEN "other" ELSE frame[a]]
      BY <2>3, <3>1 DEF CameraClock, Memory
    <3>3. snBase[2] + p \in DOMAIN frame
      <4>1. snBase[2] \in Nat /\ snBase[2] + FrameWords <= FrameArea /\ FrameWords \in Nat /\ FrameArea \in Nat
        BY SizesOfImages DEF LineBuffer
      <4> QED BY <2>4, <4>1 DEF LineBuffer
    <3> QED BY <2>2, <2>4, <3>2, <3>3
  <2> QED BY <1>2, <2>4
<1> QED BY <1>1, <1>2

ImageInv == InFrame /\ LineBuffer /\ ImageUnderWay /\ SingleDone

LEMMA ImageInit == VideoInit => ImageInv
<1> SUFFICES ASSUME VideoInit PROVE ImageInv
  OBVIOUS
<1>1. /\ cmBase = 0 /\ ~cmRunning /\ cmAction = <<FALSE, FALSE>> /\ ~cmDone /\ cmState = "IDLE"
      /\ cmLine = [place \in 0 .. LinePlaces - 1 |-> NoPixels]
      /\ snLine = -1 /\ snSent = 0 /\ snBase = <<0, 0>> /\ snTrouble = <<"late", "late">>
      /\ frame = [a \in 0 .. FrameArea - 1 |-> "other"]
  BY DEF VideoInit, CmInit
<1>2. LineBuffer
  <2>1. 0 \in Bases /\ LineWords \in Nat
    BY SizesOfImages DEF Bases
  <2> QED BY <1>1, <2>1 DEF LineBuffer
<1>3. ImageUnderWay
  BY <1>1 DEF ImageUnderWay, OnBus, Copying
<1>4. SingleDone
  BY <1>1 DEF SingleDone
<1> QED BY <1>2, <1>3, <1>4, InitFrame DEF ImageInv

LEMMA ImageNext ==
    ASSUME VbInv, ImageInv, VbInv', [VideoNext]_videoVars
    PROVE  ImageInv'
<1>1. InFrame'
  BY NextFrame DEF ImageInv
<1>2. CASE UNCHANGED videoVars
  <2>1. UNCHANGED <<cmVars, fmVars, snBase, snLine, snSent, snTrouble, frame>>
    BY <1>2 DEF videoVars
  <2>2. Owed' = Owed /\ FmMine' = FmMine /\ OnBus' = OnBus /\ Complete' = Complete
    BY <2>1 DEF Owed, FmMine, OnBus, Complete, cmVars, fmVars
  <2>3. LineBuffer'
    BY <2>1 DEF ImageInv, LineBuffer, Pixels, cmVars, cmControlVars
  <2>4. ImageUnderWay'
    BY <2>1, <2>2 DEF ImageInv, ImageUnderWay, Copying, Pixels, cmVars, cmControlVars, fmVars
  <2>5. SingleDone'
    BY <2>1 DEF ImageInv, SingleDone, cmVars, cmControlVars
  <2> QED BY <1>1, <2>3, <2>4, <2>5 DEF ImageInv
<1>3. ASSUME NEW screenEvent \in ScreenEvents, NEW event \in SensorEvents,
             NEW command \in CameraCommands, VideoClock(screenEvent, event, command)
      PROVE  ImageInv'
  <2>1. CameraClock(command, event)
    BY <1>3 DEF VideoClock, CameraClock
  <2>2. CmRoom'
    BY DEF VbInv, Room, CmRoom
  <2> QED BY <1>1, <2>1, <2>2, LineBufferStep, ImageStep, SingleStep DEF ImageInv
<1> QED BY <1>2, <1>3 DEF VideoNext

(* An image of the sensor that met no delay and no error is in the frame      *)
(* buffer, each word at its place, for any lengths of bursts, lines and       *)
(* images: the address of the line buffer runs ahead of the word on the bus   *)
(* by exactly the words that the memory has not yet taken, also when a burst  *)
(* begins, when the memory is busy, and when the next line is received into   *)
(* the places that are already copied.                                        *)
THEOREM ImageIsStored ==
    ASSUME OwnLines
    PROVE  VideoSpec => []ImageStored
<1>1. VideoInit => VbInv /\ ImageInv
  BY InitVb, ImageInit
<1>2. VbInv /\ ImageInv /\ [VideoNext]_videoVars => VbInv' /\ ImageInv'
  BY NextVb, ImageNext
<1>3. ImageInv => ImageStored
  BY ImageThere DEF ImageInv
<1> QED BY <1>1, <1>2, <1>3, PTL DEF VideoSpec

(* The bit that says that the single image is done rises only when every      *)
(* word of the image is in the frame buffer, and until the program asks for   *)
(* another image nothing is written any more: the counters of the request     *)
(* keep a single image and a running camera apart, whatever order the         *)
(* program gives its instructions in.                                         *)
THEOREM ImageIsSingle ==
    ASSUME OwnLines
    PROVE  VideoSpec => SingleImage
<1>1. VideoInit => VbInv /\ ImageInv
  BY InitVb, ImageInit
<1>2. VbInv /\ ImageInv /\ [VideoNext]_videoVars => VbInv' /\ ImageInv'
  BY NextVb, ImageNext
<1>3. VbInv /\ ImageInv /\ [VideoNext]_videoVars =>
        [snTrouble[2] = "clean" /\ cmDone' =>
           IF cmDone THEN Stored => cmRunning
           ELSE \A p \in 0 .. FrameWords - 1 : frame'[snBase[2] + p] = "last"]_videoVars
  <2> SUFFICES ASSUME VbInv, ImageInv, NEW screenEvent \in ScreenEvents, NEW event \in SensorEvents,
                      NEW command \in CameraCommands, VideoClock(screenEvent, event, command),
                      snTrouble[2] = "clean", cmDone'
               PROVE  IF cmDone THEN Stored => cmRunning
                      ELSE \A p \in 0 .. FrameWords - 1 : frame'[snBase[2] + p] = "last"
    BY DEF VideoNext
  <2>1. CameraClock(command, event)
    BY DEF VideoClock, CameraClock
  <2> QED BY <2>1, SingleHolds DEF ImageInv
<1> QED BY <1>1, <1>2, <1>3, PTL DEF VideoSpec, SingleImage

-----------------------------------------------------------------------------
(* What the screen shows: the words of a line on their way from the memory *)
(* over the bus and the register of the data to the line buffer.           *)

\* The widths that the program sets.  With one pixel more than two bursts the code would ask
\* for a whole second burst instead of none.
WidthsServed ==
    \A op \in RegisterOps : op.reg = "width" =>
        op.value \in Nat /\ WidthOf(op.value, op.flag) # BufferWords + 1

\* A register gets the word of the operation that addressed it.
RegisterWrites ==
    /\ grSetup.width \in 0 .. 4 * BurstWords - 1 /\ grSetup.width # BufferWords + 1
    /\ GrMine => grSelected.reg = cpOp.reg
    /\ grWrite => grData.reg = grSelected.reg

ScreenTyped ==
    /\ DOMAIN scBuffers = {0, 1} /\ \A b \in {0, 1} : DOMAIN scBuffers[b] = 0 .. BufferWords - 1
    /\ grWriteIndex \in {0, 1} /\ grPixelAddress \in Int /\ scBase \in Int /\ grOddLine \in BOOLEAN
    /\ scLine \in Int /\ scLine >= -1 /\ scDisturbed \in BOOLEAN /\ (~scDisturbed => scLine >= 0)
    /\ scLine >= 0 => (grOddLine <=> scLine % 2 = 1)

\* The line of the picture that the present line of the screen shows, and its address.
Line      == IF grSetup.dualLine THEN scLine \div 2 ELSE scLine
LineStart == scBase + PictureLine * Line

\* The words of the line that the bursts up to the present one bring.
Total == IF grState = "READ" /\ DualBurst THEN BurstWords ELSE PictureLine

On == IF grDataValid THEN 1 ELSE 0      \* in the register of the data
In == IF fmValid THEN 1 ELSE 0          \* on the bus

Fetched(index, words) == \A p \in 0 .. words - 1 : scBuffers[index][p] = LineStart + p

\* Where each word of the line is: in the memory, on the bus, in the register of
\* the data, in the line buffer.
LineFollows ==
    /\ grState \in {"IDLE", "REQUEST", "INIT", "READ", "REQUEST1", "INIT1", "READ1", "READ_DONE"}
    /\ grState = "IDLE" => /\ Fetched(1 - grWriteIndex, PictureLine)
                           /\ grPixelAddress = LineStart + PictureLine
    /\ grState \in {"REQUEST", "INIT"} => grPixelAddress = LineStart
    /\ grState \in {"READ", "REQUEST1", "INIT1", "READ1", "READ_DONE"} =>
         /\ Fetched(grWriteIndex, grWriteAddress)
         /\ grPixelAddress = LineStart + grWriteAddress
    /\ grState \in {"REQUEST1", "INIT1"} => DualBurst /\ grWriteAddress = BurstWords
    /\ grState = "READ1" => DualBurst
    /\ grState = "READ_DONE" => grWriteAddress = PictureLine
    /\ grBegin => grOut = grPixelAddress /\ grWriteAddress + grWords = Total

WordsFollow ==
    Reading =>
      /\ FmMine \/ grEndSeen => grWriteAddress + Coming = Total
      /\ grDataValid => (FmMine \/ grEndSeen) /\ grData = grPixelAddress
      /\ fmValid => fmWord = grPixelAddress + On
      /\ FmMine => fmNext = (grPixelAddress + On) + In
      /\ fmEnd => fmLeft = 0

PictureUnderWay ==
    grSetup.aligned /\ ~scDisturbed /\ PictureLine > 0 => LineFollows /\ WordsFollow

BlackUnderWay ==
    ~grSetup.aligned /\ ~scDisturbed =>
      /\ grState \in {"IDLE", "INIT_WRITE_BLACK", "WRITE_BLACK"}
      /\ grState = "IDLE" => \A p \in 0 .. BufferWords - 1 : scBuffers[1 - grWriteIndex][p] = Black
      /\ grState = "WRITE_BLACK" => \A p \in 0 .. grWriteAddress - 1 : scBuffers[grWriteIndex][p] = Black

ScreenClock(event) ==
    /\ GrClock(ScreenLine \in busGrants, Begin, End, Valid, busErrorOut, RegisterAccess, Word,
               NewScreen(event), NewLine(event))
    /\ FmClock(Begin, End, Valid, busErrorOut, MemoryAccess)
    /\ Screen(event)

\* How many words a line has.
LEMMA LineSizes ==
    ASSUME grSetup \in Setups, grSetup.width \in 0 .. 4 * BurstWords - 1
    PROVE  /\ PictureLine \in 0 .. BufferWords - 1
           /\ ~DualBurst => PictureLine <= BurstWords
           /\ DualBurst => BurstWords <= PictureLine /\ PictureLine = grSetup.width \div 2
<1>1. BurstWords \in Nat \ {0} /\ BufferWords = 2 * BurstWords
  BY GraphicsAssumption DEF BufferWords
<1>2. /\ grSetup.width \in 0 .. 4 * BurstWords - 1 /\ grSetup.dual \in BOOLEAN
      /\ grSetup.gray \in BOOLEAN
  BY DEF Setups
<1>3. PICK width \in 0 .. 4 * BurstWords - 1 : width = grSetup.width
  BY <1>2
<1>4. CASE grSetup.dual /\ grSetup.gray
  <2>1. PictureLine = width \div 8 /\ ~DualBurst
    BY <1>3, <1>4 DEF PictureLine, DualBurst
  <2>2. width \div 8 \in 0 .. 2 * BurstWords - 1 /\ width \div 8 <= BurstWords
    BY <1>1, <1>3
  <2> QED BY <1>1, <2>1, <2>2
<1>5. CASE (grSetup.dual /\ ~grSetup.gray) \/ (~grSetup.dual /\ grSetup.gray)
  <2>1. PictureLine = width \div 4 /\ ~DualBurst
    BY <1>2, <1>3, <1>5 DEF PictureLine, DualBurst
  <2>2. width \div 4 \in 0 .. 2 * BurstWords - 1 /\ width \div 4 <= BurstWords
    BY <1>1, <1>3
  <2> QED BY <1>1, <2>1, <2>2
<1>6. CASE ~grSetup.dual /\ ~grSetup.gray
  <2>1. PictureLine = width \div 2 /\ (DualBurst <=> width > 2 * BurstWords)
    BY <1>1, <1>2, <1>3, <1>6 DEF PictureLine, DualBurst
  <2>2. /\ width \div 2 \in 0 .. 2 * BurstWords - 1
        /\ width > 2 * BurstWords => BurstWords <= width \div 2
        /\ ~(width > 2 * BurstWords) => width \div 2 <= BurstWords
    BY <1>1, <1>3
  <2> QED BY <1>1, <1>3, <2>1, <2>2
<1> QED BY <1>2, <1>4, <1>5, <1>6

LEMMA SmallRemainder ==
    ASSUME NEW a \in Nat, NEW n \in Nat \ {0}, a < n
    PROVE  a % n = a
BY Z3

\* The bursts bring the line, no word more and no word less.
LEMMA BurstIsLine ==
    ASSUME grSetup \in Setups, grSetup.width \in 0 .. 4 * BurstWords - 1,
           grSetup.width # BufferWords + 1, PictureLine > 0
    PROVE  /\ grState = "INIT" => Burst = IF DualBurst THEN BurstWords ELSE PictureLine
           /\ grState = "INIT1" /\ DualBurst => BurstWords + Burst = PictureLine
<1>1. BurstWords \in Nat \ {0} /\ BufferWords = 2 * BurstWords /\ 4 * BurstWords \in Nat \ {0}
  BY GraphicsAssumption DEF BufferWords
<1>2. /\ grSetup.width \in 0 .. 4 * BurstWords - 1 /\ grSetup.dual \in BOOLEAN
      /\ grSetup.gray \in BOOLEAN
  BY DEF Setups
<1>3. PICK width \in 0 .. 4 * BurstWords - 1 : width = grSetup.width
  BY <1>2
<1> DEFINE of(pixels) == 1 + (((pixels % (4 * BurstWords)) \div 2) % BurstWords)
<1>4. ASSUME NEW pixels \in Nat, pixels < 2 * BurstWords
      PROVE  of(pixels) = 1 + pixels \div 2
  <2>1. pixels % (4 * BurstWords) = pixels
    BY <1>1, <1>4, SmallRemainder
  <2>2. pixels \div 2 \in Nat /\ pixels \div 2 < BurstWords
    BY <1>1, <1>4
  <2>3. (pixels \div 2) % BurstWords = pixels \div 2
    BY <1>1, <2>2, SmallRemainder
  <2> QED BY <2>1, <2>3
<1> HIDE DEF of
<1>5. CASE grSetup.dual /\ grSetup.gray
  <2>1. PictureLine = width \div 8 /\ ~DualBurst /\ Burst = of(width \div 4 - 2)
    BY <1>3, <1>5 DEF PictureLine, DualBurst, Burst, of
  <2>2. width \div 4 - 2 \in Nat /\ width \div 4 - 2 < 2 * BurstWords
        /\ 1 + (width \div 4 - 2) \div 2 = width \div 8
    BY <1>1, <1>3, <2>1
  <2>3. of(width \div 4 - 2) = width \div 8
    BY <1>4, <2>2
  <2> QED BY <2>1, <2>3
<1>6. CASE (grSetup.dual /\ ~grSetup.gray) \/ (~grSetup.dual /\ grSetup.gray)
  <2>1. PictureLine = width \div 4 /\ ~DualBurst /\ Burst = of(width \div 2 - 2)
    BY <1>2, <1>3, <1>6 DEF PictureLine, DualBurst, Burst, of
  <2>2. width \div 2 - 2 \in Nat /\ width \div 2 - 2 < 2 * BurstWords
        /\ 1 + (width \div 2 - 2) \div 2 = width \div 4
    BY <1>1, <1>3, <2>1
  <2>3. of(width \div 2 - 2) = width \div 4
    BY <1>4, <2>2
  <2> QED BY <2>1, <2>3
<1>7. CASE ~grSetup.dual /\ ~grSetup.gray
  <2>1. PictureLine = width \div 2 /\ (DualBurst <=> width > 2 * BurstWords)
    BY <1>1, <1>2, <1>3, <1>7 DEF PictureLine, DualBurst
  <2>2. CASE ~DualBurst
    <3>1. Burst = of(width - 2)
      BY <1>2, <1>3, <1>7, <2>2 DEF Burst, of
    <3>2. width - 2 \in Nat /\ width - 2 < 2 * BurstWords /\ 1 + (width - 2) \div 2 = width \div 2
      BY <1>1, <1>3, <2>1, <2>2
    <3>3. of(width - 2) = width \div 2
      BY <1>4, <3>2
    <3> QED BY <2>1, <2>2, <3>1, <3>3
  <2>3. CASE DualBurst /\ grState = "INIT"
    <3>1. Burst = of(BufferWords - 2)
      BY <1>2, <1>7, <2>3 DEF Burst, of
    <3>2. 2 * BurstWords - 2 \in Nat /\ 2 * BurstWords - 2 < 2 * BurstWords
          /\ 1 + (2 * BurstWords - 2) \div 2 = BurstWords
      BY <1>1
    <3>3. of(2 * BurstWords - 2) = BurstWords
      BY <1>4, <3>2
    <3> QED BY <1>1, <2>3, <3>1, <3>3
  <2>4. CASE DualBurst /\ grState = "INIT1"
    <3>1. Burst = of((width - 2 * BurstWords) - 2)
      <4>1. Burst = of((grSetup.width - BufferWords) - 2)
        BY <1>2, <1>7, <2>4 DEF Burst, of
      <4> QED BY <1>1, <1>3, <4>1
    <3>2. (width - 2 * BurstWords) - 2 \in Nat /\ (width - 2 * BurstWords) - 2 < 2 * BurstWords
          /\ BurstWords + (1 + ((width - 2 * BurstWords) - 2) \div 2) = width \div 2
      BY <1>1, <1>3, <2>1, <2>4
    <3>3. of((width - 2 * BurstWords) - 2) = 1 + ((width - 2 * BurstWords) - 2) \div 2
      BY <1>4, <3>2
    <3> QED BY <2>1, <2>4, <3>1, <3>2, <3>3
  <2> QED BY <2>2, <2>3, <2>4
<1> QED BY <1>2, <1>5, <1>6, <1>7

\* A register is written with a width that the program sets.
LEMMA RegistersStep ==
    ASSUME WidthsServed, VbInv, CpuPhase', RegisterWrites, Processor,
           NEW newScreen, NEW newLine,
           GrClock(ScreenLine \in busGrants, Begin, End, Valid, busErrorOut, RegisterAccess, Word,
                   newScreen, newLine)
    PROVE  RegisterWrites'
<1>1. /\ grSelected' = IF Begin THEN RegisterAccess ELSE IF End THEN NotSelected ELSE grSelected
      /\ grData' = IF Valid THEN Word ELSE Nothing
      /\ grWrite' <=> (Valid /\ GrMine /\ ~grSelected.read)
      /\ grActive' <=> (~End /\ ~busErrorOut /\ (Begin \/ grActive))
  BY Zenon DEF GrClock, GrSlave
<1>2. CpuPhase /\ VideoTyped
  BY DEF VbInv
<1>3. GrMine' => grSelected'.reg = cpOp'.reg
  <2> SUFFICES ASSUME GrMine' PROVE grSelected'.reg = cpOp'.reg
    OBVIOUS
  <2>1. ~End /\ (Begin \/ GrMine) /\ grSelected'.mine
    BY <1>1 DEF GrMine
  <2>2. cpState' \in {"data", "wait", "end"}
    BY DEF CpuPhase
  <2>3. cpOp' = cpOp
    BY <1>2, <2>2 DEF Processor, VideoTyped
  <2>4. CASE Begin
    <3>1. grSelected' = RegisterAccess
      BY <1>1, <2>4
    <3> QED BY <2>1, <2>3, <3>1 DEF RegisterAccess, NotSelected
  <2>5. CASE ~Begin
    <3>1. grSelected' = grSelected
      BY <1>1, <2>1, <2>5
    <3> QED BY <2>1, <2>3, <2>5, <3>1 DEF RegisterWrites
  <2> QED BY <2>4, <2>5
<1>4. grWrite' => grData'.reg = grSelected'.reg
  <2> SUFFICES ASSUME Valid, GrMine, ~grSelected.read PROVE grData'.reg = grSelected'.reg
    BY <1>1
  <2>1. Word = cpOp /\ ~Begin /\ ~End
    BY WritesOp
  <2> QED BY <1>1, <2>1 DEF RegisterWrites
<1>5. grSetup'.width \in 0 .. 4 * BurstWords - 1 /\ grSetup'.width # BufferWords + 1
  <2>1. GrWriteRegister /\ grSetup \in Setups
    BY <1>2 DEF GrClock, GrSlave, VideoTyped
  <2>2. CASE ~grWrite \/ grSelected.reg # "width"
    <3>1. grSetup'.width = grSetup.width
      <4>1. CASE ~grWrite
        BY <2>1, <4>1 DEF GrWriteRegister
      <4>2. CASE grWrite /\ grSelected.reg = "height"
        BY <2>1, <4>2 DEF GrWriteRegister, Setups
      <4>3. CASE grWrite /\ grSelected.reg = "mode"
        BY <2>1, <4>3 DEF GrWriteRegister, Setups
      <4>4. CASE grWrite /\ grSelected.reg = "base"
        BY <2>1, <4>4 DEF GrWriteRegister, Setups
      <4> QED BY <1>2, <2>2, <4>1, <4>2, <4>3, <4>4 DEF VideoTyped, Registers
    <3> QED BY <3>1 DEF RegisterWrites
  <2>3. CASE grWrite /\ grSelected.reg = "width"
    <3>1. grSetup'.width = WidthOf(grData.value, grData.flag)
      BY <2>1, <2>3 DEF GrWriteRegister, Setups
    <3>2. grData \in RegisterOps /\ grData.reg = "width"
      BY <1>2, <2>3 DEF VideoTyped, RegisterWrites
    <3>3. grData.value \in Nat /\ WidthOf(grData.value, grData.flag) # BufferWords + 1
      BY <3>2 DEF WidthsServed
    <3>4. WidthOf(grData.value, grData.flag) \in 0 .. 4 * BurstWords - 1
      BY <3>3, GraphicsAssumption DEF WidthOf
    <3> QED BY <3>1, <3>3, <3>4
  <2> QED BY <2>2, <2>3
<1> QED BY <1>3, <1>4, <1>5 DEF RegisterWrites

\* What the screen does in a clock.
LEMMA ScreenStep ==
    ASSUME VbInv, ScreenTyped, NEW event \in ScreenEvents, ScreenClock(event)
    PROVE  /\ scLine' = IF event = "screen" THEN 0 ELSE IF event = "line" THEN scLine + 1 ELSE scLine
           /\ scBase' = IF event = "screen" THEN grSetup.base ELSE scBase
           /\ event = "line" => scLine >= 0
           /\ ~scDisturbed' => /\ grSetup' = grSetup
                               /\ event # "none" => grState = "IDLE"
                               /\ ~(busErrorOut /\ GrReads)
                               /\ event # "screen" => ~scDisturbed
                               /\ scBuffers' = IF GrBufferWrite
                                      THEN [scBuffers EXCEPT ![grWriteIndex][GrBufferPlace] = GrBufferWord]
                                      ELSE scBuffers
<1>1. Screen(event) /\ GrWriteRegister
  BY DEF ScreenClock, GrClock, GrSlave
<1>2. scDisturbed' <=> \/ grWrite
                       \/ event # "none" /\ grState # "IDLE"
                       \/ busErrorOut /\ GrReads
                       \/ scDisturbed /\ event # "screen"
  BY <1>1, Zenon DEF Screen
<1>3. event = "line" => scLine >= 0
  <2>1. event = "line" => scLine \in 0 .. ScreenLines - 1
    BY <1>1 DEF Screen, ScreenEventPossible
  <2> QED BY <2>1, VideoAssumption DEF ScreenTyped
<1>4. ~scDisturbed' => scBuffers' = IF GrBufferWrite
                                   THEN [scBuffers EXCEPT ![grWriteIndex][GrBufferPlace] = GrBufferWord]
                                   ELSE scBuffers
  BY <1>1 DEF Screen
<1>5. ~grWrite => grSetup' = grSetup
  BY <1>1 DEF GrWriteRegister
<1>6. /\ scLine' = IF event = "screen" THEN 0 ELSE IF event = "line" THEN scLine + 1 ELSE scLine
      /\ scBase' = IF event = "screen" THEN grSetup.base ELSE scBase
  BY <1>1 DEF Screen
<1> QED BY <1>2, <1>3, <1>4, <1>5, <1>6

LEMMA ScreenTypedStep ==
    ASSUME VbInv, ScreenTyped, NEW event \in ScreenEvents, ScreenClock(event)
    PROVE  ScreenTyped'
<1>1. /\ scLine' = IF event = "screen" THEN 0 ELSE IF event = "line" THEN scLine + 1 ELSE scLine
      /\ scBase' = IF event = "screen" THEN grSetup.base ELSE scBase
      /\ event = "line" => scLine >= 0
      /\ ~scDisturbed' /\ event # "screen" => ~scDisturbed
  BY ScreenStep
<1>2. grSetup.base \in Int
  BY DEF VbInv, VideoTyped, Setups
<1>3. DOMAIN scBuffers' = {0, 1} /\ \A b \in {0, 1} : DOMAIN scBuffers'[b] = 0 .. BufferWords - 1
  <2>1. \/ scBuffers' = EmptyBuffers \/ scBuffers' = scBuffers
        \/ scBuffers' = [scBuffers EXCEPT ![grWriteIndex][GrBufferPlace] = GrBufferWord]
    BY DEF ScreenClock, Screen
  <2>2. CASE scBuffers' = EmptyBuffers
    BY <2>2 DEF EmptyBuffers
  <2>3. CASE scBuffers' = [scBuffers EXCEPT ![grWriteIndex][GrBufferPlace] = GrBufferWord]
    BY <2>3 DEF ScreenTyped
  <2> QED BY <2>1, <2>2, <2>3 DEF ScreenTyped
<1>4. GrAddresses(NewScreen(event), NewLine(event))
  BY DEF ScreenClock, GrClock
<1>5. grWriteIndex' \in {0, 1} /\ grPixelAddress' \in Int /\ grOddLine' \in BOOLEAN
  <2>1. grWriteIndex' \in {grWriteIndex, 1 - grWriteIndex}
    BY <1>4 DEF GrAddresses
  <2>2. grPixelAddress' \in {grSetup.base, grPixelAddress + 1, grPixelAddress}
    BY <1>4 DEF GrAddresses
  <2>3. grOddLine' \in BOOLEAN
    BY <1>4, Zenon DEF GrAddresses
  <2> QED BY <1>2, <2>1, <2>2, <2>3 DEF ScreenTyped
<1>6. scDisturbed' \in BOOLEAN
  BY Zenon DEF ScreenClock, Screen
<1>7. scLine' \in Int /\ scLine' >= -1 /\ (~scDisturbed' => scLine' >= 0) /\ scBase' \in Int
  BY <1>1, <1>2 DEF ScreenTyped
<1>8. scLine' >= 0 => (grOddLine' <=> scLine' % 2 = 1)
  <2>1. CASE event = "screen"
    <3>1. ~grOddLine'
      BY <1>4, <2>1, Zenon DEF GrAddresses, NewScreen
    <3> QED BY <1>1, <2>1, <3>1
  <2>2. CASE event = "line"
    <3>1. grOddLine' <=> ~grOddLine
      <4>1. NewScreen(event) = FALSE /\ NewLine(event) = TRUE
        BY <2>2 DEF NewScreen, NewLine
      <4>2. grOddLine' = (~FALSE /\ (TRUE # grOddLine))
        BY <1>4, <4>1 DEF GrAddresses
      <4> QED BY <4>2 DEF ScreenTyped
    <3>2. scLine >= 0 /\ scLine' = scLine + 1
      BY <1>1, <2>2
    <3> QED BY <3>1, <3>2 DEF ScreenTyped
  <2>3. CASE event # "screen" /\ event # "line"
    <3>1. grOddLine' = grOddLine
      <4>1. NewScreen(event) = FALSE /\ NewLine(event) = FALSE
        BY <2>3 DEF NewScreen, NewLine
      <4>2. grOddLine' = (~FALSE /\ (FALSE # grOddLine))
        BY <1>4, <4>1 DEF GrAddresses
      <4> QED BY <4>2 DEF ScreenTyped
    <3> QED BY <1>1, <2>3, <3>1 DEF ScreenTyped
  <2> QED BY <2>1, <2>2, <2>3
<1> QED BY <1>3, <1>5, <1>6, <1>7, <1>8 DEF ScreenTyped

\* Which line of the picture the screen is at.
LEMMA LineStep ==
    ASSUME VbInv, RegisterWrites, ScreenTyped, NEW event \in ScreenEvents, ScreenClock(event), ~scDisturbed'
    PROVE  /\ LineStart \in Int /\ PictureLine \in 0 .. BufferWords - 1
           /\ PictureLine' = PictureLine /\ (DualBurst' <=> DualBurst)
           /\ event = "screen" => LineStart' = grSetup.base
           /\ event # "screen" => LineStart' = IF LineWanted(FALSE, NewLine(event))
                                               THEN LineStart + PictureLine ELSE LineStart
           /\ event \notin {"screen", "line"} => ~LineWanted(NewScreen(event), NewLine(event))
<1>1. /\ grSetup' = grSetup
      /\ scLine' = IF event = "screen" THEN 0 ELSE IF event = "line" THEN scLine + 1 ELSE scLine
      /\ scBase' = IF event = "screen" THEN grSetup.base ELSE scBase
      /\ event = "line" => scLine >= 0
  BY ScreenStep
<1>2. PictureLine \in 0 .. BufferWords - 1
  BY LineSizes DEF VbInv, VideoTyped, RegisterWrites
<1>3. PictureLine' = PictureLine /\ (DualBurst' <=> DualBurst)
  BY <1>1 DEF PictureLine, DualBurst
<1>4. BufferWords \in Nat
  BY GraphicsAssumption DEF BufferWords
<1>5. PICK words \in Int : words = PictureLine
  BY <1>2, <1>4
<1>6. PICK line \in Int : line = Line
  BY DEF Line, ScreenTyped
<1>7. scBase \in Int /\ grSetup.base \in Int /\ grSetup.dualLine \in BOOLEAN
  BY DEF ScreenTyped, VbInv, VideoTyped, Setups
<1>8. words * line \in Int /\ words * (line + 1) = words * line + words /\ words * 0 = 0
  BY <1>5, <1>6, Z3
<1>9. LineStart = scBase + words * line
  BY <1>5, <1>6 DEF LineStart
<1>10. CASE event = "screen"
  <2>1. Line' = 0
    BY <1>1, <1>7, <1>10 DEF Line
  <2>2. LineStart' = scBase' + words * 0
    BY <1>3, <1>5, <2>1 DEF LineStart
  <2>3. LineStart' = grSetup.base
    BY <1>1, <1>7, <1>8, <1>10, <2>2
  <2> QED BY <1>2, <1>3, <1>7, <1>8, <1>9, <1>10, <2>3
<1>11. CASE event = "line"
  <2>1. Line' = IF LineWanted(FALSE, NewLine(event)) THEN line + 1 ELSE line
    <3>1. LineWanted(FALSE, NewLine(event)) <=> (grSetup.dualLine => grOddLine)
      BY <1>11, Zenon DEF LineWanted, NewLine
    <3>2. /\ scLine \in Int /\ scLine >= 0 /\ scLine' = scLine + 1
          /\ grOddLine <=> scLine % 2 = 1
      BY <1>1, <1>11 DEF ScreenTyped
    <3>3. Line' = IF grSetup.dualLine THEN (scLine + 1) \div 2 ELSE scLine + 1
      BY <1>1, <3>2 DEF Line
    <3>4. line = IF grSetup.dualLine THEN scLine \div 2 ELSE scLine
      BY <1>6 DEF Line
    <3>5. (scLine + 1) \div 2 = IF scLine % 2 = 1 THEN scLine \div 2 + 1 ELSE scLine \div 2
      BY <3>2
    <3> QED BY <1>7, <3>1, <3>2, <3>3, <3>4, <3>5
  <2>2. LineStart' = scBase + words * Line'
    BY <1>1, <1>3, <1>5, <1>11 DEF LineStart
  <2>3. LineStart' = IF LineWanted(FALSE, NewLine(event)) THEN LineStart + PictureLine ELSE LineStart
    <3>1. CASE LineWanted(FALSE, NewLine(event))
      <4>1. LineStart' = scBase + (words * line + words)
        BY <1>8, <2>1, <2>2, <3>1
      <4> QED BY <1>5, <1>7, <1>8, <1>9, <3>1, <4>1
    <3>2. CASE ~LineWanted(FALSE, NewLine(event))
      BY <1>9, <2>1, <2>2, <3>2
    <3> QED BY <3>1, <3>2
  <2> QED BY <1>2, <1>3, <1>7, <1>8, <1>9, <1>11, <2>3
<1>12. CASE event \notin {"screen", "line"}
  <2>1. ~LineWanted(NewScreen(event), NewLine(event)) /\ ~LineWanted(FALSE, NewLine(event))
    BY <1>12 DEF LineWanted, NewScreen, NewLine
  <2>2. Line' = Line
    BY <1>1, <1>12 DEF Line
  <2>3. LineStart' = LineStart
    BY <1>1, <1>3, <1>12, <2>2 DEF LineStart
  <2> QED BY <1>2, <1>3, <1>7, <1>8, <1>9, <1>12, <2>1, <2>3
<1> QED BY <1>10, <1>11, <1>12

\* A word goes to its place of the line buffer.
LEMMA BufferStep ==
    ASSUME ScreenTyped, NEW place \in 0 .. BufferWords - 1, NEW word,
           scBuffers' = [scBuffers EXCEPT ![grWriteIndex][place] = word]
    PROVE  \A p \in 0 .. BufferWords - 1 :
             scBuffers'[grWriteIndex][p] = IF p = place THEN word ELSE scBuffers[grWriteIndex][p]
<1>1. grWriteIndex \in DOMAIN scBuffers /\ DOMAIN scBuffers[grWriteIndex] = 0 .. BufferWords - 1
  BY DEF ScreenTyped
<1>2. scBuffers'[grWriteIndex] = [scBuffers[grWriteIndex] EXCEPT ![place] = word]
  BY <1>1
<1> QED BY <1>1, <1>2

\* What happens in the other states of the master.
LEMMA GrOther ==
    ASSUME VbInv, NEW event \in ScreenEvents, ScreenClock(event), ~GrReads
    PROVE  /\ grState = "IDLE" =>
                grState' = IF ~LineWanted(NewScreen(event), NewLine(event)) THEN "IDLE"
                           ELSE IF grSetup.aligned THEN "REQUEST" ELSE "INIT_WRITE_BLACK"
           /\ grState = "REQUEST" => grState' \in {"REQUEST", "INIT"}
           /\ grState = "INIT" => grState' = "READ"
           /\ grState = "REQUEST1" => grState' \in {"REQUEST1", "INIT1"}
           /\ grState = "INIT1" => grState' = "READ1"
           /\ grState = "READ_DONE" => grState' = "IDLE"
           /\ grState = "INIT_WRITE_BLACK" => grState' = "WRITE_BLACK"
           /\ grState = "WRITE_BLACK" => grState' = IF BufferFull THEN "IDLE" ELSE "WRITE_BLACK"
           /\ grBegin' <=> GrStarts
           /\ Reading' => FALSE
           /\ GrStarts => grOut' = grPixelAddress /\ grWords' = Burst
           /\ grPixelAddress' = IF event = "screen" THEN grSetup.base ELSE grPixelAddress
           /\ grState # "WRITE_BLACK" =>
                grWriteAddress' = IF grState \in {"INIT", "INIT_WRITE_BLACK"} THEN 0 ELSE grWriteAddress
           /\ grState # "WRITE_BLACK" =>
                grWriteIndex' = IF grState = "READ_DONE" THEN 1 - grWriteIndex ELSE grWriteIndex
           /\ GrBufferWrite <=> grState = "WRITE_BLACK"
<1>1. \/ GrIdle(NewScreen(event), NewLine(event)) \/ GrRequestBus(ScreenLine \in busGrants) \/ GrInit
      \/ GrRead(End, busErrorOut) \/ GrReadDone \/ GrWriteBlack \/ GrError
  BY DEF ScreenClock, GrClock
<1>2. GrAddresses(NewScreen(event), NewLine(event)) /\ GrOutputs(End)
  BY DEF ScreenClock, GrClock
<1>3. grBegin' <=> GrStarts
  BY <1>2, Zenon DEF GrOutputs
<1>4. grState = "IDLE" =>
         grState' = IF ~LineWanted(NewScreen(event), NewLine(event)) THEN "IDLE"
                    ELSE IF grSetup.aligned THEN "REQUEST" ELSE "INIT_WRITE_BLACK"
  <2> SUFFICES ASSUME grState = "IDLE"
               PROVE  grState' = IF ~LineWanted(NewScreen(event), NewLine(event)) THEN "IDLE"
                                 ELSE IF grSetup.aligned THEN "REQUEST" ELSE "INIT_WRITE_BLACK"
    OBVIOUS
  <2>1. GrIdle(NewScreen(event), NewLine(event))
    BY <1>1 DEF GrRequestBus, GrInit, GrRead, GrReads, GrReadDone, GrWriteBlack, GrError
  <2> QED BY <2>1, Zenon DEF GrIdle
<1>5. /\ grState = "REQUEST" => grState' \in {"REQUEST", "INIT"}
      /\ grState = "INIT" => grState' = "READ"
      /\ grState = "REQUEST1" => grState' \in {"REQUEST1", "INIT1"}
      /\ grState = "INIT1" => grState' = "READ1"
      /\ grState = "READ_DONE" => grState' = "IDLE"
      /\ grState = "INIT_WRITE_BLACK" => grState' = "WRITE_BLACK"
      /\ grState = "WRITE_BLACK" => grState' = IF BufferFull THEN "IDLE" ELSE "WRITE_BLACK"
  BY <1>1 DEF GrIdle, GrRequestBus, GrInit, GrRead, GrReads, GrReadDone, GrWriteBlack, GrError
<1>6. Reading' => FALSE
  <2> SUFFICES ASSUME Reading' PROVE FALSE
    OBVIOUS
  <2>1. GrReads' /\ ~GrStarts
    BY <1>3 DEF Reading
  <2> QED BY <1>1, <2>1 DEF GrReads, GrStarts, GrIdle, GrRequestBus, GrInit, GrRead, GrReadDone,
                            GrWriteBlack, GrError
<1>7. GrStarts => grOut' = grPixelAddress /\ grWords' = Burst
  <2>1. GrStarts => ~grBegun
    BY BeginsAlone DEF VbInv, GrPhase
  <2> QED BY <1>2, <2>1 DEF GrOutputs
<1>8. /\ grPixelAddress' = IF event = "screen" THEN grSetup.base ELSE grPixelAddress
      /\ grState # "WRITE_BLACK" =>
           grWriteAddress' = IF grState \in {"INIT", "INIT_WRITE_BLACK"} THEN 0 ELSE grWriteAddress
      /\ grState # "WRITE_BLACK" =>
           grWriteIndex' = IF grState = "READ_DONE" THEN 1 - grWriteIndex ELSE grWriteIndex
  BY <1>2 DEF GrAddresses, NewScreen
<1>9. GrBufferWrite <=> grState = "WRITE_BLACK"
  BY DEF GrBufferWrite
<1> QED BY <1>3, <1>4, <1>5, <1>6, <1>7, <1>8, <1>9

\* A read of the screen that meets no error: what its master does with a word.
LEMMA ReadsOn ==
    ASSUME VbInv, NEW event \in ScreenEvents, ScreenClock(event), GrReads, event # "screen",
           ~busErrorOut, GrPhase'
    PROVE  /\ ~grEndSeen => Reading' /\ grState' = grState /\ (grEndSeen' <=> End)
           /\ grEndSeen => grState' = IF grState = "READ" /\ DualBurst THEN "REQUEST1" ELSE "READ_DONE"
           /\ ~grBegin'
           /\ grWriteIndex' = grWriteIndex
           /\ grPixelAddress' = IF grDataValid THEN grPixelAddress + 1 ELSE grPixelAddress
           /\ grWriteAddress' = IF grDataValid THEN (grWriteAddress + 1) % (2 * BufferWords)
                                ELSE grWriteAddress
           /\ GrBufferWrite <=> grDataValid
           /\ grDataValid' <=> Valid
           /\ Valid => grData' = Word
<1>1. GrClock(ScreenLine \in busGrants, Begin, End, Valid, busErrorOut, RegisterAccess, Word,
              NewScreen(event), NewLine(event))
  BY DEF ScreenClock
<1>2. \/ GrIdle(NewScreen(event), NewLine(event)) \/ GrRequestBus(ScreenLine \in busGrants) \/ GrInit
      \/ GrRead(End, busErrorOut) \/ GrReadDone \/ GrWriteBlack \/ GrError
  BY <1>1 DEF GrClock
<1>3. ~grEndSeen => Reading' /\ grState' = grState /\ (grEndSeen' <=> End)
  BY <1>1, GrGoesOn
<1>4. grEndSeen => grState' = IF grState = "READ" /\ DualBurst THEN "REQUEST1" ELSE "READ_DONE"
  <2> SUFFICES ASSUME grEndSeen
               PROVE  grState' = IF grState = "READ" /\ DualBurst THEN "REQUEST1" ELSE "READ_DONE"
    OBVIOUS
  <2>1. GrRead(End, busErrorOut)
    BY <1>2 DEF GrReads, GrIdle, GrRequestBus, GrInit, GrReadDone, GrWriteBlack, GrError
  <2> QED BY <2>1 DEF GrRead
<1>5. (grDataValid' <=> Valid) /\ (grBegin' <=> GrStarts) /\ (Valid => grData' = Word)
  BY <1>1, Zenon DEF GrClock, GrSlave, GrOutputs
<1>6. ~GrStarts
  BY DEF GrReads, GrStarts
<1>7. /\ grWriteIndex' = grWriteIndex
      /\ grPixelAddress' = IF grDataValid THEN grPixelAddress + 1 ELSE grPixelAddress
      /\ grWriteAddress' = IF grDataValid THEN (grWriteAddress + 1) % (2 * BufferWords)
                           ELSE grWriteAddress
  BY <1>1 DEF GrClock, GrAddresses, GrReads, NewScreen
<1>8. GrBufferWrite <=> grDataValid
  BY DEF GrBufferWrite, GrReads
<1> QED BY <1>3, <1>4, <1>5, <1>6, <1>7, <1>8

\* The wires of such a read: only the memory gives words, and ends it.
LEMMA ReadWires ==
    ASSUME VbInv, Reading, ~busErrorOut,
           FmClock(Begin, End, Valid, busErrorOut, MemoryAccess)
    PROVE  /\ ~Begin /\ (Valid <=> fmValid) /\ (fmValid => Word = fmWord /\ FmMine)
           /\ fmLeft \in Nat
           /\ ~grEndSeen => (End <=> fmEnd) /\ (End => FmMine)
           /\ grEndSeen => ~FmMine /\ fmLeft = 0 /\ ~fmValid
           /\ FmMine' => FmMine /\ ~End
           /\ FmMine => fmOp.read
           /\ ~FmMine => fmLeft = 0 /\ ~fmValid
           /\ fmLeft' = IF End THEN 0 ELSE IF fmValid' THEN fmLeft - 1 ELSE fmLeft
           /\ ~End => fmNext' = IF fmValid' THEN fmNext + 1 ELSE fmNext
           /\ fmValid' => fmWord' = fmNext /\ ~End /\ fmLeft > 0 /\ FmMine
           /\ fmEnd' => fmLeft' = 0 /\ FmMine /\ ~End
           /\ FmMine /\ ~End => FmMine'
<1>1. FmPhase /\ GrPhase /\ CpuPhase /\ CmPhase /\ Exclusive /\ ArbiterOutputs /\ VideoTyped
      /\ fmLeft \in Nat
  BY GraphicsAssumption DEF VbInv, Room
<1>2. ~CpuActs /\ ~CmActs /\ state # "WAIT_BEGIN"
  BY <1>1 DEF Exclusive, GrActs, Reading, GrPhase
<1>3. ~CpuData /\ ~CpuEnd /\ ~grAnswer /\ ~cmValid /\ ~cmEnd /\ ~Begin
  BY <1>1, <1>2, BeginsAlone DEF CpuActs, CpuData, CpuEnd, CpuPhase, CmPhase, CmActs
<1>4. Valid <=> fmValid
  BY <1>3 DEF Valid
<1>5. FmMine => fmOp.read
  BY <1>1, <1>2 DEF FmPhase
<1>6. fmValid => Word = fmWord /\ FmMine
  BY <1>1, <1>3 DEF Word, FmPhase
<1>7. ~grEndSeen => (End <=> fmEnd) /\ (End => FmMine)
  <2> SUFFICES ASSUME ~grEndSeen PROVE (End <=> fmEnd) /\ (End => FmMine)
    OBVIOUS
  <2>1. state \in {"SERVICING", "INIT_BUS_ERROR"}
    BY <1>1 DEF GrPhase, ArbiterOutputs
  <2>2. ~endTransactionOut
    BY <1>1, <2>1 DEF ArbiterOutputs
  <2> QED BY <1>1, <1>3, <2>1, <2>2 DEF End, FmPhase
<1>8. grEndSeen => ~FmMine
  BY <1>1, <1>5, Zenon DEF FmPhase, Reading, GrReads
<1>9. ~FmMine => fmLeft = 0 /\ ~fmValid
  BY <1>1 DEF FmPhase
<1>10. /\ fmActive' <=> (~End /\ (Begin \/ fmActive))
       /\ ~Begin /\ ~End => fmOp' = fmOp
  BY Zenon DEF FmClock, FmTransaction
<1>11. ~End /\ FmMine => FmMine'
  BY <1>3, <1>10 DEF FmMine
<1>12. FmMine' => FmMine /\ ~End
  BY <1>3, <1>10 DEF FmMine
<1>13. /\ fmLeft' = IF End THEN 0 ELSE IF fmValid' THEN fmLeft - 1 ELSE fmLeft
       /\ ~End => fmNext' = IF fmValid' \/ fmDone' THEN fmNext + 1 ELSE fmNext
  BY <1>3 DEF FmClock, FmTransaction
<1>14. End => fmEnd \/ ~FmMine
  BY <1>7, <1>8
<1>15. FmReads(busErrorOut) \/ (FmRests(busErrorOut) /\ (~FmMine \/ fmEnd))
  <2>1. ~FmWrites(Valid, busErrorOut)
    BY <1>5 DEF FmWrites
  <2> QED BY <2>1 DEF FmClock, FmRests
<1>16. CASE FmRests(busErrorOut) /\ (~FmMine \/ fmEnd)
  <2>1. ~fmValid' /\ ~fmEnd' /\ ~fmDone'
    BY <1>16 DEF FmRests
  <2> QED BY <1>1, <1>3, <1>4, <1>5, <1>6, <1>7, <1>8, <1>9, <1>11, <1>12, <1>13, <2>1
<1>17. CASE FmReads(busErrorOut)
  <2>1. FmMine /\ ~fmEnd /\ ~End /\ ~fmDone'
    BY <1>14, <1>17 DEF FmReads, FmPauses
  <2>2. /\ fmValid' => fmWord' = fmNext /\ fmLeft > 0
        /\ fmEnd' => (fmLeft = 1 /\ fmValid') \/ (fmLeft = 0 /\ ~fmValid')
    BY <1>1, <1>17 DEF FmReads, FmPauses
  <2> QED BY <1>1, <1>3, <1>4, <1>5, <1>6, <1>7, <1>8, <1>9, <1>11, <1>12, <1>13, <2>1, <2>2
<1> QED BY <1>15, <1>16, <1>17

\* A burst of the screen begins.
LEMMA BurstStarts ==
    ASSUME VbInv, ScreenTyped, RegisterWrites, LineFollows, grBegin, GrPhase',
           NEW event \in ScreenEvents, ScreenClock(event), event \notin {"screen", "line"},
           ~scDisturbed'
    PROVE  LineFollows' /\ WordsFollow'
<1>1. state = "WAIT_BEGIN" /\ Begin /\ GrReads /\ ~grEndSeen /\ ~busErrorOut /\ ~grDataValid
  BY DEF VbInv, GrPhase, Room, ArbiterOutputs, Begin
<1>2. ~End /\ ~Valid /\ ~FmMine
  BY <1>1, BeginsAlone
<1>3. /\ Reading' /\ grState' = grState /\ ~grEndSeen' /\ ~grBegin' /\ grWriteIndex' = grWriteIndex
      /\ grPixelAddress' = grPixelAddress /\ grWriteAddress' = grWriteAddress
      /\ ~grDataValid' /\ ~GrBufferWrite
  BY <1>1, <1>2, ReadsOn
<1>4. grSetup' = grSetup /\ scBuffers' = scBuffers
  BY <1>3, ScreenStep
<1>5. /\ PictureLine' = PictureLine /\ (DualBurst' <=> DualBurst) /\ LineStart' = LineStart
      /\ PictureLine \in 0 .. BufferWords - 1
  BY LineStep DEF LineWanted, NewLine
<1>6. Total' = Total
  BY <1>3, <1>5 DEF Total
<1>7. LineFollows'
  <2>1. \A i, n : Fetched(i, n)' <=> Fetched(i, n)
    BY <1>4, <1>5 DEF Fetched
  <2> QED BY <1>1, <1>3, <1>4, <1>5, <1>6 DEF LineFollows, Fetched, GrReads
<1>8. ~fmValid' /\ ~fmEnd'
  BY <1>2 DEF ScreenClock, FmClock, FmReads, FmWrites, FmRests
<1>9. fmNext' = grOut /\ (FmMine' => fmLeft' = grWords)
  BY <1>1 DEF ScreenClock, FmClock, FmTransaction, MemoryAccess, FmMine
<1>10. grWriteAddress + grWords = Total /\ grOut = grPixelAddress
  BY DEF LineFollows
<1>11. On' = 0 /\ In' = 0 /\ Coming' = (fmLeft' + 0) + 0
  BY <1>3, <1>8 DEF On, In, Coming
<1>12. grPixelAddress \in Int /\ grWords \in Int
  BY GraphicsAssumption DEF ScreenTyped, VbInv, Room
<1>13. WordsFollow'
  <2>1. FmMine' => Coming' = grWords
    BY <1>9, <1>11, <1>12
  <2> QED BY <1>3, <1>6, <1>8, <1>9, <1>10, <1>11, <1>12, <2>1 DEF WordsFollow
<1> QED BY <1>7, <1>13

\* The word in the register of the data goes to its place, also in the last clock.
LEMMA WordArrives ==
    ASSUME VbInv, ScreenTyped, RegisterWrites, LineFollows, WordsFollow, Reading, GrPhase',
           NEW event \in ScreenEvents, ScreenClock(event), event \notin {"screen", "line"},
           ~scDisturbed'
    PROVE  /\ Fetched(grWriteIndex, grWriteAddress)'
           /\ grPixelAddress' = grPixelAddress + On /\ grWriteAddress' = grWriteAddress + On
           /\ grPixelAddress' = LineStart' + grWriteAddress'
           /\ FmMine => fmLeft \in Nat
<1>1. /\ PictureLine' = PictureLine /\ (DualBurst' <=> DualBurst) /\ LineStart' = LineStart
      /\ LineStart \in Int /\ PictureLine \in 0 .. BufferWords - 1
  BY LineStep DEF LineWanted, NewLine
<1>2. GrReads /\ ~busErrorOut
  BY ScreenStep DEF Reading
<1>3. /\ grWriteIndex' = grWriteIndex
      /\ grPixelAddress' = IF grDataValid THEN grPixelAddress + 1 ELSE grPixelAddress
      /\ grWriteAddress' = IF grDataValid THEN (grWriteAddress + 1) % (2 * BufferWords)
                           ELSE grWriteAddress
      /\ GrBufferWrite <=> grDataValid
  BY <1>2, ReadsOn
<1>4. scBuffers' = IF grDataValid
                  THEN [scBuffers EXCEPT ![grWriteIndex][GrBufferPlace] = GrBufferWord]
                  ELSE scBuffers
  BY <1>3, ScreenStep
<1>5. Fetched(grWriteIndex, grWriteAddress) /\ grPixelAddress = LineStart + grWriteAddress
  BY <1>2 DEF LineFollows, GrReads
<1>6. /\ BufferWords \in Nat \ {0} /\ grWriteAddress \in 0 .. BufferWords /\ fmLeft \in Nat
      /\ BurstWords \in Nat \ {0} /\ BufferWords = 2 * BurstWords /\ grPixelAddress \in Int
  BY GraphicsAssumption DEF VbInv, Room, BufferWords, ScreenTyped
<1>7. CASE grDataValid
  <2>1. grWriteAddress + Coming = Total /\ grData = grPixelAddress
    BY <1>7 DEF WordsFollow
  <2>2. Coming >= 1 /\ Coming \in Int
    BY <1>6, <1>7 DEF Coming
  <2>3. (Total \in Int /\ Total <= BufferWords - 1) \/ Total = BurstWords
    BY <1>1, <1>6 DEF Total
  <2>4. grWriteAddress \in 0 .. BufferWords - 1
    BY <1>6, <2>1, <2>2, <2>3
  <2>5. (grWriteAddress + 1) % (2 * BufferWords) = grWriteAddress + 1
        /\ grWriteAddress % BufferWords = grWriteAddress
    BY <1>6, <2>4, SmallRemainder
  <2>6. scBuffers' = [scBuffers EXCEPT ![grWriteIndex][grWriteAddress] = grPixelAddress]
    BY <1>2, <1>4, <1>7, <2>1, <2>5 DEF GrBufferPlace, GrBufferWord, GrReads
  <2>7. \A p \in 0 .. BufferWords - 1 : scBuffers'[grWriteIndex][p] =
           IF p = grWriteAddress THEN grPixelAddress ELSE scBuffers[grWriteIndex][p]
    BY <2>4, <2>6, BufferStep
  <2>8. \A p \in 0 .. grWriteAddress : scBuffers'[grWriteIndex][p] = LineStart + p
    BY <1>5, <1>6, <2>4, <2>7 DEF Fetched
  <2>9. grWriteAddress' = grWriteAddress + 1 /\ grPixelAddress' = grPixelAddress + 1 /\ On = 1
    BY <1>3, <1>7, <2>5 DEF On
  <2>10. Fetched(grWriteIndex, grWriteAddress)'
    <3>1. 0 .. grWriteAddress' - 1 = 0 .. grWriteAddress
      BY <1>6, <2>9
    <3> QED BY <1>1, <1>3, <2>8, <3>1 DEF Fetched
  <2>11. grPixelAddress' = LineStart' + grWriteAddress'
    BY <1>1, <1>5, <1>6, <2>9
  <2> QED BY <1>6, <2>9, <2>10, <2>11
<1>8. CASE ~grDataValid
  <2>1. scBuffers' = scBuffers /\ grWriteAddress' = grWriteAddress /\ grPixelAddress' = grPixelAddress
        /\ On = 0
    BY <1>3, <1>4, <1>8 DEF On
  <2>2. Fetched(grWriteIndex, grWriteAddress)'
    BY <1>1, <1>3, <1>5, <2>1 DEF Fetched
  <2> QED BY <1>1, <1>5, <1>6, <2>1, <2>2
<1> QED BY <1>7, <1>8 DEF VbInv, VideoTyped

\* The read goes on.
LEMMA WordMoves ==
    ASSUME VbInv, ScreenTyped, RegisterWrites, LineFollows, WordsFollow, Reading, ~grEndSeen, GrPhase',
           NEW event \in ScreenEvents, ScreenClock(event), event \notin {"screen", "line"},
           ~scDisturbed'
    PROVE  LineFollows' /\ WordsFollow'
<1>1. /\ PictureLine' = PictureLine /\ (DualBurst' <=> DualBurst) /\ LineStart' = LineStart
      /\ PictureLine \in 0 .. BufferWords - 1
  BY LineStep DEF LineWanted, NewLine
<1>2. GrReads /\ ~busErrorOut
  BY ScreenStep DEF Reading
<1>3. /\ Reading' /\ grState' = grState /\ (grEndSeen' <=> End) /\ ~grBegin'
      /\ grDataValid' <=> Valid
      /\ Valid => grData' = Word
  BY <1>2, ReadsOn
<1>4. /\ Fetched(grWriteIndex, grWriteAddress)'
      /\ grPixelAddress' = grPixelAddress + On /\ grWriteAddress' = grWriteAddress + On
      /\ grPixelAddress' = LineStart' + grWriteAddress'
  BY WordArrives
<1>5. Total' = Total
  BY <1>1, <1>3 DEF Total
<1>6. LineFollows'
  BY <1>1, <1>2, <1>3, <1>4 DEF LineFollows, GrReads
<1>7. /\ (Valid <=> fmValid) /\ (fmValid => Word = fmWord /\ FmMine)
      /\ fmLeft \in Nat
      /\ (End <=> fmEnd) /\ (End => FmMine)
      /\ FmMine' => FmMine /\ ~End
      /\ fmLeft' = IF End THEN 0 ELSE IF fmValid' THEN fmLeft - 1 ELSE fmLeft
      /\ ~End => fmNext' = IF fmValid' THEN fmNext + 1 ELSE fmNext
      /\ fmValid' => fmWord' = fmNext /\ ~End /\ fmLeft > 0 /\ FmMine
      /\ fmEnd' => fmLeft' = 0
  BY <1>2, ReadWires DEF ScreenClock
<1>8. /\ FmMine => grWriteAddress + Coming = Total
      /\ grDataValid => FmMine
      /\ fmValid => fmWord = grPixelAddress + On
      /\ FmMine => fmNext = (grPixelAddress + On) + In
      /\ fmEnd => fmLeft = 0
  BY DEF WordsFollow
<1>9. /\ grWriteAddress \in Int /\ grPixelAddress \in Int
      /\ On \in 0 .. 1 /\ In \in 0 .. 1 /\ Coming = (fmLeft + In) + On
  BY <1>7 DEF VbInv, Room, ScreenTyped, On, In, Coming
<1>10. On' = In /\ Coming' = (fmLeft' + In') + In /\ In' = IF fmValid' THEN 1 ELSE 0
  BY <1>3, <1>7 DEF On, In, Coming
<1>11. FmMine' \/ grEndSeen' => grWriteAddress' + Coming' = Total'
  <2> SUFFICES ASSUME FmMine' \/ grEndSeen' PROVE grWriteAddress' + Coming' = Total
    BY <1>5
  <2>1. grWriteAddress + ((fmLeft + In) + On) = Total
    BY <1>3, <1>7, <1>8, <1>9
  <2>2. CASE End
    <3>1. fmLeft = 0 /\ fmLeft' = 0 /\ ~fmValid'
      BY <1>7, <1>8, <2>2
    <3> QED BY <1>4, <1>9, <1>10, <2>1, <3>1
  <2>3. CASE ~End
    <3>1. fmLeft' + In' = fmLeft
      BY <1>7, <1>10, <2>3
    <3>2. Coming' = fmLeft + In
      BY <1>10, <3>1
    <3> QED BY <1>4, <1>7, <1>9, <2>1, <3>2
  <2> QED BY <2>2, <2>3, <1>3 DEF Reading, VbInv, VideoTyped
<1>12. grDataValid' => (FmMine' \/ grEndSeen') /\ grData' = grPixelAddress'
  <2> SUFFICES ASSUME Valid PROVE (FmMine' \/ grEndSeen') /\ grData' = grPixelAddress'
    BY <1>3
  <2>1. FmMine /\ ~Begin
    BY <1>2, <1>7, ReadWires DEF ScreenClock
  <2>2. ~End => FmMine'
    BY <1>2, <2>1, ReadWires DEF ScreenClock
  <2> QED BY <1>3, <1>4, <1>7, <1>8, <2>2
<1>13. fmValid' => fmWord' = grPixelAddress' + On'
  BY <1>4, <1>7, <1>8, <1>10
<1>14. FmMine' => fmNext' = (grPixelAddress' + On') + In'
  BY <1>4, <1>7, <1>8, <1>9, <1>10
<1> QED BY <1>6, <1>7, <1>11, <1>12, <1>13, <1>14 DEF WordsFollow

\* The read ends.
LEMMA ReadEnds ==
    ASSUME VbInv, ScreenTyped, RegisterWrites, LineFollows, WordsFollow, Reading, grEndSeen, GrPhase',
           NEW event \in ScreenEvents, ScreenClock(event), event \notin {"screen", "line"},
           ~scDisturbed'
    PROVE  LineFollows' /\ WordsFollow'
<1>1. /\ PictureLine' = PictureLine /\ (DualBurst' <=> DualBurst) /\ LineStart' = LineStart
  BY LineStep DEF LineWanted, NewLine
<1>2. GrReads /\ ~busErrorOut
  BY ScreenStep DEF Reading
<1>3. ~grBegin' /\ grState' = IF grState = "READ" /\ DualBurst THEN "REQUEST1" ELSE "READ_DONE"
  BY <1>2, ReadsOn
<1>4. /\ Fetched(grWriteIndex, grWriteAddress)'
      /\ grWriteAddress' = grWriteAddress + On
      /\ grPixelAddress' = LineStart' + grWriteAddress'
  BY WordArrives
<1>5. fmLeft = 0 /\ ~fmValid
  BY <1>2, ReadWires DEF ScreenClock
<1>6. grWriteAddress + On = Total
  <2>1. Coming = On
    BY <1>5 DEF Coming, On
  <2> QED BY <2>1 DEF WordsFollow
<1>7. ~Reading'
  BY <1>3 DEF Reading, GrReads
<1>8. LineFollows'
  <2>1. CASE grState = "READ" /\ DualBurst
    BY <1>1, <1>3, <1>4, <1>6, <2>1 DEF LineFollows, Total
  <2>2. CASE ~(grState = "READ" /\ DualBurst)
    BY <1>1, <1>3, <1>4, <1>6, <2>2 DEF LineFollows, Total
  <2> QED BY <2>1, <2>2
<1> QED BY <1>7, <1>8 DEF WordsFollow

\* A new screen begins with the first line, whatever was before.
LEMMA PictureBegins ==
    ASSUME VbInv, ScreenTyped, RegisterWrites, NEW event \in ScreenEvents, ScreenClock(event),
           event = "screen", ~scDisturbed', grSetup.aligned
    PROVE  LineFollows' /\ WordsFollow'
<1>1. grState = "IDLE"
  BY ScreenStep
<1>2. LineWanted(NewScreen(event), NewLine(event)) /\ ~GrReads /\ ~GrStarts
  BY <1>1 DEF LineWanted, NewScreen, GrReads, GrStarts
<1>3. grState' = "REQUEST" /\ ~grBegin' /\ ~Reading' /\ grPixelAddress' = grSetup.base
  BY <1>1, <1>2, GrOther
<1>4. LineStart' = grSetup.base
  BY LineStep
<1> QED BY <1>3, <1>4 DEF LineFollows, WordsFollow

\* The states between the reads.
LEMMA PictureRests ==
    ASSUME VbInv, ScreenTyped, RegisterWrites, LineFollows, ~GrReads, PictureLine > 0,
           NEW event \in ScreenEvents, ScreenClock(event), event # "screen",
           ~scDisturbed', grSetup.aligned
    PROVE  LineFollows' /\ WordsFollow'
<1>1. /\ LineStart \in Int /\ PictureLine \in 0 .. BufferWords - 1
      /\ PictureLine' = PictureLine /\ (DualBurst' <=> DualBurst)
      /\ LineStart' = IF LineWanted(FALSE, NewLine(event)) THEN LineStart + PictureLine ELSE LineStart
  BY LineStep
<1>2. /\ grState # "IDLE" => event = "none"
      /\ ~GrBufferWrite => scBuffers' = scBuffers
  BY ScreenStep
<1>3. grState # "IDLE" => LineStart' = LineStart
  BY <1>1, <1>2 DEF LineWanted, NewLine
<1>4. /\ ~Reading' /\ (grBegin' <=> GrStarts) /\ grPixelAddress' = grPixelAddress
      /\ grState # "WRITE_BLACK" =>
           /\ grWriteAddress' = IF grState \in {"INIT", "INIT_WRITE_BLACK"} THEN 0 ELSE grWriteAddress
           /\ grWriteIndex' = IF grState = "READ_DONE" THEN 1 - grWriteIndex ELSE grWriteIndex
           /\ ~GrBufferWrite
  BY GrOther
<1>5. grState \in {"IDLE", "REQUEST", "INIT", "REQUEST1", "INIT1", "READ_DONE"}
  BY DEF LineFollows, GrReads
<1>6. scBuffers' = scBuffers
  BY <1>2, <1>4, <1>5
<1>7. BurstWords \in Nat \ {0} /\ grPixelAddress \in Int /\ grWriteIndex \in {0, 1}
  BY GraphicsAssumption DEF ScreenTyped
<1>8. CASE grState = "IDLE"
  <2>1. CASE LineWanted(FALSE, NewLine(event))
    <3>1. grState' = "REQUEST"
      BY <1>8, <2>1, GrOther DEF GrReads, LineWanted
    <3> QED BY <1>1, <1>4, <1>8, <2>1, <3>1 DEF LineFollows, WordsFollow, GrStarts
  <2>2. CASE ~LineWanted(FALSE, NewLine(event))
    <3>1. grState' = "IDLE"
      <4>1. NewScreen(event) = FALSE
        BY DEF NewScreen
      <4> QED BY <1>8, <2>2, <4>1, GrOther DEF GrReads
    <3>2. Fetched(1 - grWriteIndex, PictureLine)'
      BY <1>1, <1>4, <1>6, <1>8, <2>2 DEF LineFollows, Fetched
    <3> QED BY <1>1, <1>4, <1>8, <2>2, <3>1, <3>2 DEF LineFollows, WordsFollow, GrStarts
  <2> QED BY <2>1, <2>2
<1>9. CASE grState = "REQUEST"
  <2>1. grState' \in {"REQUEST", "INIT"}
    BY <1>9, GrOther
  <2> QED BY <1>3, <1>4, <1>9, <2>1 DEF LineFollows, WordsFollow, GrStarts
<1>10. CASE grState = "INIT"
  <2>1. grState' = "READ" /\ grOut' = grPixelAddress /\ grWords' = Burst
    BY <1>10, GrOther DEF GrStarts
  <2>2. Burst = IF DualBurst THEN BurstWords ELSE PictureLine
    BY <1>10, BurstIsLine DEF VbInv, VideoTyped, RegisterWrites
  <2>3. Total' = IF DualBurst THEN BurstWords ELSE PictureLine
    BY <1>1, <2>1 DEF Total
  <2>4. grWriteAddress' = 0 /\ 0 + Burst = Burst
    BY <1>1, <1>4, <1>7, <1>10, <2>2, GraphicsAssumption DEF BufferWords
  <2>5. Fetched(grWriteIndex, grWriteAddress)' /\ LineStart + 0 = LineStart
    BY <1>1, <2>4 DEF Fetched
  <2> QED BY <1>3, <1>4, <1>10, <2>1, <2>2, <2>3, <2>4, <2>5 DEF LineFollows, WordsFollow
<1>11. CASE grState = "REQUEST1"
  <2>1. grState' \in {"REQUEST1", "INIT1"}
    BY <1>11, GrOther
  <2>2. Fetched(grWriteIndex, grWriteAddress)'
    BY <1>3, <1>4, <1>6, <1>11 DEF LineFollows, Fetched
  <2> QED BY <1>1, <1>3, <1>4, <1>11, <2>1, <2>2 DEF LineFollows, WordsFollow, GrStarts
<1>12. CASE grState = "INIT1"
  <2>1. grState' = "READ1" /\ grOut' = grPixelAddress /\ grWords' = Burst
    BY <1>12, GrOther DEF GrStarts
  <2>2. DualBurst /\ grWriteAddress = BurstWords
    BY <1>12 DEF LineFollows
  <2>3. BurstWords + Burst = PictureLine
    BY <1>12, <2>2, BurstIsLine DEF VbInv, VideoTyped, RegisterWrites
  <2>4. Total' = PictureLine
    BY <1>1, <2>1 DEF Total
  <2>5. Fetched(grWriteIndex, grWriteAddress)'
    BY <1>3, <1>4, <1>6, <1>12 DEF LineFollows, Fetched
  <2> QED BY <1>1, <1>3, <1>4, <1>12, <2>1, <2>2, <2>3, <2>4, <2>5 DEF LineFollows, WordsFollow
<1>13. CASE grState = "READ_DONE"
  <2>1. grState' = "IDLE"
    BY <1>13, GrOther
  <2>2. grWriteAddress = PictureLine /\ Fetched(grWriteIndex, grWriteAddress)
        /\ grPixelAddress = LineStart + grWriteAddress
    BY <1>13 DEF LineFollows
  <2>3. 1 - grWriteIndex' = grWriteIndex
    BY <1>4, <1>7, <1>13
  <2>4. Fetched(1 - grWriteIndex, PictureLine)'
    BY <1>1, <1>3, <1>6, <1>13, <2>2, <2>3 DEF Fetched
  <2> QED BY <1>1, <1>3, <1>4, <1>13, <2>1, <2>2, <2>4 DEF LineFollows, WordsFollow, GrStarts
<1> QED BY <1>5, <1>8, <1>9, <1>10, <1>11, <1>12, <1>13

LEMMA PictureStep ==
    ASSUME VbInv, ScreenTyped, RegisterWrites, PictureUnderWay, GrPhase',
           NEW event \in ScreenEvents, ScreenClock(event)
    PROVE  PictureUnderWay'
<1> SUFFICES ASSUME grSetup'.aligned, ~scDisturbed', PictureLine' > 0
             PROVE  LineFollows' /\ WordsFollow'
  BY DEF PictureUnderWay
<1>1. /\ grSetup' = grSetup /\ PictureLine' = PictureLine
      /\ event # "none" => grState = "IDLE"
      /\ event # "screen" => ~scDisturbed
  BY ScreenStep, LineStep
<1>2. grSetup.aligned /\ PictureLine > 0
  BY <1>1
<1>3. CASE event = "screen"
  BY <1>2, <1>3, PictureBegins
<1>4. CASE event # "screen"
  <2>1. LineFollows /\ WordsFollow
    BY <1>1, <1>2, <1>4 DEF PictureUnderWay
  <2>2. CASE ~GrReads
    BY <1>2, <1>4, <2>1, <2>2, PictureRests
  <2>3. CASE GrReads
    <3>1. event \notin {"screen", "line"}
      BY <1>1, <2>3 DEF GrReads
    <3>2. grBegin \/ (Reading /\ grEndSeen) \/ (Reading /\ ~grEndSeen)
      BY <2>3 DEF Reading
    <3> QED BY <2>1, <3>1, <3>2, BurstStarts, WordMoves, ReadEnds
  <2> QED BY <2>2, <2>3
<1> QED BY <1>3, <1>4

\* A screen without a picture.
LEMMA BlackStep ==
    ASSUME VbInv, ScreenTyped, RegisterWrites, BlackUnderWay,
           NEW event \in ScreenEvents, ScreenClock(event)
    PROVE  BlackUnderWay'
<1> SUFFICES ASSUME ~grSetup'.aligned, ~scDisturbed'
             PROVE  /\ grState' \in {"IDLE", "INIT_WRITE_BLACK", "WRITE_BLACK"}
                    /\ grState' = "IDLE" =>
                         \A p \in 0 .. BufferWords - 1 : scBuffers'[1 - grWriteIndex'][p] = Black
                    /\ grState' = "WRITE_BLACK" =>
                         \A p \in 0 .. grWriteAddress' - 1 : scBuffers'[grWriteIndex'][p] = Black
  BY DEF BlackUnderWay
<1>1. /\ grSetup' = grSetup
      /\ event # "none" => grState = "IDLE"
      /\ event # "screen" => ~scDisturbed
      /\ scBuffers' = IF GrBufferWrite
                      THEN [scBuffers EXCEPT ![grWriteIndex][GrBufferPlace] = GrBufferWord]
                      ELSE scBuffers
  BY ScreenStep
<1>2. ~grSetup.aligned
  BY <1>1
<1>3. BufferWords \in Nat \ {0} /\ grWriteAddress \in 0 .. BufferWords /\ grWriteIndex \in {0, 1}
  BY GraphicsAssumption DEF VbInv, Room, ScreenTyped, BufferWords
<1>4. CASE grState = "IDLE"
  <2>1. grState' = IF ~LineWanted(NewScreen(event), NewLine(event)) THEN "IDLE" ELSE "INIT_WRITE_BLACK"
    BY <1>2, <1>4, GrOther DEF GrReads
  <2>2. CASE event = "screen"
    BY <2>1, <2>2 DEF LineWanted, NewScreen
  <2>3. CASE event # "screen"
    <3>1. scBuffers' = scBuffers /\ grWriteIndex' = grWriteIndex
      BY <1>1, <1>4, GrOther DEF GrReads
    <3> QED BY <1>1, <1>2, <1>4, <2>1, <2>3, <3>1 DEF BlackUnderWay
  <2> QED BY <2>2, <2>3
<1>5. CASE grState # "IDLE"
  <2>1. ~scDisturbed /\ grState \in {"INIT_WRITE_BLACK", "WRITE_BLACK"} /\ ~GrReads
    BY <1>1, <1>2, <1>5 DEF BlackUnderWay, GrReads
  <2>2. CASE grState = "INIT_WRITE_BLACK"
    <3>1. grState' = "WRITE_BLACK" /\ grWriteAddress' = 0
      BY <2>1, <2>2, GrOther
    <3> QED BY <3>1
  <2>3. CASE grState = "WRITE_BLACK"
    <3>1. /\ grWriteIndex' = IF BufferFull THEN 1 - grWriteIndex ELSE grWriteIndex
          /\ grWriteAddress' = IF ~BufferFull THEN (grWriteAddress + 1) % (2 * BufferWords)
                               ELSE grWriteAddress
      BY <2>1, <2>3 DEF ScreenClock, GrClock, GrAddresses
    <3>2. grState' = IF BufferFull THEN "IDLE" ELSE "WRITE_BLACK"
      BY <2>1, <2>3, GrOther
    <3>3. scBuffers' = [scBuffers EXCEPT ![grWriteIndex][grWriteAddress % BufferWords] = Black]
      BY <1>1, <2>3 DEF GrBufferWrite, GrBufferPlace, GrBufferWord
    <3>4. \A p \in 0 .. grWriteAddress - 1 : scBuffers[grWriteIndex][p] = Black
      BY <1>2, <2>1, <2>3 DEF BlackUnderWay
    <3>5. grWriteAddress % BufferWords \in 0 .. BufferWords - 1
      BY <1>3, Remainder
    <3>6. \A p \in 0 .. BufferWords - 1 : scBuffers'[grWriteIndex][p] =
             IF p = grWriteAddress % BufferWords THEN Black ELSE scBuffers[grWriteIndex][p]
      BY <3>3, <3>5, BufferStep
    <3>7. CASE BufferFull
      <4>1. grWriteAddress = BufferWords /\ 1 - grWriteIndex' = grWriteIndex
        BY <1>3, <3>1, <3>7 DEF BufferFull
      <4> QED BY <3>2, <3>4, <3>6, <3>7, <4>1
    <3>8. CASE ~BufferFull
      <4>1. grWriteAddress \in 0 .. BufferWords - 1
        BY <1>3, <3>8 DEF BufferFull
      <4>2. grWriteAddress % BufferWords = grWriteAddress
            /\ (grWriteAddress + 1) % (2 * BufferWords) = grWriteAddress + 1
        BY <1>3, <4>1, SmallRemainder
      <4>3. 0 .. grWriteAddress' - 1 = 0 .. grWriteAddress /\ grWriteIndex' = grWriteIndex
        BY <3>1, <3>8, <4>1, <4>2
      <4>4. \A p \in 0 .. grWriteAddress : scBuffers'[grWriteIndex][p] = Black
        BY <1>3, <3>4, <3>6, <4>1, <4>2
      <4> QED BY <3>2, <3>8, <4>3, <4>4
    <3> QED BY <3>7, <3>8
  <2> QED BY <2>1, <2>2, <2>3
<1> QED BY <1>4, <1>5

ScreenInv == RegisterWrites /\ ScreenTyped /\ PictureUnderWay /\ BlackUnderWay

LEMMA ScreenInit == VideoInit => ScreenInv
<1> SUFFICES ASSUME VideoInit PROVE ScreenInv
  OBVIOUS
<1>1. /\ GrReset /\ scLine = -1 /\ scBase = 0 /\ scDisturbed = TRUE /\ scBuffers = EmptyBuffers
  BY DEF VideoInit
<1>2. BurstWords \in Nat \ {0} /\ BufferWords = 2 * BurstWords
  BY GraphicsAssumption DEF BufferWords
<1>3. RegisterWrites
  BY <1>1, <1>2 DEF RegisterWrites, GrReset, GrMine
<1>4. ScreenTyped
  <2>1. /\ DOMAIN EmptyBuffers = {0, 1}
        /\ \A b \in {0, 1} : DOMAIN EmptyBuffers[b] = 0 .. BufferWords - 1
    BY DEF EmptyBuffers
  <2>2. grWriteIndex = 0 /\ grPixelAddress = 0 /\ grOddLine = FALSE
    BY <1>1 DEF GrReset
  <2>3. scDisturbed \in BOOLEAN /\ (~scDisturbed => scLine >= 0)
    BY <1>1, Zenon
  <2>4. DOMAIN scBuffers = {0, 1} /\ \A b \in {0, 1} : DOMAIN scBuffers[b] = 0 .. BufferWords - 1
    BY <1>1, <2>1
  <2>5. scLine \in Int /\ scLine >= -1 /\ scBase \in Int /\ ~(scLine >= 0)
    BY <1>1
  <2>6. grWriteIndex \in {0, 1} /\ grPixelAddress \in Int
    BY <2>2
  <2>7. grOddLine \in BOOLEAN
    BY <2>2, Zenon
  <2> QED BY <2>3, <2>4, <2>5, <2>6, <2>7, Zenon DEF ScreenTyped
<1> QED BY <1>1, <1>3, <1>4 DEF ScreenInv, PictureUnderWay, BlackUnderWay

LEMMA ScreenNext ==
    ASSUME WidthsServed, VbInv, VbInv', ScreenInv, [VideoNext]_videoVars
    PROVE  ScreenInv'
<1>1. CASE UNCHANGED videoVars
  <2>1. UNCHANGED <<grVars, fmVars, cpOp, scLine, scBuffers, scBase, scDisturbed>>
    BY <1>1 DEF videoVars
  <2>2. /\ grState' = grState /\ grSetup' = grSetup /\ grBegin' = grBegin /\ grOut' = grOut
        /\ grWords' = grWords /\ grEndSeen' = grEndSeen /\ grWriteAddress' = grWriteAddress
        /\ grWriteIndex' = grWriteIndex /\ grOddLine' = grOddLine /\ grPixelAddress' = grPixelAddress
        /\ grSelected' = grSelected /\ grData' = grData /\ grDataValid' = grDataValid
        /\ grWrite' = grWrite /\ grActive' = grActive
        /\ fmNext' = fmNext /\ fmLeft' = fmLeft /\ fmValid' = fmValid /\ fmWord' = fmWord
        /\ fmEnd' = fmEnd /\ fmActive' = fmActive /\ fmOp' = fmOp
    BY <2>1 DEF grVars, fmVars
  <2>3. /\ PictureLine' = PictureLine /\ DualBurst' = DualBurst /\ Line' = Line
        /\ GrMine' = GrMine /\ FmMine' = FmMine /\ GrReads' = GrReads
        /\ On' = On /\ In' = In /\ Coming' = Coming
    BY <2>1, <2>2 DEF PictureLine, DualBurst, Line, GrMine, FmMine, GrReads, On, In, Coming
  <2>4. /\ LineStart' = LineStart /\ Total' = Total /\ Reading' = Reading
    BY <2>1, <2>2, <2>3 DEF LineStart, Total, Reading
  <2>5. RegisterWrites' /\ ScreenTyped'
    BY <2>1, <2>2, <2>3 DEF ScreenInv, RegisterWrites, ScreenTyped
  <2>6. PictureUnderWay'
    BY <2>1, <2>2, <2>3, <2>4 DEF ScreenInv, PictureUnderWay, LineFollows, WordsFollow, Fetched
  <2>7. BlackUnderWay'
    BY <2>1, <2>2 DEF ScreenInv, BlackUnderWay
  <2> QED BY <2>5, <2>6, <2>7 DEF ScreenInv
<1>2. ASSUME NEW screenEvent \in ScreenEvents, NEW sensorEvent \in SensorEvents,
             NEW command \in CameraCommands, VideoClock(screenEvent, sensorEvent, command)
      PROVE  ScreenInv'
  <2>1. ScreenClock(screenEvent) /\ Processor
    BY <1>2 DEF VideoClock, ScreenClock
  <2>2. GrPhase' /\ CpuPhase'
    BY DEF VbInv
  <2>3. RegisterWrites'
    BY <2>1, <2>2, RegistersStep DEF ScreenInv, ScreenClock
  <2>4. ScreenTyped' /\ PictureUnderWay' /\ BlackUnderWay'
    BY <2>1, <2>2, ScreenTypedStep, PictureStep, BlackStep DEF ScreenInv
  <2> QED BY <2>3, <2>4 DEF ScreenInv
<1> QED BY <1>1, <1>2 DEF VideoNext

LEMMA ScreenShows == VbInv /\ ScreenInv => ShownLine
<1> SUFFICES ASSUME VbInv, ScreenInv, grState = "IDLE", ~scDisturbed, scLine >= 0
             PROVE  IF grSetup.aligned
                    THEN \A p \in 0 .. PictureLine - 1 :
                           scBuffers[1 - grWriteIndex][p] = scBase + PictureLine * Line + p
                    ELSE \A p \in DOMAIN scBuffers[1 - grWriteIndex] :
                           scBuffers[1 - grWriteIndex][p] = Black
  BY DEF ShownLine, Line
<1>1. CASE grSetup.aligned
  <2> SUFFICES ASSUME NEW p \in 0 .. PictureLine - 1
               PROVE  scBuffers[1 - grWriteIndex][p] = LineStart + p
    BY <1>1 DEF LineStart
  <2>1. PictureLine > 0
    BY LineSizes, GraphicsAssumption DEF BufferWords, VbInv, VideoTyped, ScreenInv, RegisterWrites
  <2> QED BY <1>1, <2>1 DEF ScreenInv, PictureUnderWay, LineFollows, Fetched
<1>2. CASE ~grSetup.aligned
  <2>1. DOMAIN scBuffers[1 - grWriteIndex] = 0 .. BufferWords - 1
    BY DEF ScreenInv, ScreenTyped
  <2> QED BY <1>2, <2>1 DEF ScreenInv, BlackUnderWay
<1> QED BY <1>1, <1>2

(* The line buffer that is shown holds exactly the line of the picture that   *)
(* belongs to the present line of the screen, unless a line came late or      *)
(* failed or the registers changed since the screen began: for pictures of    *)
(* any width but the one that asks for a whole burst too much, of all colours *)
(* and doublings, in one burst or two, at any address, or black without one.  *)
(* The words of a line are counted on their whole way: those that the memory  *)
(* still has, that are on the bus, in the register and in the buffer are      *)
(* always the words of the burst.                                             *)
THEOREM LineIsShown ==
    ASSUME OwnLines, WidthsServed
    PROVE  VideoSpec => []PictureShown
<1>1. VideoInit => VbInv /\ ScreenInv
  BY InitVb, ScreenInit
<1>2. VbInv /\ ScreenInv /\ [VideoNext]_videoVars => VbInv' /\ ScreenInv'
  BY NextVb, ScreenNext
<1>3. VbInv /\ ScreenInv => PictureShown
  BY VbShared, ScreenShows DEF BusShared, PictureShown
<1> QED BY <1>1, <1>2, <1>3, PTL DEF VideoSpec

=============================================================================
