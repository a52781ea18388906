-------------------------- MODULE BusArbiterProofs --------------------------
(***************************************************************************)
(* Proofs about the bus arbiter, for every number of request lines, every  *)
(* time-out and every power-up content of the queue memory.                *)
(***************************************************************************)
EXTENDS BusArbiter, FiniteSetTheorems, TLAPS

(* A non-empty set of request lines has a highest line (the initial segment *)
(* below it has as many elements as its index says).                        *)
LEMMA HighestLine ==
    ASSUME NEW T \in SUBSET Masters, T # {}
    PROVE  \E m \in T : \A k \in T : k <= m
<1> DEFINE A == {n \in Masters : \E m \in T : m >= n}
           c == Cardinality(A)
<1>1. IsFiniteSet(Masters)
  BY FS_Interval, NAssumption DEF Masters
<1>2. IsFiniteSet(A) /\ c = Cardinality(A) /\ c \in Nat
  <2>1. A \in SUBSET Masters
    OBVIOUS
  <2> HIDE DEF A
  <2> QED BY <1>1, <2>1, FS_Subset, FS_CardinalityType
<1>3. T \subseteq A
  BY NAssumption DEF Masters
<1>4. A # {}
  BY <1>3
<1> HIDE DEF c
<1>5. c # 0
  <2> HIDE DEF A
  <2> QED BY <1>2, <1>4, FS_EmptySet
<1>6. c - 1 \in A
  <2> SUFFICES ASSUME c - 1 \notin A PROVE FALSE
    OBVIOUS
  <2>1. A \subseteq 0 .. c - 2
    <3> SUFFICES ASSUME NEW n \in A, n \notin 0 .. c - 2 PROVE FALSE
      OBVIOUS
    <3>1. n \in Masters /\ n >= c - 1
      BY <1>2, NAssumption DEF Masters
    <3>2. PICK m \in T : m >= n
      OBVIOUS
    <3>3. m \in Int /\ m >= c - 1 /\ c - 1 \in Masters
      BY <1>2, <1>5, <3>1, <3>2, NAssumption DEF Masters
    <3> QED BY <3>2, <3>3
  <2>2. IsFiniteSet(0 .. c - 2) /\ Cardinality(0 .. c - 2) = c - 1
    <3>1. 0 \in Int /\ c - 2 \in Int
      BY <1>2
    <3>2. IsFiniteSet(0 .. c - 2)
      BY <3>1, FS_Interval
    <3>3. Cardinality(0 .. c - 2) = IF 0 > c - 2 THEN 0 ELSE c - 2 - 0 + 1
      BY <3>1, FS_Interval
    <3> QED BY <1>2, <1>5, <3>2, <3>3
  <2>3. c <= c - 1
    <3> HIDE DEF A
    <3>1. Cardinality(A) <= Cardinality(0 .. c - 2)
      BY <2>1, <2>2, FS_Subset
    <3> QED BY <1>2, <2>2, <3>1
  <2> QED BY <1>2, <2>3
<1>7. c \notin A
  <2> SUFFICES ASSUME c \in A PROVE FALSE
    OBVIOUS
  <2>1. 0 .. c \subseteq A
    <3> SUFFICES ASSUME NEW n \in 0 .. c PROVE n \in A
      OBVIOUS
    <3>1. PICK m \in T : m >= c
      OBVIOUS
    <3>2. m \in Int /\ m >= n /\ n \in Masters
      BY <1>2, <3>1, NAssumption DEF Masters
    <3> QED BY <3>2
  <2>2. IsFiniteSet(0 .. c) /\ Cardinality(0 .. c) = c + 1
    BY <1>2, FS_Interval
  <2>3. c + 1 <= c
    <3> HIDE DEF A
    <3> QED BY <1>2, <2>1, <2>2, FS_Subset
  <2> QED BY <1>2, <2>3
<1>8. PICK m \in T : m >= c - 1
  BY <1>6
<1>9. \A k \in T : k <= c - 1
  <2> SUFFICES ASSUME NEW k \in T, ~(k <= c - 1) PROVE FALSE
    OBVIOUS
  <2>1. k >= c /\ c \in Masters
    BY <1>2, NAssumption DEF Masters
  <2> QED BY <1>7, <2>1
<1> QED
  BY <1>2, <1>8, <1>9, NAssumption DEF Masters

(* The priority encoder selects exactly one of the outstanding lines. *)
LEMMA EncoderSelectsOne ==
    ASSUME NEW T \in SUBSET Masters, T # {}
    PROVE  \E m \in T : ToBeQueued(T) = {m}
<1>1. PICK m \in T : \A k \in T : k <= m
  BY HighestLine
<1>2. ToBeQueued(T) = {m}
  <2>1. \A k \in T : (\A j \in T : j <= k) => k = m
    BY <1>1, NAssumption DEF Masters
  <2> QED BY <1>1, <2>1 DEF ToBeQueued
<1> QED BY <1>2

(* When the pointers meet on a non-empty queue, every line is queued, so    *)
(* nothing is outstanding and nothing can be overwritten.                   *)
LEMMA FullQueue ==
    ASSUME TypeOK, QueueConsistent, Occupied = Slots
    PROVE  queuedRequests = Masters
<1> SUFFICES ASSUME NEW m \in Masters, m \notin queuedRequests PROVE FALSE
  BY DEF TypeOK
<1> DEFINE T == Masters \ {m}
           f == [i \in Slots |-> CHOOSE k \in T : memory[i] = {k}]
<1>1. IsFiniteSet(Masters) /\ Cardinality(Masters) = N /\ N \in Nat
  BY FS_Interval, NAssumption DEF Masters
<1>2. IsFiniteSet(T) /\ Cardinality(T) = N - 1
  BY <1>1, FS_RemoveElement
<1>3. Slots = Masters
  BY DEF Slots, Masters
<1>4. \A i \in Slots : \E k \in T : memory[i] = {k}
  BY DEF QueueConsistent, TypeOK
<1>5. \A i \in Slots : f[i] \in T /\ memory[i] = {f[i]}
  BY <1>4
<1>6. f \in [Slots -> T]
  BY <1>5
<1>7. N - 1 < N
  BY <1>1
<1> HIDE DEF f, T
<1>8. \E i, j \in Slots : i # j /\ f[i] = f[j]
  BY <1>1, <1>2, <1>3, <1>6, <1>7, FS_PigeonHole
<1>9. PICK i \in Slots, j \in Slots : i # j /\ f[i] = f[j]
  BY <1>8
<1>10. memory[i] = memory[j]
  BY <1>5, <1>9
<1> QED BY <1>9, <1>10 DEF QueueConsistent

(* The typing of the queue is kept by a clock edge.                         *)
LEMMA EnqueueTyped ==
    ASSUME TypeOK, NEW requests \in SUBSET Masters, NEW removed \in SUBSET Masters,
           Enqueue(requests, removed)
    PROVE  /\ insertPointer' \in Slots
           /\ queuedRequests' \in SUBSET Masters
           /\ memory' \in [Slots -> SUBSET Masters]
           /\ grantMask' \in SUBSET Masters
<1>1. ToBeQueued(Outstanding(requests)) \in SUBSET Masters
  BY DEF ToBeQueued, Outstanding
<1> QED
  BY <1>1, NAssumption DEF Enqueue, WriteEntry, TypeOK, Slots, Increment

(* A clock edge that removes nothing: the queue stays consistent, what is   *)
(* at its head stays there, and nobody leaves it.                           *)
LEMMA KeepConsistent ==
    ASSUME TypeOK, QueueConsistent, NEW requests \in SUBSET Masters,
           QueueKeeps(requests)
    PROVE  /\ QueueConsistent'
           /\ queuedRequests \subseteq queuedRequests'
           /\ removePointer' = removePointer
           /\ queuedRequests # {} => /\ memory'[removePointer] = memory[removePointer]
                                     /\ grantMask' = memory[removePointer]
           /\ removePointer \in Occupied => removePointer \in Occupied'
<1> DEFINE O == Outstanding(requests)
<1>1. CASE O = {}
  <2>1. ToBeQueued(O) = {}
    BY <1>1 DEF ToBeQueued
  <2>2. UNCHANGED <<memory, queuedRequests, insertPointer, removePointer>>
    BY <1>1, <2>1 DEF QueueKeeps, Enqueue, WriteEntry
  <2>3. Occupied' = Occupied
    BY <2>2 DEF Occupied
  <2> QED
    BY <2>2, <2>3 DEF QueueConsistent, QueueKeeps, Enqueue, WriteEntry
<1>2. CASE O # {}
  <2>1. PICK m \in O : ToBeQueued(O) = {m}
    BY <1>2, EncoderSelectsOne DEF Outstanding
  <2>2. m \in Masters /\ m \notin queuedRequests
    BY DEF Outstanding
  <2>3. /\ memory' = [memory EXCEPT ![insertPointer] = {m}]
        /\ queuedRequests' = queuedRequests \cup {m}
        /\ insertPointer' = Increment(insertPointer)
        /\ removePointer' = removePointer
    BY <1>2, <2>1 DEF QueueKeeps, Enqueue, WriteEntry
  <2>4. insertPointer \in Slots /\ removePointer \in Slots /\ memory \in [Slots -> SUBSET Masters]
    BY DEF TypeOK
  <2>5. removePointer = insertPointer => queuedRequests = {}
    <3> SUFFICES ASSUME removePointer = insertPointer, queuedRequests # {} PROVE FALSE
      OBVIOUS
    <3>1. Occupied = Slots
      BY DEF Occupied
    <3> QED BY <2>2, <3>1, FullQueue
  <2>6. insertPointer \notin Occupied
    BY <2>4, <2>5, NAssumption DEF Occupied, Slots
  <2>7. Occupied' = Occupied \cup {insertPointer}
    BY <2>3, <2>4, <2>5, NAssumption DEF Occupied, Slots, Increment
  <2>8. memory'[insertPointer] = {m} /\ \A i \in Occupied : memory'[i] = memory[i]
    BY <2>3, <2>4, <2>6 DEF Occupied
  <2>9. QueueConsistent'
    <3>1. \A i \in Occupied' : \E k \in queuedRequests' : memory'[i] = {k}
      BY <2>3, <2>7, <2>8 DEF QueueConsistent
    <3>2. \A k \in queuedRequests' : \E i \in Occupied' : memory'[i] = {k}
      BY <2>3, <2>7, <2>8 DEF QueueConsistent
    <3>3. \A i \in Occupied : memory'[i] # {m}
      BY <2>2, <2>8 DEF QueueConsistent
    <3>4. \A i, j \in Occupied' : memory'[i] = memory'[j] => i = j
      BY <2>7, <2>8, <3>3 DEF QueueConsistent
    <3> QED BY <3>1, <3>2, <3>4 DEF QueueConsistent
  <2>10. queuedRequests # {} => removePointer # insertPointer
    BY <2>5
  <2> QED
    BY <2>3, <2>4, <2>7, <2>9, <2>10 DEF QueueKeeps, Enqueue, WriteEntry
<1> QED BY <1>1, <1>2

(* A clock edge in REMOVE takes out the head of the queue, also while a     *)
(* request is being written behind its tail.                                *)
LEMMA RemoveConsistent ==
    ASSUME TypeOK, QueueConsistent, NEW requests \in SUBSET Masters,
           queuedRequests # {}, grantMask = memory[removePointer],
           QueueRemoves(requests)
    PROVE  QueueConsistent'
<1> DEFINE O == Outstanding(requests)
           rp == removePointer
           ip == insertPointer
<1>1. ip \in Slots /\ rp \in Slots /\ memory \in [Slots -> SUBSET Masters]
  BY DEF TypeOK
<1>2. rp \in Occupied
  BY <1>1, NAssumption DEF Occupied, Slots
<1>3. PICK h \in queuedRequests : memory[rp] = {h}
  BY <1>2 DEF QueueConsistent
<1>4. \A k \in queuedRequests \ {h} : \E i \in Occupied \ {rp} : memory[i] = {k}
  BY <1>3 DEF QueueConsistent
<1>5. \A i \in Occupied \ {rp} : \E k \in queuedRequests \ {h} : memory[i] = {k}
  BY <1>2, <1>3 DEF QueueConsistent
<1>6. removePointer' = Increment(rp)
  BY DEF QueueRemoves
<1>7. CASE O = {}
  <2>1. ToBeQueued(O) = {}
    BY <1>7 DEF ToBeQueued
  <2>2. /\ UNCHANGED <<memory, insertPointer>>
        /\ queuedRequests' = queuedRequests \ {h}
    BY <1>3, <1>7, <2>1 DEF QueueRemoves, Enqueue, WriteEntry
  <2>3. Occupied' = Occupied \ {rp}
    <3>1. CASE queuedRequests' = {}
      <4>1. Occupied \ {rp} = {}
        BY <1>5, <2>2, <3>1
      <4>2. rp = ip => N = 1
        <5> SUFFICES ASSUME rp = ip PROVE N = 1
          OBVIOUS
        <5>1. Slots \ {rp} = {}
          BY <4>1 DEF Occupied
        <5> QED BY <5>1, <1>1, NAssumption DEF Slots
      <4>3. ip = Increment(rp)
        <5> SUFFICES ASSUME ip # Increment(rp) PROVE FALSE
          OBVIOUS
        <5>1. Increment(rp) \in Occupied \ {rp}
          BY <1>1, <4>2, NAssumption DEF Occupied, Slots, Increment
        <5> QED BY <4>1, <5>1
      <4> QED BY <1>6, <2>2, <3>1, <4>1, <4>3 DEF Occupied
    <3>2. CASE queuedRequests' # {}
      <4>1. Occupied \ {rp} # {}
        BY <1>4, <2>2, <3>2
      <4>2. ip # Increment(rp)
        BY <1>1, <4>1, NAssumption DEF Occupied, Slots, Increment
      <4> QED BY <1>1, <1>6, <2>2, <4>2, NAssumption DEF Occupied, Slots, Increment
    <3> QED BY <3>1, <3>2
  <2> QED
    BY <1>4, <1>5, <2>2, <2>3 DEF QueueConsistent
<1>8. CASE O # {}
  <2>1. PICK m \in O : ToBeQueued(O) = {m}
    BY <1>8, EncoderSelectsOne DEF Outstanding
  <2>2. m \in Masters /\ m \notin queuedRequests
    BY DEF Outstanding
  <2>3. /\ memory' = [memory EXCEPT ![ip] = {m}]
        /\ queuedRequests' = (queuedRequests \ {h}) \cup {m}
        /\ insertPointer' = Increment(ip)
    BY <1>3, <1>8, <2>1, <2>2 DEF QueueRemoves, Enqueue, WriteEntry
  <2>4. rp # ip
    <3> SUFFICES ASSUME rp = ip PROVE FALSE
      OBVIOUS
    <3>1. Occupied = Slots
      BY DEF Occupied
    <3> QED BY <2>2, <3>1, FullQueue
  <2>5. ip \notin Occupied
    BY <1>1, <2>4, NAssumption DEF Occupied, Slots
  <2>6. Occupied' = (Occupied \ {rp}) \cup {ip}
    BY <1>1, <1>6, <2>3, <2>4, NAssumption DEF Occupied, Slots, Increment
  <2>7. memory'[ip] = {m} /\ \A i \in Occupied : memory'[i] = memory[i]
    BY <1>1, <2>3, <2>5 DEF Occupied
  <2>8. \A i \in Occupied \ {rp} : memory[i] # {m}
    BY <1>5, <2>2
  <2>9. \A i \in Occupied' : \E k \in queuedRequests' : memory'[i] = {k}
    BY <1>5, <2>3, <2>6, <2>7
  <2>10. \A k \in queuedRequests' : \E i \in Occupied' : memory'[i] = {k}
    BY <1>4, <2>3, <2>6, <2>7
  <2>11. \A i, j \in Occupied' : memory'[i] = memory'[j] => i = j
    BY <2>6, <2>7, <2>8 DEF QueueConsistent
  <2> QED BY <2>9, <2>10, <2>11 DEF QueueConsistent
<1> QED BY <1>7, <1>8

LEMMA InitIInv == Init => IInv
<1> SUFFICES ASSUME Init PROVE IInv
  OBVIOUS
<1>1. TypeOK
  <2>1. memory \in [Slots -> SUBSET Masters] /\ grantMask \in SUBSET Masters
    BY PowerUpAssumption DEF Init
  <2>2. 0 \in Slots /\ Timeout \in 0 .. Timeout
    BY NAssumption, TimeoutAssumption DEF Slots
  <2> QED BY <2>1, <2>2 DEF Init, TypeOK, States
<1>2. Occupied = {} /\ queuedRequests = {}
  BY DEF Init, Occupied
<1> QED
  BY <1>1, <1>2 DEF Init, IInv, QueueConsistent, ServesHead, Tenured, GrantsOldest

(* The queue part of the invariant across an edge that removes nothing, as  *)
(* every action but Remove and Reset needs it: the typing, and what the     *)
(* master at the head of the queue may rely on.                             *)
LEMMA KeepsStep ==
    ASSUME IInv, NEW requests \in SUBSET Masters, QueueKeeps(requests)
    PROVE  /\ removePointer' \in Slots /\ insertPointer' \in Slots
           /\ queuedRequests' \in SUBSET Masters
           /\ memory' \in [Slots -> SUBSET Masters]
           /\ grantMask' \in SUBSET Masters
           /\ QueueConsistent'
           /\ queuedRequests # {} => /\ queuedRequests' # {}
                                     /\ grantMask' = memory'[removePointer']
                                     /\ memory'[removePointer'] = memory[removePointer]
                                     /\ removePointer' \in Occupied'
<1>1. TypeOK /\ QueueConsistent
  BY DEF IInv
<1>2. Enqueue(requests, {}) /\ removePointer' = removePointer
  BY DEF QueueKeeps
<1>3. /\ insertPointer' \in Slots
      /\ queuedRequests' \in SUBSET Masters
      /\ memory' \in [Slots -> SUBSET Masters]
      /\ grantMask' \in SUBSET Masters
  <2>1. {} \in SUBSET Masters
    OBVIOUS
  <2> QED BY <1>1, <1>2, <2>1, EnqueueTyped
<1>4. queuedRequests # {} => removePointer \in Occupied
  BY <1>1, NAssumption DEF TypeOK, Occupied, Slots
<1> QED
  BY <1>1, <1>2, <1>3, <1>4, KeepConsistent DEF TypeOK

LEMMA NextIInv == IInv /\ [Next]_vars => IInv'
<1> SUFFICES ASSUME IInv, [Next]_vars PROVE IInv'
  OBVIOUS
<1> USE DEF RegisteredOutputs, NoGrant, States
<1>1. CASE UNCHANGED vars
  BY <1>1 DEF vars, queueVars, IInv, TypeOK, QueueConsistent, ServesHead, Tenured,
              GrantsOldest, Occupied
<1>2. ASSUME NEW requests \in SUBSET Masters, NEW begin \in BOOLEAN, NEW end \in BOOLEAN,
             NEW dataValid \in BOOLEAN, Clock(requests, begin, end, dataValid)
      PROVE  IInv'
  <2>1. timeOut \in 0 .. Timeout /\ state \in States /\ activeTransaction \in BOOLEAN
    BY DEF IInv, TypeOK
  <2>2. (CountDown \/ Reload) => timeOut' \in 0 .. Timeout
    BY <2>1, TimeoutAssumption DEF CountDown, Reload, Expired
  <2>3. CASE Idle(requests, begin, end)
    <3>1. TypeOK'
      BY <2>2, <2>3, KeepsStep DEF Idle, TypeOK
    <3>2. ServesHead' /\ GrantsOldest'
      BY <2>3, KeepsStep DEF Idle, ServesHead, Tenured, GrantsOldest
    <3> QED BY <2>3, <3>1, <3>2, KeepsStep DEF Idle, IInv
  <2>4. CASE Grant(requests, begin, end)
    <3>1. queuedRequests # {} /\ grantMask = memory[removePointer]
      BY <2>4 DEF Grant, IInv, ServesHead
    <3>2. TypeOK'
      BY <2>1, <2>2, <2>4, KeepsStep DEF Grant, TypeOK, IInv
    <3>3. ServesHead' /\ GrantsOldest'
      BY <2>4, <3>1, KeepsStep DEF Grant, ServesHead, Tenured, GrantsOldest
    <3> QED BY <2>4, <3>2, <3>3, KeepsStep DEF Grant, IInv
  <2>5. CASE WaitBegin(requests, begin, end)
    <3>1. queuedRequests # {}
      BY <2>5 DEF WaitBegin, IInv, ServesHead, Tenured
    <3>2. TypeOK'
      BY <2>1, <2>2, <2>5, KeepsStep DEF WaitBegin, TypeOK
    <3>3. ServesHead' /\ GrantsOldest'
      BY <2>5, <3>1, KeepsStep DEF WaitBegin, ServesHead, Tenured, GrantsOldest
    <3> QED BY <2>5, <3>2, <3>3, KeepsStep DEF WaitBegin, IInv
  <2>6. CASE Servicing(requests, begin, end, dataValid)
    <3>1. queuedRequests # {}
      BY <2>6 DEF Servicing, IInv, ServesHead, Tenured
    <3>2. TypeOK'
      BY <2>1, <2>2, <2>6, KeepsStep DEF Servicing, TypeOK
    <3>3. ServesHead' /\ GrantsOldest'
      BY <2>6, <3>1, KeepsStep DEF Servicing, ServesHead, Tenured, GrantsOldest
    <3> QED BY <2>6, <3>2, <3>3, KeepsStep DEF Servicing, IInv
  <2>7. CASE InitBusError(requests, end)
    <3>1. activeTransaction => queuedRequests # {}
      BY <2>7 DEF InitBusError, IInv, ServesHead, Tenured
    <3>2. TypeOK'
      BY <2>1, <2>2, <2>7, KeepsStep DEF InitBusError, TypeOK
    <3>3. ServesHead' /\ GrantsOldest'
      BY <2>7, <3>1, KeepsStep DEF InitBusError, ServesHead, Tenured, GrantsOldest
    <3> QED BY <2>7, <3>2, <3>3, KeepsStep DEF InitBusError, IInv
  <2>8. CASE BusError(requests, end)
    <3>1. activeTransaction => queuedRequests # {}
      BY <2>8 DEF BusError, IInv, ServesHead, Tenured
    <3>2. TypeOK'
      BY <2>1, <2>2, <2>8, KeepsStep DEF BusError, TypeOK
    <3>3. ServesHead' /\ GrantsOldest'
      BY <2>8, <3>1, KeepsStep DEF BusError, ServesHead, Tenured, GrantsOldest
    <3> QED BY <2>8, <3>2, <3>3, KeepsStep DEF BusError, IInv
  <2>9. CASE EndTransaction(requests, end)
    <3>1. TypeOK'
      BY <2>1, <2>2, <2>9, KeepsStep DEF EndTransaction, TypeOK
    <3>2. ServesHead' /\ GrantsOldest'
      BY <2>9, KeepsStep DEF EndTransaction, ServesHead, Tenured, GrantsOldest
    <3> QED BY <2>9, <3>1, <3>2, KeepsStep DEF EndTransaction, IInv
  <2>10. CASE Remove(requests, end)
    <3>1. queuedRequests # {} /\ grantMask = memory[removePointer]
      BY <2>10 DEF Remove, IInv, ServesHead, Tenured
    <3>2. QueueConsistent'
      BY <2>10, <3>1, RemoveConsistent DEF Remove, IInv
    <3>3. removePointer' \in Slots
      BY <2>10, NAssumption DEF Remove, QueueRemoves, Increment, IInv, TypeOK, Slots
    <3>4. TypeOK'
      <4>1. grantMask \in SUBSET Masters /\ Enqueue(requests, grantMask) /\ TypeOK
        BY <2>10 DEF Remove, QueueRemoves, IInv, TypeOK
      <4> QED BY <2>1, <2>2, <2>10, <3>3, <4>1, EnqueueTyped DEF Remove, TypeOK
    <3>5. ServesHead' /\ GrantsOldest'
      BY <2>10 DEF Remove, ServesHead, Tenured, GrantsOldest
    <3> QED BY <3>2, <3>4, <3>5 DEF IInv
  <2> QED
    BY <1>2, <2>3, <2>4, <2>5, <2>6, <2>7, <2>8, <2>9, <2>10 DEF Clock
<1>3. ASSUME NEW requests \in SUBSET Masters, Reset(requests)
      PROVE  IInv'
  <2>1. ToBeQueued(Outstanding(requests)) \in SUBSET Masters
    BY DEF ToBeQueued, Outstanding
  <2>2. TypeOK'
    <3>1. 0 \in Slots /\ Timeout \in 0 .. Timeout
      BY NAssumption, TimeoutAssumption DEF Slots
    <3>2. memory' \in [Slots -> SUBSET Masters] /\ grantMask' \in SUBSET Masters
      BY <1>3, <2>1 DEF IInv, TypeOK, Reset, WriteEntry
    <3> QED BY <1>3, <3>1, <3>2 DEF TypeOK, Reset, Reload
  <2>3. Occupied' = {} /\ queuedRequests' = {}
    BY <1>3 DEF Reset, Occupied
  <2> QED
    BY <1>3, <2>2, <2>3 DEF Reset, IInv, QueueConsistent, ServesHead, Tenured, GrantsOldest
<1> QED
  BY <1>1, <1>2, <1>3 DEF Next

THEOREM Invariance == Spec => []IInv
  BY InitIInv, NextIInv, PTL DEF Spec

(* Every register of the arbiter keeps its type.                            *)
THEOREM TypeCorrect == Spec => []TypeOK
<1>1. IInv => TypeOK
  BY DEF IInv
<1> QED BY <1>1, Invariance, PTL

(* The circular memory of pending requests holds every queued master        *)
(* exactly once and never overflows, for any number of request lines.       *)
THEOREM QueueCorrect == Spec => []QueueConsistent
<1>1. IInv => QueueConsistent
  BY DEF IInv
<1> QED BY <1>1, Invariance, PTL

(* While a master has the bus, its entry is still at the head of the queue  *)
(* and the registered read port shows it, resets and time-outs included.    *)
THEOREM HeadCorrect == Spec => []ServesHead
<1>1. IInv => ServesHead
  BY DEF IInv
<1> QED BY <1>1, Invariance, PTL

(* A grant is only ever given to the oldest queued master.                  *)
THEOREM GrantCorrect == Spec => []GrantsOldest
<1>1. IInv => GrantsOldest
  BY DEF IInv
<1> QED BY <1>1, Invariance, PTL
=============================================================================
