--------------------------- MODULE EventBusProofs ---------------------------
(***************************************************************************)
(* Proofs about EventBus for any sets of emitters and consumers and any    *)
(* capacity.                                                               *)
(*                                                                         *)
(* The invariants hold each other up: that the bus holds the newest events *)
(* (HoldsNewest) and that whatever was delivered is older than all of them *)
(* (Older) together make an event reach one consumer at most.              *)
(***************************************************************************)
EXTENDS EventBus, TLAPS, FiniteSetTheorems

\* Whatever was delivered is older than what is waiting.
Older == \A c \in Consumers : result[c] <= emitted - Len(queue)

IInv ==
    /\ TypeOK
    /\ Bounded
    /\ HoldsNewest
    /\ DropsAccounted
    /\ Older
    /\ DeliveredOnce
    /\ NoStrandedWaiter

-----------------------------------------------------------------------------
\* What popping the front of a queue does.
LEMMA TailShifts ==
    ASSUME NEW S, NEW s \in Seq(S), s # <<>>
    PROVE  /\ Tail(s) \in Seq(S) /\ Len(s) \in Nat \ {0}
           /\ Len(Tail(s)) = Len(s) - 1 /\ Head(s) = s[1] /\ Head(s) \in S
           /\ \A i \in 1..Len(Tail(s)) : Tail(s)[i] = s[i + 1]
    OBVIOUS

\* What pushing at the back of a queue does.
LEMMA AppendKeeps ==
    ASSUME NEW S, NEW s \in Seq(S), NEW e \in S
    PROVE  /\ Append(s, e) \in Seq(S) /\ Len(s) \in Nat
           /\ Len(Append(s, e)) = Len(s) + 1
           /\ \A i \in 1..Len(s) : Append(s, e)[i] = s[i]
           /\ Append(s, e)[Len(s) + 1] = e
    OBVIOUS

\* The effect of emit() on the queue: one event more, or as many with the
\* oldest gone; the newest is the last one in both cases.
LEMMA EmitEffect ==
    ASSUME TypeOK, Bounded, HoldsNewest, NEW e \in Emitters, Emit(e)
    PROVE  /\ queue' \in Seq(1..MaxEvents)
           /\ emitted' = emitted + 1 /\ emitted' \in 0..MaxEvents
           /\ \/ /\ Len(queue) < MaxQueue /\ Len(queue') = Len(queue) + 1
                 /\ dropped' = dropped
              \/ Len(queue) = MaxQueue /\ Len(queue') = Len(queue) /\ dropped' = dropped + 1
           /\ \A i \in 1..Len(queue') : queue'[i] = emitted' - Len(queue') + i
<1> DEFINE kept == IF Len(queue) >= MaxQueue THEN Tail(queue) ELSE queue
<1>1. /\ queue' = Append(kept, emitted + 1) /\ emitted' = emitted + 1
      /\ emitted \in Nat /\ emitted + 1 \in 1..MaxEvents /\ emitted + 1 \in 0..MaxEvents
      /\ queue \in Seq(1..MaxEvents) /\ Len(queue) \in Nat /\ Len(queue) <= MaxQueue
      /\ dropped' = IF Len(queue) >= MaxQueue THEN dropped + 1 ELSE dropped
      /\ MaxQueue \in Nat \ {0}
      /\ Len(queue) < MaxQueue => kept = queue
      /\ Len(queue) = MaxQueue => kept = Tail(queue)
    BY BusAssumption DEF Emit, TypeOK, Bounded
<1> HIDE DEF kept
<1>2. /\ kept \in Seq(1..MaxEvents) /\ Len(kept) \in Nat
      /\ \A i \in 1..Len(kept) : kept[i] = emitted - Len(kept) + i
      /\ \/ Len(queue) < MaxQueue /\ Len(kept) = Len(queue)
         \/ Len(queue) = MaxQueue /\ Len(kept) = Len(queue) - 1
  <2>1. CASE Len(queue) < MaxQueue
        BY <1>1, <2>1 DEF HoldsNewest
  <2>2. CASE Len(queue) = MaxQueue
    <3>1. kept = Tail(queue) /\ queue # <<>>
        BY <1>1, <2>2
    <3>2. /\ kept \in Seq(1..MaxEvents) /\ Len(kept) = Len(queue) - 1
          /\ \A i \in 1..Len(kept) : kept[i] = queue[i + 1]
        BY <1>1, <3>1, TailShifts
    <3>3. \A i \in 1..Len(kept) : queue[i + 1] = emitted - Len(kept) + i
      <4>1. SUFFICES ASSUME NEW i \in 1..Len(kept)
                     PROVE  queue[i + 1] = emitted - Len(kept) + i
          OBVIOUS
      <4>2. i + 1 \in 1..Len(queue)
          BY <1>1, <3>2
      <4>3. queue[i + 1] = emitted - Len(queue) + (i + 1)
          BY <4>2 DEF HoldsNewest
      <4>4. QED
          BY <1>1, <3>2, <4>2, <4>3
    <3>4. QED
        BY <1>1, <2>2, <3>1, <3>2, <3>3
  <2>3. QED
        BY <1>1, <2>1, <2>2
<1>3. /\ queue' \in Seq(1..MaxEvents) /\ Len(queue') = Len(kept) + 1
      /\ \A i \in 1..Len(kept) : queue'[i] = kept[i]
      /\ queue'[Len(kept) + 1] = emitted + 1
    BY <1>1, <1>2, AppendKeeps
<1>4. \A i \in 1..Len(queue') : queue'[i] = emitted' - Len(queue') + i
  <2>1. SUFFICES ASSUME NEW i \in 1..Len(queue')
                 PROVE  queue'[i] = emitted' - Len(queue') + i
        OBVIOUS
  <2>2. CASE i \in 1..Len(kept)
        BY <1>1, <1>2, <1>3, <2>2
  <2>3. CASE i = Len(kept) + 1
        BY <1>1, <1>2, <1>3, <2>3
  <2>4. QED
        BY <1>2, <1>3, <2>1, <2>2, <2>3
<1>5. QED
    BY <1>1, <1>2, <1>3, <1>4

\* The effect of a delivery: the consumer gets the oldest waiting event.
LEMMA PopEffect ==
    ASSUME TypeOK, HoldsNewest, NEW c \in Consumers, Pop(c)
    PROVE  /\ queue' \in Seq(1..MaxEvents) /\ Len(queue) \in Nat \ {0}
           /\ Len(queue') = Len(queue) - 1
           /\ result' = [result EXCEPT ![c] = emitted - Len(queue) + 1]
           /\ emitted - Len(queue) + 1 \in 1..MaxEvents
           /\ \A i \in 1..Len(queue') : queue'[i] = emitted - Len(queue') + i
<1>1. queue # <<>> /\ queue' = Tail(queue) /\ result' = [result EXCEPT ![c] = Head(queue)]
    BY DEF Pop
<1>2. /\ queue' \in Seq(1..MaxEvents) /\ Len(queue) \in Nat \ {0}
      /\ Len(queue') = Len(queue) - 1 /\ Head(queue) = queue[1] /\ Head(queue) \in 1..MaxEvents
      /\ \A i \in 1..Len(queue') : queue'[i] = queue[i + 1]
    BY <1>1, TailShifts DEF TypeOK
<1>3. Head(queue) = emitted - Len(queue) + 1
    BY <1>2 DEF HoldsNewest
<1>4. \A i \in 1..Len(queue') : queue'[i] = emitted - Len(queue') + i
  <2>1. SUFFICES ASSUME NEW i \in 1..Len(queue')
                 PROVE  queue'[i] = emitted - Len(queue') + i
        OBVIOUS
  <2>2. i + 1 \in 1..Len(queue)
        BY <1>2
  <2>3. emitted \in Nat
        BY BusAssumption DEF TypeOK
  <2>4. QED
        BY <1>2, <2>2, <2>3 DEF HoldsNewest
<1>5. QED
    BY <1>1, <1>2, <1>3, <1>4

-----------------------------------------------------------------------------
\* Every step keeps the types.
LEMMA TypeStep == IInv /\ [Next]_vars => TypeOK'
<1> SUFFICES ASSUME IInv, [Next]_vars PROVE TypeOK'
    OBVIOUS
<1> USE BusAssumption DEF IInv
<1>1. ASSUME NEW e \in Emitters, Emit(e) PROVE TypeOK'
  <2>1. /\ queue' \in Seq(1..MaxEvents) /\ emitted' \in 0..MaxEvents /\ dropped' \in Nat
    <3>1. /\ queue' \in Seq(1..MaxEvents) /\ emitted' \in 0..MaxEvents
          /\ dropped' = dropped \/ dropped' = dropped + 1
        BY <1>1, EmitEffect
    <3>2. dropped \in Nat
        BY DEF TypeOK
    <3>3. QED
        BY <3>1, <3>2
  <2>2. QED
        BY <1>1, <2>1 DEF Emit, TypeOK
<1>2. ASSUME NEW e \in Emitters, NotifyOne(e) PROVE TypeOK'
    BY <1>2 DEF NotifyOne, Blocked, TypeOK
<1>3. ASSUME NEW c \in Consumers, CallHit(c) \/ ResumeHit(c) PROVE TypeOK'
  <2>1. Pop(c)
        BY <1>3 DEF CallHit, ResumeHit
  <2>2. queue' \in Seq(1..MaxEvents) /\ result' \in [Consumers -> 0..MaxEvents] /\ taken' \in Nat
        BY <2>1, PopEffect DEF TypeOK, Pop
  <2>3. QED
        BY <1>3, <2>2 DEF CallHit, ResumeHit, Pop, TypeOK
<1>4. ASSUME NEW c \in Consumers, CallPollMiss(c) \/ CallWait(c) \/ Expire(c) PROVE TypeOK'
  <2>1. CASE CallPollMiss(c)
        BY <2>1 DEF CallPollMiss, TypeOK
  <2>2. CASE CallWait(c)
        BY <2>2 DEF CallWait, TypeOK
  <2>3. CASE Expire(c)
        BY <2>3 DEF Expire, TypeOK
  <2>4. QED
        BY <1>4, <2>1, <2>2, <2>3
<1>5. ASSUME NEW c \in Consumers, SpuriousWake(c) \/ ResumeSleep(c) \/ ResumeTimeout(c)
      PROVE  TypeOK'
  <2>1. CASE SpuriousWake(c)
        BY <2>1 DEF SpuriousWake, TypeOK
  <2>2. CASE ResumeSleep(c)
        BY <2>2 DEF ResumeSleep, TypeOK
  <2>3. CASE ResumeTimeout(c)
        BY <2>3 DEF ResumeTimeout, TypeOK
  <2>4. QED
        BY <1>5, <2>1, <2>2, <2>3
<1>6. CASE Clear
    BY <1>6 DEF Clear, TypeOK
<1>7. CASE UNCHANGED vars
    BY <1>7 DEF vars, TypeOK
<1>8. QED
    BY <1>1, <1>2, <1>3, <1>4, <1>5, <1>6, <1>7 DEF Next, Resume

\* Every step keeps the bound, the order and the account of the queue.
LEMMA QueueStep ==
    IInv /\ [Next]_vars => Bounded' /\ HoldsNewest' /\ DropsAccounted'
<1> SUFFICES ASSUME IInv, [Next]_vars PROVE Bounded' /\ HoldsNewest' /\ DropsAccounted'
    OBVIOUS
<1> USE BusAssumption DEF IInv
<1>1. ASSUME NEW e \in Emitters, Emit(e) PROVE Bounded' /\ HoldsNewest' /\ DropsAccounted'
  <2>1. /\ Len(queue) \in Nat /\ MaxQueue \in Nat /\ dropped \in Nat /\ base \in Nat /\ taken \in Nat
        /\ emitted \in Nat /\ base' = base /\ taken' = taken
        BY <1>1 DEF TypeOK, Emit
  <2>2. /\ emitted' = emitted + 1
        /\ \/ Len(queue) < MaxQueue /\ Len(queue') = Len(queue) + 1 /\ dropped' = dropped
           \/ Len(queue) = MaxQueue /\ Len(queue') = Len(queue) /\ dropped' = dropped + 1
        /\ \A i \in 1..Len(queue') : queue'[i] = emitted' - Len(queue') + i
        BY <1>1, EmitEffect
  <2>3. Bounded'
        BY <2>1, <2>2 DEF Bounded
  <2>4. DropsAccounted'
        BY <2>1, <2>2 DEF DropsAccounted
  <2>5. QED
        BY <2>2, <2>3, <2>4 DEF HoldsNewest
<1>2. ASSUME NEW c \in Consumers, CallHit(c) \/ ResumeHit(c)
      PROVE  Bounded' /\ HoldsNewest' /\ DropsAccounted'
  <2>1. Pop(c) /\ emitted' = emitted /\ base' = base /\ dropped' = dropped
        BY <1>2 DEF CallHit, ResumeHit
  <2>2. /\ Len(queue) \in Nat /\ MaxQueue \in Nat /\ dropped \in Nat /\ base \in Nat /\ taken \in Nat
        /\ emitted \in Nat /\ taken' = taken + 1
        BY <2>1 DEF TypeOK, Pop
  <2>3. /\ Len(queue') = Len(queue) - 1
        /\ \A i \in 1..Len(queue') : queue'[i] = emitted - Len(queue') + i
        BY <2>1, PopEffect
  <2>4. Bounded'
        BY <2>2, <2>3 DEF Bounded
  <2>5. DropsAccounted'
        BY <2>1, <2>2, <2>3 DEF DropsAccounted
  <2>6. QED
        BY <2>1, <2>3, <2>4, <2>5 DEF HoldsNewest
<1>3. CASE Clear
  <2>1. queue' = <<>> /\ emitted' = emitted /\ base' = emitted /\ taken' = 0 /\ dropped' = 0
        BY <1>3 DEF Clear
  <2>2. Len(queue') = 0 /\ emitted \in Nat /\ MaxQueue \in Nat
        BY <2>1 DEF TypeOK
  <2>3. QED
        BY <2>1, <2>2 DEF Bounded, HoldsNewest, DropsAccounted
<1>4. CASE UNCHANGED <<queue, emitted, base, taken, dropped>>
    BY <1>4 DEF Bounded, HoldsNewest, DropsAccounted
<1>5. QED
    BY <1>1, <1>2, <1>3, <1>4 DEF Next, Resume, NotifyOne, CallPollMiss, CallWait, Expire,
        SpuriousWake, ResumeSleep, ResumeTimeout, vars

\* Every step keeps deliveries older than the queue and distinct.
LEMMA DeliveryStep == IInv /\ [Next]_vars => Older' /\ DeliveredOnce'
<1> SUFFICES ASSUME IInv, [Next]_vars PROVE Older' /\ DeliveredOnce'
    OBVIOUS
<1> USE BusAssumption DEF IInv
<1>0. /\ Len(queue) \in Nat /\ emitted \in Nat /\ result \in [Consumers -> 0..MaxEvents]
      /\ \A c \in Consumers : result[c] \in Nat
    BY DEF TypeOK
<1>1. ASSUME NEW e \in Emitters, Emit(e) PROVE Older' /\ DeliveredOnce'
  <2>1. result' = result
        BY <1>1 DEF Emit
  <2>2. emitted - Len(queue) <= emitted' - Len(queue') /\ emitted' - Len(queue') \in Int
        BY <1>0, <1>1, EmitEffect
  <2>3. QED
        BY <1>0, <2>1, <2>2 DEF Older, DeliveredOnce
<1>2. ASSUME NEW c \in Consumers, CallHit(c) \/ ResumeHit(c) PROVE Older' /\ DeliveredOnce'
  <2>1. Pop(c) /\ emitted' = emitted
        BY <1>2 DEF CallHit, ResumeHit
  <2>2. /\ Len(queue') = Len(queue) - 1
        /\ result' = [result EXCEPT ![c] = emitted - Len(queue) + 1]
        BY <2>1, PopEffect
  <2>3. /\ result'[c] = emitted - Len(queue) + 1
        /\ \A d \in Consumers : d # c => result'[d] = result[d] /\ result[d] <= emitted - Len(queue)
        BY <1>0, <2>2 DEF Older
  <2>4. Older'
        BY <1>0, <2>1, <2>2, <2>3 DEF Older
  <2>5. DeliveredOnce'
    <3>1. \A d \in Consumers : d # c => result'[d] # result'[c]
        BY <1>0, <2>3
    <3>2. QED
        BY <2>3, <3>1 DEF DeliveredOnce
  <2>6. QED
        BY <2>4, <2>5
<1>3. ASSUME NEW c \in Consumers, CallPollMiss(c) \/ ResumeTimeout(c)
      PROVE  Older' /\ DeliveredOnce'
  <2>1. result' = [result EXCEPT ![c] = 0] /\ emitted' = emitted /\ queue' = queue /\ queue = <<>>
        BY <1>3 DEF CallPollMiss, ResumeTimeout
  <2>2. result'[c] = 0 /\ \A d \in Consumers : d # c => result'[d] = result[d]
        BY <1>0, <2>1
  <2>3. QED
        BY <1>0, <2>1, <2>2 DEF Older, DeliveredOnce
<1>4. CASE Clear
  <2>1. result' = result /\ emitted' = emitted /\ queue' = <<>> /\ Len(queue') = 0
        BY <1>4 DEF Clear
  <2>2. QED
        BY <1>0, <2>1 DEF Older, DeliveredOnce
<1>5. CASE UNCHANGED <<queue, emitted, result>>
    BY <1>5 DEF Older, DeliveredOnce
<1>6. QED
    BY <1>1, <1>2, <1>3, <1>4, <1>5 DEF Next, Resume, NotifyOne, CallWait, Expire, SpuriousWake,
        ResumeSleep, vars

\* Every step leaves somebody to answer for each waiting event.
LEMMA WaiterStep == IInv /\ [Next]_vars => NoStrandedWaiter'
<1> SUFFICES ASSUME IInv, [Next]_vars PROVE NoStrandedWaiter'
    OBVIOUS
<1> USE BusAssumption DEF IInv
<1>0. /\ IsFiniteSet(Awake) /\ IsFiniteSet(Notifying) /\ Len(queue) \in Nat
      /\ Cardinality(Awake) \in Nat /\ Cardinality(Notifying) \in Nat
  <2>1. Awake \in SUBSET Consumers /\ Notifying \in SUBSET Emitters /\ Len(queue) \in Nat
        BY DEF Awake, Notifying, TypeOK
  <2>2. QED
        BY <2>1, FS_Subset, FS_CardinalityType
<1>1. ASSUME NEW e \in Emitters, Emit(e) PROVE NoStrandedWaiter'
  <2>1. Notifying' = Notifying \cup {e} /\ e \notin Notifying
        BY <1>1 DEF Emit, Notifying, TypeOK
  <2>2. Awake' = Awake /\ Blocked' = Blocked
        BY <1>1 DEF Emit, Awake, Blocked
  <2>3. Cardinality(Notifying') = Cardinality(Notifying) + 1
        BY <1>0, <2>1, FS_AddElement
  <2>4. Len(queue') \in Nat /\ Len(queue') <= Len(queue) + 1
        BY <1>0, <1>1, EmitEffect
  <2>5. QED
        BY <1>0, <2>2, <2>3, <2>4 DEF NoStrandedWaiter
<1>2. ASSUME NEW e \in Emitters, NotifyOne(e) PROVE NoStrandedWaiter'
  <2>1. Notifying' = Notifying \ {e} /\ e \in Notifying /\ queue' = queue
        BY <1>2 DEF NotifyOne, Notifying, TypeOK
  <2>2. Cardinality(Notifying') = Cardinality(Notifying) - 1
        BY <1>0, <2>1, FS_RemoveElement
  <2>3. CASE Blocked = {}
    <3>1. Blocked' = {}
        BY <1>2, <2>3 DEF NotifyOne, Blocked
    <3>2. QED
        BY <3>1 DEF NoStrandedWaiter
  <2>4. CASE Blocked # {}
    <3>1. PICK c \in Blocked : cpc' = [cpc EXCEPT ![c] = "woken"]
        BY <1>2, <2>4 DEF NotifyOne
    <3>2. Awake' = Awake \cup {c} /\ c \notin Awake
        BY <3>1 DEF Awake, Blocked, TypeOK
    <3>3. Cardinality(Awake') = Cardinality(Awake) + 1
        BY <1>0, <3>2, FS_AddElement
    <3>4. QED
        BY <1>0, <2>1, <2>2, <2>4, <3>3 DEF NoStrandedWaiter
  <2>5. QED
        BY <2>3, <2>4
<1>3. ASSUME NEW c \in Consumers, CallHit(c) PROVE NoStrandedWaiter'
  <2>1. Awake' = Awake /\ Blocked' = Blocked /\ Notifying' = Notifying
        BY <1>3 DEF CallHit, Pop, Awake, Blocked, Notifying, TypeOK
  <2>2. Len(queue') = Len(queue) - 1
        BY <1>3, PopEffect DEF CallHit
  <2>3. QED
        BY <1>0, <2>1, <2>2 DEF NoStrandedWaiter
<1>4. ASSUME NEW c \in Consumers, ResumeHit(c) PROVE NoStrandedWaiter'
  <2>1. Awake' = Awake \ {c} /\ c \in Awake /\ Blocked' = Blocked /\ Notifying' = Notifying
        BY <1>4 DEF ResumeHit, Pop, Awake, Blocked, Notifying, TypeOK
  <2>2. Cardinality(Awake') = Cardinality(Awake) - 1
        BY <1>0, <2>1, FS_RemoveElement
  <2>3. Len(queue') = Len(queue) - 1
        BY <1>4, PopEffect DEF ResumeHit
  <2>4. QED
        BY <1>0, <2>1, <2>2, <2>3 DEF NoStrandedWaiter
<1>5. ASSUME NEW c \in Consumers, Expire(c) \/ SpuriousWake(c) PROVE NoStrandedWaiter'
  <2>1. /\ Awake' = Awake \cup {c} /\ c \notin Awake /\ Blocked # {}
        /\ Notifying' = Notifying /\ queue' = queue
        BY <1>5 DEF Expire, SpuriousWake, Awake, Blocked, Notifying, TypeOK
  <2>2. Cardinality(Awake') = Cardinality(Awake) + 1
        BY <1>0, <2>1, FS_AddElement
  <2>3. QED
        BY <1>0, <2>1, <2>2 DEF NoStrandedWaiter
<1>6. ASSUME queue' = <<>> PROVE NoStrandedWaiter'
  <2>1. Awake' \in SUBSET Consumers /\ Notifying' \in SUBSET Emitters
        BY DEF Awake, Notifying
  <2>2. Cardinality(Awake') \in Nat /\ Cardinality(Notifying') \in Nat
        BY <2>1, FS_Subset, FS_CardinalityType
  <2>3. Len(queue') = 0
        BY <1>6
  <2>4. QED
        BY <2>2, <2>3 DEF NoStrandedWaiter
<1>7. CASE UNCHANGED vars
    BY <1>7 DEF vars, NoStrandedWaiter, Awake, Blocked, Notifying
<1>8. QED
    BY <1>1, <1>2, <1>3, <1>4, <1>5, <1>6, <1>7 DEF Next, Resume, CallPollMiss, CallWait,
        ResumeSleep, ResumeTimeout, Clear

-----------------------------------------------------------------------------
\* The initial state satisfies the inductive invariant.
LEMMA InitIInv == Init => IInv
<1> SUFFICES ASSUME Init PROVE IInv
    OBVIOUS
<1>1. Len(queue) = 0 /\ queue = <<>> /\ Blocked = {}
    BY DEF Init, Blocked
<1>2. /\ queue \in Seq(1..MaxEvents) /\ 0 \in 0..MaxEvents /\ 0 \in Nat
    BY <1>1, BusAssumption
<1>3. TypeOK
    BY <1>2 DEF Init, TypeOK
<1>4. Bounded /\ HoldsNewest /\ DropsAccounted /\ Older
    BY <1>1, BusAssumption DEF Init, Bounded, HoldsNewest, DropsAccounted, Older
<1>5. DeliveredOnce /\ NoStrandedWaiter
    BY <1>1 DEF Init, DeliveredOnce, NoStrandedWaiter
<1>6. QED
    BY <1>3, <1>4, <1>5 DEF IInv

\* IInv holds in every reachable state.
THEOREM Inductive == Spec => []IInv
<1>1. IInv /\ [Next]_vars => IInv'
    BY TypeStep, QueueStep, DeliveryStep, WaiterStep DEF IInv
<1>2. QED
    BY InitIInv, <1>1, PTL DEF Spec

\* For any emitters, consumers and capacity: every variable keeps its type.
THEOREM TypeCorrect == Spec => []TypeOK
<1>1. IInv => TypeOK
    BY DEF IInv
<1>2. QED
    BY Inductive, <1>1, PTL

\* For any emitters, consumers and capacity: the bus stays within its capacity.
THEOREM BusIsBounded == Spec => []Bounded
<1>1. IInv => Bounded
    BY DEF IInv
<1>2. QED
    BY Inductive, <1>1, PTL

\* For any emitters, consumers and capacity: the bus holds the newest events,
\* in the order of their emit().
THEOREM BusHoldsNewest == Spec => []HoldsNewest
<1>1. IInv => HoldsNewest
    BY DEF IInv
<1>2. QED
    BY Inductive, <1>1, PTL

\* For any emitters, consumers and capacity: an event emitted since the last
\* clear() is delivered, waiting or counted as dropped.
THEOREM NoSilentLoss == Spec => []DropsAccounted
<1>1. IInv => DropsAccounted
    BY DEF IInv
<1>2. QED
    BY Inductive, <1>1, PTL

\* For any emitters, consumers and capacity: no event reaches two consumers.
THEOREM AtMostOnce == Spec => []DeliveredOnce
<1>1. IInv => DeliveredOnce
    BY DEF IInv
<1>2. QED
    BY Inductive, <1>1, PTL

\* For any emitters, consumers and capacity: no consumer is left asleep over an
\* event that nobody else will take and nobody is about to notify for.
THEOREM NoLostWakeup == Spec => []NoStrandedWaiter
<1>1. IInv => NoStrandedWaiter
    BY DEF IInv
<1>2. QED
    BY Inductive, <1>1, PTL
=============================================================================
