------------------------------ MODULE EventBus ------------------------------
(***************************************************************************)
(* NotificationEventBus (src/notification_event_bus.cpp): the bounded bus  *)
(* every client's health events go through.  Any thread may emit, any      *)
(* number of consumers may wait in next_event().                           *)
(*                                                                         *)
(* Each section under mtx_ is one step; notify_one() comes after the       *)
(* mutex is released and is a step of its own.  cv_.wait() releases the    *)
(* mutex and falls asleep atomically, and the queue is only ever changed   *)
(* under the mutex, so testing the predicate and sleeping are one step.    *)
(* An event is the number of the emit() that made it.                      *)
(***************************************************************************)
EXTENDS Integers, Sequences, FiniteSets

CONSTANTS
    Emitters,   \* threads that call emit()
    Consumers,  \* threads that call next_event()
    MaxQueue,   \* max_queue_size_
    MaxEvents   \* bound: how many events are emitted

ASSUME BusAssumption ==
    /\ IsFiniteSet(Emitters) /\ IsFiniteSet(Consumers)
    /\ MaxQueue \in Nat \ {0}
    /\ MaxEvents \in Nat

VARIABLES
    queue,      \* queue_
    dropped,    \* dropped_events_
    epc,        \* where each emitter is
    cpc,        \* where each consumer is in next_event()
    timed,      \* whether a waiting consumer gave a timeout (timeout_ms > 0)
    result,     \* the event each consumer got last, 0 for a timeout event
    emitted,    \* number of events emitted so far
    base,       \* value of emitted at the last clear()
    taken       \* number of events delivered since the last clear()

vars == <<queue, dropped, epc, cpc, timed, result, emitted, base, taken>>

Blocked   == {c \in Consumers : cpc[c] = "blocked"}
Awake     == {c \in Consumers : cpc[c] \in {"woken", "expired"}}
Notifying == {e \in Emitters : epc[e] = "notify"}

Init ==
    /\ queue = <<>>
    /\ dropped = 0
    /\ epc = [e \in Emitters |-> "idle"]
    /\ cpc = [c \in Consumers |-> "idle"]
    /\ timed = [c \in Consumers |-> FALSE]
    /\ result = [c \in Consumers |-> 0]
    /\ emitted = 0
    /\ base = 0
    /\ taken = 0

-----------------------------------------------------------------------------
\* A full bus that evicts without counting.
EmitUncounted(e) ==
    /\ epc[e] = "idle"
    /\ emitted < MaxEvents
    /\ emitted' = emitted + 1
    /\ queue' = Append(IF Len(queue) >= MaxQueue THEN Tail(queue) ELSE queue,
                       emitted + 1)
    /\ epc' = [epc EXCEPT ![e] = "notify"]
    /\ UNCHANGED <<dropped, cpc, timed, result, base, taken>>

\* A full bus that evicts the newest event instead of the oldest.
EmitDropNewest(e) ==
    /\ epc[e] = "idle"
    /\ emitted < MaxEvents
    /\ emitted' = emitted + 1
    /\ LET full == Len(queue) >= MaxQueue
       IN  /\ queue' = Append(IF full THEN SubSeq(queue, 1, Len(queue) - 1)
                                      ELSE queue, emitted + 1)
           /\ dropped' = IF full THEN dropped + 1 ELSE dropped
    /\ epc' = [epc EXCEPT ![e] = "notify"]
    /\ UNCHANGED <<cpc, timed, result, base, taken>>

\* emit() under mtx_: a full bus evicts its oldest event and counts it.
Emit(e) ==
    /\ epc[e] = "idle"
    /\ emitted < MaxEvents
    /\ emitted' = emitted + 1
    /\ LET full == Len(queue) >= MaxQueue
       IN  /\ queue' = Append(IF full THEN Tail(queue) ELSE queue, emitted + 1)
           /\ dropped' = IF full THEN dropped + 1 ELSE dropped
    /\ epc' = [epc EXCEPT ![e] = "notify"]
    /\ UNCHANGED <<cpc, timed, result, base, taken>>

\* An emit() that returns without notifying.
NotifyNobody(e) ==
    /\ epc[e] = "notify"
    /\ epc' = [epc EXCEPT ![e] = "idle"]
    /\ UNCHANGED <<queue, dropped, cpc, timed, result, emitted, base, taken>>

\* cv_.notify_one(), mutex released: wakes one sleeper if there is one.
NotifyOne(e) ==
    /\ epc[e] = "notify"
    /\ epc' = [epc EXCEPT ![e] = "idle"]
    /\ IF Blocked = {}
         THEN UNCHANGED cpc
         ELSE \E c \in Blocked : cpc' = [cpc EXCEPT ![c] = "woken"]
    /\ UNCHANGED <<queue, dropped, timed, result, emitted, base, taken>>

-----------------------------------------------------------------------------
\* A consumer that copies the front event and leaves it in the queue.
PopCopying(c) ==
    /\ queue # <<>>
    /\ result' = [result EXCEPT ![c] = Head(queue)]
    /\ taken' = taken + 1
    /\ cpc' = [cpc EXCEPT ![c] = "idle"]
    /\ UNCHANGED queue

\* The end of next_event(): take the front event.
Pop(c) ==
    /\ queue # <<>>
    /\ result' = [result EXCEPT ![c] = Head(queue)]
    /\ queue' = Tail(queue)
    /\ taken' = taken + 1
    /\ cpc' = [cpc EXCEPT ![c] = "idle"]

\* next_event(timeout_ms) finds an event at once, whatever the timeout.
CallHit(c) ==
    /\ cpc[c] = "idle"
    /\ Pop(c)
    /\ UNCHANGED <<dropped, epc, timed, emitted, base>>

\* next_event(0) finds none: a timeout event.  (A timeout below -1 throws
\* before anything is touched.)
CallPollMiss(c) ==
    /\ cpc[c] = "idle"
    /\ queue = <<>>
    /\ result' = [result EXCEPT ![c] = 0]
    /\ UNCHANGED <<queue, dropped, epc, cpc, timed, emitted, base, taken>>

\* next_event(-1), or next_event(t) with t > 0, finds none and sleeps.
CallWait(c) ==
    /\ cpc[c] = "idle"
    /\ queue = <<>>
    /\ cpc' = [cpc EXCEPT ![c] = "blocked"]
    /\ \E t \in BOOLEAN : timed' = [timed EXCEPT ![c] = t]
    /\ UNCHANGED <<queue, dropped, epc, result, emitted, base, taken>>

\* The deadline of wait_for() passes: the consumer leaves the wait set.
Expire(c) ==
    /\ cpc[c] = "blocked"
    /\ timed[c]
    /\ cpc' = [cpc EXCEPT ![c] = "expired"]
    /\ UNCHANGED <<queue, dropped, epc, timed, result, emitted, base, taken>>

\* A sleeper may wake for no reason.
SpuriousWake(c) ==
    /\ cpc[c] = "blocked"
    /\ cpc' = [cpc EXCEPT ![c] = "woken"]
    /\ UNCHANGED <<queue, dropped, epc, timed, result, emitted, base, taken>>

\* Awake with the mutex again: the predicate holds.
ResumeHit(c) ==
    /\ cpc[c] \in {"woken", "expired"}
    /\ Pop(c)
    /\ UNCHANGED <<dropped, epc, timed, emitted, base>>

\* Awake before the deadline, the predicate does not hold: back to sleep.
ResumeSleep(c) ==
    /\ cpc[c] = "woken"
    /\ queue = <<>>
    /\ cpc' = [cpc EXCEPT ![c] = "blocked"]
    /\ UNCHANGED <<queue, dropped, epc, timed, result, emitted, base, taken>>

\* Awake after the deadline, the predicate does not hold: a timeout event.
ResumeTimeout(c) ==
    /\ cpc[c] = "expired"
    /\ queue = <<>>
    /\ result' = [result EXCEPT ![c] = 0]
    /\ cpc' = [cpc EXCEPT ![c] = "idle"]
    /\ UNCHANGED <<queue, dropped, epc, timed, emitted, base, taken>>

\* A clear() that takes the events it throws away off the drop counter.
ClearUncounting ==
    /\ queue' = <<>>
    /\ dropped' = dropped - Len(queue)
    /\ base' = emitted
    /\ taken' = 0
    /\ UNCHANGED <<epc, cpc, timed, result, emitted>>

\* clear()
Clear ==
    /\ queue' = <<>>
    /\ dropped' = 0
    /\ base' = emitted
    /\ taken' = 0
    /\ UNCHANGED <<epc, cpc, timed, result, emitted>>

-----------------------------------------------------------------------------
Resume(c) == ResumeHit(c) \/ ResumeSleep(c) \/ ResumeTimeout(c)

Next ==
    \/ \E e \in Emitters : Emit(e) \/ NotifyOne(e)
    \/ \E c \in Consumers :
          \/ CallHit(c) \/ CallPollMiss(c) \/ CallWait(c)
          \/ Expire(c) \/ SpuriousWake(c) \/ Resume(c)
    \/ Clear

Spec == Init /\ [][Next]_vars

\* A thread inside emit(), and a consumer that is awake, run on.  Nobody has to
\* emit, to consume or to time out.  (A spurious wakeup finds the queue empty or
\* takes an event, so weak fairness of Resume is enough.)
Fairness ==
    /\ \A e \in Emitters : WF_vars(NotifyOne(e))
    /\ \A c \in Consumers : WF_vars(Resume(c))

FairSpec == Spec /\ Fairness

-----------------------------------------------------------------------------
\* Every variable stays in its type.
TypeOK ==
    /\ queue \in Seq(1..MaxEvents)
    /\ dropped \in Nat
    /\ epc \in [Emitters -> {"idle", "notify"}]
    /\ cpc \in [Consumers -> {"idle", "blocked", "woken", "expired"}]
    /\ timed \in [Consumers -> BOOLEAN]
    /\ result \in [Consumers -> 0..MaxEvents]
    /\ emitted \in 0..MaxEvents
    /\ base \in 0..MaxEvents
    /\ taken \in Nat

\* The bus never holds more than max_queue_size_ events.
Bounded == Len(queue) <= MaxQueue

\* The bus holds the newest events, each once and in the order of their emit():
\* eviction, delivery and clear() only ever take from the front.
HoldsNewest ==
    \A i \in 1..Len(queue) : queue[i] = emitted - Len(queue) + i

\* No event vanishes silently: each one emitted since the last clear() was
\* delivered, is waiting, or is counted in dropped_events_.
DropsAccounted == emitted = base + taken + dropped + Len(queue)

\* No event reaches two consumers, whoever was notified for it.
DeliveredOnce ==
    \A c, d \in Consumers : c # d /\ result[c] # 0 => result[c] # result[d]

\* No lost wakeup: while a consumer sleeps, every waiting event has a consumer
\* that is awake, or an emitter about to notify, to answer for it.
NoStrandedWaiter ==
    Blocked # {} => Len(queue) <= Cardinality(Awake) + Cardinality(Notifying)

\* A waiting event and a sleeping consumer meet: one of them goes away.
WaiterServed == (queue # <<>> /\ Blocked # {}) ~> (queue = <<>> \/ Blocked = {})
=============================================================================
