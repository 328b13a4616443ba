---------------------- MODULE NotificationBytesProofs ----------------------
(***************************************************************************)
(* Theorems about NotificationStream that follow the bytes: every drop is  *)
(* reported, the full state means full, no byte is lost in silence, and    *)
(* what comes out is what was sent.  They rest on the types and sessions   *)
(* of NotificationStreamProofs and on the lemmas of                        *)
(* NotificationFramingProofs, and there are two inductive invariants.      *)
(*                                                                         *)
(* Books: the counters, the events and the stream that came out, with      *)
(* every step reduced to an entry (Parsed, Reads, Emits, Pops, Resets ...) *)
(* and every lambda of on_notification_ready to one of three: it leaves    *)
(* the buffer alone, drops a fragment, or cuts a frame off (Stays, Drops,  *)
(* Frames).                                                                *)
(*                                                                         *)
(* Exactness: while all goes well (Smooth), the frames that were popped or *)
(* queued are whole, and with the buffer, what the reactor holds between   *)
(* its two mutexes and what waits in the socket they are the tokens sent,  *)
(* in order.                                                               *)
(***************************************************************************)
EXTENDS NotificationStreamProofs

\* What an event counts for in the two sums is a number.
LEMMA EventFields ==
    ASSUME NEW e \in Events
    PROVE  e.type \in EventType /\ e.delta \in Int /\ e.size \in Nat /\ Admitted(e) \in Nat
BY DEF Events, Admitted

\* The deltas of a sequence of events add up event by event.
LEMMA DeltasAdd ==
    ASSUME NEW es \in Seq(Events)
    PROVE  /\ SumDeltas(es) \in Int /\ SumDeltas(<<>>) = 0
           /\ \A e \in Events : SumDeltas(Append(es, e)) = SumDeltas(es) + e.delta
           /\ \A fs \in Seq(Events) : SumDeltas(es \o fs) = SumDeltas(es) + SumDeltas(fs)
<1> DEFINE m == [e \in Events |-> e.delta]
<1>1. m \in [Events -> Int] /\ \A e \in Events : m[e] = e.delta
    BY EventFields
<1>2. ASSUME NEW s \in Seq(Events) PROVE SumDeltas(s) = Total(Mapped(m, s))
  <2>1. \A i \in DOMAIN s : s[i] \in Events
    BY LenProperties
  <2>2. [i \in DOMAIN s |-> s[i].delta] = Mapped(m, s)
    BY <2>1 DEF Mapped
  <2>3. QED
    BY <2>2 DEF SumDeltas
<1>3. <<>> \in Seq(Events) /\ \A e \in Events : Append(es, e) \in Seq(Events)
    BY EmptySeq, AppendProperties
<1>4. \A fs \in Seq(Events) : es \o fs \in Seq(Events)
    BY ConcatProperties
<1> HIDE DEF m
<1>5. /\ Total(Mapped(m, es)) \in Int /\ Total(Mapped(m, <<>>)) = 0
      /\ \A e \in Events : Total(Mapped(m, Append(es, e))) = Total(Mapped(m, es)) + m[e]
      /\ \A fs \in Seq(Events) : Total(Mapped(m, es \o fs)) = Total(Mapped(m, es)) + Total(Mapped(m, fs))
    BY <1>1, TotalOfMapped, Zenon
<1>6. QED
    BY <1>1, <1>2, <1>3, <1>4, <1>5, Zenon

\* So do the bytes that they admit to have dropped, which are never fewer than none.
LEMMA OrphansAdd ==
    ASSUME NEW es \in Seq(Events)
    PROVE  /\ OrphanBytes(es) \in Nat /\ OrphanBytes(<<>>) = 0
           /\ \A e \in Events : OrphanBytes(Append(es, e)) = OrphanBytes(es) + Admitted(e)
           /\ \A fs \in Seq(Events) : OrphanBytes(es \o fs) = OrphanBytes(es) + OrphanBytes(fs)
<1> DEFINE m == [e \in Events |-> Admitted(e)]
<1>1. m \in [Events -> Int] /\ \A e \in Events : m[e] = Admitted(e) /\ Admitted(e) \in Nat
    BY EventFields
<1>2. ASSUME NEW s \in Seq(Events) PROVE OrphanBytes(s) = Total(Mapped(m, s))
  <2>1. \A i \in DOMAIN s : s[i] \in Events
    BY LenProperties
  <2>2. [i \in DOMAIN s |-> Admitted(s[i])] = Mapped(m, s)
    BY <2>1 DEF Mapped
  <2>3. QED
    BY <2>2 DEF OrphanBytes
<1>3. <<>> \in Seq(Events) /\ \A s \in Seq(Events), e \in Events : Append(s, e) \in Seq(Events)
    BY EmptySeq, AppendProperties
<1>4. \A fs \in Seq(Events) : es \o fs \in Seq(Events)
    BY ConcatProperties
<1> HIDE DEF m
<1>5. ASSUME NEW s \in Seq(Events)
      PROVE  /\ Total(Mapped(m, s)) \in Int /\ Total(Mapped(m, <<>>)) = 0
             /\ \A e \in Events : Total(Mapped(m, Append(s, e))) = Total(Mapped(m, s)) + m[e]
             /\ \A fs \in Seq(Events) :
                   Total(Mapped(m, s \o fs)) = Total(Mapped(m, s)) + Total(Mapped(m, fs))
    BY <1>1, TotalOfMapped, Zenon
<1>6. /\ OrphanBytes(es) \in Int /\ OrphanBytes(<<>>) = 0
      /\ \A fs \in Seq(Events) : OrphanBytes(es \o fs) = OrphanBytes(es) + OrphanBytes(fs)
    BY <1>2, <1>3, <1>4, <1>5, Zenon
<1>7. ASSUME NEW s \in Seq(Events), NEW e \in Events
      PROVE  OrphanBytes(Append(s, e)) = OrphanBytes(s) + Admitted(e)
  <2>1. /\ OrphanBytes(Append(s, e)) = Total(Mapped(m, Append(s, e)))
        /\ OrphanBytes(s) = Total(Mapped(m, s)) /\ m[e] = Admitted(e)
    BY <1>1, <1>2, <1>3
  <2>2. Total(Mapped(m, Append(s, e))) = Total(Mapped(m, s)) + m[e]
    BY <1>5
  <2>3. QED
    BY <2>1, <2>2
<1>8. OrphanBytes(es) \in Nat
  <2> DEFINE P == {s \in Seq(Events) : OrphanBytes(s) \in Nat}
  <2>1. <<>> \in P
    BY <1>3, <1>6
  <2>2. ASSUME NEW s \in Seq(Events), NEW e \in Events, s \in P PROVE Append(s, e) \in P
    BY <1>1, <1>3, <1>7, <2>2
  <2> HIDE DEF P
  <2>3. Seq(Events) \subseteq P
    BY <2>1, <2>2, SeqInduct
  <2>4. QED
    BY <2>3 DEF P
<1>9. QED
    BY <1>6, <1>7, <1>8

-----------------------------------------------------------------------------
\* What a step of the parser does to the books.  The first n tokens leave the buffer;
\* the sum of the deltas and of the admitted bytes are those of the local events.
SameQueue(q, r) ==
    r.queue = q.queue /\ r.dropped = q.dropped /\ r.lastDrop = q.lastDrop /\ r.full = q.full
Cuts(s, r, n) == n \in 1..Len(s.q.rx) /\ r.q.rx = SubSeq(s.q.rx, n + 1, Len(s.q.rx))

\* A frame finds room in the queue, or is counted as dropped, in an event that covers
\* all drops so far or in silence while they are too few.
Accepts(s, r, frame) ==
    /\ ~IsFull(s.q)
    /\ r.q.queue = Append(s.q.queue, frame) /\ r.q.full = s.q.full
    /\ r.q.dropped = s.q.dropped /\ r.q.lastDrop = s.q.lastDrop
    /\ SumDeltas(r.events) = SumDeltas(s.events)
Rejects(s, r) ==
    /\ IsFull(s.q)
    /\ r.q.queue = s.q.queue /\ r.q.full = TRUE
    /\ r.q.dropped = s.q.dropped + 1
    /\ \/ /\ r.q.lastDrop = r.q.dropped
          /\ SumDeltas(r.events) = SumDeltas(s.events) + (r.q.dropped - s.q.lastDrop)
       \/ /\ s.q.dropped + 1 - s.q.lastDrop < Threshold
          /\ r.q.lastDrop = s.q.lastDrop
          /\ SumDeltas(r.events) = SumDeltas(s.events)

\* The buffer stays; a fragment is dropped and admitted; a frame is cut off.
Stays(s, r) ==
    r.q.rx = s.q.rx /\ SameQueue(s.q, r.q) /\ r.events = s.events /\ r.q.incomplete = s.q.incomplete
Drops(s, r, n) ==
    /\ Cuts(s, r, n) /\ SameQueue(s.q, r.q) /\ r.q.incomplete = s.q.incomplete
    /\ SumDeltas(r.events) = SumDeltas(s.events)
    /\ OrphanBytes(r.events) = OrphanBytes(s.events) + n
Frames(s, r, n) ==
    /\ Cuts(s, r, n) /\ r.q.incomplete >= s.q.incomplete
    /\ OrphanBytes(r.events) = OrphanBytes(s.events)
    /\ Accepts(s, r, SubSeq(s.q.rx, 1, n)) \/ Rejects(s, r)

\* enqueue_or_drop_locked as an entry in the books.
LEMMA EnqueueOrDropBooks ==
    ASSUME NEW T, NEW s \in States(T), NEW frame \in Seq(T), NEW size \in Nat
    PROVE  LET r == EnqueueOrDrop(s, frame, size)
           IN  /\ r.q.rx = s.q.rx /\ r.q.incomplete = s.q.incomplete
               /\ OrphanBytes(r.events) = OrphanBytes(s.events)
               /\ Accepts(s, r, frame) \/ Rejects(s, r)
<1> DEFINE delta == s.q.dropped + 1 - s.q.lastDrop
           type  == IF s.q.full THEN "drops" ELSE "full"
           event == Event(type, delta, size)
           longer == Append(s.q.queue, frame)
           r == EnqueueOrDrop(s, frame, size)
<1>1. /\ s.q \in Records(Seq(T), Clock, Seq(Seq(T))) /\ s.events \in Seq(Events) /\ s.queued \in Nat
      /\ {s.q.dropped, s.q.lastDrop} \subseteq Nat /\ Threshold \in Nat
    BY StreamAssumption DEF States, Queues, Records
<1>2. event \in Events /\ Admitted(event) = 0 /\ event.delta = delta
    BY <1>1 DEF Event, Events, EventType, Admitted
<1>3. /\ SumDeltas(Append(s.events, event)) = SumDeltas(s.events) + delta
      /\ OrphanBytes(Append(s.events, event)) = OrphanBytes(s.events)
      /\ SumDeltas(s.events) \in Int
  <2> HIDE DEF event, delta
  <2>1. OrphanBytes(s.events) \in Nat
    BY <1>1, OrphansAdd
  <2>2. QED
    BY <1>1, <1>2, <2>1, DeltasAdd, OrphansAdd
<1> HIDE DEF event
<1>4. CASE ~IsFull(s.q)
  <2>1. /\ r.q.rx = s.q.rx /\ r.q.incomplete = s.q.incomplete /\ r.q.queue = longer
        /\ r.q.dropped = s.q.dropped /\ r.q.lastDrop = s.q.lastDrop /\ r.q.full = s.q.full
        /\ r.events = s.events
    BY <1>1, <1>4 DEF EnqueueOrDrop, States, Records
  <2> HIDE DEF r, longer
  <2>2. QED
    BY <1>4, <2>1 DEF Accepts, r, longer
<1>5. CASE IsFull(s.q) /\ (~s.q.full \/ delta >= Threshold)
  <2>1. /\ r.q.rx = s.q.rx /\ r.q.incomplete = s.q.incomplete /\ r.q.queue = s.q.queue
        /\ r.q.dropped = s.q.dropped + 1 /\ r.q.lastDrop = s.q.dropped + 1 /\ r.q.full = TRUE
        /\ r.events = Append(s.events, event)
    BY <1>1, <1>5 DEF EnqueueOrDrop, States, Records, event
  <2> HIDE DEF r, delta
  <2>2. /\ SumDeltas(r.events) = SumDeltas(s.events) + delta
        /\ OrphanBytes(r.events) = OrphanBytes(s.events)
    BY <1>3, <2>1
  <2>3. delta = r.q.dropped - s.q.lastDrop
    <3>1. \A a, b \in Nat : a + 1 - b = (a + 1) - b
      OBVIOUS
    <3>2. s.q.dropped \in Nat /\ s.q.lastDrop \in Nat
      BY <1>1
    <3>3. delta = (s.q.dropped + 1) - s.q.lastDrop
      BY <3>1, <3>2, Zenon DEF delta
    <3>4. QED
      BY <2>1, <3>3, Zenon
  <2>4. QED
    BY <1>5, <2>1, <2>2, <2>3 DEF Rejects, r
<1>6. CASE IsFull(s.q) /\ s.q.full /\ ~(delta >= Threshold)
  <2>1. /\ r.q.rx = s.q.rx /\ r.q.incomplete = s.q.incomplete /\ r.q.queue = s.q.queue
        /\ r.q.dropped = s.q.dropped + 1 /\ r.q.lastDrop = s.q.lastDrop /\ r.q.full = s.q.full
        /\ r.events = s.events
    BY <1>1, <1>6 DEF EnqueueOrDrop, States, Records
  <2>2. delta < Threshold
    BY <1>1, <1>6
  <2> HIDE DEF r
  <2>3. QED
    BY <1>1, <1>6, <2>1, <2>2 DEF Rejects, r
<1>7. QED
    BY <1>4, <1>5, <1>6

\* A diagnostic of some type leaves all but the events, and the count of partials.
LEMMA AddDiagnosticBooks ==
    ASSUME NEW T, NEW s \in States(T), NEW type \in EventType, NEW size \in Nat
    PROVE  LET r == AddDiagnostic(s, type, size)
           IN  /\ r.q.rx = s.q.rx /\ SameQueue(s.q, r.q)
               /\ r.q.incomplete = s.q.incomplete + IF type \in {"abandoned", "guard"} THEN 1 ELSE 0
               /\ SumDeltas(r.events) = SumDeltas(s.events)
               /\ OrphanBytes(r.events) = OrphanBytes(s.events) + Admitted(Event(type, 0, size))
<1> DEFINE event == Event(type, 0, size)
           r == AddDiagnostic(s, type, size)
<1>1. /\ s.q \in Records(Seq(T), Clock, Seq(Seq(T))) /\ s.events \in Seq(Events) /\ s.queued \in Nat
      /\ s.q.incomplete \in Nat
    BY DEF States, Queues, Records
<1>2. event \in Events /\ event.delta = 0
    BY DEF Event, Events
<1>3. /\ SumDeltas(Append(s.events, event)) = SumDeltas(s.events)
      /\ OrphanBytes(Append(s.events, event)) = OrphanBytes(s.events) + Admitted(event)
  <2> HIDE DEF event
  <2>1. SumDeltas(s.events) \in Int
    BY <1>1, DeltasAdd
  <2>2. QED
    BY <1>1, <1>2, <2>1, DeltasAdd, OrphansAdd
<1> HIDE DEF event
<1>4. /\ r.q.rx = s.q.rx /\ r.events = Append(s.events, event) /\ SameQueue(s.q, r.q)
      /\ r.q.incomplete = IF type \in {"abandoned", "guard"} THEN s.q.incomplete + 1 ELSE s.q.incomplete
    BY <1>1 DEF AddDiagnostic, States, Records, event, SameQueue
<1> HIDE DEF r
<1>5. QED
    BY <1>1, <1>3, <1>4 DEF r, event

\* Erasing takes the front of the buffer, and nothing else.
LEMMA EraseBooks ==
    ASSUME NEW T, NEW s \in States(T), NEW n \in 1..Len(s.q.rx)
    PROVE  LET r == Erase(s, n)
           IN  /\ Cuts(s, r, n) /\ SameQueue(s.q, r.q) /\ r.q.incomplete = s.q.incomplete
               /\ r.events = s.events
<1>1. s.q \in Records(Seq(T), Clock, Seq(Seq(T)))
    BY DEF States, Queues
<1> DEFINE cut == SubSeq(s.q.rx, n + 1, Len(s.q.rx))
           r == Erase(s, n)
<1>2. r = [s EXCEPT !.q.rx = cut, !.q.timer = "off"]
    BY DEF Erase
<1> HIDE DEF cut, r
<1>3. /\ r.q.rx = cut /\ SameQueue(s.q, r.q) /\ r.q.incomplete = s.q.incomplete
      /\ r.events = s.events
    BY <1>1, <1>2 DEF States, Records, SameQueue
<1>4. QED
    BY <1>3 DEF cut, r, Cuts

\* A fragment that is cut off and only reported: admitted, token by token.
LEMMA DropBooks ==
    ASSUME NEW T, NEW s \in States(T), NEW n \in 1..Len(s.q.rx), NEW size \in Nat, NEW type,
           \/ type = "orphan" /\ size = n
           \/ type = "empty" /\ size + 2 = n
    PROVE  Drops(s, AddDiagnostic(Erase(s, n), type, size), n)
<1> DEFINE e == Erase(s, n)
           r == AddDiagnostic(e, type, size)
<1>1. e \in States(T) /\ Cuts(s, e, n) /\ SameQueue(s.q, e.q) /\ e.q.incomplete = s.q.incomplete
      /\ e.events = s.events
  <2>1. s.q.rx \in Seq(T)
    BY DEF States, Queues, Records
  <2>2. n \in 0..Len(s.q.rx)
    BY <2>1
  <2>3. QED
    BY <2>2, EraseEffect, EraseBooks
<1>2. type \in EventType /\ type \notin {"abandoned", "guard"}
    BY DEF EventType
<1>3. Admitted(Event(type, 0, size)) = n
    BY DEF Event, Admitted
<1> HIDE DEF e
<1>4. /\ r.q.rx = e.q.rx /\ SameQueue(e.q, r.q)
      /\ r.q.incomplete = e.q.incomplete + 0
      /\ SumDeltas(r.events) = SumDeltas(e.events)
      /\ OrphanBytes(r.events) = OrphanBytes(e.events) + n
    BY <1>1, <1>2, <1>3, AddDiagnosticBooks
<1>5. e.q.incomplete \in Nat
    BY <1>1 DEF States, Queues, Records
<1> HIDE DEF r
<1>6. Drops(s, r, n)
    BY <1>1, <1>4, <1>5 DEF Drops, Cuts, SameQueue
<1>7. QED
    BY <1>6 DEF e, r

\* A frame that is cut off and queued or counted, with a diagnostic or without.
LEMMA FrameBooks ==
    ASSUME NEW T, NEW s \in States(T), NEW n \in 1..Len(s.q.rx), NEW size \in Nat, NEW told,
           \/ told = Erase(s, n)
           \/ \E type \in {"invalid", "noEom", "abandoned", "guard"}, m \in Nat :
                 told = AddDiagnostic(Erase(s, n), type, m)
    PROVE  LET r == EnqueueOrDrop(told, SubSeq(s.q.rx, 1, n), size)
           IN  Frames(s, r, n) /\ r.q.incomplete = told.q.incomplete
<1> DEFINE e == Erase(s, n)
           frame == SubSeq(s.q.rx, 1, n)
           r == EnqueueOrDrop(told, frame, size)
<1>1. e \in States(T) /\ Cuts(s, e, n) /\ SameQueue(s.q, e.q) /\ e.q.incomplete = s.q.incomplete
      /\ e.events = s.events /\ frame \in Seq(T)
  <2>1. s.q.rx \in Seq(T)
    BY DEF States, Queues, Records
  <2>2. n \in 0..Len(s.q.rx) /\ 1 \in Nat \ {0}
    BY <2>1
  <2>3. frame \in Seq(T)
    BY <2>1, <2>2, Cut
  <2>4. QED
    BY <2>2, <2>3, EraseEffect, EraseBooks
<1> HIDE DEF e, frame
<1>2. /\ told \in States(T) /\ told.q.rx = e.q.rx /\ SameQueue(e.q, told.q)
      /\ told.q.incomplete >= e.q.incomplete
      /\ SumDeltas(told.events) = SumDeltas(e.events)
      /\ OrphanBytes(told.events) = OrphanBytes(e.events)
  <2>1. CASE told = e
    <3>1. e.q.incomplete \in Nat
      BY <1>1 DEF States, Queues, Records
    <3>2. QED
      BY <1>1, <2>1, <3>1 DEF SameQueue
  <2>2. ASSUME NEW type \in {"invalid", "noEom", "abandoned", "guard"}, NEW m \in Nat,
               told = AddDiagnostic(e, type, m)
        PROVE  /\ told \in States(T) /\ told.q.rx = e.q.rx /\ SameQueue(e.q, told.q)
               /\ told.q.incomplete >= e.q.incomplete
               /\ SumDeltas(told.events) = SumDeltas(e.events)
               /\ OrphanBytes(told.events) = OrphanBytes(e.events)
    <3>1. type \in EventType
      BY DEF EventType
    <3>2. Admitted(Event(type, 0, m)) = 0
      BY DEF Event, Admitted
    <3>3. e.events \in Seq(Events)
      BY <1>1 DEF States
    <3>4. OrphanBytes(e.events) \in Nat
      BY <3>3, OrphansAdd
    <3>5. OrphanBytes(told.events) = OrphanBytes(e.events) + 0
      BY <1>1, <2>2, <3>1, <3>2, AddDiagnosticBooks
    <3>6. OrphanBytes(told.events) = OrphanBytes(e.events)
      BY <3>4, <3>5
    <3>7. /\ told.q.rx = e.q.rx /\ SameQueue(e.q, told.q)
          /\ SumDeltas(told.events) = SumDeltas(e.events)
      BY <1>1, <2>2, <3>1, AddDiagnosticBooks
    <3>8. told \in States(T)
      BY <1>1, <2>2, <3>1, AddDiagnosticEffect
    <3>9. told.q.incomplete >= e.q.incomplete
      <4>1. told.q.incomplete = e.q.incomplete + IF type \in {"abandoned", "guard"} THEN 1 ELSE 0
        BY <1>1, <2>2, <3>1, AddDiagnosticBooks
      <4>2. e.q.incomplete \in Nat
        BY <1>1 DEF States, Queues, Records
      <4>3. QED
        BY <4>1, <4>2
    <3>10. QED
      BY <3>6, <3>7, <3>8, <3>9
  <2>3. QED
    BY <2>1, <2>2 DEF e
<1>3. /\ r.q.rx = told.q.rx /\ r.q.incomplete = told.q.incomplete
      /\ OrphanBytes(r.events) = OrphanBytes(told.events)
      /\ Accepts(told, r, frame) \/ Rejects(told, r)
    BY <1>1, <1>2, EnqueueOrDropBooks
<1> HIDE DEF r
<1>4. IsFull(told.q) <=> IsFull(s.q)
    BY <1>1, <1>2 DEF IsFull, SameQueue
<1>5. /\ told.q.queue = s.q.queue /\ told.q.full = s.q.full /\ told.q.dropped = s.q.dropped
      /\ told.q.lastDrop = s.q.lastDrop /\ SumDeltas(told.events) = SumDeltas(s.events)
    BY <1>1, <1>2 DEF SameQueue
<1>6. Accepts(told, r, frame) => Accepts(s, r, frame)
    BY <1>4, <1>5 DEF Accepts
<1>7. Rejects(told, r) => Rejects(s, r)
    BY <1>4, <1>5 DEF Rejects
<1>8. QED
    BY <1>1, <1>2, <1>3, <1>6, <1>7 DEF Frames, Cuts, frame, r

-----------------------------------------------------------------------------
\* The state as a record, and its buffer.
LEMMA StateFields ==
    ASSUME NEW T, State \in States(T)
    PROVE  /\ State.q = nq /\ State.events = events /\ State.queued = queued
           /\ nq \in Records(Seq(T), Clock, Seq(Seq(T))) /\ nq.rx \in Seq(T) /\ Len(nq.rx) \in Nat
           /\ nq.queue \in Seq(Seq(T)) /\ nq.full \in BOOLEAN /\ events \in Seq(Events)
           /\ {nq.dropped, nq.lastDrop, nq.incomplete} \subseteq Nat
<1>1. State.q = nq /\ State.events = events /\ State.queued = queued
    BY DEF State
<1>2. nq \in Records(Seq(T), Clock, Seq(Seq(T))) /\ events \in Seq(Events)
    BY <1>1 DEF States, Queues
<1>3. QED
    BY <1>1, <1>2 DEF Records

\* A step that sets the timer, or nothing, leaves the books alone.
LEMMA TimerBooks ==
    ASSUME NEW T, State \in States(T), UNCHANGED localVars,
           nq' = nq \/ \E c \in Clock : nq' = [nq EXCEPT !.timer = c]
    PROVE  Stays(State, NewState)
<1>1. /\ State.q = nq /\ State.events = events /\ nq \in Records(Seq(T), Clock, Seq(Seq(T)))
    BY StateFields
<1>2. NewState.q = nq' /\ NewState.events = events
    BY DEF NewState, localVars
<1>3. /\ nq'.rx = nq.rx /\ nq'.incomplete = nq.incomplete /\ SameQueue(nq, nq')
    BY <1>1 DEF Records, SameQueue
<1>4. QED
    BY <1>1, <1>2, <1>3 DEF Stays

\* The head of the loop drops an orphan prefix, or nothing.
LEMMA TopBooks ==
    ASSUME NEW T, State \in States(T), ParseTop
    PROVE  LET start == FindStart(nq.rx, 1)
           IN  \/ Stays(State, NewState)
               \/ /\ start > 1 /\ ~Blank(SubSeq(nq.rx, 1, start - 1))
                  /\ Drops(State, NewState, start - 1)
<1> DEFINE start == FindStart(nq.rx, 1)
           r == AddDiagnostic(Erase(State, start - 1), "orphan", start - 1)
<1>1. State.q = nq /\ nq.rx \in Seq(T) /\ Len(nq.rx) \in Nat
    BY StateFields
<1>2. CASE (nq' = [nq EXCEPT !.timer = "off"] \/ UNCHANGED nq) /\ UNCHANGED localVars
  <2>1. "off" \in Clock
    BY DEF Clock
  <2>2. Stays(State, NewState)
    BY <1>2, <2>1, TimerBooks
  <2>3. QED
    BY <2>2
<1>3. CASE start > 1 /\ ~BenignPrefix(SubSeq(nq.rx, 1, start - 1)) /\ Store(r)
  <2>1. start \in {0} \cup 1..Len(nq.rx)
    BY <1>1, SearchesStayInside DEF FindStart
  <2> HIDE DEF start
  <2>2. start - 1 \in 1..Len(State.q.rx) /\ start - 1 \in 0..Len(State.q.rx) /\ start - 1 \in Nat
    BY <1>1, <1>3, <2>1
  <2>3. Drops(State, r, start - 1)
    <3>1. ASSUME NEW n \in 1..Len(State.q.rx), n \in Nat
          PROVE  Drops(State, AddDiagnostic(Erase(State, n), "orphan", n), n)
      BY <3>1, DropBooks
    <3>2. QED
      BY <2>2, <3>1
  <2>4. r \in States(T)
    BY <2>2, FragmentEffect DEF EventType
  <2>5. NewState = r
    BY <1>3, <2>4, StoreIsNewState
  <2>6. QED
    BY <1>3, <2>3, <2>5 DEF start, BenignPrefix
<1>4. QED
  <2>1. localVars' = localVars <=> UNCHANGED localVars
    OBVIOUS
  <2>2. (nq' = nq /\ UNCHANGED localVars) <=> UNCHANGED <<nq, localVars>>
    BY DEF localVars
  <2>3. QED
    BY <1>2, <1>3, <2>2 DEF ParseTop

\* The inner loop cuts a frame off, and drops it only if it is empty.
LEMMA EomBooks ==
    ASSUME NEW T, State \in States(T), ParseEom
    PROVE  LET eom == FindEom(nq.rx)
           IN  \/ eom = 0 /\ Stays(State, NewState)
               \/ /\ eom # 0 /\ Blank(SubSeq(nq.rx, 1, eom - 1))
                  /\ Drops(State, NewState, eom + 1)
               \/ /\ eom # 0
                  /\ Frames(State, NewState, eom + 1) /\ NewState.q.incomplete = nq.incomplete
<1> DEFINE eom == FindEom(nq.rx)
<1>1. State.q = nq /\ nq.rx \in Seq(T) /\ Len(nq.rx) \in Nat
    BY StateFields
<1>2. CASE eom = 0
  <2>1. "off" \in Clock /\ UNCHANGED localVars
        /\ (nq' = [nq EXCEPT !.timer = "off"] \/ nq' = nq)
    BY <1>2 DEF Clock, ParseEom
  <2>2. Stays(State, NewState)
    BY <2>1, TimerBooks
  <2>3. QED
    BY <1>2, <2>2
<1>3. CASE eom # 0
  <2>1. eom \in 1..(Len(nq.rx) - 1)
    BY <1>1, <1>3, SearchesStayInside
  <2>2. Store(ProcessEomFrame(State, eom))
    BY <1>3 DEF ParseEom
  <2> HIDE DEF eom
  <2>3. ProcessEomFrame(State, eom) \in States(T)
    BY <1>1, <2>1, ProcessEomFrameEffect
  <2>4. NewState = ProcessEomFrame(State, eom)
    BY <2>2, <2>3, StoreIsNewState
  <2> DEFINE frame == SubSeq(nq.rx, 1, eom - 1)
             whole == SubSeq(nq.rx, 1, eom + 1)
             rest  == Erase(State, eom + 1)
  <2>5. /\ eom + 1 \in 1..Len(State.q.rx) /\ eom - 1 \in 0..Len(nq.rx) /\ 1 \in Nat \ {0}
        /\ eom - 1 \in Nat /\ eom + 1 \in Nat
    BY <1>1, <2>1
  <2>6. Len(frame) = eom - 1
    <3>1. Len(frame) = IF 1 <= eom - 1 THEN (eom - 1) - 1 + 1 ELSE 0
      BY <1>1, <2>5, Cut
    <3> HIDE DEF frame
    <3>2. QED
      BY <2>1, <2>5, <3>1
  <2>7. Len(frame) + 2 = eom + 1 /\ Len(frame) \in Nat
    <3> HIDE DEF frame
    <3> QED
      BY <2>1, <2>5, <2>6
  <2> HIDE DEF frame, whole, rest
  <2>8. CASE Blank(frame)
    <3>1. NewState = AddDiagnostic(rest, "empty", Len(frame))
      BY <1>1, <2>4, <2>8 DEF ProcessEomFrame, frame, rest
    <3>2. Drops(State, NewState, eom + 1)
      BY <2>5, <2>7, <3>1, DropBooks DEF rest
    <3>3. QED
      BY <1>3, <2>8, <3>2 DEF frame, eom
  <2>9. CASE ~Blank(frame)
    <3>1. rest.q.incomplete = nq.incomplete /\ rest \in States(T)
      <4>1. eom + 1 \in 0..Len(State.q.rx)
        BY <2>5
      <4>2. QED
        BY <1>1, <2>5, <4>1, EraseBooks, EraseEffect DEF rest
    <3>2. CASE NewState = EnqueueOrDrop(rest, whole, 0)
      <4>1. Frames(State, NewState, eom + 1) /\ NewState.q.incomplete = rest.q.incomplete
        BY <1>1, <2>5, <3>2, FrameBooks DEF rest, whole
      <4>2. QED
        BY <1>3, <3>1, <4>1 DEF eom
    <3>3. CASE NewState = EnqueueOrDrop(AddDiagnostic(rest, "invalid", Len(frame)), whole, Len(frame))
      <4> DEFINE told == AddDiagnostic(rest, "invalid", Len(frame))
      <4>1. \E type \in {"invalid", "noEom", "abandoned", "guard"}, m \in Nat :
               told = AddDiagnostic(Erase(State, eom + 1), type, m)
        BY <2>7 DEF rest
      <4>2. told.q.incomplete = rest.q.incomplete + 0
        BY <2>7, <3>1, AddDiagnosticBooks DEF EventType
      <4>3. rest.q.incomplete \in Nat
        BY <3>1 DEF States, Queues, Records
      <4> HIDE DEF told
      <4>4. NewState = EnqueueOrDrop(told, SubSeq(State.q.rx, 1, eom + 1), Len(frame))
        BY <1>1, <3>3 DEF told, whole
      <4>5. Frames(State, NewState, eom + 1) /\ NewState.q.incomplete = told.q.incomplete
        BY <2>5, <2>7, <4>1, <4>4, FrameBooks
      <4>6. QED
        BY <1>3, <3>1, <4>2, <4>3, <4>5 DEF eom
    <3>4. QED
      BY <1>1, <2>4, <2>9, <3>2, <3>3 DEF ProcessEomFrame, frame, whole, rest
  <2>10. QED
    BY <2>8, <2>9
<1>4. QED
    BY <1>2, <1>3

\* A fragment that is cut off, reported and treated as a frame.
LEMMA FragmentBooks ==
    ASSUME NEW T, NEW s \in States(T), NEW n \in 1..Len(s.q.rx),
           NEW type \in {"noEom", "abandoned", "guard"}
    PROVE  LET r == EnqueueOrDrop(AddDiagnostic(Erase(s, n), type, n), SubSeq(s.q.rx, 1, n), n)
           IN  /\ r \in States(T) /\ Frames(s, r, n)
               /\ type # "noEom" => r.q.incomplete = s.q.incomplete + 1
<1> DEFINE e == Erase(s, n)
           told == AddDiagnostic(e, type, n)
           r == EnqueueOrDrop(told, SubSeq(s.q.rx, 1, n), n)
<1>1. s.q.rx \in Seq(T) /\ s.q.incomplete \in Nat
    BY DEF States, Queues, Records
<1>2. n \in 0..Len(s.q.rx) /\ n \in Nat /\ type \in EventType
    BY <1>1 DEF EventType
<1>3. r \in States(T)
    BY <1>2, FragmentEffect
<1>4. e \in States(T) /\ e.q.incomplete = s.q.incomplete
    BY <1>2, EraseEffect, EraseBooks
<1>5. \E t \in {"invalid", "noEom", "abandoned", "guard"}, m \in Nat :
         told = AddDiagnostic(Erase(s, n), t, m)
    BY <1>2
<1> HIDE DEF e
<1>6. type # "noEom" => told.q.incomplete = s.q.incomplete + 1
    BY <1>2, <1>4, AddDiagnosticBooks
<1> HIDE DEF told
<1>7. Frames(s, r, n) /\ r.q.incomplete = told.q.incomplete
    BY <1>2, <1>5, FrameBooks
<1> HIDE DEF r
<1>8. QED
    BY <1>3, <1>6, <1>7 DEF r, told, e

\* The guards take the whole buffer as an incomplete notification.
LEMMA FinalizeBooks ==
    ASSUME NEW T, NEW s \in States(T), s.q.rx # <<>>
    PROVE  /\ Frames(s, Finalize(s), Len(s.q.rx))
           /\ Finalize(s).q.incomplete = s.q.incomplete + 1
<1> DEFINE n == Len(s.q.rx)
<1>1. s.q.rx \in Seq(T)
    BY DEF States, Queues, Records
<1>2. n \in 1..Len(s.q.rx)
    BY <1>1, EmptySeq
<1>3. SubSeq(s.q.rx, 1, n) = s.q.rx
    BY <1>1, SubSeqFull
<1>4. Finalize(s) = EnqueueOrDrop(AddDiagnostic(Erase(s, n), "guard", n), SubSeq(s.q.rx, 1, n), n)
    BY <1>3 DEF Finalize
<1> HIDE DEF n
<1>5. QED
    BY <1>2, <1>4, FragmentBooks DEF n

\* What is recovered or abandoned before a later start tag goes as a frame.
LEMMA TailBooks ==
    ASSUME NEW T, State \in States(T), ParseTail
    PROVE  LET start == FindStart(nq.rx, 1)
           IN  \/ Stays(State, NewState)
               \/ /\ start # 0 /\ \E k \in start..Len(nq.rx) : FindStart(nq.rx, k + 1) # 0
                  /\ \E n \in Nat : Frames(State, NewState, n)
<1> DEFINE start == FindStart(nq.rx, 1)
           end   == IF start = 0 THEN 0 ELSE EndAfterStart(nq.rx, start)
           from  == IF end # 0 THEN end ELSE start
           next  == IF start = 0 THEN 0 ELSE FindStart(nq.rx, from + 1)
           whole == EnqueueOrDrop(AddDiagnostic(Erase(State, end), "noEom", end),
                                  SubSeq(nq.rx, 1, end), end)
           part  == EnqueueOrDrop(AddDiagnostic(Erase(State, next - 1), "abandoned", next - 1),
                                  SubSeq(nq.rx, 1, next - 1), next - 1)
<1>1. State.q = nq /\ nq.rx \in Seq(T) /\ Len(nq.rx) \in Nat
    BY StateFields
<1>2. start \in {0} \cup 1..Len(nq.rx)
    BY <1>1, SearchesStayInside DEF FindStart
<1>3. CASE UNCHANGED <<nq, localVars>>
  <2>1. nq' = nq /\ UNCHANGED localVars
    BY <1>3
  <2>2. Stays(State, NewState)
    BY <2>1, TimerBooks
  <2>3. QED
    BY <2>2
<1>4. ASSUME start # 0
      PROVE  end = 0 \/ end \in (start + 1)..Len(nq.rx)
  <2>1. start + 1 \in Nat \ {0}
    BY <1>1, <1>2
  <2>2. EndAfterStart(nq.rx, start) \in {0} \cup (start + 1)..Len(nq.rx)
    BY <1>1, <2>1, SearchesStayInside DEF EndAfterStart
  <2>3. QED
    BY <1>4, <2>2
<1> HIDE DEF end
<1>5. ASSUME next # 0
      PROVE  /\ start # 0 /\ start \in Nat /\ from \in start..Len(nq.rx) /\ FindStart(nq.rx, from + 1) # 0
             /\ next \in (start + 1)..Len(nq.rx)
  <2>1. start # 0 /\ start \in 1..Len(nq.rx)
    BY <1>2, <1>5
  <2>2. from \in start..Len(nq.rx) /\ from + 1 \in Nat \ {0}
    BY <1>1, <1>4, <2>1
  <2> HIDE DEF from, start
  <2>3. FindStart(nq.rx, from + 1) \in {0} \cup (from + 1)..Len(nq.rx)
    BY <1>1, <2>2, SearchesStayInside DEF FindStart
  <2>4. next \in (from + 1)..Len(nq.rx)
    BY <1>5, <2>1, <2>3
  <2>5. next = FindStart(nq.rx, from + 1)
    BY <2>1
  <2> HIDE DEF next
  <2>6. next \in (start + 1)..Len(nq.rx)
    BY <1>1, <2>1, <2>2, <2>4
  <2>7. QED
    BY <1>5, <2>1, <2>2, <2>5, <2>6
<1>6. ASSUME NEW n \in 1..Len(nq.rx), NEW type \in {"noEom", "abandoned"}, next # 0,
             Store(EnqueueOrDrop(AddDiagnostic(Erase(State, n), type, n), SubSeq(nq.rx, 1, n), n))
      PROVE  /\ start # 0 /\ \E k \in start..Len(nq.rx) : FindStart(nq.rx, k + 1) # 0
             /\ \E m \in Nat : Frames(State, NewState, m)
  <2> DEFINE r == EnqueueOrDrop(AddDiagnostic(Erase(State, n), type, n),
                                SubSeq(State.q.rx, 1, n), n)
  <2>1. n \in 1..Len(State.q.rx) /\ n \in Nat
    BY <1>1
  <2>2. r \in States(T) /\ Frames(State, r, n)
    BY <2>1, FragmentBooks
  <2>3. NewState = r
    BY <1>1, <1>6, <2>2, StoreIsNewState
  <2>4. start # 0 /\ \E k \in start..Len(nq.rx) : FindStart(nq.rx, k + 1) # 0
    BY <1>5, <1>6
  <2> HIDE DEF start, r
  <2>5. QED
    BY <2>1, <2>2, <2>3, <2>4
<1>7. CASE next # 0 /\ end # 0 /\ Store(whole)
  <2>1. end \in 1..Len(nq.rx)
    <3>1. start # 0 /\ start \in Nat
      BY <1>5, <1>7
    <3>2. end \in (start + 1)..Len(nq.rx)
      BY <1>4, <1>7, <3>1
    <3> HIDE DEF start
    <3>3. QED
      BY <1>1, <3>1, <3>2
  <2> HIDE DEF next, start
  <2>2. QED
    BY <1>6, <1>7, <2>1 DEF start
<1>8. CASE next # 0 /\ Store(part)
  <2>1. next - 1 \in 1..Len(nq.rx)
    <3>1. start # 0 /\ start \in Nat /\ next \in (start + 1)..Len(nq.rx)
      BY <1>5, <1>8
    <3> HIDE DEF start, next
    <3>2. QED
      BY <1>1, <3>1
  <2> HIDE DEF next, start
  <2>2. QED
    BY <1>6, <1>8, <2>1 DEF start
<1>9. QED
    BY <1>3, <1>7, <1>8 DEF ParseTail, end

\* A guard that fires counts an incomplete notification.
LEMMA GuardBooks ==
    ASSUME NEW T, State \in States(T), Guard \/ PollSlice
    PROVE  \/ Stays(State, NewState)
           \/ /\ \E n \in Nat : Frames(State, NewState, n)
              /\ NewState.q.incomplete = nq.incomplete + 1
<1>1. State.q = nq /\ nq.rx \in Seq(T) /\ Len(nq.rx) \in Nat
    BY StateFields
<1>2. ASSUME NEW c \in Clock, NEW s, s = [State EXCEPT !.q.timer = c] \/ s = State
      PROVE  s \in States(T) /\ Stays(State, s)
  <2>1. nq \in Records(Seq(T), Clock, Seq(Seq(T)))
    BY StateFields
  <2>2. CASE s = State
    BY <2>2 DEF Stays, SameQueue
  <2>3. CASE s = [State EXCEPT !.q.timer = c]
    <3>1. s = [q |-> [State.q EXCEPT !.timer = c], events |-> State.events, queued |-> State.queued]
      BY <2>3 DEF State
    <3>2. s \in States(T)
      BY <3>1, TimerEffect
    <3>3. Stays(State, s)
      BY <1>1, <2>1, <3>1 DEF Stays, SameQueue, Records
    <3>4. QED
      BY <3>2, <3>3
  <2>4. QED
    BY <1>2, <2>2, <2>3
<1>3. ASSUME NEW s \in States(T), Stays(State, s), s.q.rx # <<>>, Store(Finalize(s))
      PROVE  /\ \E n \in Nat : Frames(State, NewState, n)
             /\ NewState.q.incomplete = nq.incomplete + 1
  <2>1. Finalize(s) \in States(T)
    BY FinalizeEffect
  <2>2. NewState = Finalize(s)
    BY <1>3, <2>1, StoreIsNewState
  <2>3. Frames(s, NewState, Len(s.q.rx)) /\ NewState.q.incomplete = s.q.incomplete + 1
    BY <1>3, <2>2, FinalizeBooks
  <2>4. Frames(State, NewState, Len(s.q.rx))
    BY <1>3, <2>3 DEF Frames, Stays, SameQueue, Cuts, Accepts, Rejects, IsFull
  <2>5. Len(s.q.rx) \in Nat
    BY <1>1, <1>3 DEF Stays
  <2>6. QED
    BY <1>1, <1>3, <2>3, <2>4, <2>5 DEF Stays
<1>4. CASE Guard
  <2> DEFINE s == IF nq.rx # <<>> /\ nq.timer = "off"
                    THEN [State EXCEPT !.q.timer = "running"] ELSE State
             fires == SizeLimitReached(s.q) \/ (site = "loop" /\ TimeoutReached(s.q))
  <2>1. s \in States(T) /\ Stays(State, s)
    <3>1. s = [State EXCEPT !.q.timer = "running"] \/ s = State
      OBVIOUS
    <3>2. "running" \in Clock
      BY DEF Clock
    <3> HIDE DEF s
    <3>3. QED
      BY <1>2, <3>1, <3>2
  <2>2. Store(IF fires THEN Finalize(s) ELSE s)
    BY <1>4 DEF Guard
  <2>3. fires => s.q.rx # <<>>
    BY DEF SizeLimitReached, TimeoutReached
  <2> HIDE DEF s, fires
  <2>4. CASE fires
    BY <1>3, <2>1, <2>2, <2>3, <2>4
  <2>5. CASE ~fires
    <3>1. NewState = s
      BY <2>1, <2>2, <2>5, StoreIsNewState
    <3>2. QED
      BY <2>1, <3>1
  <2>6. QED
    BY <2>4, <2>5
<1>5. CASE PollSlice
  <2>1. Stays(State, State)
    BY DEF Stays, SameQueue
  <2>2. CASE TimeoutReached(nq) /\ Store(Finalize(State))
    <3>1. State.q.rx # <<>>
      BY <1>1, <2>2 DEF TimeoutReached
    <3>2. QED
      BY <1>3, <2>1, <2>2, <3>1
  <2>3. CASE UNCHANGED <<nq, localVars>>
    BY <2>1, <2>3, NoChange
  <2>4. QED
    BY <1>5, <2>2, <2>3 DEF PollSlice
<1>6. QED
    BY <1>4, <1>5

-----------------------------------------------------------------------------
\* What the books are kept in, and the kinds of step that write to them: bytes are
\* read, an event is emitted, a notification is popped, everything or the buffer alone
\* goes with a session, a recovery is reported.
Kept == /\ got \in Seq(Token) /\ bus \in Seq(Events) /\ discarded \in Nat
        /\ delivered \in Seq(Seq(Token)) /\ cleared \in Nat

Parsed ==
    /\ Parses /\ UNCHANGED <<got, delivered, cleared, discarded, bus>>
    /\ \/ Stays(State, NewState)
       \/ \E n \in Nat : Drops(State, NewState, n) \/ Frames(State, NewState, n)
Reads ==
    /\ nq'.rx = nq.rx \o bytes /\ got' = got \o bytes /\ SameQueue(nq, nq')
    /\ nq'.incomplete = nq.incomplete
    /\ UNCHANGED <<events, delivered, cleared, discarded, bus>>
Emits ==
    /\ events # <<>> /\ bus' = Append(bus, Head(events)) /\ events' = Tail(events)
    /\ UNCHANGED <<nq, got, delivered, cleared, discarded>>
Recovers ==
    /\ bus' = Append(bus, Event("recovered", 0, 0))
    /\ UNCHANGED <<nq, events, got, delivered, cleared, discarded>>
Pops ==
    /\ nq.queue # <<>> /\ delivered' = Append(delivered, Head(nq.queue))
    /\ nq'.queue = Tail(nq.queue) /\ nq'.rx = nq.rx /\ nq'.incomplete = nq.incomplete
    /\ nq'.dropped = nq.dropped /\ nq'.lastDrop = nq.lastDrop
    /\ nq'.full => nq.full /\ QMax >= 0 /\ Len(nq.queue) - 1 >= QMax
    /\ UNCHANGED <<events, got, cleared, discarded, bus>>
Resets ==
    /\ nq'.queue = <<>> /\ nq'.rx = <<>> /\ nq'.incomplete = nq.incomplete
    /\ nq'.dropped = nq.dropped /\ nq'.lastDrop = nq.lastDrop /\ nq'.full = nq.full
    /\ cleared' = cleared + Len(nq.queue)
    /\ discarded' = discarded + Len(FlattenSeq(nq.queue)) + Len(nq.rx)
    /\ UNCHANGED <<events, got, delivered, bus>>
Clears ==
    /\ nq'.rx = <<>> /\ SameQueue(nq, nq') /\ nq'.incomplete = nq.incomplete
    /\ discarded' = discarded + Len(nq.rx)
    /\ UNCHANGED <<events, got, delivered, cleared, bus>>
Idles ==
    /\ nq'.rx = nq.rx /\ SameQueue(nq, nq') /\ nq'.incomplete = nq.incomplete
    /\ UNCHANGED <<events, got, delivered, cleared, discarded, bus>>

\* Every parsing step keeps the buffer, drops a fragment or cuts a frame off.
LEMMA ParsesBooks ==
    ASSUME NEW T, State \in States(T), Parses
    PROVE  \/ Stays(State, NewState)
           \/ \E n \in Nat : Drops(State, NewState, n) \/ Frames(State, NewState, n)
<1>1. nq.rx \in Seq(T) /\ Len(nq.rx) \in Nat /\ State.q = nq
    BY StateFields
<1>2. CASE ParseTop
  <2>1. FindStart(nq.rx, 1) \in {0} \cup 1..Len(nq.rx)
    BY <1>1, SearchesStayInside DEF FindStart
  <2> DEFINE start == FindStart(nq.rx, 1)
  <2>2. Stays(State, NewState) \/ (start > 1 /\ Drops(State, NewState, start - 1))
    BY <1>2, TopBooks
  <2> HIDE DEF start
  <2>3. start > 1 => start - 1 \in Nat
    BY <1>1, <2>1 DEF start
  <2>4. QED
    BY <2>2, <2>3
<1>3. CASE ParseEom
  <2>1. FindEom(nq.rx) \in {0} \cup 1..(Len(nq.rx) - 1)
    BY <1>1, SearchesStayInside
  <2> DEFINE eom == FindEom(nq.rx)
  <2>2. \/ Stays(State, NewState)
        \/ Drops(State, NewState, eom + 1) \/ Frames(State, NewState, eom + 1)
    BY <1>3, EomBooks
  <2> HIDE DEF eom
  <2>3. eom + 1 \in Nat
    BY <1>1, <2>1 DEF eom
  <2>4. QED
    BY <2>2, <2>3
<1>4. CASE ParseTail
    BY <1>4, TailBooks
<1>5. CASE Guard \/ PollSlice
    BY <1>5, GuardBooks
<1>6. QED
    BY <1>2, <1>3, <1>4, <1>5 DEF Parses

\* What a consumer does is a pop, a recovery report or nothing.
LEMMA ConsumerBooks ==
    ASSUME Typed, NEW c \in Consumers, Consumer(c)
    PROVE  Pops \/ Recovers \/ Idles
<1>1. nq \in Records(Seq(Token), Clock, Seq(Seq(Token))) /\ nq.full \in BOOLEAN /\ Len(nq.queue) \in Nat
      /\ QMax \in Int
  <2>1. State \in States(Token)
    BY DEF Typed
  <2>2. QED
    BY <2>1, StateFields, LenProperties, StreamAssumption
<1>2. CASE NextPop(c)
  <2> DEFINE recovers == nq.full /\ (QMax < 0 \/ Len(nq.queue) - 1 < QMax)
  <2>1. /\ nq.queue # <<>> /\ delivered' = Append(delivered, Head(nq.queue))
        /\ nq' = [nq EXCEPT !.queue = Tail(nq.queue), !.full = nq.full /\ ~recovers]
        /\ UNCHANGED <<events, got, cleared, discarded, bus>>
    BY <1>2 DEF NextPop, consumerFrame, localVars
  <2>2. nq.full /\ ~recovers => QMax >= 0 /\ Len(nq.queue) - 1 >= QMax
    BY <1>1
  <2> HIDE DEF recovers
  <2>3. /\ nq'.queue = Tail(nq.queue) /\ nq'.rx = nq.rx /\ nq'.incomplete = nq.incomplete
        /\ nq'.dropped = nq.dropped /\ nq'.lastDrop = nq.lastDrop
        /\ nq'.full = (nq.full /\ ~recovers)
    BY <1>1, <2>1 DEF Records
  <2>4. QED
    BY <2>1, <2>2, <2>3 DEF Pops
<1>3. CASE NextEmit(c)
    BY <1>3 DEF NextEmit, Recovers, consumerFrame, localVars
<1>4. CASE NextEnter(c) \/ NextSleep(c) \/ NextExpire(c) \/ NextEmpty(c)
    BY <1>4 DEF NextEnter, NextSleep, NextExpire, NextEmpty, consumerFrame, localVars, Idles, SameQueue
<1>5. QED
    BY <1>2, <1>3, <1>4 DEF Consumer

\* Every step is of one of the kinds.
LEMMA BookSteps ==
    ASSUME Typed, [Next]_vars
    PROVE  Parsed \/ Reads \/ Emits \/ Recovers \/ Pops \/ Resets \/ Clears \/ Idles
<1>1. /\ State \in States(Token) /\ nq \in Records(Seq(Token), Clock, Seq(Seq(Token)))
      /\ nq.full \in BOOLEAN /\ Len(nq.queue) \in Nat /\ QMax \in Int
  <2>1. State \in States(Token)
    BY DEF Typed
  <2>2. QED
    BY <2>1, StateFields, LenProperties, StreamAssumption
<1>2. ASSUME UNCHANGED <<nq, events, got, delivered, cleared, discarded, bus>> PROVE Idles
    BY <1>2 DEF Idles, SameQueue
<1>3. CASE Parses
  <2>1. UNCHANGED <<got, delivered, cleared, discarded, bus>>
    BY <1>3 DEF Parses, ParseTop, ParseEom, ParseTail, Guard, PollSlice, reactorFrame
  <2>2. QED
    BY <1>1, <1>3, <2>1, ParsesBooks DEF Parsed
<1>4. CASE AppendBytes
    BY <1>1, <1>4 DEF AppendBytes, Reads, Records, SameQueue, localVars, reactorFrame
<1>5. CASE FlushEvent
    BY <1>5 DEF FlushEvent, Emits
<1>6. CASE FlushDone
    BY <1>2, <1>6 DEF FlushDone, historyVars
<1>7. CASE CleanupReset \/ SubReset \/ DelReset
    BY <1>1, <1>7 DEF CleanupReset, SubReset, DelReset, ResetQueue, Resets, Records, localVars,
                      subscriberFrame, deleterFrame
<1>8. CASE SubClearBuffer
    BY <1>1, <1>8 DEF SubClearBuffer, Clears, Records, SameQueue, localVars, subscriberFrame
<1>9. CASE Tick
    BY <1>1, <1>9 DEF Tick, Idles, Records, SameQueue, localVars, historyVars
<1>10. ASSUME NEW c \in Consumers, Consumer(c) PROVE Pops \/ Recovers \/ Idles
    BY <1>10, ConsumerBooks
<1>11. CASE \/ EpollWait \/ Lookup \/ Read \/ ReadThrows \/ EnterLoop \/ PollReady \/ PollThrows
            \/ CleanupUnregister \/ CleanupClose
    BY <1>2, <1>11 DEF EpollWait, Lookup, Read, ReadThrows, EnterLoop, PollReady, PollThrows,
                       CleanupUnregister, CleanupClose, localVars, reactorFrame
<1>12. CASE \/ SubConnect \/ SubConnectThrows \/ SubReply \/ SubRegister \/ SubMarkConnected \/ SubClose
    BY <1>2, <1>12 DEF SubConnect, SubConnectThrows, SubReply, SubRegister, SubMarkConnected,
                       SubClose, subscriberFrame, localVars, historyVars
<1>13. CASE DelReadFd \/ DelUnregister \/ DelClose \/ DeviceSend \/ DeviceClose \/ UNCHANGED vars
    BY <1>2, <1>13 DEF DelReadFd, DelUnregister, DelClose, DeviceSend, DeviceClose, vars,
                       deleterFrame, localVars, historyVars
<1>14. QED
    BY <1>3, <1>4, <1>5, <1>6, <1>7, <1>8, <1>9, <1>10, <1>11, <1>12, <1>13
       DEF Next, Reactor, Subscriber, Deleter, Parses

-----------------------------------------------------------------------------
\* The types of what the books are kept in, for a step.
LEMMA BookTypes ==
    ASSUME Typed, Kept
    PROVE  /\ State \in States(Token) /\ State.q = nq /\ State.events = events
           /\ nq.rx \in Seq(Token) /\ nq.queue \in Seq(Seq(Token)) /\ nq.full \in BOOLEAN
           /\ nq.dropped \in Nat /\ nq.lastDrop \in Nat /\ nq.incomplete \in Nat
           /\ events \in Seq(Events) /\ bytes \in Seq(Token)
           /\ got \in Seq(Token) /\ bus \in Seq(Events) /\ discarded \in Nat
           /\ delivered \in Seq(Seq(Token)) /\ cleared \in Nat
           /\ delivered \o nq.queue \in Seq(Seq(Token)) /\ Len(nq.queue) \in Nat
           /\ FlattenSeq(nq.queue) \in Seq(Token) /\ Len(nq.rx) \in Nat
<1>1. State \in States(Token) /\ bytes \in Seq(Token)
    BY DEF Typed, ReactorTypes
<1>2. /\ State.q = nq /\ State.events = events
      /\ nq.rx \in Seq(Token) /\ nq.queue \in Seq(Seq(Token)) /\ nq.full \in BOOLEAN
      /\ nq.dropped \in Nat /\ nq.lastDrop \in Nat /\ nq.incomplete \in Nat
      /\ events \in Seq(Events)
    BY <1>1, StateFields
<1>3. /\ got \in Seq(Token) /\ bus \in Seq(Events) /\ discarded \in Nat
      /\ delivered \in Seq(Seq(Token)) /\ cleared \in Nat
    BY DEF Kept
<1>4. delivered \o nq.queue \in Seq(Seq(Token)) /\ Len(nq.queue) \in Nat /\ Len(nq.rx) \in Nat
    BY <1>2, <1>3, ConcatProperties, LenProperties
<1>5. FlattenSeq(nq.queue) \in Seq(Token)
  <2>1. <<>> \in Seq(Token)
    BY EmptySeq
  <2>2. QED
    BY <1>2, <2>1, FlattenAppend
<1>6. QED
    BY <1>1, <1>2, <1>3, <1>4, <1>5

\* The state a parsing step leaves, field by field.
LEMMA ParsedFields ==
    NewState.q = nq' /\ NewState.events = events' /\ NewState.queued = queued'
BY DEF NewState

\* The histories stay histories.
LEMMA KeptStep ==
    ASSUME Typed, Typed', Kept, [Next]_vars
    PROVE  Kept'
<1>1. delivered' \in Seq(Seq(Token)) /\ cleared' \in Nat
    BY DEF Typed, CallerTypes
<1>2. /\ got \in Seq(Token) /\ bus \in Seq(Events) /\ discarded \in Nat
      /\ events \in Seq(Events) /\ bytes \in Seq(Token)
      /\ Len(FlattenSeq(nq.queue)) \in Nat /\ Len(nq.rx) \in Nat
    BY BookTypes, LenProperties
<1>3. CASE Reads
  <2>1. got \o bytes \in Seq(Token)
    BY <1>2, ConcatProperties
  <2>2. QED
    BY <1>1, <1>2, <1>3, <2>1 DEF Reads, Kept
<1>4. CASE Emits
  <2>1. Append(bus, Head(events)) \in Seq(Events)
    BY <1>2, <1>4, HeadTailProperties, AppendProperties DEF Emits
  <2>2. QED
    BY <1>1, <1>2, <1>4, <2>1 DEF Emits, Kept
<1>5. CASE Recovers
  <2>1. Event("recovered", 0, 0) \in Events
    BY DEF Event, Events, EventType
  <2>2. Append(bus, Event("recovered", 0, 0)) \in Seq(Events)
    BY <1>2, <2>1, AppendProperties
  <2>3. QED
    BY <1>1, <1>2, <1>5, <2>2 DEF Recovers, Kept
<1>6. CASE Resets \/ Clears
  <2>1. discarded \in Nat
    BY DEF Kept
  <2> DEFINE k == Len(FlattenSeq(nq.queue))
             m == Len(nq.rx)
  <2>2. k \in Nat /\ m \in Nat
    BY <1>2
  <2>3. discarded' = discarded + k + m \/ discarded' = discarded + m
    BY <1>6 DEF Resets, Clears
  <2> HIDE DEF k, m
  <2>4. discarded' \in Nat
    BY <2>1, <2>2, <2>3
  <2>5. QED
    BY <1>1, <1>2, <1>6, <2>4 DEF Resets, Clears, Kept
<1>7. CASE Parsed \/ Pops \/ Idles
    BY <1>1, <1>2, <1>7 DEF Parsed, Pops, Idles, Kept
<1>8. QED
    BY <1>3, <1>4, <1>5, <1>6, <1>7, BookSteps

\* What the two sums come to over the events emitted and those still to be.
LEMMA SumsSplit ==
    ASSUME NEW a \in Seq(Events), NEW b \in Seq(Events)
    PROVE  /\ SumDeltas(a \o b) = SumDeltas(a) + SumDeltas(b)
           /\ OrphanBytes(a \o b) = OrphanBytes(a) + OrphanBytes(b)
           /\ SumDeltas(a) \in Int /\ SumDeltas(b) \in Int
           /\ OrphanBytes(a) \in Nat /\ OrphanBytes(b) \in Nat
BY DeltasAdd, OrphansAdd

\* Emitting an event moves it from one to the other, and a recovery counts for nothing.
LEMMA SumsMove ==
    ASSUME Typed, Kept
    PROVE  /\ Emits => bus' \o events' = bus \o events
           /\ Recovers => /\ SumDeltas(bus' \o events') = SumDeltas(bus \o events)
                          /\ OrphanBytes(bus' \o events') = OrphanBytes(bus \o events)
<1>1. bus \in Seq(Events) /\ events \in Seq(Events)
    BY BookTypes
<1>2. Emits => bus' \o events' = bus \o events
    BY <1>1, HeadMoves DEF Emits
<1>3. ASSUME Recovers
      PROVE  /\ SumDeltas(bus' \o events') = SumDeltas(bus \o events)
             /\ OrphanBytes(bus' \o events') = OrphanBytes(bus \o events)
  <2> DEFINE e == Event("recovered", 0, 0)
  <2>1. e \in Events /\ e.delta = 0 /\ Admitted(e) = 0
    BY DEF Event, Events, EventType, Admitted
  <2>2. bus' = Append(bus, e) /\ events' = events
    BY <1>3 DEF Recovers
  <2> HIDE DEF e
  <2>3. bus' \in Seq(Events)
    BY <1>1, <2>1, <2>2, AppendProperties
  <2>4. SumDeltas(bus') = SumDeltas(bus) + 0 /\ OrphanBytes(bus') = OrphanBytes(bus) + 0
    BY <1>1, <2>1, <2>2, DeltasAdd, OrphansAdd
  <2>5. /\ SumDeltas(bus \o events) = SumDeltas(bus) + SumDeltas(events)
        /\ OrphanBytes(bus \o events) = OrphanBytes(bus) + OrphanBytes(events)
        /\ SumDeltas(bus) \in Int /\ OrphanBytes(bus) \in Nat
    BY <1>1, SumsSplit
  <2>6. /\ SumDeltas(bus' \o events) = SumDeltas(bus') + SumDeltas(events)
        /\ OrphanBytes(bus' \o events) = OrphanBytes(bus') + OrphanBytes(events)
    BY <1>1, <2>3, SumsSplit
  <2>7. SumDeltas(bus') = SumDeltas(bus) /\ OrphanBytes(bus') = OrphanBytes(bus)
    BY <2>4, <2>5
  <2>8. QED
    BY <2>2, <2>5, <2>6, <2>7
<1>4. QED
    BY <1>2, <1>3

\* Every drop is covered by an event as soon as there are Threshold of them.
LEMMA DropsStep ==
    ASSUME Typed, Typed', Kept, Kept', DropsAccounted, [Next]_vars
    PROVE  DropsAccounted'
<1>1. /\ State.q = nq /\ State.events = events /\ NewState.q = nq' /\ NewState.events = events'
      /\ nq.dropped \in Nat /\ nq.lastDrop \in Nat /\ Threshold \in Nat \ {0}
      /\ bus \in Seq(Events) /\ events \in Seq(Events)
    BY BookTypes, ParsedFields, StreamAssumption
<1>2. /\ SumDeltas(bus \o events) = SumDeltas(bus) + SumDeltas(events)
      /\ SumDeltas(bus) \in Int /\ SumDeltas(events) \in Int
    BY <1>1, SumsSplit
<1>3. SumDeltas(bus' \o events') = SumDeltas(bus') + SumDeltas(events')
  <2>1. bus' \in Seq(Events)
    BY DEF Kept
  <2>2. events' \in Seq(Events)
    BY DEF Typed, State, States
  <2>3. QED
    BY <2>1, <2>2, SumsSplit
<1>4. /\ SumDeltas(bus) + SumDeltas(events) = nq.lastDrop
      /\ nq.lastDrop <= nq.dropped /\ nq.dropped < nq.lastDrop + Threshold
    BY <1>2 DEF DropsAccounted
<1>5. CASE Parsed
  <2>1. bus' = bus
    BY <1>5 DEF Parsed
  <2>2. CASE \/ Stays(State, NewState)
             \/ \E n \in Nat : \/ Drops(State, NewState, n)
                               \/ /\ Frames(State, NewState, n)
                                  /\ Accepts(State, NewState, SubSeq(State.q.rx, 1, n))
    <3>1. /\ SumDeltas(events') = SumDeltas(events)
          /\ nq'.dropped = nq.dropped /\ nq'.lastDrop = nq.lastDrop
      BY <1>1, <2>2 DEF Stays, Drops, Frames, Accepts, SameQueue
    <3>2. QED
      BY <1>1, <1>2, <1>3, <1>4, <2>1, <3>1 DEF DropsAccounted
  <2>3. CASE Rejects(State, NewState)
    <3>1. /\ nq'.dropped = nq.dropped + 1
          /\ \/ /\ nq'.lastDrop = nq'.dropped
                /\ SumDeltas(events') = SumDeltas(events) + (nq'.dropped - nq.lastDrop)
             \/ /\ nq.dropped + 1 - nq.lastDrop < Threshold
                /\ nq'.lastDrop = nq.lastDrop /\ SumDeltas(events') = SumDeltas(events)
      BY <1>1, <2>3 DEF Rejects
    <3> DEFINE d == nq.dropped
               l == nq.lastDrop
               dd == nq'.dropped
               ll == nq'.lastDrop
               b == SumDeltas(bus)
               x == SumDeltas(events)
               xx == SumDeltas(events')
    <3>2. /\ d \in Nat /\ l \in Nat /\ b \in Int /\ x \in Int /\ b + x = l /\ l <= d /\ d < l + Threshold
          /\ dd = d + 1 /\ (\/ ll = dd /\ xx = x + (dd - l)
                            \/ d + 1 - l < Threshold /\ ll = l /\ xx = x)
      BY <1>1, <1>2, <1>4, <3>1
    <3> HIDE DEF d, l, dd, ll, b, x, xx
    <3>3. b + xx = ll /\ ll <= dd /\ dd < ll + Threshold
      BY <1>1, <3>2
    <3>4. QED
      BY <1>3, <2>1, <3>3 DEF DropsAccounted, dd, ll, b, xx
  <2>4. QED
    BY <1>5, <2>2, <2>3 DEF Parsed, Frames
<1>6. CASE Emits
    BY <1>6, SumsMove DEF Emits, DropsAccounted
<1>7. CASE Recovers
    BY <1>7, SumsMove DEF Recovers, DropsAccounted
<1>8. CASE Reads \/ Pops \/ Resets \/ Clears \/ Idles
    BY <1>8 DEF Reads, Pops, Resets, Clears, Idles, SameQueue, DropsAccounted
<1>9. QED
    BY <1>5, <1>6, <1>7, <1>8, BookSteps

\* The full state goes when a pop makes room, and comes with a drop.
LEMMA FullStep ==
    ASSUME Typed, Typed', Kept, FullStateTracksQueue, [Next]_vars
    PROVE  FullStateTracksQueue'
<1>1. /\ State.q = nq /\ NewState.q = nq' /\ QMax \in Int /\ nq.full \in BOOLEAN
      /\ Len(nq.queue) \in Nat /\ nq.queue \in Seq(Seq(Token)) /\ nq.rx \in Seq(Token)
      /\ cleared \in Nat
    BY BookTypes, ParsedFields, StreamAssumption
<1>2. CASE Parsed
  <2>1. cleared' = cleared
    BY <1>2 DEF Parsed
  <2>2. CASE Stays(State, NewState) \/ \E n \in Nat : Drops(State, NewState, n)
    BY <1>1, <2>1, <2>2 DEF Stays, Drops, SameQueue, FullStateTracksQueue, IsFull
  <2>3. CASE Rejects(State, NewState)
    BY <1>1, <2>3 DEF Rejects, FullStateTracksQueue, IsFull
  <2>4. ASSUME NEW n \in Nat, Frames(State, NewState, n),
               Accepts(State, NewState, SubSeq(State.q.rx, 1, n))
        PROVE  FullStateTracksQueue'
    <3>1. nq'.full = nq.full /\ ~IsFull(nq)
      BY <1>1, <2>4 DEF Accepts
    <3>2. QED
      BY <2>1, <3>1 DEF FullStateTracksQueue
  <2>5. QED
    BY <1>2, <2>2, <2>3, <2>4 DEF Parsed, Frames
<1>3. CASE Pops
  <2>1. Len(nq'.queue) = Len(nq.queue) - 1
    BY <1>1, <1>3, HeadTailProperties DEF Pops
  <2>2. QED
    BY <1>1, <1>3, <2>1 DEF Pops, FullStateTracksQueue, IsFull
<1>4. CASE Resets
  <2>1. cleared' = 0 => Len(nq.queue) = 0 /\ cleared = 0
    BY <1>1, <1>4 DEF Resets
  <2>2. Len(nq'.queue) = 0
    BY <1>4 DEF Resets
  <2>3. QED
    BY <1>1, <1>4, <2>1, <2>2 DEF Resets, FullStateTracksQueue, IsFull
<1>5. CASE Reads \/ Emits \/ Recovers \/ Clears \/ Idles
    BY <1>5 DEF Reads, Emits, Recovers, Clears, Idles, SameQueue, FullStateTracksQueue, IsFull
<1>6. QED
    BY <1>2, <1>3, <1>4, <1>5, BookSteps

-----------------------------------------------------------------------------
\* What came out of the parser, or is still in it: the queued frames and the buffer.
Out == Stream(delivered, nq.queue, nq.rx)
Lost == OrphanBytes(bus \o events) + discarded

\* The length of what came out, and what is left of it once the queue is gone.
LEMMA OutParts ==
    ASSUME Typed, Kept
    PROVE  LET kept == FlattenSeq(delivered)
               waits == FlattenSeq(nq.queue)
           IN  /\ kept \in Seq(Token) /\ waits \in Seq(Token) /\ Out \in Seq(Token)
               /\ FlattenSeq(delivered \o nq.queue) = kept \o waits
               /\ FlattenSeq(delivered \o nq.queue) \in Seq(Token)
               /\ Len(FlattenSeq(delivered \o nq.queue)) = Len(kept) + Len(waits)
               /\ Len(Out) = Len(FlattenSeq(delivered \o nq.queue)) + Len(nq.rx)
               /\ Len(kept) \in Nat /\ Len(waits) \in Nat /\ Len(Out) \in Nat
               /\ Lost \in Nat /\ Lost = OrphanBytes(bus) + OrphanBytes(events) + discarded
               /\ OrphanBytes(bus) \in Nat /\ OrphanBytes(events) \in Nat
<1> DEFINE kept == FlattenSeq(delivered)
           waits == FlattenSeq(nq.queue)
           all == FlattenSeq(delivered \o nq.queue)
<1>1. /\ delivered \in Seq(Seq(Token)) /\ nq.queue \in Seq(Seq(Token)) /\ nq.rx \in Seq(Token)
      /\ bus \in Seq(Events) /\ events \in Seq(Events) /\ discarded \in Nat /\ <<>> \in Seq(Token)
    BY BookTypes, EmptySeq
<1>2. all = kept \o waits
    BY <1>1, FlattenConcat
<1>3. kept \in Seq(Token) /\ waits \in Seq(Token)
    BY <1>1, FlattenAppend
<1> HIDE DEF kept, waits, all
<1>4. all \in Seq(Token) /\ Len(all) = Len(kept) + Len(waits)
    BY <1>2, <1>3, ConcatProperties
<1>5. Out = all \o nq.rx
    BY DEF Out, Stream, all
<1>6. Out \in Seq(Token) /\ Len(Out) = Len(all) + Len(nq.rx)
  <2>1. all \in Seq(Token) /\ nq.rx \in Seq(Token)
    BY <1>1, <1>4
  <2>2. all \o nq.rx \in Seq(Token) /\ Len(all \o nq.rx) = Len(all) + Len(nq.rx)
    BY <2>1, ConcatProperties, Zenon
  <2>3. QED
    BY <1>5, <2>2, Zenon
<1>7. Len(kept) \in Nat /\ Len(waits) \in Nat /\ Len(Out) \in Nat
    BY <1>3, <1>6, LenProperties
<1>8. /\ OrphanBytes(bus \o events) = OrphanBytes(bus) + OrphanBytes(events)
      /\ OrphanBytes(bus) \in Nat /\ OrphanBytes(events) \in Nat
    BY <1>1, SumsSplit
<1>9. Lost = OrphanBytes(bus) + OrphanBytes(events) + discarded /\ Lost \in Nat
    BY <1>1, <1>8 DEF Lost
<1>10. QED
    BY <1>2, <1>3, <1>4, <1>6, <1>7, <1>8, <1>9 DEF kept, waits, all

\* The books balance, in short.
LEMMA Balances ==
    BytesAccounted <=> /\ Len(got) >= Len(Out) + Lost
                       /\ nq.dropped = 0 => Len(got) = Len(Out) + Lost
                       /\ nq.dropped = 0 /\ Lost = 0 => Out = got
BY DEF BytesAccounted, Out, Stream, Lost

\* A fragment that is cut off leaves the rest in place.
LEMMA OutAfterCut ==
    ASSUME Typed, Kept, NEW n \in Nat, Cuts(State, NewState, n), UNCHANGED delivered
    PROVE  /\ n \in 1..Len(nq.rx) /\ nq.rx = SubSeq(nq.rx, 1, n) \o nq'.rx
           /\ nq'.queue = nq.queue => Len(Out') = Len(Out) - n
           /\ nq'.queue = Append(nq.queue, SubSeq(nq.rx, 1, n)) => Out' = Out
<1> DEFINE x == nq.rx
           q == nq.queue
           d == delivered
<1>1. /\ x \in Seq(Token) /\ State.q = nq /\ NewState.q = nq'
      /\ d \in Seq(Seq(Token)) /\ q \in Seq(Seq(Token)) /\ Len(x) \in Nat
    BY BookTypes, ParsedFields
<1>2. n \in 1..Len(x) /\ nq'.rx = SubSeq(x, n + 1, Len(x)) /\ n \in 0..Len(x)
    BY <1>1 DEF Cuts
<1>3. Out = Stream(d, q, x) /\ Out' = Stream(d, nq'.queue, nq'.rx)
    BY DEF Out, Stream
<1> HIDE DEF x, q, d
<1>4. CutKept(d, q, x, n)
    BY <1>1, <1>2, FlattenCut, Zenon
<1>5. nq'.queue = q => Len(Out') = Len(Out) - n
    BY <1>2, <1>3, <1>4, Zenon DEF CutKept
<1>6. nq'.queue = Append(q, SubSeq(x, 1, n)) => Out' = Out
    BY <1>2, <1>3, <1>4, Zenon DEF CutKept
<1>7. QED
    BY <1>2, <1>4, <1>5, <1>6 DEF x, q, d, CutKept

\* Books that balance still do when all that is missing from the parser is admitted.
LEMMA StillBalances ==
    ASSUME Typed, Kept, BytesAccounted, NEW k \in Nat,
           Len(Out') = Len(Out) - k, Lost' = Lost + k, k = 0 => Out' = Out,
           got' = got, nq'.dropped = nq.dropped
    PROVE  BytesAccounted'
<1> DEFINE g == Len(got)
           o == Len(Out)
           oo == Len(Out')
           l == Lost
           ll == Lost'
<1>1. g \in Nat /\ o \in Nat /\ l \in Nat
    BY BookTypes, OutParts, LenProperties
<1>2. oo = o - k /\ ll = l + k /\ g >= o + l /\ (nq.dropped = 0 => g = o + l)
    BY Balances
<1> HIDE DEF g, o, oo, l, ll
<1>3. g >= oo + ll /\ (nq.dropped = 0 => g = oo + ll) /\ (ll = 0 => k = 0 /\ l = 0)
    BY <1>1, <1>2
<1>4. nq'.dropped = 0 /\ ll = 0 => Out' = got'
  <2>1. nq.dropped = 0 /\ l = 0 => Out = got
    BY Balances DEF l
  <2>2. QED
    BY <1>3, <2>1
<1>5. /\ Len(got') >= Len(Out') + Lost'
      /\ nq'.dropped = 0 => Len(got') = Len(Out') + Lost'
      /\ nq'.dropped = 0 /\ Lost' = 0 => Out' = got'
    BY <1>3, <1>4 DEF g, oo, ll
<1>6. QED
    BY <1>5 DEF BytesAccounted, Out, Stream, Lost

\* A step that emits nothing leaves what is lost to the local events and to the sessions.
LEMMA LostMoves ==
    ASSUME Typed, Typed', Kept, Kept', bus' = bus
    PROVE  /\ Lost = OrphanBytes(bus) + OrphanBytes(events) + discarded
           /\ Lost' = OrphanBytes(bus) + OrphanBytes(events') + discarded'
           /\ OrphanBytes(bus) \in Nat /\ OrphanBytes(events) \in Nat
           /\ OrphanBytes(events') \in Nat /\ discarded \in Nat
<1>1. bus \in Seq(Events) /\ events \in Seq(Events) /\ discarded \in Nat
    BY BookTypes
<1>2. events' \in Seq(Events)
    BY DEF Typed, State, States
<1>3. OrphanBytes(bus' \o events') = OrphanBytes(bus) + OrphanBytes(events') /\ OrphanBytes(events') \in Nat
    BY <1>1, <1>2, SumsSplit
<1>4. QED
    BY <1>1, <1>3, SumsSplit DEF Lost

\* What a parsing step does to the balance.
LEMMA BytesParsed ==
    ASSUME Typed, Typed', Kept, Kept', BytesAccounted, Parsed
    PROVE  BytesAccounted'
<1>1. /\ State.q = nq /\ State.events = events /\ NewState.q = nq' /\ NewState.events = events'
      /\ UNCHANGED <<got, delivered, discarded>> /\ bus' = bus
    BY ParsedFields DEF State, Parsed
<1>2. /\ Lost = OrphanBytes(bus) + OrphanBytes(events) + discarded
      /\ Lost' = OrphanBytes(bus) + OrphanBytes(events') + discarded
      /\ OrphanBytes(bus) \in Nat /\ OrphanBytes(events) \in Nat /\ discarded \in Nat
    BY <1>1, LostMoves
<1>3. CASE Stays(State, NewState)
  <2>1. nq'.rx = nq.rx /\ SameQueue(nq, nq') /\ events' = events
    BY <1>1, <1>3 DEF Stays
  <2>2. Out' = Out /\ Lost' = Lost /\ nq'.dropped = nq.dropped
    BY <1>1, <1>2, <2>1 DEF SameQueue, Out, Stream
  <2>3. QED
    BY <1>1, <2>2, Balances DEF BytesAccounted, Out, Stream, Lost
<1>4. ASSUME NEW n \in Nat, Drops(State, NewState, n)
      PROVE  BytesAccounted'
  <2>1. /\ Cuts(State, NewState, n) /\ SameQueue(nq, nq')
        /\ OrphanBytes(events') = OrphanBytes(events) + n
    BY <1>1, <1>4 DEF Drops
  <2>2. Len(Out') = Len(Out) - n /\ n \in 1..Len(nq.rx)
    BY <1>1, <2>1, OutAfterCut DEF SameQueue
  <2>3. Lost' = Lost + n
    BY <1>2, <2>1
  <2>4. n # 0 /\ nq'.dropped = nq.dropped
    BY <2>1, <2>2 DEF SameQueue
  <2>5. QED
    BY <1>1, <2>2, <2>3, <2>4, StillBalances
<1>5. ASSUME NEW n \in Nat, Frames(State, NewState, n)
      PROVE  BytesAccounted'
  <2>1. /\ Cuts(State, NewState, n) /\ OrphanBytes(events') = OrphanBytes(events)
        /\ Accepts(State, NewState, SubSeq(nq.rx, 1, n)) \/ Rejects(State, NewState)
    BY <1>1, <1>5 DEF Frames
  <2>2. Lost' = Lost
    BY <1>2, <2>1
  <2>3. CASE Accepts(State, NewState, SubSeq(nq.rx, 1, n))
    <3>1. nq'.queue = Append(nq.queue, SubSeq(nq.rx, 1, n)) /\ nq'.dropped = nq.dropped
      BY <1>1, <2>3 DEF Accepts
    <3>2. Out' = Out
      BY <1>1, <2>1, <3>1, OutAfterCut
    <3>3. QED
      BY <1>1, <2>2, <3>1, <3>2 DEF BytesAccounted, Out, Stream, Lost
  <2>4. CASE Rejects(State, NewState)
    <3>1. nq'.queue = nq.queue /\ nq'.dropped = nq.dropped + 1 /\ nq.dropped \in Nat
      BY <1>1, <2>4, BookTypes DEF Rejects
    <3>2. Len(Out') = Len(Out) - n
      BY <1>1, <2>1, <3>1, OutAfterCut
    <3>3. Len(got) >= Len(Out) + Lost /\ Len(Out) \in Nat /\ Lost \in Nat /\ Len(got) \in Nat
      BY Balances, OutParts, BookTypes, LenProperties
    <3>4. Len(got) >= (Len(Out) - n) + Lost
      BY <3>3
    <3>5. Len(got') >= Len(Out') + Lost' /\ nq'.dropped # 0
      BY <1>1, <2>2, <3>1, <3>2, <3>4
    <3>6. QED
      BY <3>5 DEF BytesAccounted, Out, Stream, Lost
  <2>5. QED
    BY <2>1, <2>3, <2>4
<1>6. QED
    BY <1>3, <1>4, <1>5 DEF Parsed

\* Bytes that are read go to the end of the buffer.
LEMMA BytesRead ==
    ASSUME Typed, Typed', Kept, Kept', BytesAccounted, Reads
    PROVE  BytesAccounted'
<1> DEFINE f == FlattenSeq(delivered \o nq.queue)
           x == nq.rx
           b == bytes
           g == got
<1>1. f \in Seq(Token) /\ x \in Seq(Token) /\ b \in Seq(Token) /\ g \in Seq(Token)
    BY BookTypes, OutParts
<1>2. /\ nq'.queue = nq.queue /\ nq'.rx = x \o b /\ got' = g \o b /\ delivered' = delivered
      /\ Lost' = Lost /\ nq'.dropped = nq.dropped
    BY DEF Reads, SameQueue, Lost
<1>3. Out = f \o x /\ Out' = f \o (x \o b)
    BY <1>2 DEF Out, Stream
<1>4. Lost \in Nat
    BY OutParts
<1> HIDE DEF f, x, b, g
<1>5. (f \o x) \o b = f \o (x \o b)
    BY <1>1, ConcatAssociative
<1>6. Out' = Out \o b
    BY <1>3, <1>5, Zenon
<1>7. Out \in Seq(Token)
    BY <1>1, <1>3, ConcatProperties
<1>8. Len(Out') = Len(Out) + Len(b) /\ Len(got') = Len(g) + Len(b)
    BY <1>1, <1>2, <1>6, <1>7, ConcatProperties
<1>9. Len(Out) \in Nat /\ Len(b) \in Nat /\ Len(g) \in Nat
    BY <1>1, <1>7, LenProperties
<1>10. /\ Len(g) >= Len(Out) + Lost
       /\ nq.dropped = 0 => Len(g) = Len(Out) + Lost
       /\ nq.dropped = 0 /\ Lost = 0 => Out = g
    BY Balances DEF g
<1>11. nq'.dropped = 0 /\ Lost' = 0 => Out' = got'
    BY <1>2, <1>6, <1>10
<1> DEFINE lg == Len(g)
           lo == Len(Out)
           lb == Len(b)
           l  == Lost
<1>12. /\ lg \in Nat /\ lo \in Nat /\ lb \in Nat /\ l \in Nat /\ lg >= lo + l
       /\ nq.dropped = 0 => lg = lo + l
    BY <1>4, <1>9, <1>10
<1> HIDE DEF lg, lo, lb, l
<1>13. lg + lb >= (lo + lb) + l /\ (nq.dropped = 0 => lg + lb = (lo + lb) + l)
    BY <1>12
<1>14. /\ Len(got') >= Len(Out') + Lost'
       /\ nq'.dropped = 0 => Len(got') = Len(Out') + Lost'
    BY <1>2, <1>8, <1>13 DEF lg, lo, lb, l
<1>15. QED
    BY <1>11, <1>14 DEF BytesAccounted, Out, Stream, Lost

\* A session takes its queue and its buffer along, or the buffer alone.
LEMMA BytesThrownAway ==
    ASSUME Typed, Typed', Kept, Kept', BytesAccounted, Resets \/ Clears
    PROVE  BytesAccounted'
<1> DEFINE a == FlattenSeq(delivered)
           w == FlattenSeq(nq.queue)
           f == FlattenSeq(delivered \o nq.queue)
           x == nq.rx
<1>1. /\ a \in Seq(Token) /\ w \in Seq(Token) /\ x \in Seq(Token) /\ f \in Seq(Token)
      /\ f = a \o w /\ <<>> \in Seq(Token)
      /\ delivered \in Seq(Seq(Token)) /\ <<>> \in Seq(Seq(Token))
    BY BookTypes, OutParts, EmptySeq
<1>2. Out = f \o x /\ Len(Out) = (Len(a) + Len(w)) + Len(x)
    BY OutParts DEF Out, Stream
<1>3. /\ got' = got /\ nq'.dropped = nq.dropped /\ bus' = bus /\ events' = events
      /\ delivered' = delivered /\ nq'.rx = <<>>
    BY DEF Resets, Clears, SameQueue
<1>4. Lost' = Lost + (discarded' - discarded) /\ discarded \in Nat /\ discarded' \in Nat
  <2>1. /\ Lost = OrphanBytes(bus) + OrphanBytes(events) + discarded
        /\ Lost' = OrphanBytes(bus) + OrphanBytes(events') + discarded'
        /\ OrphanBytes(bus) \in Nat /\ OrphanBytes(events) \in Nat /\ discarded \in Nat
    BY <1>3, LostMoves
  <2>2. discarded' \in Nat
    BY DEF Kept
  <2>3. QED
    BY <1>3, <2>1, <2>2
<1>5. Len(a) \in Nat /\ Len(w) \in Nat /\ Len(x) \in Nat
    BY <1>1, LenProperties
<1>6. CASE Clears
  <2>1. discarded' = discarded + Len(x) /\ nq'.queue = nq.queue
    BY <1>6 DEF Clears, SameQueue
  <2>2. Out' = f \o <<>>
    BY <1>3, <2>1 DEF Out, Stream
  <2>3. Len(f) = Len(a) + Len(w)
    BY OutParts
  <2> HIDE DEF a, w, f, x
  <2>4. f \o <<>> = f
    BY <1>1, ConcatEmptySeq
  <2>5. Len(Out') = Len(Out) - Len(x)
    BY <1>2, <1>5, <2>2, <2>3, <2>4
  <2>6. Lost' = Lost + Len(x)
    BY <1>4, <1>5, <2>1
  <2>7. Len(x) = 0 => Out' = Out
    BY <1>1, <1>2, <2>2, EmptySeq
  <2>8. QED
    BY <1>3, <1>5, <2>5, <2>6, <2>7, StillBalances
<1>7. CASE Resets
  <2>1. discarded' = discarded + Len(w) + Len(x) /\ nq'.queue = <<>>
    BY <1>7 DEF Resets
  <2>2. Out' = FlattenSeq(delivered \o <<>>) \o <<>>
    BY <1>3, <2>1 DEF Out, Stream
  <2>3. FlattenSeq(delivered \o <<>>) = a \o <<>>
    BY <1>1, FlattenConcat
  <2> HIDE DEF a, w, f, x
  <2>4. Out' = a
    BY <1>1, <2>2, <2>3, ConcatEmptySeq
  <2> DEFINE k == Len(w) + Len(x)
  <2>5. k \in Nat /\ Len(Out') = Len(Out) - k /\ Lost' = Lost + k
    <3> DEFINE dd == discarded'
               d == discarded
               lw == Len(w)
               lx == Len(x)
               la == Len(a)
    <3>1. /\ lw \in Nat /\ lx \in Nat /\ la \in Nat /\ d \in Nat /\ dd = d + lw + lx
          /\ Len(Out) = (la + lw) + lx /\ Len(Out') = la /\ k = lw + lx
      BY <1>2, <1>4, <1>5, <2>1, <2>4
    <3>2. Lost' = Lost + (dd - d)
      BY <1>4
    <3> HIDE DEF k, d, dd, lw, lx, la
    <3>3. dd - d = k /\ k \in Nat /\ la = ((la + lw) + lx) - k
      BY <3>1
    <3>4. QED
      BY <3>1, <3>2, <3>3
  <2>6. k = 0 => Out' = Out
    <3>1. k = 0 => Len(w) = 0 /\ Len(x) = 0
      BY <1>5
    <3>2. k = 0 => w = <<>> /\ x = <<>>
      BY <1>1, <3>1, EmptySeq
    <3>3. (a \o <<>>) \o <<>> = a
      BY <1>1, ConcatEmptySeq
    <3>4. QED
      BY <1>1, <1>2, <2>4, <3>2, <3>3
  <2> HIDE DEF k
  <2>7. QED
    BY <1>3, <2>5, <2>6, StillBalances
<1>8. QED
    BY <1>6, <1>7

\* Emitting an event, or popping a notification, moves it on.
LEMMA BytesMove ==
    ASSUME Typed, Typed', Kept, Kept', BytesAccounted, Emits \/ Recovers \/ Pops \/ Idles
    PROVE  BytesAccounted'
<1>1. got' = got /\ nq'.dropped = nq.dropped /\ discarded' = discarded
    BY DEF Emits, Recovers, Pops, Idles, SameQueue
<1>2. Lost' = Lost
    BY <1>1, SumsMove DEF Emits, Recovers, Pops, Idles, Lost
<1>3. Out' = Out
  <2>1. CASE Pops
    <3>1. /\ delivered \in Seq(Seq(Token)) /\ nq.queue \in Seq(Seq(Token)) /\ nq.queue # <<>>
          /\ delivered' = Append(delivered, Head(nq.queue)) /\ nq'.queue = Tail(nq.queue)
          /\ nq'.rx = nq.rx
      BY <2>1, BookTypes DEF Pops
    <3>2. Append(delivered, Head(nq.queue)) \o Tail(nq.queue) = delivered \o nq.queue
      BY <3>1, HeadMoves
    <3>3. QED
      BY <3>1, <3>2, Zenon DEF Out, Stream
  <2>2. CASE Emits \/ Recovers \/ Idles
    BY <2>2 DEF Emits, Recovers, Idles, SameQueue, Out, Stream
  <2>3. QED
    BY <2>1, <2>2
<1>4. QED
    BY <1>1, <1>2, <1>3 DEF BytesAccounted, Out, Stream, Lost

\* Every step keeps every byte accounted for.
LEMMA BytesStep ==
    ASSUME Typed, Typed', Kept, Kept', BytesAccounted, [Next]_vars
    PROVE  BytesAccounted'
BY BytesParsed, BytesRead, BytesThrownAway, BytesMove, BookSteps

-----------------------------------------------------------------------------
\* The books, and what the buffer, the queue and the counters mean by them.
Books == Kept /\ DropsAccounted /\ FullStateTracksQueue /\ BytesAccounted

\* All books start empty.
LEMMA InitBooks == Init => Books
<1> SUFFICES ASSUME Init PROVE Books
    OBVIOUS
<1>1. /\ got = <<>> /\ bus = <<>> /\ delivered = <<>> /\ cleared = 0 /\ discarded = 0 /\ events = <<>>
      /\ nq.rx = <<>> /\ nq.queue = <<>> /\ nq.full = FALSE /\ nq.dropped = 0 /\ nq.lastDrop = 0
    BY DEF Init
<1>2. <<>> \in Seq(Token) /\ <<>> \in Seq(Events) /\ <<>> \in Seq(Seq(Token))
    BY EmptySeq
<1>3. bus \o events = <<>> /\ delivered \o nq.queue = <<>>
  <2>1. <<>> \o <<>> = <<>>
    BY <1>2, ConcatEmptySeq
  <2>2. QED
    BY <1>1, <2>1
<1>4. SumDeltas(<<>>) = 0 /\ OrphanBytes(<<>>) = 0
    BY <1>2, DeltasAdd, OrphansAdd
<1>5. FlattenSeq(<<>>) = <<>>
    BY FlattenConcat
<1>6. Kept
    BY <1>1, <1>2 DEF Kept
<1>7. DropsAccounted
    BY <1>1, <1>3, <1>4, StreamAssumption DEF DropsAccounted
<1>8. FullStateTracksQueue
    BY <1>1 DEF FullStateTracksQueue
<1>9. BytesAccounted
  <2>1. FlattenSeq(delivered \o nq.queue) \o nq.rx = <<>> /\ Len(<<>>) = 0
    BY <1>1, <1>2, <1>3, <1>5, ConcatEmptySeq, EmptySeq
  <2>2. OrphanBytes(bus \o events) + discarded = 0
    BY <1>1, <1>3, <1>4
  <2>3. QED
    BY <1>1, <2>1, <2>2 DEF BytesAccounted
<1>10. QED
    BY <1>6, <1>7, <1>8, <1>9 DEF Books

\* The books are kept together: each of the three properties is inductive once the
\* types are known, of this state and of the next.
THEOREM BooksKept == Spec => []Books
<1>1. Init => Books
    BY InitBooks
<1>2. IInv /\ IInv' /\ Books /\ [Next]_vars => Books'
  <2> SUFFICES ASSUME IInv, IInv', Books, [Next]_vars PROVE Books'
    OBVIOUS
  <2>1. Typed /\ Typed' /\ Kept /\ DropsAccounted /\ FullStateTracksQueue /\ BytesAccounted
    BY DEF IInv, Books
  <2>2. Kept'
    BY <2>1, KeptStep
  <2>3. DropsAccounted' /\ FullStateTracksQueue' /\ BytesAccounted'
    BY <2>1, <2>2, DropsStep, FullStep, BytesStep
  <2>4. QED
    BY <2>2, <2>3 DEF Books
<1>3. QED
    BY <1>1, <1>2, StreamInvariant, PTL DEF Spec

\* enqueue_or_drop_locked raises a drop event for the first drop of a full queue and
\* then every notif_drop_event_threshold: the deltas of all events raised, emitted or
\* not, are the drops up to _notif_last_drop_event_count, for any queue and threshold.
THEOREM EveryDropReported == Spec => []DropsAccounted
<1>1. Books => DropsAccounted
    BY DEF Books
<1>2. QED
    BY <1>1, BooksKept, PTL

\* As long as no session took queued notifications along, _notif_queue_full_state is on
\* only while the queue is full: next_notification() leaves it in time.
THEOREM FullStateMeansFull == Spec => []FullStateTracksQueue
<1>1. Books => FullStateTracksQueue
    BY DEF Books
<1>2. QED
    BY <1>1, BooksKept, PTL

\* process_rx_buffer_locked, process_eom_frame_locked and finalize_incomplete_locked
\* lose no byte in silence and keep the order of the others, whatever the stream, the
\* reads, the guards and the sessions.
THEOREM EveryByteAccounted == Spec => []BytesAccounted
<1>1. Books => BytesAccounted
    BY DEF Books
<1>2. QED
    BY <1>1, BooksKept, PTL

-----------------------------------------------------------------------------
(***************************************************************************)
(* FramesExact.  While all goes well (Smooth), what was popped and queued, *)
(* what is buffered, what the reactor has read and what waits in the       *)
(* socket are the tokens sent, in that order.                              *)
(***************************************************************************)
Smooth ==
    /\ ~EarlyBytes /\ sess <= 1 /\ Steady
    /\ cleared = 0 /\ nq.incomplete = 0 /\ nq.dropped = 0
    /\ AllOrderly(SentTokens)

\* The frames the parser has cut off, and the bytes on their way to it: buffered, read
\* under notif_mutex_ and not yet appended, or unread.  They make up the stream; of a
\* session that was closed only the frames are left.
Popped == delivered \o nq.queue
Pending == nq.rx \o (bytes \o wire)
InOrder ==
    /\ sock # 0 => FlattenSeq(Popped) \o Pending = SentTokens
    /\ sock = 0 => \E v \in Seq(Token) : FlattenSeq(Popped) \o v = SentTokens
Exact == Smooth => Whole(Popped) /\ InOrder

\* Where the parser is not at work, no frame waits in the buffer.
NoWholeFrame == rpc \notin {"top", "eom"} => NoEom(nq.rx)

\* Before the first session there is nothing.
Fresh ==
    sess = 0 => /\ sock = 0 /\ sent = 0 /\ wire = <<>> /\ bytes = <<>>
                /\ nq.rx = <<>> /\ nq.queue = <<>> /\ delivered = <<>>

\* A device that is not early is silent until the client is registered.
Silent == ~EarlyBytes /\ spc \in {"reply", "clear", "add"} => sent = 0 /\ wire = <<>>

\* Whoever is about to reset the queue has closed the session.
Closed ==
    /\ spc = "dead2" => sock = 0
    /\ Steady /\ rpc = "dead2" => sess > 0 /\ (sess <= 1 => sock = 0)

Course == NoWholeFrame /\ Fresh /\ Silent /\ Closed

\* The socket side of the stream.
linkVars == <<sock, sess, script, sent, wire, bytes>>

\* A step changes the socket side, or the queue and the buffer, or is the append that
\* takes the bytes from one to the other.
LEMMA StepKinds ==
    ASSUME Typed, [Next]_vars
    PROVE  \/ /\ SubConnect \/ DeviceSend \/ Read \/ SubReply \/ CleanupClose \/ SubClose \/ DelClose
              /\ UNCHANGED <<nq, delivered, cleared>>
           \/ AppendBytes
           \/ /\ UNCHANGED linkVars
              /\ \/ Parses \/ CleanupReset \/ SubReset \/ DelReset \/ SubClearBuffer \/ Pops
                 \/ Emits \/ Recovers \/ Idles
<1>1. CASE SubConnect \/ DeviceSend \/ Read \/ SubReply \/ CleanupClose \/ SubClose \/ DelClose
    BY <1>1 DEF SubConnect, DeviceSend, Read, SubReply, CleanupClose, SubClose, DelClose, historyVars,
                reactorFrame, deleterFrame, subscriberFrame
<1>2. CASE Parses \/ CleanupReset \/ SubReset \/ DelReset \/ SubClearBuffer
  <2>1. UNCHANGED linkVars
    BY <1>2 DEF Parses, ParseTop, ParseEom, ParseTail, Guard, PollSlice, CleanupReset, SubReset, DelReset,
                SubClearBuffer, linkVars, sessionVars, subscriberFrame, deleterFrame, reactorVars
  <2>2. QED
    BY <1>2, <2>1
<1>3. CASE AppendBytes
    BY <1>3
<1>4. ASSUME NEW c \in Consumers, Consumer(c)
      PROVE  UNCHANGED linkVars /\ (Pops \/ Recovers \/ Idles)
  <2>1. UNCHANGED linkVars
    BY <1>4 DEF Consumer, NextEnter, NextPop, NextSleep, NextExpire, NextEmpty, NextEmit, consumerFrame,
                linkVars, sessionVars, reactorVars
  <2>2. Pops \/ Recovers \/ Idles
    BY <1>4, ConsumerBooks
  <2>3. QED
    BY <2>1, <2>2
<1>5. ASSUME UNCHANGED linkVars, UNCHANGED <<nq, events, got, delivered, cleared, discarded, bus>>
      PROVE  UNCHANGED linkVars /\ Idles
    BY <1>5 DEF Idles, SameQueue
<1>6. CASE FlushEvent
    BY <1>6 DEF FlushEvent, Emits, linkVars, sessionVars, reactorVars
<1>7. CASE Tick
  <2>1. nq \in Records(Seq(Token), Clock, Seq(Seq(Token)))
    BY StateFields DEF Typed
  <2>2. QED
    BY <1>7, <2>1 DEF Tick, Idles, Records, SameQueue, localVars, historyVars, linkVars, sessionVars, reactorVars
<1>8. CASE EpollWait \/ Lookup \/ ReadThrows \/ EnterLoop \/ PollReady \/ PollThrows
    BY <1>5, <1>8 DEF EpollWait, Lookup, ReadThrows, EnterLoop, PollReady, PollThrows, localVars,
                      reactorFrame, linkVars, sessionVars, reactorVars
<1>9. CASE FlushDone \/ CleanupUnregister
    BY <1>5, <1>9 DEF FlushDone, CleanupUnregister, Unregister, localVars, reactorFrame, linkVars,
                      sessionVars, historyVars
<1>10. CASE SubConnectThrows \/ SubRegister \/ SubMarkConnected
    BY <1>5, <1>10 DEF SubConnectThrows, SubRegister, SubMarkConnected, subscriberFrame, localVars,
                       historyVars, linkVars, sessionVars, reactorVars
<1>11. CASE DelReadFd \/ DelUnregister \/ DeviceClose \/ UNCHANGED vars
    BY <1>5, <1>11 DEF DelReadFd, DelUnregister, Unregister, DeviceClose, vars, deleterFrame, localVars,
                       historyVars, linkVars, sessionVars, reactorVars
<1>12. QED
    BY <1>1, <1>2, <1>3, <1>4, <1>6, <1>7, <1>8, <1>9, <1>10, <1>11
       DEF Next, Reactor, Subscriber, Deleter, Parses

\* A parsing step on an orderly stream keeps the buffer, cuts a whole frame off, or is
\* counted as incomplete.
LEMMA SmoothParse ==
    ASSUME State \in States(Token), Parses, rpc = "tail" => NoEom(nq.rx),
           NEW u \in Seq(Token), AllOrderly(nq.rx \o u)
    PROVE  \/ Stays(State, NewState)
           \/ \E n \in Nat : Frames(State, NewState, n) /\ IsFrame(SubSeq(nq.rx, 1, n))
           \/ nq'.incomplete = nq.incomplete + 1
<1>1. nq.rx \in Seq(Token) /\ Len(nq.rx) \in Nat /\ NewState.q = nq'
    BY StateFields, ParsedFields
<1>2. CASE ParseTop
  <2>1. FindStart(nq.rx, 1) > 1 => Blank(SubSeq(nq.rx, 1, FindStart(nq.rx, 1) - 1))
    BY <1>1, NoOrphan
  <2>2. QED
    BY <1>2, <2>1, TopBooks
<1>3. CASE ParseEom
  <2> DEFINE eom == FindEom(nq.rx)
  <2>1. \/ eom = 0
        \/ eom \in 1..(Len(nq.rx) - 1) /\ IsFrame(SubSeq(nq.rx, 1, eom + 1))
    BY <1>1, FindEomIs
  <2>2. eom # 0 => ~Blank(SubSeq(nq.rx, 1, eom - 1))
    BY <1>1, NoEmptyFrame
  <2>3. Stays(State, NewState) \/ (eom # 0 /\ Frames(State, NewState, eom + 1))
    BY <1>3, <2>2, EomBooks
  <2> HIDE DEF eom
  <2>4. eom # 0 => eom + 1 \in Nat
    BY <1>1, <2>1
  <2>5. QED
    BY <2>1, <2>3, <2>4
<1>4. CASE ParseTail
  <2>1. NoEom(nq.rx)
    BY <1>4 DEF ParseTail
  <2>2. FindStart(nq.rx, 1) # 0 =>
          \A k \in FindStart(nq.rx, 1)..Len(nq.rx) : FindStart(nq.rx, k + 1) = 0
    BY <1>1, <2>1, OneStart
  <2>3. QED
    BY <1>4, <2>2, TailBooks
<1>5. CASE Guard \/ PollSlice
    BY <1>1, <1>5, GuardBooks
<1>6. QED
    BY <1>2, <1>3, <1>4, <1>5 DEF Parses

\* Only the parser leaves a frame in the buffer, and it comes back for it.
LEMMA NoWholeFrameStep ==
    ASSUME Typed, NoWholeFrame, [Next]_vars
    PROVE  NoWholeFrame'
<1>1. /\ State \in States(Token) /\ State.q = nq /\ NewState.q = nq'
      /\ nq.rx \in Seq(Token) /\ Len(nq.rx) \in Nat
      /\ nq \in Records(Seq(Token), Clock, Seq(Seq(Token)))
  <2>1. State \in States(Token)
    BY DEF Typed
  <2>2. QED
    BY <2>1, StateFields, ParsedFields
<1>2. NoEom(<<>>)
  <2>1. Len(<<>>) = 0
    BY EmptySeq
  <2>2. QED
    BY <2>1 DEF NoEom
<1>3. CASE ParseTop
  <2>1. rpc' \in {"top", "eom"} \/ (nq.rx = <<>> /\ nq' = [nq EXCEPT !.timer = "off"])
    BY <1>3 DEF ParseTop
  <2>2. nq.rx = <<>> /\ nq' = [nq EXCEPT !.timer = "off"] => nq'.rx = <<>>
    BY <1>1 DEF Records
  <2>3. QED
    BY <1>2, <2>1, <2>2 DEF NoWholeFrame
<1>4. CASE ParseEom
  <2>1. FindEom(nq.rx) = 0 => NoEom(nq.rx)
    BY <1>1, FindEomIs
  <2>2. rpc' = "eom" \/ (FindEom(nq.rx) = 0 /\ nq' \in {nq, [nq EXCEPT !.timer = "off"]})
    BY <1>4 DEF ParseEom
  <2>3. nq' \in {nq, [nq EXCEPT !.timer = "off"]} => nq'.rx = nq.rx
    BY <1>1 DEF Records
  <2>4. QED
    BY <2>1, <2>2, <2>3 DEF NoWholeFrame
<1>5. CASE ParseTail
  <2>1. rpc' = "top" \/ (rpc = "tail" /\ nq' = nq)
    BY <1>5 DEF ParseTail
  <2>2. QED
    BY <2>1 DEF NoWholeFrame
<1>6. CASE Guard \/ PollSlice
  <2>1. NoEom(nq.rx)
    BY <1>6 DEF Guard, PollSlice, NoWholeFrame
  <2>2. nq'.rx = nq.rx \/ \E n \in 1..Len(nq.rx) : nq'.rx = SubSeq(nq.rx, n + 1, Len(nq.rx))
    BY <1>1, <1>6, GuardBooks DEF Stays, Frames, Cuts
  <2>3. NoEom(nq'.rx)
    BY <1>1, <2>1, <2>2, NoEomAfterCut
  <2>4. QED
    BY <2>3 DEF NoWholeFrame
<1>7. CASE AppendBytes \/ EnterLoop
    BY <1>7 DEF AppendBytes, EnterLoop, NoWholeFrame
<1>8. CASE CleanupReset \/ SubReset \/ DelReset \/ SubClearBuffer
  <2>1. nq'.rx = <<>>
    BY <1>1, <1>8 DEF CleanupReset, SubReset, DelReset, ResetQueue, SubClearBuffer, Records
  <2>2. QED
    BY <1>2, <2>1 DEF NoWholeFrame
<1>9. ASSUME nq'.rx = nq.rx, rpc' = rpc \/ rpc \notin {"top", "eom"}
      PROVE  NoWholeFrame'
    BY <1>9 DEF NoWholeFrame
<1>10. ASSUME NEW c \in Consumers, Consumer(c) PROVE nq'.rx = nq.rx /\ rpc' = rpc
  <2>1. nq'.rx = nq.rx
    BY <1>10, ConsumerBooks DEF Pops, Recovers, Idles
  <2>2. rpc' = rpc
    BY <1>10 DEF Consumer, NextEnter, NextPop, NextSleep, NextExpire, NextEmpty, NextEmit, consumerFrame,
                 reactorVars
  <2>3. QED
    BY <2>1, <2>2
<1>11. CASE Tick
    BY <1>1, <1>9, <1>11 DEF Tick, Records, reactorVars
<1>12. CASE \/ EpollWait \/ Lookup \/ Read \/ ReadThrows \/ FlushEvent \/ FlushDone \/ PollReady
            \/ PollThrows \/ CleanupUnregister \/ CleanupClose
    BY <1>9, <1>12 DEF EpollWait, Lookup, Read, ReadThrows, FlushEvent, FlushDone, PollReady, PollThrows,
                       CleanupUnregister, CleanupClose, reactorFrame, reactorVars
<1>13. CASE \/ SubConnect \/ SubConnectThrows \/ SubReply \/ SubRegister \/ SubMarkConnected \/ SubClose
            \/ DelReadFd \/ DelUnregister \/ DelClose \/ DeviceSend \/ DeviceClose \/ UNCHANGED vars
    BY <1>9, <1>13 DEF SubConnect, SubConnectThrows, SubReply, SubRegister, SubMarkConnected, SubClose,
                       DelReadFd, DelUnregister, DelClose, DeviceSend, DeviceClose, vars, subscriberFrame,
                       deleterFrame, reactorVars
<1>14. QED
    BY <1>3, <1>4, <1>5, <1>6, <1>7, <1>8, <1>9, <1>10, <1>11, <1>12, <1>13
       DEF Next, Reactor, Subscriber, Deleter

\* Until the first connect_notification_non_blocking there is nothing to read or parse.
LEMMA FreshStep ==
    ASSUME Typed, Kept, Fresh, [Next]_vars
    PROVE  Fresh'
<1>1. /\ sess \in Nat /\ State.q = nq /\ NewState.q = nq' /\ nq.rx \in Seq(Token)
      /\ nq \in Records(Seq(Token), Clock, Seq(Seq(Token)))
    BY StateFields, BookTypes, ParsedFields, StreamAssumption DEF Typed, SessionTypes
<1>2. Len(<<>>) = 0 /\ <<>> \o <<>> = <<>> /\ \A n \in 0..0 : SubSeq(<<>>, n + 1, 0) = <<>>
    BY EmptySeq, ConcatEmptySeq
<1>3. CASE SubConnect
  <2>1. sess' # 0
    BY <1>1, <1>3 DEF SubConnect
  <2>2. QED
    BY <2>1 DEF Fresh
<1>4. CASE DeviceSend
    BY <1>4 DEF DeviceSend, Fresh
<1>5. CASE Read \/ CleanupClose \/ SubClose \/ DelClose
    BY <1>5 DEF Read, CleanupClose, SubClose, DelClose, CloseSession, Fresh, reactorFrame, historyVars,
                subscriberFrame, deleterFrame, reactorVars
<1>6. CASE SubReply
  <2>1. wire = <<>> => wire' = <<>>
    BY <1>2, <1>6 DEF SubReply, ReadUntilEom
  <2>2. QED
    BY <1>6, <2>1 DEF SubReply, Fresh, reactorVars, historyVars
<1>7. CASE AppendBytes
  <2>1. nq'.rx = nq.rx \o bytes /\ nq'.queue = nq.queue
    BY <1>1, <1>7 DEF AppendBytes, Records
  <2>2. QED
    BY <1>2, <1>7, <2>1 DEF AppendBytes, Fresh, sessionVars, reactorFrame
<1>8. CASE UNCHANGED linkVars /\ (Parses \/ Pops \/ Emits \/ Recovers \/ Idles)
  <2>1. CASE Parses
    <3>1. ASSUME nq.rx = <<>> PROVE nq'.rx = <<>> /\ nq'.queue = nq.queue
      <4>1. Len(State.q.rx) = 0
        BY <1>1, <1>2, <3>1
      <4>2. Stays(State, NewState)
        BY <2>1, <4>1, ParsesBooks DEF Drops, Frames, Cuts, Typed
      <4>3. QED
        BY <1>1, <3>1, <4>2 DEF Stays, SameQueue
    <3>2. delivered' = delivered
      BY <2>1 DEF Parses, ParseTop, ParseEom, ParseTail, Guard, PollSlice, reactorFrame
    <3>3. QED
      BY <1>8, <3>1, <3>2 DEF Fresh, linkVars
  <2>2. CASE Pops \/ Emits \/ Recovers \/ Idles
    BY <1>8, <2>2 DEF Pops, Emits, Recovers, Idles, SameQueue, Fresh, linkVars
  <2>3. QED
    BY <1>8, <2>1, <2>2
<1>9. CASE UNCHANGED linkVars /\ (CleanupReset \/ SubReset \/ DelReset \/ SubClearBuffer)
  <2>1. nq'.rx = <<>> /\ nq'.queue \in {nq.queue, <<>>} /\ delivered' = delivered
    BY <1>1, <1>9 DEF CleanupReset, SubReset, DelReset, ResetQueue, SubClearBuffer, Records
  <2>2. QED
    BY <1>9, <2>1 DEF Fresh, linkVars
<1>10. QED
    BY <1>3, <1>4, <1>5, <1>6, <1>7, <1>8, <1>9, StepKinds

\* What a device that is not early sends waits until the client is registered.
LEMMA SilentStep ==
    ASSUME Typed, Silent, [Next]_vars
    PROVE  Silent'
<1>1. Len(<<>>) = 0 /\ \A n \in 0..0 : SubSeq(<<>>, n + 1, 0) = <<>>
    BY EmptySeq
<1>2. CASE SubReply
  <2>1. wire = <<>> => wire' = <<>>
    BY <1>1, <1>2 DEF SubReply, ReadUntilEom
  <2>2. QED
    BY <1>2, <2>1 DEF SubReply, Silent
<1>3. CASE SubConnect
    BY <1>3 DEF SubConnect, Silent
<1>4. CASE DeviceSend
    BY <1>4 DEF DeviceSend, Silent
<1>5. CASE Read
    BY <1>5 DEF Read, Silent, reactorFrame
<1>6. CASE CleanupClose \/ SubClose \/ DelClose
    BY <1>6 DEF CleanupClose, SubClose, DelClose, CloseSession, Silent, deleterFrame, reactorFrame
<1>7. CASE SubClearBuffer
    BY <1>7 DEF SubClearBuffer, Silent, sessionVars
<1>8. ASSUME UNCHANGED <<sent, wire>>, spc' = spc \/ spc' \in {"mark", "idle", "dead1", "dead2"}
      PROVE  Silent'
    BY <1>8 DEF Silent
<1>9. CASE \/ EpollWait \/ Lookup \/ ReadThrows \/ AppendBytes \/ EnterLoop \/ Parses \/ FlushEvent
           \/ FlushDone \/ PollReady \/ PollThrows \/ CleanupUnregister \/ CleanupReset
    BY <1>8, <1>9 DEF EpollWait, Lookup, ReadThrows, AppendBytes, EnterLoop, Parses, ParseTop, ParseEom,
                      ParseTail, Guard, PollSlice, FlushEvent, FlushDone, PollReady, PollThrows,
                      CleanupUnregister, CleanupReset, sessionVars, reactorFrame
<1>10. CASE \/ SubConnectThrows \/ SubRegister \/ SubMarkConnected \/ SubReset \/ DelReadFd
            \/ DelUnregister \/ DelReset \/ DeviceClose \/ Tick \/ UNCHANGED vars
    BY <1>8, <1>10 DEF SubConnectThrows, SubRegister, SubMarkConnected, SubReset, DelReadFd, DelUnregister,
                       DelReset, DeviceClose, Tick, vars, sessionVars, deleterFrame
<1>11. ASSUME NEW c \in Consumers, Consumer(c) PROVE UNCHANGED <<sent, wire, spc>>
    BY <1>11 DEF Consumer, NextEnter, NextPop, NextSleep, NextExpire, NextEmpty, NextEmit, consumerFrame,
                 sessionVars
<1>12. QED
    BY <1>2, <1>3, <1>4, <1>5, <1>6, <1>7, <1>8, <1>9, <1>10, <1>11
       DEF Next, Reactor, Subscriber, Deleter, Parses

\* A session stays closed until its queue is reset, unless the next is opened.
LEMMA ClosedStep ==
    ASSUME Typed, Sessions, Closed, [Next]_vars
    PROVE  Closed'
<1>1. sess \in Nat /\ (sock # 0 => sess > 0) /\ (Steady' => Steady)
    BY SteadyBefore, StreamAssumption DEF Typed, SessionTypes
<1>2. CASE SubConnect
    BY <1>1, <1>2 DEF SubConnect, Closed, subscriberFrame, reactorVars
<1>3. CASE CleanupClose
  <2>1. Steady => sock # 0
    BY <1>3 DEF CleanupClose, Sessions, Attended
  <2>2. sock' = 0 /\ sess' = sess
    BY <1>3 DEF CleanupClose, CloseSession
  <2>3. QED
    BY <1>1, <2>1, <2>2 DEF Closed
<1>4. CASE SubClose \/ DelClose
    BY <1>1, <1>4 DEF SubClose, DelClose, CloseSession, Closed, subscriberFrame, deleterFrame, reactorVars
<1>5. ASSUME UNCHANGED <<sock, sess>>, rpc' = rpc \/ rpc' # "dead2", spc' = spc \/ spc' # "dead2"
      PROVE  Closed'
    BY <1>1, <1>5 DEF Closed
<1>6. CASE \/ EpollWait \/ Lookup \/ Read \/ ReadThrows \/ AppendBytes \/ EnterLoop \/ Parses
           \/ FlushEvent \/ PollReady \/ PollThrows \/ CleanupUnregister \/ CleanupReset
    BY <1>5, <1>6 DEF EpollWait, Lookup, Read, ReadThrows, AppendBytes, EnterLoop, Parses, ParseTop,
                      ParseEom, ParseTail, Guard, PollSlice, FlushEvent, PollReady, PollThrows,
                      CleanupUnregister, CleanupReset, sessionVars, reactorFrame, reactorVars
<1>7. CASE FlushDone
    BY <1>5, <1>7 DEF FlushDone, Typed, ReactorTypes, sessionVars
<1>8. CASE \/ SubConnectThrows \/ SubReply \/ SubClearBuffer \/ SubRegister \/ SubMarkConnected
           \/ SubReset \/ DelReadFd \/ DelUnregister \/ DelReset \/ DeviceSend \/ DeviceClose \/ Tick
           \/ UNCHANGED vars
    BY <1>5, <1>8 DEF SubConnectThrows, SubReply, SubClearBuffer, SubRegister, SubMarkConnected, SubReset,
                      DelReadFd, DelUnregister, DelReset, DeviceSend, DeviceClose, Tick, vars,
                      sessionVars, subscriberFrame, deleterFrame, reactorVars
<1>9. ASSUME NEW c \in Consumers, Consumer(c) PROVE UNCHANGED <<sock, sess, rpc, spc>>
    BY <1>9 DEF Consumer, NextEnter, NextPop, NextSleep, NextExpire, NextEmpty, NextEmit, consumerFrame,
                sessionVars, reactorVars
<1>10. QED
    BY <1>2, <1>3, <1>4, <1>5, <1>6, <1>7, <1>8, <1>9
       DEF Next, Reactor, Subscriber, Deleter, Parses

\* What the device has sent so far.
LEMMA SentIs ==
    ASSUME Typed, Fresh
    PROVE  SentTokens \in Seq(Token) /\ Len(SentTokens) = sent /\ (sent = 0 => SentTokens = <<>>)
<1>1. /\ sess \in 0..MaxSessions /\ script \in Scripts \cup {<<>>} /\ sent \in 0..Len(script)
      /\ MaxSessions \in Nat
    BY StreamAssumption DEF Typed, SessionTypes
<1>2. /\ script \in Seq(STRING) /\ sent \in Nat /\ Len(script) \in Nat
      /\ script = <<>> => Len(script) = 0
  <2>1. script \in Seq(STRING)
    BY <1>1, StreamAssumption, EmptySeq
  <2>2. Len(script) \in Nat /\ (script = <<>> => Len(script) = 0)
    BY <2>1, LenProperties, EmptySeq
  <2>3. QED
    BY <1>1, <2>1, <2>2
<1>3. ASSUME NEW i \in 1..sent PROVE <<script[i], sess>> \in Token
  <2>1. sess \in 1..MaxSessions /\ script \in Scripts /\ i \in 1..Len(script)
    BY <1>1, <1>2 DEF Fresh
  <2>2. i \in DOMAIN script
    BY <1>2, <2>1, LenProperties
  <2>3. script[i] \in UNION {{s[k] : k \in DOMAIN s} : s \in Scripts}
    BY <2>1, <2>2
  <2>4. QED
    BY <2>1, <2>3 DEF Token
<1>4. SentTokens \in [1..sent -> Token]
    BY <1>3 DEF SentTokens
<1>5. SentTokens \in Seq(Token) /\ Len(SentTokens) = sent
    BY <1>2, <1>4, IsASeq, LenProperties
<1>6. QED
    BY <1>5, EmptySeq

\* The next token comes at the end of it.
LEMMA SentGrows ==
    ASSUME Typed, Fresh, DeviceSend
    PROVE  LET t == <<script[sent + 1], sess>>
           IN  t \in Token /\ SentTokens' = Append(SentTokens, t) /\ wire' = Append(wire, t)
<1> DEFINE t == <<script[sent + 1], sess>>
<1>1. t \in Token /\ wire' = Append(wire, t) /\ sent \in Nat
    BY SentToken, StreamAssumption DEF DeviceSend, Typed, SessionTypes
<1>2. SentTokens \in Seq(Token) /\ Len(SentTokens) = sent
    BY SentIs
<1>3. SentTokens' = [i \in 1..(sent + 1) |-> <<script[i], sess>>]
    BY DEF DeviceSend, SentTokens
<1>4. SentTokens = [i \in 1..sent |-> <<script[i], sess>>]
    BY DEF SentTokens
<1> DEFINE a == Append(SentTokens, t)
           b == [i \in 1..(sent + 1) |-> <<script[i], sess>>]
<1>5. a \in Seq(Token) /\ Len(a) = sent + 1 /\ \A i \in 1..(sent + 1) : a[i] = b[i]
  <2> DEFINE s == SentTokens
  <2>1. s \in Seq(Token) /\ Len(s) = sent
    BY <1>2
  <2>2. \A i \in 1..(sent + 1) : b[i] = IF i = sent + 1 THEN t ELSE s[i]
    BY <1>1, <1>4
  <2> HIDE DEF s, t, b
  <2>3. /\ Append(s, t) \in Seq(Token) /\ Len(Append(s, t)) = sent + 1
        /\ \A i \in 1..(sent + 1) : Append(s, t)[i] = IF i = sent + 1 THEN t ELSE s[i]
    BY <1>1, <2>1, AppendProperties
  <2>4. QED
    BY <2>2, <2>3 DEF s
<1>6. b \in Seq(Token) /\ Len(b) = sent + 1
  <2>1. \A i \in 1..(sent + 1) : a[i] \in Token
    <3> HIDE DEF a
    <3>1. QED
      BY <1>1, <1>5
  <2>2. \A i \in 1..(sent + 1) : <<script[i], sess>> \in Token
    BY <1>5, <2>1
  <2>3. QED
    BY <1>1, <2>2
<1>7. SentTokens' = Append(SentTokens, t)
  <2>1. b = a
    <3> HIDE DEF a, b
    <3>1. QED
      BY <1>5, <1>6, SeqEqual
  <2>2. QED
    BY <1>3, <2>1
<1>8. QED
    BY <1>1, <1>7

\* No counter goes back.
LEMMA Counters ==
    ASSUME Typed, Typed', Kept, [Next]_vars
    PROVE  /\ nq'.dropped = 0 => nq.dropped = 0
           /\ nq'.incomplete = 0 => nq.incomplete = 0
           /\ cleared' = 0 => cleared = 0
<1>1. /\ State.q = nq /\ NewState.q = nq' /\ nq.dropped \in Nat /\ nq.incomplete \in Nat
      /\ cleared \in Nat /\ Len(nq.queue) \in Nat
    BY BookTypes, ParsedFields
<1>2. CASE Parsed
  <2>1. cleared' = cleared
    BY <1>2 DEF Parsed
  <2>2. /\ nq'.dropped = nq.dropped \/ nq'.dropped = nq.dropped + 1
        /\ nq'.incomplete >= nq.incomplete
    BY <1>1, <1>2 DEF Parsed, Stays, Drops, Frames, Accepts, Rejects, SameQueue
  <2>3. nq'.incomplete \in Nat
    <3>1. NewState \in States(Token)
      BY DEF Typed, State, NewState
    <3>2. QED
      BY <1>1, <3>1 DEF States, Queues, Records
  <2>4. QED
    BY <1>1, <2>1, <2>2, <2>3
<1>3. CASE Resets
    BY <1>1, <1>3 DEF Resets
<1>4. CASE Reads \/ Emits \/ Recovers \/ Pops \/ Clears \/ Idles
    BY <1>4 DEF Reads, Emits, Recovers, Pops, Clears, Idles, SameQueue
<1>5. QED
    BY <1>2, <1>3, <1>4, BookSteps

\* All went well so far, if it still does and no session was opened just now.
LEMMA SmoothBefore ==
    ASSUME Typed, Typed', Kept, Fresh, [Next]_vars, Smooth', ~SubConnect
    PROVE  Smooth /\ (DeviceSend \/ SentTokens' = SentTokens) /\ sess' = sess
<1>1. Steady /\ cleared = 0 /\ nq.incomplete = 0 /\ nq.dropped = 0 /\ ~EarlyBytes
    BY SteadyBefore, Counters DEF Smooth
<1>2. CASE DeviceSend
  <2>1. sess' = sess
    BY <1>2 DEF DeviceSend
  <2> DEFINE t == <<script[sent + 1], sess>>
  <2>2. SentTokens' = Append(SentTokens, t) /\ t \in Token /\ SentTokens \in Seq(Token)
    BY <1>2, SentGrows, SentIs
  <2> HIDE DEF t
  <2>3. AllOrderly(SentTokens')
    BY DEF Smooth, AllOrderly
  <2>4. AllOrderly(SentTokens)
    BY <2>2, <2>3, AllOrderlyBefore
  <2>5. QED
    BY <1>1, <1>2, <2>1, <2>4 DEF Smooth
<1>3. CASE ~DeviceSend
  <2>1. UNCHANGED <<sess, script, sent>>
    BY <1>3, StepKinds DEF Read, AppendBytes, SubReply, CleanupClose, SubClose, DelClose, CloseSession,
                           linkVars, sessionVars
  <2>2. SentTokens' = SentTokens
    BY <2>1 DEF SentTokens
  <2>3. QED
    BY <1>1, <2>1, <2>2 DEF Smooth
<1>4. QED
    BY <1>2, <1>3

\* The types of the parts of the stream.
LEMMA PartTypes ==
    ASSUME Typed, Kept
    PROVE  /\ Popped \in Seq(Seq(Token)) /\ FlattenSeq(Popped) \in Seq(Token)
           /\ nq.rx \in Seq(Token) /\ bytes \in Seq(Token) /\ wire \in Seq(Token)
           /\ bytes \o wire \in Seq(Token) /\ Pending \in Seq(Token)
<1>1. /\ Popped \in Seq(Seq(Token)) /\ FlattenSeq(Popped) \in Seq(Token)
      /\ nq.rx \in Seq(Token) /\ bytes \in Seq(Token) /\ wire \in Seq(Token)
    BY BookTypes, OutParts DEF Typed, SessionTypes, Popped
<1>2. bytes \o wire \in Seq(Token)
    BY <1>1, ConcatProperties
<1>3. Pending \in Seq(Token)
  <2> DEFINE z == bytes \o wire
  <2>1. z \in Seq(Token)
    BY <1>2
  <2> HIDE DEF z
  <2>2. nq.rx \o z \in Seq(Token)
    BY <1>1, <2>1, ConcatProperties
  <2>3. QED
    BY <2>2 DEF Pending, z
<1>4. QED
    BY <1>1, <1>2, <1>3

\* A new first session starts with nothing sent and nothing received.
LEMMA ConnectExact ==
    ASSUME Typed, Typed', Kept, Fresh, SubConnect, sess' <= 1
    PROVE  Whole(Popped)' /\ InOrder'
<1>1. sess = 0
    BY StreamAssumption DEF SubConnect, Typed, SessionTypes
<1>2. /\ delivered' = <<>> /\ nq'.queue = <<>> /\ nq'.rx = <<>> /\ bytes' = <<>> /\ wire' = <<>>
      /\ sent' = 0
    BY <1>1 DEF Fresh, SubConnect, historyVars, subscriberFrame, reactorVars
<1>3. <<>> \o <<>> = <<>> /\ Len(<<>>) = 0 /\ FlattenSeq(<<>>) = <<>> /\ <<>> \in Seq(Token)
    BY EmptySeq, ConcatEmptySeq, FlattenConcat
<1>4. SentTokens' = <<>>
  <2>1. SentTokens' = [i \in 1..0 |-> <<script'[i], sess'>>]
    BY <1>2 DEF SentTokens
  <2>2. QED
    BY <2>1
<1>5. Popped' = <<>> /\ Pending' = <<>>
    BY <1>2, <1>3 DEF Popped, Pending
<1>6. Whole(Popped)'
    BY <1>3, <1>5 DEF Whole
<1>7. FlattenSeq(Popped') \o Pending' = SentTokens' /\ FlattenSeq(Popped') \o <<>> = SentTokens'
    BY <1>3, <1>4, <1>5
<1>8. InOrder'
    BY <1>3, <1>7 DEF InOrder
<1>9. QED
    BY <1>6, <1>8

\* Nothing is popped, queued or parsed, and the bytes between the socket and the
\* buffer keep their order; or the session is closed, and what was left is lost.
LEMMA SameStream ==
    ASSUME Typed, Kept, Whole(Popped), InOrder, Popped' = Popped, SentTokens' = SentTokens,
           sock' = 0 \/ (sock' = sock /\ Pending' = Pending)
    PROVE  Whole(Popped)' /\ InOrder'
<1>1. Whole(Popped)'
    BY DEF Whole
<1>2. CASE sock' # 0
  <2>1. sock # 0 /\ Pending' = Pending
    BY <1>2
  <2>2. FlattenSeq(Popped') \o Pending' = SentTokens'
    BY <2>1 DEF InOrder
  <2>3. QED
    BY <1>1, <1>2, <2>2 DEF InOrder
<1>3. CASE sock' = 0
  <2>1. \E v \in Seq(Token) : FlattenSeq(Popped) \o v = SentTokens
    BY PartTypes DEF InOrder
  <2>2. \E v \in Seq(Token) : FlattenSeq(Popped') \o v = SentTokens'
    BY <2>1
  <2>3. QED
    BY <1>1, <1>3, <2>2 DEF InOrder
<1>4. QED
    BY <1>2, <1>3

\* The next frame of the stream moves from the buffer to the end of the queue.
LEMMA ParseExact ==
    ASSUME Typed, Typed', Kept, Sessions, NoWholeFrame, Smooth, Whole(Popped), InOrder,
           Parses, UNCHANGED linkVars, delivered' = delivered, SentTokens' = SentTokens,
           nq'.incomplete = 0, nq'.dropped = 0
    PROVE  Whole(Popped)' /\ InOrder'
<1>1. /\ State \in States(Token) /\ State.q = nq /\ NewState.q = nq'
      /\ nq.incomplete = 0 /\ nq.dropped = 0 /\ AllOrderly(SentTokens)
  <2>1. State \in States(Token)
    BY DEF Typed
  <2>2. QED
    BY <2>1, StateFields, ParsedFields DEF Smooth
<1>2. /\ Popped \in Seq(Seq(Token)) /\ nq.rx \in Seq(Token) /\ bytes \o wire \in Seq(Token)
      /\ Pending \in Seq(Token) /\ Len(nq.rx) \in Nat
      /\ delivered \in Seq(Seq(Token)) /\ nq.queue \in Seq(Seq(Token))
    BY PartTypes, BookTypes, LenProperties
<1>3. sock # 0 /\ (rpc = "tail" => NoEom(nq.rx))
  <2>1. rpc \in Parsing \cup {"poll"}
    BY DEF Parses, ParseTop, ParseEom, ParseTail, Guard, PollSlice, Parsing
  <2>2. QED
    BY <2>1 DEF Sessions, Attended, Smooth, NoWholeFrame, Parsing
<1> DEFINE y == bytes \o wire
<1>4. FlattenSeq(Popped) \o (nq.rx \o y) = SentTokens
    BY <1>3 DEF InOrder, Pending
<1>5. y \in Seq(Token) /\ Pending = nq.rx \o y /\ Pending' = nq'.rx \o y
    BY <1>2 DEF Pending, linkVars
<1>6. sock' = sock
    BY DEF linkVars
<1> HIDE DEF y
<1>7. AllOrderly(nq.rx \o y)
  <2>1. AllOrderly(FlattenSeq(Popped) \o Pending) /\ Pending \in Seq(Token)
    BY <1>1, <1>2, <1>4, <1>5
  <2>2. AllOrderly(Pending)
    BY <1>2, <2>1, RestOrderly
  <2>3. QED
    BY <1>5, <2>2
<1>8. CASE Stays(State, NewState)
  <2>1. nq'.rx = nq.rx /\ nq'.queue = nq.queue
    BY <1>1, <1>8 DEF Stays, SameQueue
  <2>2. Pending' = Pending /\ Popped' = Popped
    BY <1>5, <2>1 DEF Popped
  <2>3. QED
    BY <1>6, <2>2, SameStream
<1>9. ASSUME NEW n \in Nat, Frames(State, NewState, n), IsFrame(SubSeq(nq.rx, 1, n))
      PROVE  Whole(Popped)' /\ InOrder'
  <2> DEFINE f == SubSeq(nq.rx, 1, n)
  <2>1. /\ n \in 0..Len(nq.rx) /\ nq'.rx = SubSeq(nq.rx, n + 1, Len(nq.rx))
        /\ nq'.queue = Append(nq.queue, f)
    <3>1. n \in 1..Len(nq.rx) /\ nq'.rx = SubSeq(nq.rx, n + 1, Len(nq.rx))
      BY <1>1, <1>9 DEF Frames, Cuts
    <3>2. ~Rejects(State, NewState)
      BY <1>1 DEF Rejects
    <3>3. Accepts(State, NewState, SubSeq(State.q.rx, 1, n))
      BY <1>9, <3>2 DEF Frames
    <3>4. QED
      BY <1>1, <1>2, <3>1, <3>3 DEF Accepts
  <2>2. f \in Seq(Token)
    BY <1>2, <2>1, CutJoins
  <2>3. MovesOn(Popped, nq.rx, y, n)
    BY <1>2, <1>5, <2>1, CutMovesOn, Zenon
  <2> HIDE DEF f
  <2>4. Popped' = Append(Popped, f)
    <3>1. delivered \o Append(nq.queue, f) = Append(delivered \o nq.queue, f)
      <4> DEFINE T == Seq(Token)
      <4>1. delivered \in Seq(T) /\ nq.queue \in Seq(T) /\ f \in T
        BY <1>2, <2>2
      <4> HIDE DEF T
      <4>2. QED
        BY <4>1, AppendAfter
    <3>2. QED
      BY <2>1, <3>1 DEF Popped
  <2>5. Whole(Popped')
    <3>1. IsFrame(f)
      BY <1>9 DEF f
    <3>2. QED
      BY <1>2, <2>2, <2>4, <3>1, WholeAppend
  <2>6. FlattenSeq(Popped') \o Pending' = SentTokens'
    <3>1. FlattenSeq(Append(Popped, f)) \o (SubSeq(nq.rx, n + 1, Len(nq.rx)) \o y)
            = FlattenSeq(Popped) \o (nq.rx \o y)
      BY <2>3 DEF MovesOn, f
    <3>2. QED
      BY <1>4, <1>5, <2>1, <2>4, <3>1
  <2>7. QED
    BY <1>3, <1>6, <2>5, <2>6 DEF InOrder, Whole
<1>10. nq'.incomplete # nq.incomplete + 1
    BY <1>1
<1>11. QED
    BY <1>1, <1>3, <1>5, <1>7, <1>8, <1>9, <1>10, SmoothParse

\* The steps of the socket side: a token is sent or read, or the session is closed.
LEMMA LinkExact ==
    ASSUME Typed, Kept, Sessions, Fresh, Silent, Smooth, Whole(Popped), InOrder,
           DeviceSend \/ Read \/ SubReply \/ CleanupClose \/ SubClose \/ DelClose,
           UNCHANGED <<nq, delivered>>, DeviceSend \/ SentTokens' = SentTokens
    PROVE  Whole(Popped)' /\ InOrder'
<1>1. Popped' = Popped
    BY DEF Popped
<1>2. /\ Popped \in Seq(Seq(Token)) /\ FlattenSeq(Popped) \in Seq(Token) /\ nq.rx \in Seq(Token)
      /\ bytes \in Seq(Token) /\ wire \in Seq(Token)
    BY PartTypes
<1>3. CASE DeviceSend
  <2> DEFINE t == <<script[sent + 1], sess>>
             f == FlattenSeq(Popped)
             x == nq.rx
  <2>1. t \in Token /\ SentTokens' = Append(SentTokens, t) /\ wire' = Append(wire, t)
    BY <1>3, SentGrows
  <2>2. sock # 0 /\ sock' = sock /\ bytes' = bytes
    BY <1>3 DEF DeviceSend, reactorVars
  <2>3. f \in Seq(Token) /\ x \in Seq(Token)
    BY <1>2
  <2>4. f \o (x \o (bytes \o wire)) = SentTokens
    BY <2>2 DEF InOrder, Pending
  <2>5. FlattenSeq(Popped') \o Pending' = f \o (x \o (bytes \o wire'))
    BY <1>1, <2>2 DEF Pending
  <2> HIDE DEF t, f, x
  <2>6. Lengthens(f, x, bytes, wire, t)
    BY <1>2, <2>1, <2>3, PartsMove, Zenon
  <2>7. FlattenSeq(Popped') \o Pending' = SentTokens'
    BY <2>1, <2>4, <2>5, <2>6 DEF Lengthens
  <2>8. QED
    BY <1>1, <2>2, <2>7 DEF InOrder, Whole
<1>4. CASE Read
  <2>1. bytes = <<>> /\ bytes' = wire /\ wire' = <<>> /\ sock' = sock /\ SentTokens' = SentTokens
    <3>1. UNCHANGED <<script, sent, sess>>
      BY <1>4 DEF Read
    <3>2. SentTokens' = SentTokens
      BY <3>1 DEF SentTokens
    <3>3. QED
      BY <1>4, <3>2 DEF Read, Sessions, Carried
  <2>2. nq.rx \o (wire \o <<>>) = nq.rx \o (<<>> \o wire)
    <3> DEFINE x == nq.rx
    <3>1. x \in Seq(Token)
      BY <1>2
    <3> HIDE DEF x
    <3>2. QED
      BY <1>2, <3>1, ConcatEmptySeq DEF x
  <2>3. Pending' = Pending
    BY <2>1, <2>2 DEF Pending
  <2>4. QED
    BY <1>1, <2>1, <2>3, SameStream
<1>5. CASE SubReply
  <2>1. wire = <<>> /\ wire' = <<>> /\ bytes' = bytes /\ sock' = sock /\ SentTokens' = SentTokens
    <3>1. wire = <<>>
      BY <1>5 DEF SubReply, Silent, Smooth
    <3>2. Len(<<>>) = 0 /\ \A n \in 0..0 : SubSeq(<<>>, n + 1, 0) = <<>>
      BY EmptySeq
    <3>3. wire' = <<>>
      BY <1>5, <3>1, <3>2 DEF SubReply, ReadUntilEom
    <3>4. QED
      BY <1>5, <3>1, <3>3 DEF SubReply, DeviceSend, reactorVars
  <2>2. Pending' = Pending
    BY <2>1 DEF Pending
  <2>3. QED
    BY <1>1, <2>1, <2>2, SameStream
<1>6. CASE CleanupClose \/ SubClose \/ DelClose
  <2>1. sock' = 0 /\ UNCHANGED <<script, sent, sess>>
    BY <1>6 DEF CleanupClose, SubClose, DelClose, CloseSession
  <2>2. SentTokens' = SentTokens
    BY <2>1 DEF SentTokens
  <2>3. QED
    BY <1>1, <2>1, <2>2, SameStream
<1>7. QED
    BY <1>3, <1>4, <1>5, <1>6

\* The steps that empty the queue or the buffer: with nothing cleared or refused there
\* was no frame to lose, and a closed session has no other bytes to account for.
LEMMA EmptyingExact ==
    ASSUME Typed, Typed', Kept, Sessions, Course, Smooth, Whole(Popped), InOrder,
           CleanupReset \/ SubReset \/ DelReset \/ SubClearBuffer,
           UNCHANGED linkVars, SentTokens' = SentTokens, cleared' = 0
    PROVE  Whole(Popped)' /\ InOrder'
<1>1. /\ nq \in Records(Seq(Token), Clock, Seq(Seq(Token))) /\ Len(nq.queue) \in Nat
      /\ nq.queue \in Seq(Seq(Token)) /\ cleared = 0 /\ sock' = sock
    BY StateFields, BookTypes DEF Typed, Smooth, linkVars
<1>2. CASE CleanupReset \/ SubReset \/ DelReset
  <2>1. sock = 0
    BY <1>2 DEF CleanupReset, SubReset, DelReset, Course, Closed, Smooth, Sessions, Attended
  <2>2. nq.queue = <<>> /\ nq'.queue = <<>> /\ delivered' = delivered
    <3>1. /\ nq'.queue = <<>> /\ cleared' = cleared + Len(nq.queue) /\ delivered' = delivered
      BY <1>1, <1>2 DEF CleanupReset, SubReset, DelReset, ResetQueue, Records
    <3>2. Len(nq.queue) = 0
      BY <1>1, <3>1
    <3>3. QED
      BY <1>1, <3>1, <3>2, EmptySeq
  <2>3. Popped' = Popped
    BY <2>2 DEF Popped
  <2>4. QED
    BY <1>1, <2>1, <2>3, SameStream
<1>3. CASE SubClearBuffer
  <2>1. nq'.rx = <<>> /\ nq'.queue = nq.queue /\ delivered' = delivered /\ spc = "clear"
    BY <1>1, <1>3 DEF SubClearBuffer, Records
  <2>2. Popped' = Popped
    BY <2>1 DEF Popped
  <2>3. sock # 0 => nq.rx = <<>>
    <3>1. SentTokens = <<>>
      BY <2>1, SentIs DEF Course, Silent, Smooth
    <3> DEFINE z == bytes \o wire
    <3>2. FlattenSeq(Popped) \in Seq(Token) /\ nq.rx \in Seq(Token) /\ z \in Seq(Token)
      BY PartTypes
    <3>3. sock # 0 => FlattenSeq(Popped) \o (nq.rx \o z) = <<>>
      BY <3>1 DEF InOrder, Pending
    <3> HIDE DEF z
    <3>4. QED
      BY <3>2, <3>3, EmptyParts
  <2>4. sock # 0 => Pending' = Pending
    BY <2>1, <2>3 DEF Pending, linkVars
  <2>5. QED
    BY <1>1, <2>2, <2>4, SameStream
<1>4. QED
    BY <1>2, <1>3

\* Every step keeps the stream in order while all goes well.
LEMMA ExactStep ==
    ASSUME Typed, Typed', Kept, Sessions, Course, Exact, [Next]_vars
    PROVE  Exact'
<1> SUFFICES ASSUME Smooth' PROVE Whole(Popped)' /\ InOrder'
    BY DEF Exact
<1>1. CASE SubConnect
  <2>1. sess' <= 1
    BY DEF Smooth
  <2>2. QED
    BY <1>1, <2>1, ConnectExact DEF Course
<1>2. CASE ~SubConnect
  <2>1. Smooth /\ (DeviceSend \/ SentTokens' = SentTokens)
    BY <1>2, SmoothBefore DEF Course
  <2>2. Whole(Popped) /\ InOrder
    BY <2>1 DEF Exact
  <2>3. nq'.incomplete = 0 /\ nq'.dropped = 0 /\ cleared' = 0
    BY DEF Smooth
  <2>4. CASE /\ DeviceSend \/ Read \/ SubReply \/ CleanupClose \/ SubClose \/ DelClose
             /\ UNCHANGED <<nq, delivered, cleared>>
    BY <2>1, <2>2, <2>4, LinkExact DEF Course
  <2>5. CASE AppendBytes
    <3>1. /\ nq'.rx = nq.rx \o bytes /\ bytes' = <<>> /\ UNCHANGED <<wire, sock, script, sent, sess>>
          /\ nq'.queue = nq.queue /\ delivered' = delivered
      <4>1. nq \in Records(Seq(Token), Clock, Seq(Seq(Token)))
        BY StateFields DEF Typed
      <4>2. QED
        BY <2>5, <4>1 DEF AppendBytes, Records, sessionVars, reactorFrame
    <3>2. Popped' = Popped /\ SentTokens' = SentTokens
      BY <3>1 DEF Popped, SentTokens
    <3>3. Pending' = Pending
      <4> DEFINE x == nq.rx
      <4>1. x \in Seq(Token) /\ bytes \in Seq(Token) /\ wire \in Seq(Token)
        BY PartTypes
      <4>2. Pending' = (x \o bytes) \o (<<>> \o wire) /\ Pending = x \o (bytes \o wire)
        BY <3>1 DEF Pending
      <4> HIDE DEF x
      <4>3. (x \o bytes) \o (<<>> \o wire) = x \o (bytes \o wire)
        BY <4>1, ConcatEmptySeq, ConcatAssociative
      <4>4. QED
        BY <4>2, <4>3
    <3>4. QED
      BY <2>2, <3>1, <3>2, <3>3, SameStream
  <2>6. ASSUME UNCHANGED linkVars, Popped' = Popped, nq'.rx = nq.rx
        PROVE  Whole(Popped)' /\ InOrder'
    <3>1. Pending' = Pending /\ SentTokens' = SentTokens /\ sock' = sock
      BY <2>6 DEF Pending, SentTokens, linkVars
    <3>2. QED
      BY <2>2, <2>6, <3>1, SameStream
  <2>7. CASE UNCHANGED linkVars /\ Parses
    <3>1. SentTokens' = SentTokens
      BY <2>7 DEF SentTokens, linkVars
    <3>2. delivered' = delivered
      BY <2>7 DEF Parses, ParseTop, ParseEom, ParseTail, Guard, PollSlice, reactorFrame
    <3>3. QED
      BY <2>1, <2>2, <2>3, <2>7, <3>1, <3>2, ParseExact DEF Course
  <2>8. CASE UNCHANGED linkVars /\ (CleanupReset \/ SubReset \/ DelReset \/ SubClearBuffer)
    <3>1. SentTokens' = SentTokens
      BY <2>8 DEF SentTokens, linkVars
    <3>2. QED
      BY <2>1, <2>2, <2>3, <2>8, <3>1, EmptyingExact
  <2>9. CASE UNCHANGED linkVars /\ Pops
    <3>1. Append(delivered, Head(nq.queue)) \o Tail(nq.queue) = delivered \o nq.queue
      <4> DEFINE T == Seq(Token)
                 b == nq.queue
      <4>1. delivered \in Seq(T) /\ b \in Seq(T) /\ b # <<>>
        BY <2>9, BookTypes DEF Pops
      <4> HIDE DEF T, b
      <4>2. Append(delivered, Head(b)) \o Tail(b) = delivered \o b
        BY <4>1, HeadMoves
      <4>3. QED
        BY <4>2 DEF b
    <3>2. Popped' = Popped /\ nq'.rx = nq.rx
      BY <2>9, <3>1 DEF Pops, Popped
    <3>3. QED
      BY <2>6, <2>9, <3>2
  <2>10. CASE UNCHANGED linkVars /\ (Emits \/ Recovers \/ Idles)
    <3>1. Popped' = Popped /\ nq'.rx = nq.rx
      BY <2>10 DEF Emits, Recovers, Idles, SameQueue, Popped
    <3>2. QED
      BY <2>6, <2>10, <3>1
  <2>11. QED
    BY <1>2, <2>4, <2>5, <2>7, <2>8, <2>9, <2>10, StepKinds
<1>3. QED
    BY <1>1, <1>2

\* The stream and what its order rests on.
Exactness == Course /\ Exact

\* Nothing is sent, read or queued at first.
LEMMA InitExactness == Init => Exactness
<1> SUFFICES ASSUME Init PROVE Exactness
    OBVIOUS
<1>1. /\ sock = 0 /\ sess = 0 /\ sent = 0 /\ wire = <<>> /\ bytes = <<>> /\ delivered = <<>>
      /\ nq.rx = <<>> /\ nq.queue = <<>> /\ rpc = "epoll" /\ spc = "idle"
    BY DEF Init
<1>2. /\ <<>> \o <<>> = <<>> /\ Len(<<>>) = 0 /\ FlattenSeq(<<>>) = <<>> /\ <<>> \in Seq(Token)
    BY EmptySeq, ConcatEmptySeq, FlattenConcat
<1>3. Course
  <2>1. NoEom(<<>>)
    BY <1>2 DEF NoEom
  <2>2. QED
    BY <1>1, <2>1 DEF Course, NoWholeFrame, Fresh, Silent, Closed
<1>4. SentTokens = <<>>
  <2>1. SentTokens = [i \in 1..0 |-> <<script[i], sess>>]
    BY <1>1 DEF SentTokens
  <2>2. QED
    BY <2>1
<1>5. Popped = <<>>
    BY <1>1, <1>2 DEF Popped
<1>6. Whole(Popped)
    BY <1>2, <1>5 DEF Whole
<1>7. FlattenSeq(Popped) \o <<>> = SentTokens
    BY <1>2, <1>4, <1>5
<1>8. InOrder
    BY <1>1, <1>2, <1>7 DEF InOrder
<1>9. QED
    BY <1>3, <1>6, <1>8 DEF Exactness, Exact

\* Frames that are whole and come first are the first frames of the stream; with
\* nothing left to read or parse they are all of them.
LEMMA ExactFrames ==
    ASSUME IInv, Kept, Exactness
    PROVE  FramesExact
<1>1. Typed /\ Sessions /\ Course /\ Exact
    BY DEF IInv, Exactness
<1>2. SentTokens \in Seq(Token)
    BY <1>1, SentIs DEF Course
<1> DEFINE all == EomSplit(SentTokens)
<1>3. all \in Splits(Token)
    BY <1>2, EomSplitType
<1> SUFFICES ASSUME ~EarlyBytes, sess <= 1, deletes = 0, refused = 0, cleared = 0,
                    nq.incomplete = 0, nq.dropped = 0,
                    Orderly(all.cur), \A f \in Range(all.frames) : Orderly(f)
             PROVE  /\ IsPrefix(Popped, all.frames)
                    /\ armed /\ rpc = "epoll" /\ wire = <<>> => Popped = all.frames
    BY DEF FramesExact, Popped
<1>4. AllOrderly(SentTokens)
  <2>1. DOMAIN all.frames = 1..Len(all.frames)
    BY <1>3 DEF Splits
  <2>2. \A i \in 1..Len(all.frames) : all.frames[i] \in Range(all.frames)
    BY <2>1 DEF Range
  <2>3. QED
    BY <2>2 DEF AllOrderly
<1>5. Smooth /\ Steady
    BY <1>4 DEF Smooth, Steady
<1>6. Whole(Popped) /\ InOrder
    BY <1>1, <1>5 DEF Exact
<1>7. Popped \in Seq(Seq(Token)) /\ Pending \in Seq(Token) /\ nq.rx \in Seq(Token)
    BY <1>1, PartTypes
<1>8. ASSUME NEW w \in Seq(Token), FlattenSeq(Popped) \o w = SentTokens
      PROVE  IsPrefix(Popped, all.frames) /\ (NoEom(w) => all.frames = Popped)
    BY <1>6, <1>7, <1>8, FramesAreFirst
<1> HIDE DEF all
<1>9. IsPrefix(Popped, all.frames)
  <2>1. \E w \in Seq(Token) : FlattenSeq(Popped) \o w = SentTokens
    BY <1>6, <1>7 DEF InOrder
  <2>2. QED
    BY <1>8, <2>1
<1>10. ASSUME armed, rpc = "epoll", wire = <<>>
       PROVE  Popped = all.frames
  <2>1. sock # 0 /\ bytes = <<>>
    BY <1>1, <1>5, <1>10 DEF Sessions, Carried, Attended
  <2>2. NoEom(nq.rx)
    BY <1>1, <1>10 DEF Course, NoWholeFrame
  <2>3. Pending = nq.rx
    <3> DEFINE x == nq.rx
    <3>1. x \in Seq(Token) /\ <<>> \in Seq(Token) /\ Pending = x \o (<<>> \o <<>>)
      BY <1>7, <1>10, <2>1, EmptySeq DEF Pending
    <3> HIDE DEF x
    <3>2. x \o (<<>> \o <<>>) = x
      BY <3>1, ConcatEmptySeq
    <3>3. QED
      BY <3>1, <3>2 DEF x
  <2>4. FlattenSeq(Popped) \o Pending = SentTokens /\ NoEom(Pending)
    BY <1>6, <2>1, <2>2, <2>3 DEF InOrder
  <2>5. QED
    BY <1>7, <1>8, <2>4
<1>11. QED
    BY <1>9, <1>10

\* The whole path, from the device over read_currently_available(), the append under
\* another mutex, process_rx_buffer_locked and the queue to next_notification(): what
\* the consumers get is what the device sent, frame by frame, for any script, any cut
\* of the reads and any consumers.
THEOREM FramesInOrder == Spec => []FramesExact
<1>1. Init => Exactness
    BY InitExactness
<1>2. IInv /\ IInv' /\ Books /\ Books' /\ Exactness /\ [Next]_vars => Exactness'
  <2> SUFFICES ASSUME IInv, IInv', Books, Exactness, [Next]_vars PROVE Exactness'
    OBVIOUS
  <2>1. Typed /\ Typed' /\ Kept /\ Sessions /\ Course /\ Exact
    BY DEF IInv, Books, Exactness
  <2>2. Course'
    BY <2>1, NoWholeFrameStep, FreshStep, SilentStep, ClosedStep DEF Course
  <2>3. Exact'
    BY <2>1, ExactStep
  <2>4. QED
    BY <2>2, <2>3 DEF Exactness
<1>3. IInv /\ Books /\ Exactness => FramesExact
    BY ExactFrames DEF Books
<1>4. QED
    BY <1>1, <1>2, <1>3, StreamInvariant, BooksKept, PTL DEF Spec
=============================================================================
