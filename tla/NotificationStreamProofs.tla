---------------------- MODULE NotificationStreamProofs ----------------------
(***************************************************************************)
(* Theorems about NotificationStream, for any scripts, limits, consumers   *)
(* and descriptors, and any bounds.                                        *)
(*                                                                         *)
(* The inductive invariant IInv has five parts: Typed, two properties that *)
(* are inductive with it (EnqueuedAccounted, NoStrandedConsumer), Partials *)
(* for the timer, and Sessions for what belongs to which session.  The     *)
(* lambdas of on_notification_ready are treated once, as functions of the  *)
(* state under _notif_queue_mtx: ParsingEffect says that each keeps the    *)
(* types and Advances.  States(T) holds the states over tokens of T, so    *)
(* that the same lemma serves the types (T = Token) and the sessions       *)
(* (T = the tokens of one session).                                        *)
(***************************************************************************)
EXTENDS NotificationStream, NotificationFramingProofs

\* The record nq, and the states of the lambdas, over tokens of T.
Records(B, C, Q) ==
    [rx : B, timer : C, queue : Q, full : BOOLEAN,
     dropped : Nat, lastDrop : Nat, enqueued : Nat, incomplete : Nat, high : Nat]
Clock == {"off", "running", "expired"}
Queues(T) == Records(Seq(T), Clock, Seq(Seq(T)))
Events == [type : EventType, delta : Int, size : Nat]
States(T) == [q : Queues(T), events : Seq(Events), queued : Nat]

\* What parsing does to the queue: each frame it appends is counted twice, once
\* for ever and once for the next notify_all.
Balanced(q, r) == r.enqueued + Len(q.queue) = q.enqueued + Len(r.queue)
Advances(s, r) ==
    /\ Balanced(s.q, r.q)
    /\ r.queued >= s.queued
    /\ r.queued = s.queued => r.q.queue = s.q.queue

\* What the types say, with nq as the record it is, and that an open socket
\* belongs to a session.
SessionTypes ==
    /\ sock \in Fds \cup {0} /\ connected \in BOOLEAN /\ armed \in BOOLEAN
    /\ handlers \subseteq Fds
    /\ sess \in 0..MaxSessions /\ script \in Scripts \cup {<<>>} /\ sent \in 0..Len(script)
    /\ wire \in Seq(Token) /\ hup \in BOOLEAN
    /\ sock # 0 => sess > 0

ReactorTypes ==
    /\ rpc \in {"epoll", "event", "hupEvent", "read", "append", "loop", "flush", "poll",
                "cleanup", "dead1", "dead2"} \cup Parsing
    /\ rfd \in Fds \cup {0} /\ bytes \in Seq(Token)
    /\ site \in {"read", "loop", "poll", "epoll"} /\ progressed \in BOOLEAN

CallerTypes ==
    /\ spc \in {"idle", "reply", "clear", "add", "mark", "dead1", "dead2"}
    /\ dpc \in {"idle", "remove", "dead1", "dead2"} /\ dfd \in Fds \cup {0}
    /\ refused \in 0..MaxRefused /\ deletes \in 0..MaxDeletes
    /\ cpc \in [Consumers -> {"idle", "entered", "blocked", "woken", "expired", "emit"}]
    /\ delivered \in Seq(Seq(Token)) /\ cleared \in Nat

Typed == State \in States(Token) /\ SessionTypes /\ ReactorTypes /\ CallerTypes

\* On its way to the guards the reactor knows whether a partial is left.
Partials ==
    /\ TimerTracksPartial
    /\ rpc = "tail" => nq.rx # <<>>
    /\ rpc = "guard" /\ nq.rx = <<>> => nq.timer = "off"

\* Nothing was deleted or refused, so only the reactor ends what is registered.
Steady == deletes = 0 /\ refused = 0

\* A session is registered, or connected.
Live == spc = "mark" \/ (spc = "idle" /\ connected)

\* The tokens of session n.
TokensOf(n) == {t \in Token : t[2] = n}

\* What is under way belongs to the session it came from.
Carried ==
    /\ wire \in Seq(TokensOf(sess))
    /\ rpc # "append" => bytes = <<>>

\* A descriptor is watched, and the reactor is at work on it, for a session that
\* is registered.
Attended ==
    /\ dpc = "idle"
    /\ connected => spc = "idle"
    /\ armed => sock # 0 /\ Live
    /\ rpc \notin {"epoll", "dead2"} => sock = rfd /\ sock # 0 /\ Live

\* Between two cleanups what is buffered and queued is the registered session's,
\* and a session that is not yet registered finds both empty.
Owned ==
    /\ bytes \in Seq(TokensOf(sess))
    /\ rpc # "dead2" /\ Live =>
         nq.rx \in Seq(TokensOf(sess)) /\ nq.queue \in Seq(Seq(TokensOf(sess)))
    /\ rpc # "dead2" /\ ~Live => nq.queue = <<>>
    /\ rpc # "dead2" /\ spc = "add" => nq.rx = <<>>

Sessions == Carried /\ (Steady => Attended /\ Owned)

IInv == Typed /\ EnqueuedAccounted /\ NoStrandedConsumer /\ Partials /\ Sessions

-----------------------------------------------------------------------------
\* The assignments the code makes to the fields of nq keep it a record of its kind.
LEMMA RecordUpdates ==
    ASSUME NEW B, NEW C, NEW Q, NEW q \in Records(B, C, Q)
    PROVE  /\ \A x \in Q, m, n \in Nat :
                 [q EXCEPT !.queue = x, !.enqueued = m, !.high = n] \in Records(B, C, Q)
           /\ \A m, n \in Nat, f \in BOOLEAN :
                 [q EXCEPT !.dropped = m, !.lastDrop = n, !.full = f] \in Records(B, C, Q)
           /\ \A m \in Nat : [q EXCEPT !.dropped = m] \in Records(B, C, Q)
           /\ \A m \in Nat : [q EXCEPT !.incomplete = m] \in Records(B, C, Q)
           /\ \A b \in B, c \in C : [q EXCEPT !.rx = b, !.timer = c] \in Records(B, C, Q)
           /\ \A b \in B : [q EXCEPT !.rx = b] \in Records(B, C, Q)
           /\ \A c \in C : [q EXCEPT !.timer = c] \in Records(B, C, Q)
           /\ \A x \in Q, f \in BOOLEAN : [q EXCEPT !.queue = x, !.full = f] \in Records(B, C, Q)
           /\ \A x \in Q, b \in B, c \in C :
                 [q EXCEPT !.queue = x, !.rx = b, !.timer = c] \in Records(B, C, Q)
BY DEF Records

\* A step that appends one frame and counts it, or does neither, is balanced.
LEMMA Balance ==
    ASSUME NEW q, NEW r, q.enqueued \in Nat, Len(q.queue) \in Nat,
           \/ r.enqueued = q.enqueued /\ r.queue = q.queue
           \/ r.enqueued = q.enqueued + 1 /\ Len(r.queue) = Len(q.queue) + 1
    PROVE  Balanced(q, r)
BY DEF Balanced

\* Every frame is either appended and counted, or dropped and counted.
LEMMA EnqueueOrDropEffect ==
    ASSUME NEW T, NEW s \in States(T), NEW frame \in Seq(T), NEW size \in Nat
    PROVE  LET r == EnqueueOrDrop(s, frame, size)
           IN  /\ r \in States(T) /\ Advances(s, r)
               /\ r.q.rx = s.q.rx /\ r.q.timer = s.q.timer
<1> DEFINE delta == s.q.dropped + 1 - s.q.lastDrop
           event == Event(IF s.q.full THEN "drops" ELSE "full", delta, size)
           longer == Append(s.q.queue, frame)
           high  == IF Len(s.q.queue) + 1 > s.q.high THEN Len(s.q.queue) + 1 ELSE s.q.high
           q1 == [s.q EXCEPT !.queue = longer, !.enqueued = s.q.enqueued + 1, !.high = high]
           q2 == [s.q EXCEPT !.dropped = s.q.dropped + 1, !.lastDrop = s.q.dropped + 1, !.full = TRUE]
           q3 == [s.q EXCEPT !.dropped = s.q.dropped + 1]
           more  == [q |-> q1, events |-> s.events, queued |-> s.queued + 1]
           told  == [q |-> q2, events |-> Append(s.events, event), queued |-> s.queued]
           quiet == [q |-> q3, events |-> s.events, queued |-> s.queued]
<1>1. EnqueueOrDrop(s, frame, size) \in {more, told, quiet}
    BY DEF EnqueueOrDrop, States
<1>2. /\ s.q \in Records(Seq(T), Clock, Seq(Seq(T))) /\ s.events \in Seq(Events) /\ s.queued \in Nat
      /\ s.q.queue \in Seq(Seq(T)) /\ Len(s.q.queue) \in Nat
      /\ {s.q.enqueued, s.q.dropped, s.q.lastDrop, s.q.high} \subseteq Nat
    BY DEF States, Queues, Records
<1>3. longer \in Seq(Seq(T)) /\ Len(longer) = Len(s.q.queue) + 1 /\ high \in Nat
    BY <1>2, AppendProperties
<1>4. q1 \in Queues(T) /\ q2 \in Queues(T) /\ q3 \in Queues(T)
  <2>1. s.q.enqueued + 1 \in Nat /\ s.q.dropped + 1 \in Nat /\ TRUE \in BOOLEAN
    BY <1>2
  <2> HIDE DEF longer, high
  <2>2. QED
    BY <1>2, <1>3, <2>1, RecordUpdates DEF Queues
<1>5. Append(s.events, event) \in Seq(Events)
  <2>1. event \in Events
      BY <1>2 DEF Event, Events, EventType
  <2>2. QED
      BY <1>2, <2>1, AppendProperties
<1>6. more \in States(T) /\ told \in States(T) /\ quiet \in States(T)
  <2> HIDE DEF q1, q2, q3, event
  <2> QED
    BY <1>2, <1>4, <1>5 DEF States
<1>7. /\ q1.rx = s.q.rx /\ q1.timer = s.q.timer /\ q1.queue = longer /\ q1.enqueued = s.q.enqueued + 1
      /\ q2.rx = s.q.rx /\ q2.timer = s.q.timer /\ q2.queue = s.q.queue /\ q2.enqueued = s.q.enqueued
      /\ q3.rx = s.q.rx /\ q3.timer = s.q.timer /\ q3.queue = s.q.queue /\ q3.enqueued = s.q.enqueued
    BY <1>2 DEF Records
<1>8. Advances(s, more) /\ Advances(s, told) /\ Advances(s, quiet)
  <2>1. /\ more.q = q1 /\ told.q = q2 /\ quiet.q = q3
        /\ more.queued = s.queued + 1 /\ told.queued = s.queued /\ quiet.queued = s.queued
    OBVIOUS
  <2> HIDE DEF q1, q2, q3, more, told, quiet, longer
  <2>2. Advances(s, more)
    <3>1. /\ more.q.enqueued = s.q.enqueued + 1 /\ Len(more.q.queue) = Len(s.q.queue) + 1
          /\ s.q.enqueued \in Nat /\ Len(s.q.queue) \in Nat /\ s.queued \in Nat
      BY <1>2, <1>3, <1>7, <2>1
    <3>2. Balanced(s.q, more.q)
      BY <3>1, Balance
    <3>3. QED
      BY <3>1, <3>2, <2>1 DEF Advances
  <2>3. Advances(s, told) /\ Advances(s, quiet)
    BY <1>2, <1>7, <2>1, Balance DEF Advances
  <2>4. QED
    BY <2>2, <2>3
<1>9. QED
  <2>1. more.q = q1 /\ told.q = q2 /\ quiet.q = q3
    OBVIOUS
  <2> HIDE DEF q1, q2, q3, more, told, quiet
  <2>2. QED
    BY <1>1, <1>6, <1>7, <1>8, <2>1

\* A diagnostic event leaves the buffer and the queue alone.
LEMMA AddDiagnosticEffect ==
    ASSUME NEW T, NEW s \in States(T), NEW type \in EventType, NEW size \in Nat
    PROVE  LET r == AddDiagnostic(s, type, size)
           IN  /\ r \in States(T) /\ Advances(s, r)
               /\ r.q.rx = s.q.rx /\ r.q.timer = s.q.timer
<1> DEFINE event == Event(type, 0, size)
           n == IF type \in {"abandoned", "guard"} THEN s.q.incomplete + 1 ELSE s.q.incomplete
           q1 == [s.q EXCEPT !.incomplete = n]
           r == [q |-> q1, events |-> Append(s.events, event), queued |-> s.queued]
<1>1. AddDiagnostic(s, type, size) = r
  <2>1. AddDiagnostic(s, type, size) = [s EXCEPT !.q.incomplete = n, !.events = Append(@, event)]
    BY DEF AddDiagnostic
  <2> HIDE DEF n, event
  <2>2. QED
    BY <2>1 DEF States
<1>2. /\ s.q \in Records(Seq(T), Clock, Seq(Seq(T))) /\ s.events \in Seq(Events) /\ s.queued \in Nat
      /\ n \in Nat /\ {s.q.enqueued, Len(s.q.queue)} \subseteq Nat
    BY DEF States, Queues, Records
<1>3. Append(s.events, event) \in Seq(Events)
    BY <1>2, AppendProperties DEF Event, Events
<1>4. q1 \in Queues(T)
    BY <1>2, RecordUpdates DEF Queues
<1>5. /\ q1.rx = s.q.rx /\ q1.timer = s.q.timer
      /\ q1.queue = s.q.queue /\ q1.enqueued = s.q.enqueued
    BY <1>2 DEF Records
<1>6. r \in States(T) /\ r.q = q1 /\ r.queued = s.queued
  <2> HIDE DEF q1
  <2> QED
    BY <1>2, <1>3, <1>4 DEF States
<1>7. QED
  <2> HIDE DEF q1, r
  <2> QED
    BY <1>1, <1>2, <1>5, <1>6, Balance DEF Advances

\* Erasing cuts the front of the buffer off and turns the timer off.
LEMMA EraseEffect ==
    ASSUME NEW T, NEW s \in States(T), NEW n \in 0..Len(s.q.rx)
    PROVE  LET r == Erase(s, n)
           IN  /\ r \in States(T) /\ Advances(s, r)
               /\ Len(r.q.rx) = Len(s.q.rx) - n /\ r.q.timer = "off"
               /\ n = Len(s.q.rx) => r.q.rx = <<>>
<1>1. s.q.rx \in Seq(T) /\ Len(s.q.rx) \in Nat
    BY DEF States, Queues, Records
<1>2. /\ SubSeq(s.q.rx, n + 1, Len(s.q.rx)) \in Seq(T)
      /\ Len(SubSeq(s.q.rx, n + 1, Len(s.q.rx))) = Len(s.q.rx) - n
      /\ n = Len(s.q.rx) => SubSeq(s.q.rx, n + 1, Len(s.q.rx)) = <<>>
    BY <1>1, Cut
<1> DEFINE q1 == [s.q EXCEPT !.rx = SubSeq(s.q.rx, n + 1, Len(s.q.rx)), !.timer = "off"]
           r == [q |-> q1, events |-> s.events, queued |-> s.queued]
<1>3. Erase(s, n) = r
  <2> DEFINE cut == SubSeq(s.q.rx, n + 1, Len(s.q.rx))
  <2>1. Erase(s, n) = [s EXCEPT !.q.rx = cut, !.q.timer = "off"]
    BY DEF Erase
  <2> HIDE DEF cut
  <2>2. [s EXCEPT !.q.rx = cut, !.q.timer = "off"] =
           [q |-> [s.q EXCEPT !.rx = cut, !.timer = "off"], events |-> s.events, queued |-> s.queued]
    <3> DEFINE s1 == [q |-> [s.q EXCEPT !.rx = cut], events |-> s.events, queued |-> s.queued]
    <3>1. [s EXCEPT !.q.rx = cut] = s1
      BY DEF States
    <3>2. [s EXCEPT !.q.rx = cut, !.q.timer = "off"] = [s1 EXCEPT !.q.timer = "off"]
      BY <3>1
    <3>3. QED
      BY <3>2
  <2>3. QED
    BY <2>1, <2>2 DEF cut
<1>4. /\ s.q \in Records(Seq(T), Clock, Seq(Seq(T))) /\ s.events \in Seq(Events) /\ s.queued \in Nat
      /\ "off" \in Clock /\ {s.q.enqueued, Len(s.q.queue)} \subseteq Nat
    BY DEF States, Queues, Records, Clock
<1>5. q1 \in Queues(T)
    BY <1>2, <1>4, RecordUpdates DEF Queues
<1>6. /\ q1.rx = SubSeq(s.q.rx, n + 1, Len(s.q.rx)) /\ q1.timer = "off"
      /\ q1.queue = s.q.queue /\ q1.enqueued = s.q.enqueued
    BY <1>4 DEF Records
<1>7. r \in States(T) /\ r.q = q1 /\ r.queued = s.queued
  <2> HIDE DEF q1
  <2> QED
    BY <1>4, <1>5 DEF States
<1>8. QED
  <2> HIDE DEF q1, r
  <2>1. r \in States(T) /\ Advances(s, r)
    BY <1>4, <1>6, <1>7, Balance DEF Advances
  <2>2. QED
    BY <1>2, <1>3, <1>6, <1>7, <2>1

\* Balance holds across two steps.
LEMMA BalanceComposes ==
    ASSUME NEW p, NEW q, NEW r, Balanced(p, q), Balanced(q, r),
           p.enqueued \in Nat, q.enqueued \in Nat, r.enqueued \in Nat,
           Len(p.queue) \in Nat, Len(q.queue) \in Nat, Len(r.queue) \in Nat
    PROVE  Balanced(p, r)
<1>1. PICK a \in Nat, b \in Nat, c \in Nat, l \in Nat, m \in Nat, n \in Nat :
          /\ a = p.enqueued /\ b = q.enqueued /\ c = r.enqueued
          /\ l = Len(p.queue) /\ m = Len(q.queue) /\ n = Len(r.queue)
    OBVIOUS
<1>2. b + l = a + m /\ c + m = b + n
    BY <1>1 DEF Balanced
<1>3. c + l = a + n
    BY <1>2
<1>4. QED
    BY <1>1, <1>3 DEF Balanced

\* Parsing goes on where it stopped.
LEMMA AdvancesComposes ==
    ASSUME NEW T, NEW s \in States(T), NEW r \in States(T), NEW u \in States(T),
           Advances(s, r), Advances(r, u)
    PROVE  Advances(s, u)
<1>1. ASSUME NEW x \in States(T)
      PROVE  x.q.enqueued \in Nat /\ Len(x.q.queue) \in Nat /\ x.queued \in Nat
  <2>1. x.q \in Records(Seq(T), Clock, Seq(Seq(T))) /\ x.queued \in Nat
    BY DEF States, Queues
  <2>2. x.q.enqueued \in Nat /\ x.q.queue \in Seq(Seq(T))
    BY <2>1 DEF Records
  <2>3. QED
    BY <2>1, <2>2
<1>2. Balanced(s.q, u.q)
    BY <1>1, BalanceComposes DEF Advances
<1>3. PICK k \in Nat, m \in Nat, n \in Nat : k = s.queued /\ m = r.queued /\ n = u.queued
    BY <1>1
<1>4. m >= k /\ n >= m
    BY <1>3 DEF Advances
<1>5. n >= k /\ (n = k => m = k /\ n = m)
    BY <1>4
<1>6. QED
    BY <1>2, <1>3, <1>5 DEF Advances

\* A guard that fires empties the buffer and turns the timer off.
LEMMA FinalizeEffect ==
    ASSUME NEW T, NEW s \in States(T)
    PROVE  LET r == Finalize(s)
           IN  r \in States(T) /\ Advances(s, r) /\ r.q.rx = <<>> /\ r.q.timer = "off"
<1> DEFINE n == Len(s.q.rx)
           a == Erase(s, n)
           b == AddDiagnostic(a, "guard", n)
<1>1. s.q.rx \in Seq(T) /\ n \in Nat /\ "guard" \in EventType
    BY DEF States, Queues, Records, EventType
<1>2. a \in States(T) /\ Advances(s, a) /\ a.q.rx = <<>> /\ a.q.timer = "off"
    BY <1>1, EraseEffect
<1>3. b \in States(T) /\ Advances(a, b) /\ b.q.rx = <<>> /\ b.q.timer = "off"
  <2> HIDE DEF a, n
  <2> QED
    BY <1>1, <1>2, AddDiagnosticEffect
<1>4. Finalize(s) = EnqueueOrDrop(b, s.q.rx, n)
    BY DEF Finalize
<1> HIDE DEF a, b, n
<1>5. LET r == Finalize(s)
      IN  r \in States(T) /\ Advances(b, r) /\ r.q.rx = <<>> /\ r.q.timer = "off"
    BY <1>1, <1>3, <1>4, EnqueueOrDropEffect
<1>6. QED
    BY <1>2, <1>3, <1>5, AdvancesComposes

\* A frame that its EOM ends is reported empty, or queued or dropped.
LEMMA ProcessEomFrameEffect ==
    ASSUME NEW T, NEW s \in States(T), NEW eom \in 1..(Len(s.q.rx) - 1)
    PROVE  ProcessEomFrame(s, eom) \in States(T) /\ Advances(s, ProcessEomFrame(s, eom))
<1> DEFINE frame == SubSeq(s.q.rx, 1, eom - 1)
           whole == SubSeq(s.q.rx, 1, eom + 1)
           rest  == Erase(s, eom + 1)
           told  == AddDiagnostic(rest, "invalid", Len(frame))
<1>1. s.q.rx \in Seq(T) /\ Len(s.q.rx) \in Nat /\ {"empty", "invalid"} \subseteq EventType /\ 0 \in Nat
    BY DEF States, Queues, Records, EventType
<1>2. frame \in Seq(T) /\ whole \in Seq(T) /\ Len(frame) \in Nat
  <2>1. eom - 1 \in 0..Len(s.q.rx) /\ eom + 1 \in 0..Len(s.q.rx) /\ 1 \in Nat \ {0}
    BY <1>1
  <2>2. frame \in Seq(T) /\ whole \in Seq(T)
    BY <1>1, <2>1, Cut
  <2>3. QED
    BY <2>2
<1>3. rest \in States(T) /\ Advances(s, rest)
  <2>1. eom + 1 \in 0..Len(s.q.rx)
    BY <1>1
  <2>2. QED
    BY <2>1, EraseEffect
<1>4. ProcessEomFrame(s, eom) \in
         {AddDiagnostic(rest, "empty", Len(frame)), EnqueueOrDrop(rest, whole, 0),
          EnqueueOrDrop(told, whole, Len(frame))}
    BY DEF ProcessEomFrame
<1> HIDE DEF frame, whole, rest
<1>5. /\ AddDiagnostic(rest, "empty", Len(frame)) \in States(T)
      /\ Advances(rest, AddDiagnostic(rest, "empty", Len(frame)))
    BY <1>1, <1>2, <1>3, AddDiagnosticEffect
<1>6. EnqueueOrDrop(rest, whole, 0) \in States(T) /\ Advances(rest, EnqueueOrDrop(rest, whole, 0))
    BY <1>1, <1>2, <1>3, EnqueueOrDropEffect
<1>7. told \in States(T) /\ Advances(rest, told)
    BY <1>1, <1>2, <1>3, AddDiagnosticEffect
<1> HIDE DEF told
<1>8. /\ EnqueueOrDrop(told, whole, Len(frame)) \in States(T)
      /\ Advances(told, EnqueueOrDrop(told, whole, Len(frame)))
    BY <1>1, <1>2, <1>7, EnqueueOrDropEffect
<1>9. Advances(rest, EnqueueOrDrop(told, whole, Len(frame)))
    BY <1>3, <1>7, <1>8, AdvancesComposes
<1>10. PICK r \in States(T) : ProcessEomFrame(s, eom) = r /\ Advances(rest, r)
    BY <1>4, <1>5, <1>6, <1>8, <1>9
<1>11. QED
    BY <1>3, <1>10, AdvancesComposes

-----------------------------------------------------------------------------
\* The state that a step of the reactor leaves under the mutex.
NewState == [q |-> nq', events |-> events', queued |-> queued']

\* A stored state is the one the step leaves.
LEMMA StoreIsNewState ==
    ASSUME NEW T, NEW r \in States(T), Store(r)
    PROVE  NewState = r
BY DEF Store, NewState, States

\* A step that changes neither nq nor the locals leaves the state as it was.
LEMMA NoChange ==
    ASSUME NEW T, State \in States(T), UNCHANGED <<nq, localVars>>
    PROVE  NewState = State
BY DEF NewState, State, localVars

\* Doing nothing advances.
LEMMA AdvancesReflexive ==
    ASSUME NEW T, NEW s \in States(T)
    PROVE  Advances(s, s)
BY Balance DEF Advances, States, Queues, Records

\* A fragment is cut off the front and reported, and perhaps queued.
LEMMA FragmentEffect ==
    ASSUME NEW T, NEW s \in States(T), NEW n \in 0..Len(s.q.rx), NEW type \in EventType
    PROVE  LET told == AddDiagnostic(Erase(s, n), type, n)
               kept == EnqueueOrDrop(told, SubSeq(s.q.rx, 1, n), n)
           IN  /\ told \in States(T) /\ Advances(s, told)
               /\ kept \in States(T) /\ Advances(s, kept)
<1> DEFINE cut  == Erase(s, n)
           told == AddDiagnostic(cut, type, n)
           frag == SubSeq(s.q.rx, 1, n)
           kept == EnqueueOrDrop(told, frag, n)
<1>1. s.q.rx \in Seq(T) /\ n \in Nat
  <2>1. s.q \in Records(Seq(T), Clock, Seq(Seq(T)))
    BY DEF States, Queues
  <2>2. QED
    BY <2>1 DEF Records
<1>2. frag \in Seq(T)
    BY <1>1, Cut
<1>3. cut \in States(T) /\ Advances(s, cut)
    BY EraseEffect
<1> HIDE DEF cut, frag
<1>4. told \in States(T) /\ Advances(cut, told)
    BY <1>1, <1>3, AddDiagnosticEffect
<1> HIDE DEF told
<1>5. kept \in States(T) /\ Advances(told, kept)
    BY <1>1, <1>2, <1>4, EnqueueOrDropEffect
<1> HIDE DEF kept
<1>6. Advances(s, told)
    BY <1>3, <1>4, AdvancesComposes
<1>7. Advances(s, kept)
    BY <1>4, <1>5, <1>6, AdvancesComposes
<1>8. QED
    BY <1>4, <1>5, <1>6, <1>7 DEF cut, told, frag, kept

\* The timer is set.
LEMMA TimerEffect ==
    ASSUME NEW T, NEW s \in States(T), NEW c \in Clock
    PROVE  LET r == [q |-> [s.q EXCEPT !.timer = c], events |-> s.events, queued |-> s.queued]
           IN  r \in States(T) /\ Advances(s, r) /\ r.q.timer = c /\ r.q.rx = s.q.rx
<1> DEFINE q1 == [s.q EXCEPT !.timer = c]
           r  == [q |-> q1, events |-> s.events, queued |-> s.queued]
<1>1. /\ s.q \in Records(Seq(T), Clock, Seq(Seq(T))) /\ s.events \in Seq(Events) /\ s.queued \in Nat
    BY DEF States, Queues
<1>2. s.q.enqueued \in Nat /\ Len(s.q.queue) \in Nat
    BY <1>1 DEF Records
<1>3. q1 \in Queues(T)
    BY <1>1, RecordUpdates DEF Queues
<1>4. /\ q1.timer = c /\ q1.rx = s.q.rx
      /\ q1.queue = s.q.queue /\ q1.enqueued = s.q.enqueued
    BY <1>1 DEF Records
<1>5. r \in States(T) /\ r.q = q1 /\ r.queued = s.queued
  <2> HIDE DEF q1
  <2> QED
    BY <1>1, <1>3 DEF States
<1>6. QED
  <2> HIDE DEF q1, r
  <2>1. Advances(s, r)
    BY <1>1, <1>2, <1>4, <1>5, Balance DEF Advances
  <2>2. QED
    BY <1>4, <1>5, <2>1 DEF q1, r

\* Whatever the buffer holds, a parsing step appends frames to the queue and
\* counts them, or leaves the queue alone.
LEMMA ParsingEffect ==
    ASSUME NEW T, State \in States(T), ParseTop \/ ParseEom \/ ParseTail \/ Guard \/ PollSlice
    PROVE  NewState \in States(T) /\ Advances(State, NewState)
<1>1. /\ State.q = nq /\ State.events = events /\ State.queued = queued
      /\ nq \in Records(Seq(T), Clock, Seq(Seq(T))) /\ nq.rx \in Seq(T) /\ Len(nq.rx) \in Nat
  <2>1. State.q = nq /\ State.events = events /\ State.queued = queued
    BY DEF State
  <2>2. nq \in Records(Seq(T), Clock, Seq(Seq(T)))
    BY <2>1 DEF States, Queues
  <2>3. QED
    BY <2>1, <2>2 DEF Records
<1>2. {"orphan", "noEom", "abandoned"} \subseteq EventType /\ {"off", "running"} \subseteq Clock
    BY DEF EventType, Clock
<1>3. ASSUME UNCHANGED <<nq, localVars>>
      PROVE  NewState \in States(T) /\ Advances(State, NewState)
    BY <1>3, NoChange, AdvancesReflexive
<1>4. ASSUME NEW r \in States(T), Advances(State, r), Store(r)
      PROVE  NewState \in States(T) /\ Advances(State, NewState)
    BY <1>4, StoreIsNewState
<1>5. ASSUME nq' = [nq EXCEPT !.timer = "off"], UNCHANGED localVars
      PROVE  NewState \in States(T) /\ Advances(State, NewState)
  <2>1. NewState = [q |-> [State.q EXCEPT !.timer = "off"], events |-> State.events,
                    queued |-> State.queued]
    BY <1>1, <1>5 DEF NewState, localVars
  <2>2. QED
    BY <1>2, <2>1, TimerEffect
<1>6. CASE ParseTop
  <2> DEFINE start == FindStart(nq.rx, 1)
             r == AddDiagnostic(Erase(State, start - 1), "orphan", start - 1)
  <2>1. start \in {0} \cup 1..Len(nq.rx)
    BY <1>1, SearchesStayInside DEF FindStart
  <2>2. CASE nq' = [nq EXCEPT !.timer = "off"] /\ UNCHANGED localVars
    BY <2>2, <1>5
  <2>3. CASE start > 1 /\ Store(r)
    <3>1. start - 1 \in 0..Len(State.q.rx)
      BY <1>1, <2>1, <2>3
    <3>2. r \in States(T) /\ Advances(State, r)
      BY <1>2, <3>1, FragmentEffect
    <3>3. QED
      BY <2>3, <3>2, <1>4
  <2>4. CASE UNCHANGED <<nq, localVars>>
    BY <2>4, <1>3
  <2>5. QED
    BY <1>6, <2>2, <2>3, <2>4 DEF ParseTop
<1>7. CASE ParseEom
  <2> DEFINE eom == FindEom(nq.rx)
             r == ProcessEomFrame(State, eom)
  <2>1. eom \in {0} \cup 1..(Len(nq.rx) - 1)
    BY <1>1, SearchesStayInside
  <2>2. CASE eom # 0 /\ Store(r)
    <3>1. eom \in 1..(Len(State.q.rx) - 1)
      BY <1>1, <2>1, <2>2
    <3>2. r \in States(T) /\ Advances(State, r)
      BY <3>1, ProcessEomFrameEffect
    <3>3. QED
      BY <2>2, <3>2, <1>4
  <2>3. CASE nq' = [nq EXCEPT !.timer = "off"] /\ UNCHANGED localVars
    BY <2>3, <1>5
  <2>4. CASE UNCHANGED <<nq, localVars>>
    BY <2>4, <1>3
  <2>5. QED
    BY <1>7, <2>2, <2>3, <2>4 DEF ParseEom
<1>8. CASE ParseTail
  <2> DEFINE start == FindStart(nq.rx, 1)
             end   == IF start = 0 THEN 0 ELSE EndAfterStart(nq.rx, start)
             next  == IF start = 0 THEN 0
                      ELSE FindStart(nq.rx, (IF end # 0 THEN end ELSE start) + 1)
             whole == EnqueueOrDrop(AddDiagnostic(Erase(State, end), "noEom", end),
                                    SubSeq(nq.rx, 1, end), end)
             part  == EnqueueOrDrop(AddDiagnostic(Erase(State, next - 1), "abandoned", next - 1),
                                    SubSeq(nq.rx, 1, next - 1), next - 1)
  <2>1. start \in {0} \cup 1..Len(nq.rx)
    BY <1>1, SearchesStayInside DEF FindStart
  <2>2. end \in {0} \cup 1..Len(nq.rx)
    <3>1. CASE start = 0
      BY <3>1
    <3>2. CASE start # 0
      <4>1. start + 1 \in Nat \ {0}
        BY <1>1, <2>1
      <4>2. EndAfterStart(nq.rx, start) \in {0} \cup (start + 1)..Len(nq.rx)
        BY <1>1, <4>1, SearchesStayInside DEF EndAfterStart
      <4>3. QED
        BY <1>1, <2>1, <3>2, <4>2
    <3>3. QED
      BY <3>1, <3>2
  <2> HIDE DEF end
  <2>3. next \in {0} \cup 1..Len(nq.rx)
    <3> DEFINE from == (IF end # 0 THEN end ELSE start) + 1
    <3>1. CASE start = 0
      BY <3>1
    <3>2. CASE start # 0
      <4>1. from \in Nat \ {0}
        BY <1>1, <2>1, <2>2
      <4> HIDE DEF from
      <4>2. FindStart(nq.rx, from) \in {0} \cup from..Len(nq.rx)
        BY <1>1, <4>1, SearchesStayInside DEF FindStart
      <4>3. QED
        BY <1>1, <3>2, <4>1, <4>2 DEF from
    <3>3. QED
      BY <3>1, <3>2
  <2> HIDE DEF next
  <2>4. CASE next # 0 /\ end # 0 /\ Store(whole)
    <3>1. end \in 0..Len(State.q.rx)
      BY <1>1, <2>2
    <3>2. whole \in States(T) /\ Advances(State, whole)
      BY <1>1, <1>2, <3>1, FragmentEffect
    <3> HIDE DEF whole
    <3>3. QED
      BY <2>4, <3>2, <1>4
  <2>5. CASE next # 0 /\ Store(part)
    <3>1. next - 1 \in 0..Len(State.q.rx)
      BY <1>1, <2>3, <2>5
    <3>2. part \in States(T) /\ Advances(State, part)
      BY <1>1, <1>2, <3>1, FragmentEffect
    <3> HIDE DEF part
    <3>3. QED
      BY <2>5, <3>2, <1>4
  <2>6. CASE UNCHANGED <<nq, localVars>>
    BY <2>6, <1>3
  <2>7. QED
    BY <1>8, <2>4, <2>5, <2>6 DEF ParseTail, end, next
<1>9. CASE Guard
  <2> DEFINE s == IF nq.rx # <<>> /\ nq.timer = "off"
                    THEN [State EXCEPT !.q.timer = "running"] ELSE State
             fires == SizeLimitReached(s.q) \/ (site = "loop" /\ TimeoutReached(s.q))
             g == IF fires THEN Finalize(s) ELSE s
  <2>1. s \in States(T) /\ Advances(State, s)
    <3> DEFINE t == [q |-> [State.q EXCEPT !.timer = "running"], events |-> State.events,
                     queued |-> State.queued]
    <3>1. [State EXCEPT !.q.timer = "running"] = t
      BY DEF State
    <3>2. t \in States(T) /\ Advances(State, t)
      BY <1>2, TimerEffect
    <3>3. Advances(State, State) /\ s \in {State, t}
      BY <3>1, AdvancesReflexive
    <3> HIDE DEF s, t
    <3>4. QED
      BY <3>2, <3>3
  <2>2. g \in States(T) /\ Advances(State, g)
    <3> HIDE DEF s, fires
    <3>1. Finalize(s) \in States(T) /\ Advances(s, Finalize(s))
      BY <2>1, FinalizeEffect
    <3>2. Advances(State, Finalize(s))
      BY <2>1, <3>1, AdvancesComposes
    <3>3. QED
      BY <2>1, <3>1, <3>2
  <2>3. Store(g)
    BY <1>9 DEF Guard
  <2> HIDE DEF g
  <2>4. QED
    BY <2>2, <2>3, <1>4
<1>10. CASE PollSlice
  <2>1. CASE Store(Finalize(State))
    BY <2>1, FinalizeEffect, <1>4
  <2>2. CASE UNCHANGED <<nq, localVars>>
    BY <2>2, <1>3
  <2>3. QED
    BY <1>10, <2>1, <2>2 DEF PollSlice
<1>11. QED
    BY <1>6, <1>7, <1>8, <1>9, <1>10

-----------------------------------------------------------------------------
\* The steps that parse, under the mutex.
Parses == ParseTop \/ ParseEom \/ ParseTail \/ Guard \/ PollSlice

\* A state is well formed when its three parts are.
LEMMA StateOf ==
    ASSUME NEW T
    PROVE  State \in States(T) <=> nq \in Queues(T) /\ events \in Seq(Events) /\ queued \in Nat
BY DEF State, States

\* The fields of nq that the steps look at.
LEMMA QueueFields ==
    ASSUME NEW T, NEW q \in Queues(T)
    PROVE  /\ q \in Records(Seq(T), Clock, Seq(Seq(T)))
           /\ q.rx \in Seq(T) /\ q.queue \in Seq(Seq(T)) /\ q.timer \in Clock /\ q.full \in BOOLEAN
           /\ q.enqueued \in Nat /\ Len(q.queue) \in Nat
BY DEF Queues, Records

\* No step puts anything into the buffer or the queue that was not there or read.
LEMMA StateStep ==
    ASSUME NEW T, State \in States(T), bytes \in Seq(T), [Next]_vars
    PROVE  State' \in States(T)
<1>1. /\ nq \in Queues(T) /\ events \in Seq(Events) /\ queued \in Nat
      /\ nq \in Records(Seq(T), Clock, Seq(Seq(T)))
      /\ nq.rx \in Seq(T) /\ nq.queue \in Seq(Seq(T)) /\ nq.full \in BOOLEAN
      /\ <<>> \in Seq(T) /\ <<>> \in Seq(Seq(T)) /\ {"off", "expired"} \subseteq Clock
    BY StateOf, QueueFields DEF Clock
<1>2. SUFFICES nq' \in Queues(T) /\ events' \in Seq(Events) /\ queued' \in Nat
    BY DEF State, States
<1>3. ASSUME UNCHANGED <<nq, localVars>> PROVE nq' \in Queues(T) /\ events' \in Seq(Events) /\ queued' \in Nat
    BY <1>1, <1>3 DEF localVars
<1>4. CASE Parses
  <2>1. NewState \in States(T)
    BY <1>4, ParsingEffect DEF Parses
  <2>2. QED
    BY <2>1 DEF NewState, States
<1>5. CASE AppendBytes
  <2>1. nq.rx \o bytes \in Seq(T)
    BY <1>1, ConcatProperties
  <2>2. nq' = [nq EXCEPT !.rx = nq.rx \o bytes] /\ UNCHANGED localVars
    BY <1>5 DEF AppendBytes
  <2>3. nq' \in Queues(T)
    BY <1>1, <2>1, <2>2, RecordUpdates DEF Queues
  <2>4. QED
    BY <1>1, <2>2, <2>3 DEF localVars
<1>6. CASE FlushEvent
    BY <1>1, <1>6, HeadTailProperties DEF FlushEvent
<1>7. CASE FlushDone
    BY <1>1, <1>7 DEF FlushDone
<1>8. CASE CleanupReset \/ SubReset \/ DelReset
  <2>1. nq' = [nq EXCEPT !.queue = <<>>, !.rx = <<>>, !.timer = "off"] /\ UNCHANGED localVars
    BY <1>8 DEF CleanupReset, SubReset, DelReset, ResetQueue, subscriberFrame, deleterFrame
  <2>2. nq' \in Queues(T)
    BY <1>1, <2>1, RecordUpdates DEF Queues
  <2>3. QED
    BY <1>1, <2>1, <2>2 DEF localVars
<1>9. CASE SubClearBuffer
  <2>1. nq' = [nq EXCEPT !.rx = <<>>, !.timer = "off"] /\ UNCHANGED localVars
    BY <1>9 DEF SubClearBuffer, subscriberFrame
  <2>2. nq' \in Queues(T)
    BY <1>1, <2>1, RecordUpdates DEF Queues
  <2>3. QED
    BY <1>1, <2>1, <2>2 DEF localVars
<1>10. CASE Tick
  <2>1. nq' = [nq EXCEPT !.timer = "expired"] /\ UNCHANGED localVars
    BY <1>10 DEF Tick
  <2>2. nq' \in Queues(T)
    BY <1>1, <2>1, RecordUpdates DEF Queues
  <2>3. QED
    BY <1>1, <2>1, <2>2 DEF localVars
<1>11. ASSUME NEW c \in Consumers, Consumer(c)
       PROVE  nq' \in Queues(T) /\ events' \in Seq(Events) /\ queued' \in Nat
  <2>1. CASE NextPop(c)
    <3>1. PICK f \in BOOLEAN : nq' = [nq EXCEPT !.queue = Tail(nq.queue), !.full = f]
      BY <1>1, <2>1 DEF NextPop
    <3>2. Tail(nq.queue) \in Seq(Seq(T)) /\ UNCHANGED localVars
      BY <1>1, <2>1, HeadTailProperties DEF NextPop, consumerFrame
    <3>3. nq' \in Queues(T)
      BY <1>1, <3>1, <3>2, RecordUpdates DEF Queues
    <3>4. QED
      BY <1>1, <3>2, <3>3 DEF localVars
  <2>2. CASE NextEnter(c) \/ NextSleep(c) \/ NextExpire(c) \/ NextEmpty(c) \/ NextEmit(c)
    BY <2>2, <1>3 DEF NextEnter, NextSleep, NextExpire, NextEmpty, NextEmit, consumerFrame
  <2>3. QED
    BY <1>11, <2>1, <2>2 DEF Consumer
<1>12. CASE \/ EpollWait \/ Lookup \/ Read \/ ReadThrows \/ EnterLoop \/ PollReady \/ PollThrows
            \/ CleanupUnregister \/ CleanupClose
    BY <1>12, <1>3 DEF EpollWait, Lookup, Read, ReadThrows, EnterLoop, PollReady, PollThrows,
                       CleanupUnregister, CleanupClose
<1>13. CASE \/ SubConnect \/ SubConnectThrows \/ SubReply \/ SubRegister \/ SubMarkConnected \/ SubClose
    BY <1>13, <1>3 DEF SubConnect, SubConnectThrows, SubReply, SubRegister, SubMarkConnected,
                       SubClose, subscriberFrame
<1>14. CASE DelReadFd \/ DelUnregister \/ DelClose \/ DeviceSend \/ DeviceClose \/ UNCHANGED vars
    BY <1>14, <1>3 DEF DelReadFd, DelUnregister, DelClose, DeviceSend, DeviceClose, vars, deleterFrame
<1>15. QED
    BY <1>4, <1>5, <1>6, <1>7, <1>8, <1>9, <1>10, <1>11, <1>12, <1>13, <1>14
       DEF Next, Reactor, Subscriber, Deleter, Parses

-----------------------------------------------------------------------------
\* The kinds of token a device may send are those of its script.
LEMMA SentToken ==
    ASSUME SessionTypes, sock # 0, sent < Len(script)
    PROVE  <<script[sent + 1], sess>> \in Token /\ sent + 1 \in 0..Len(script)
<1>1. script \in Scripts /\ script \in Seq(STRING) /\ sess \in 1..MaxSessions /\ sent \in Nat
    BY StreamAssumption DEF SessionTypes
<1>2. sent + 1 \in DOMAIN script
    BY <1>1
<1>3. script[sent + 1] \in UNION {{s[i] : i \in DOMAIN s} : s \in Scripts}
    BY <1>1, <1>2
<1>4. QED
    BY <1>1, <1>2, <1>3 DEF Token

\* The session.
LEMMA SessionStep ==
    ASSUME SessionTypes, [Next]_vars
    PROVE  SessionTypes'
<1>1. CASE UNCHANGED sessionVars
    BY <1>1 DEF SessionTypes, sessionVars
<1>2. CASE DeviceSend
  <2>1. <<script[sent + 1], sess>> \in Token /\ sent + 1 \in 0..Len(script)
    BY <1>2, SentToken DEF DeviceSend
  <2>2. wire' \in Seq(Token)
    BY <1>2, <2>1, AppendProperties DEF DeviceSend, SessionTypes
  <2>3. QED
    BY <1>2, <2>1, <2>2 DEF DeviceSend, SessionTypes
<1>3. CASE DeviceClose
    BY <1>3 DEF DeviceClose, SessionTypes
<1>4. CASE Read
    BY <1>4 DEF Read, SessionTypes
<1>5. ASSUME CloseSession PROVE SessionTypes'
    BY <1>5, EmptySeq DEF CloseSession, SessionTypes
<1>6. CASE CleanupUnregister
    BY <1>6 DEF CleanupUnregister, Unregister, SessionTypes
<1>7. CASE DelUnregister
    BY <1>7 DEF DelUnregister, Unregister, SessionTypes
<1>8. CASE SubConnect
  <2>1. sess + 1 \in 0..MaxSessions /\ sess + 1 > 0
    BY <1>8, StreamAssumption DEF SubConnect, SessionTypes
  <2>2. 0 \in 0..Len(script') /\ script' \in Scripts
    BY <1>8, StreamAssumption DEF SubConnect
  <2>3. QED
    BY <1>8, <2>1, <2>2, EmptySeq DEF SubConnect, SessionTypes
<1>9. CASE SubReply
  <2>1. wire' \in Seq(Token)
    <3>1. ASSUME NEW n \in 0..Len(wire) PROVE SubSeq(wire, n + 1, Len(wire)) \in Seq(Token)
      BY Cut DEF SessionTypes
    <3>2. QED
      BY <1>9, <3>1 DEF SubReply, ReadUntilEom, SessionTypes
  <2>2. QED
    BY <1>9, <2>1 DEF SubReply, SessionTypes
<1>10. CASE SubRegister \/ SubMarkConnected
    BY <1>10 DEF SubRegister, SubMarkConnected, SessionTypes
<1>11. CASE CleanupClose \/ SubClose \/ DelClose
    BY <1>11, <1>5 DEF CleanupClose, SubClose, DelClose
<1>12. QED
  <2>1. ASSUME NEW c \in Consumers, Consumer(c) PROVE UNCHANGED sessionVars
    BY <2>1 DEF Consumer, NextEnter, NextPop, NextSleep, NextExpire, NextEmpty, NextEmit, consumerFrame
  <2>2. CASE \/ Tick \/ UNCHANGED vars
    BY <2>2, <1>1 DEF Tick, vars
  <2>3. CASE \/ EpollWait \/ Lookup \/ ReadThrows \/ AppendBytes \/ EnterLoop \/ Parses
             \/ FlushEvent \/ FlushDone \/ PollReady \/ PollThrows \/ CleanupReset
    BY <2>3, <1>1 DEF EpollWait, Lookup, ReadThrows, AppendBytes, EnterLoop, Parses, ParseTop,
                      ParseEom, ParseTail, Guard, FlushEvent, FlushDone, PollReady, PollThrows,
                      PollSlice, CleanupReset
  <2>4. CASE SubConnectThrows \/ SubClearBuffer \/ SubReset \/ DelReadFd \/ DelReset
    BY <2>4, <1>1 DEF SubConnectThrows, SubClearBuffer, SubReset, DelReadFd, DelReset
  <2>5. QED
    BY <1>1, <1>2, <1>3, <1>4, <1>6, <1>7, <1>8, <1>9, <1>10, <1>11, <2>1, <2>2, <2>3, <2>4
       DEF Next, Reactor, Subscriber, Deleter, Parses

\* The reactor.
LEMMA ReactorStep ==
    ASSUME SessionTypes, ReactorTypes, [Next]_vars
    PROVE  ReactorTypes'
<1> USE DEF ReactorTypes, Parsing
<1>1. CASE UNCHANGED reactorVars
    BY <1>1 DEF reactorVars
<1>2. CASE EpollWait \/ Lookup
  <2>1. CASE EpollWait
    BY <2>1 DEF EpollWait, SessionTypes
  <2>2. CASE Lookup
    BY <2>2 DEF Lookup
  <2>3. QED
    BY <1>2, <2>1, <2>2
<1>3. CASE Read \/ ReadThrows \/ EnterLoop \/ PollReady \/ PollThrows \/ AppendBytes
    BY <1>3, EmptySeq DEF Read, ReadThrows, EnterLoop, PollReady, PollThrows, AppendBytes, SessionTypes
<1>4. CASE ParseTop \/ ParseEom \/ ParseTail
    BY <1>4 DEF ParseTop, ParseEom, ParseTail
<1>5. CASE Guard \/ PollSlice
    BY <1>5 DEF Guard, PollSlice
<1>6. CASE FlushEvent \/ FlushDone
    BY <1>6 DEF FlushEvent, FlushDone, reactorVars
<1>7. CASE CleanupUnregister \/ CleanupClose \/ CleanupReset
    BY <1>7 DEF CleanupUnregister, CleanupClose, CleanupReset
<1>8. QED
  <2>1. ASSUME NEW c \in Consumers, Consumer(c) PROVE UNCHANGED reactorVars
    BY <2>1 DEF Consumer, NextEnter, NextPop, NextSleep, NextExpire, NextEmpty, NextEmit, consumerFrame
  <2>2. CASE DeviceSend \/ DeviceClose \/ Tick \/ UNCHANGED vars
    BY <2>2, <1>1 DEF DeviceSend, DeviceClose, Tick, vars
  <2>3. CASE Subscriber
    BY <2>3, <1>1 DEF Subscriber, SubConnect, SubConnectThrows, SubReply, SubClearBuffer, SubRegister,
                      SubMarkConnected, SubClose, SubReset, subscriberFrame
  <2>4. CASE Deleter
    BY <2>4, <1>1 DEF Deleter, DelReadFd, DelUnregister, DelClose, DelReset, deleterFrame
  <2>5. QED
    BY <1>2, <1>3, <1>4, <1>5, <1>6, <1>7, <2>1, <2>2, <2>3, <2>4, <1>1 DEF Next, Reactor

callerVars == <<spc, refused, deleterVars, cpc, delivered, cleared>>

\* The callers.
LEMMA CallerStep ==
    ASSUME Typed, [Next]_vars
    PROVE  CallerTypes'
<1>1. nq.queue \in Seq(Seq(Token)) /\ Len(nq.queue) \in Nat
    BY StateOf, QueueFields DEF Typed
<1> USE DEF CallerTypes, deleterVars, Typed
<1>2. CASE UNCHANGED callerVars
    BY <1>2 DEF callerVars
<1>3. CASE FlushDone
    BY <1>3 DEF FlushDone, WakeAll, historyVars
<1>4. ASSUME ResetQueue, UNCHANGED <<refused, dfd, deletes, delivered>>,
             spc' \in {spc, "idle"}, dpc' \in {dpc, "idle"}
      PROVE  CallerTypes'
    BY <1>1, <1>4 DEF ResetQueue, WakeAll
<1>5. CASE CleanupReset \/ SubReset \/ DelReset
    BY <1>4, <1>5 DEF CleanupReset, SubReset, DelReset, subscriberFrame, deleterFrame
<1>6. CASE SubConnect \/ SubClearBuffer \/ SubRegister \/ SubMarkConnected \/ SubClose
    BY <1>6 DEF SubConnect, SubClearBuffer, SubRegister, SubMarkConnected, SubClose,
                subscriberFrame, historyVars
<1>7. CASE SubConnectThrows
    BY <1>7, StreamAssumption DEF SubConnectThrows, historyVars
<1>8. CASE SubReply
  <2>1. refused' \in 0..MaxRefused /\ spc' \in {"clear", "dead1"}
    BY <1>8, StreamAssumption DEF SubReply, RpcThrows
  <2>2. QED
    BY <1>8, <2>1 DEF SubReply, historyVars
<1>9. CASE DelReadFd \/ DelUnregister \/ DelClose
  <2>1. CASE DelReadFd
    <3>1. deletes' \in 0..MaxDeletes /\ dfd' \in Fds \cup {0}
      BY <2>1, StreamAssumption DEF DelReadFd, SessionTypes
    <3>2. QED
      BY <2>1, <3>1 DEF DelReadFd, deleterFrame, historyVars
  <2>2. CASE DelUnregister \/ DelClose
    BY <2>2 DEF DelUnregister, DelClose, deleterFrame, historyVars
  <2>3. QED
    BY <1>9, <2>1, <2>2
<1>10. ASSUME NEW c \in Consumers, Consumer(c)
       PROVE  CallerTypes'
  <2>1. CASE NextPop(c)
    <3>1. Head(nq.queue) \in Seq(Token)
      BY <1>1, <2>1, HeadTailProperties DEF NextPop
    <3>2. delivered' \in Seq(Seq(Token))
      BY <2>1, <3>1, AppendProperties DEF NextPop
    <3>3. QED
      BY <2>1, <3>2 DEF NextPop, consumerFrame
  <2>2. CASE NextEnter(c) \/ NextSleep(c) \/ NextExpire(c) \/ NextEmpty(c) \/ NextEmit(c)
    BY <2>2 DEF NextEnter, NextSleep, NextExpire, NextEmpty, NextEmit, consumerFrame
  <2>3. QED
    BY <1>10, <2>1, <2>2 DEF Consumer
<1>11. QED
  <2>1. CASE DeviceSend \/ DeviceClose \/ Tick \/ UNCHANGED vars
    BY <2>1, <1>2 DEF DeviceSend, DeviceClose, Tick, vars, callerVars, historyVars
  <2>2. CASE \/ EpollWait \/ Lookup \/ Read \/ ReadThrows \/ AppendBytes \/ EnterLoop \/ Parses
             \/ FlushEvent \/ PollReady \/ PollThrows \/ CleanupUnregister \/ CleanupClose
    BY <2>2, <1>2 DEF EpollWait, Lookup, Read, ReadThrows, AppendBytes, EnterLoop, Parses, ParseTop,
                      ParseEom, ParseTail, Guard, FlushEvent, PollReady, PollThrows, PollSlice,
                      CleanupUnregister, CleanupClose, callerVars, reactorFrame
  <2>3. QED
    BY <1>3, <1>5, <1>6, <1>7, <1>8, <1>9, <1>10, <2>1, <2>2
       DEF Next, Reactor, Subscriber, Deleter, Parses

\* Every step keeps the types.
LEMMA TypedStep ==
    ASSUME Typed, [Next]_vars
    PROVE  Typed'
<1>1. State' \in States(Token)
    BY StateStep DEF Typed, ReactorTypes
<1>2. SessionTypes' /\ ReactorTypes' /\ CallerTypes'
    BY SessionStep, ReactorStep, CallerStep DEF Typed
<1>3. QED
    BY <1>1, <1>2 DEF Typed

-----------------------------------------------------------------------------
\* What a parsing step, a reset and the rest do to the queue and its counter.
LEMMA QueueCount ==
    ASSUME Typed, [Next]_vars
    PROVE  \/ Parses /\ Balanced(nq, nq') /\ UNCHANGED <<delivered, cleared, cpc>>
           \/ ResetQueue /\ UNCHANGED <<delivered, queued>>
           \/ \E c \in Consumers : NextPop(c)
           \/ UNCHANGED <<nq.queue, nq.enqueued, delivered, cleared>>
<1>1. nq \in Records(Seq(Token), Clock, Seq(Seq(Token)))
    BY StateOf, QueueFields DEF Typed
<1>2. CASE Parses
  <2>1. Advances(State, NewState)
    BY <1>2, ParsingEffect DEF Parses, Typed
  <2>2. Balanced(nq, nq')
    BY <2>1 DEF Advances, State, NewState
  <2>3. UNCHANGED <<delivered, cleared, cpc>>
    BY <1>2 DEF Parses, ParseTop, ParseEom, ParseTail, Guard, PollSlice, reactorFrame
  <2>4. QED
    BY <1>2, <2>2, <2>3
<1>3. CASE CleanupReset \/ SubReset \/ DelReset
    BY <1>3 DEF CleanupReset, SubReset, DelReset, subscriberFrame, deleterFrame, localVars
<1>4. CASE AppendBytes
    BY <1>1, <1>4 DEF AppendBytes, reactorFrame, Records
<1>5. CASE SubClearBuffer
    BY <1>1, <1>5 DEF SubClearBuffer, Records
<1>6. CASE Tick
    BY <1>1, <1>6 DEF Tick, historyVars, Records
<1>7. CASE DeviceSend \/ DeviceClose \/ FlushEvent \/ FlushDone \/ UNCHANGED vars
    BY <1>7 DEF DeviceSend, DeviceClose, FlushEvent, FlushDone, vars, historyVars
<1>8. CASE \/ EpollWait \/ Lookup \/ Read \/ ReadThrows \/ EnterLoop \/ PollReady \/ PollThrows
           \/ CleanupUnregister \/ CleanupClose
    BY <1>8 DEF EpollWait, Lookup, Read, ReadThrows, EnterLoop, PollReady, PollThrows,
                CleanupUnregister, CleanupClose, reactorFrame
<1>9. CASE \/ SubConnect \/ SubConnectThrows \/ SubReply \/ SubRegister \/ SubMarkConnected \/ SubClose
           \/ DelReadFd \/ DelUnregister \/ DelClose
    BY <1>9 DEF SubConnect, SubConnectThrows, SubReply, SubRegister, SubMarkConnected, SubClose,
                DelReadFd, DelUnregister, DelClose, historyVars
<1>10. ASSUME NEW c \in Consumers, Consumer(c)
       PROVE  NextPop(c) \/ UNCHANGED <<nq, delivered, cleared>>
    BY <1>10 DEF Consumer, NextEnter, NextSleep, NextExpire, NextEmpty, NextEmit, consumerFrame
<1>11. QED
    BY <1>2, <1>3, <1>4, <1>5, <1>6, <1>7, <1>8, <1>9, <1>10
       DEF Next, Reactor, Subscriber, Deleter, Parses

\* Notifications enqueued are those delivered, waiting, or thrown away.
LEMMA AccountedStep ==
    ASSUME Typed, EnqueuedAccounted, [Next]_vars
    PROVE  EnqueuedAccounted'
<1>1. Typed'
    BY TypedStep
<1>2. PICK e \in Nat, d \in Nat, l \in Nat, k \in Nat :
          e = nq.enqueued /\ d = Len(delivered) /\ l = Len(nq.queue) /\ k = cleared
    BY StateOf, QueueFields DEF Typed, CallerTypes
<1>3. e = d + l + k
    BY <1>2 DEF EnqueuedAccounted
<1>4. nq.queue \in Seq(Seq(Token)) /\ delivered \in Seq(Seq(Token))
      /\ nq \in Records(Seq(Token), Clock, Seq(Seq(Token)))
    BY StateOf, QueueFields DEF Typed, CallerTypes
<1>5. CASE Balanced(nq, nq') /\ UNCHANGED <<delivered, cleared>>
  <2>1. PICK e2 \in Nat, l2 \in Nat : e2 = nq'.enqueued /\ l2 = Len(nq'.queue)
    <3>1. nq' \in Queues(Token)
      BY <1>1 DEF Typed, State, States
    <3>2. QED
      BY <3>1, QueueFields
  <2>2. e2 + l = e + l2
    BY <1>2, <1>5, <2>1 DEF Balanced
  <2>3. e2 = d + l2 + k
    BY <1>3, <2>2
  <2>4. QED
    BY <1>2, <1>5, <2>1, <2>3 DEF EnqueuedAccounted
<1>6. CASE ResetQueue /\ UNCHANGED delivered
  <2>1. nq'.queue = <<>> /\ nq'.enqueued = e /\ cleared' = k + l /\ Len(delivered') = d
    BY <1>2, <1>4, <1>6 DEF ResetQueue, Records
  <2>2. e = d + 0 + (k + l) /\ Len(<<>>) = 0
    BY <1>3
  <2>3. QED
    BY <2>1, <2>2 DEF EnqueuedAccounted
<1>7. ASSUME NEW c \in Consumers, NextPop(c) PROVE EnqueuedAccounted'
  <2>1. /\ Len(Tail(nq.queue)) = l - 1 /\ Len(Append(delivered, Head(nq.queue))) = d + 1
    <3>1. Head(nq.queue) \in Seq(Token) /\ Len(Tail(nq.queue)) = l - 1
      BY <1>2, <1>4, <1>7, HeadTailProperties DEF NextPop
    <3>2. QED
      BY <1>2, <1>4, <3>1, AppendProperties
  <2>2. nq'.queue = Tail(nq.queue) /\ nq'.enqueued = e /\ cleared' = k
        /\ delivered' = Append(delivered, Head(nq.queue))
    BY <1>2, <1>4, <1>7 DEF NextPop, consumerFrame, Records
  <2>3. e = (d + 1) + (l - 1) + k
    BY <1>3
  <2>4. QED
    BY <2>1, <2>2, <2>3 DEF EnqueuedAccounted
<1>8. CASE UNCHANGED <<nq.queue, nq.enqueued, delivered, cleared>>
    BY <1>8 DEF EnqueuedAccounted
<1>9. QED
    BY <1>5, <1>6, <1>7, <1>8, QueueCount

-----------------------------------------------------------------------------
\* A sleeping consumer has been overtaken by no notification that nobody will
\* announce.
LEMMA StrandedStep ==
    ASSUME Typed, NoStrandedConsumer, [Next]_vars
    PROVE  NoStrandedConsumer'
<1>1. nq \in Records(Seq(Token), Clock, Seq(Seq(Token))) /\ queued \in Nat
      /\ cpc \in [Consumers -> {"idle", "entered", "blocked", "woken", "expired", "emit"}]
    BY StateOf, QueueFields DEF Typed, CallerTypes
<1>2. queued' \in Nat
    BY TypedStep DEF Typed, State, States
<1>3. CASE Parses
  <2>1. Advances(State, NewState)
    BY <1>3, ParsingEffect DEF Parses, Typed
  <2>2. queued' >= queued /\ (queued' = queued => nq'.queue = nq.queue)
    BY <2>1 DEF Advances, State, NewState
  <2>3. UNCHANGED cpc
    BY <1>3 DEF Parses, ParseTop, ParseEom, ParseTail, Guard, PollSlice, reactorFrame
  <2>4. queued' = 0 => nq'.queue = nq.queue /\ queued = 0
    BY <1>1, <2>2
  <2>5. QED
    BY <1>1, <1>2, <2>3, <2>4 DEF NoStrandedConsumer
<1>4. ASSUME ResetQueue PROVE NoStrandedConsumer'
    BY <1>1, <1>4 DEF ResetQueue, NoStrandedConsumer, Records
<1>5. CASE FlushDone
  <2>1. CASE queued > 0
    BY <1>1, <1>5, <2>1 DEF FlushDone, WakeAll, NoStrandedConsumer
  <2>2. CASE ~(queued > 0)
    BY <1>1, <1>5, <2>2 DEF FlushDone, NoStrandedConsumer
  <2>3. QED
    BY <2>1, <2>2
<1>6. ASSUME NEW c \in Consumers, Consumer(c)
      PROVE  NoStrandedConsumer'
  <2>1. CASE NextSleep(c)
    BY <2>1 DEF NextSleep, NoStrandedConsumer
  <2>2. CASE NextPop(c) \/ NextEnter(c) \/ NextExpire(c) \/ NextEmpty(c) \/ NextEmit(c)
    <3>1. UNCHANGED queued /\ (nq.queue = <<>> => nq'.queue = <<>>)
      BY <2>2 DEF NextPop, NextEnter, NextExpire, NextEmpty, NextEmit, consumerFrame, localVars
    <3>2. \A d \in Consumers : cpc'[d] = "blocked" => cpc[d] = "blocked"
      BY <1>1, <2>2 DEF NextPop, NextEnter, NextExpire, NextEmpty, NextEmit
    <3>3. QED
      BY <3>1, <3>2 DEF NoStrandedConsumer
  <2>3. QED
    BY <1>6, <2>1, <2>2 DEF Consumer
<1>7. ASSUME UNCHANGED <<nq.queue, queued, cpc>> PROVE NoStrandedConsumer'
    BY <1>7 DEF NoStrandedConsumer
<1>8. CASE DeviceSend \/ DeviceClose \/ Tick \/ UNCHANGED vars
    BY <1>1, <1>7, <1>8 DEF DeviceSend, DeviceClose, Tick, vars, localVars, Records
<1>9. CASE AppendBytes \/ SubClearBuffer
    BY <1>1, <1>7, <1>9 DEF AppendBytes, SubClearBuffer, reactorFrame, subscriberFrame, localVars, Records
<1>10. CASE \/ EpollWait \/ Lookup \/ Read \/ ReadThrows \/ EnterLoop \/ PollReady \/ PollThrows
            \/ FlushEvent \/ CleanupUnregister \/ CleanupClose
    BY <1>7, <1>10 DEF EpollWait, Lookup, Read, ReadThrows, EnterLoop, PollReady, PollThrows, FlushEvent,
                       CleanupUnregister, CleanupClose, reactorFrame, localVars
<1>11. CASE \/ SubConnect \/ SubConnectThrows \/ SubReply \/ SubRegister \/ SubMarkConnected \/ SubClose
            \/ DelReadFd \/ DelUnregister \/ DelClose
    BY <1>7, <1>11 DEF SubConnect, SubConnectThrows, SubReply, SubRegister, SubMarkConnected, SubClose,
                       DelReadFd, DelUnregister, DelClose, subscriberFrame, deleterFrame, localVars
<1>12. QED
    BY <1>3, <1>4, <1>5, <1>6, <1>8, <1>9, <1>10, <1>11
       DEF Next, Reactor, Subscriber, Deleter, Parses, CleanupReset, SubReset, DelReset

\* The timer runs exactly while a partial waits, and the parser gets to the
\* guards knowing which.
LEMMA PartialsStep ==
    ASSUME Typed, Partials, [Next]_vars
    PROVE  Partials'
<1>1. nq \in Records(Seq(Token), Clock, Seq(Seq(Token)))
    BY StateOf, QueueFields DEF Typed
<1> USE DEF Partials, TimerTracksPartial, QueueFree, Parsing
<1>2. CASE ParseTop
    BY <1>1, <1>2 DEF ParseTop, Records
<1>3. CASE ParseEom
    BY <1>1, <1>3 DEF ParseEom, Records
<1>4. CASE ParseTail
    BY <1>4 DEF ParseTail
<1>5. CASE Guard
  <2> DEFINE t == [nq EXCEPT !.timer = "running"]
             s == IF nq.rx # <<>> /\ nq.timer = "off"
                    THEN [State EXCEPT !.q.timer = "running"] ELSE State
             fires == SizeLimitReached(s.q) \/ (site = "loop" /\ TimeoutReached(s.q))
             g == IF fires THEN Finalize(s) ELSE s
  <2>1. s.q.timer = "off" <=> s.q.rx = <<>>
    <3>1. CASE nq.rx # <<>> /\ nq.timer = "off"
      <4>1. s.q = t
        BY <3>1 DEF State
      <4>2. t.rx = nq.rx /\ t.timer = "running"
        BY <1>1 DEF Records
      <4>3. QED
        BY <3>1, <4>1, <4>2
    <3>2. CASE ~(nq.rx # <<>> /\ nq.timer = "off")
      <4>1. s.q = nq
        BY <3>2 DEF State
      <4>2. nq.rx = <<>> => nq.timer = "off"
        BY <1>5 DEF Guard
      <4>3. QED
        BY <3>2, <4>1, <4>2
    <3>3. QED
      BY <3>1, <3>2
  <2>2. s \in States(Token)
    <3> DEFINE u == [q |-> [State.q EXCEPT !.timer = "running"], events |-> State.events,
                     queued |-> State.queued]
    <3>1. [State EXCEPT !.q.timer = "running"] = u
      BY DEF State
    <3>2. u \in States(Token)
      BY TimerEffect DEF Typed, Clock
    <3> HIDE DEF u
    <3>3. QED
      BY <3>1, <3>2 DEF Typed
  <2>3. g.q.timer = "off" <=> g.q.rx = <<>>
    <3> HIDE DEF s, fires
    <3>1. Finalize(s).q.timer = "off" /\ Finalize(s).q.rx = <<>>
      BY <2>2, FinalizeEffect
    <3>2. QED
      BY <2>1, <3>1
  <2>4. nq' = g.q /\ rpc' = "flush"
    BY <1>5 DEF Guard, Store
  <2> HIDE DEF g
  <2>5. QED
    BY <2>3, <2>4
<1>6. CASE PollSlice
  <2>1. CASE Store(Finalize(State))
    BY <1>6, <2>1, FinalizeEffect DEF PollSlice, Store, Typed
  <2>2. CASE UNCHANGED nq
    BY <1>6, <2>2 DEF PollSlice
  <2>3. QED
    BY <1>6, <2>1, <2>2 DEF PollSlice
<1>7. CASE AppendBytes \/ EnterLoop
    BY <1>7 DEF AppendBytes, EnterLoop
<1>8. CASE CleanupReset \/ SubReset \/ DelReset
    BY <1>1, <1>8 DEF CleanupReset, SubReset, DelReset, ResetQueue, Records, subscriberFrame,
                      deleterFrame, reactorVars
<1>9. CASE SubClearBuffer
    BY <1>1, <1>9 DEF SubClearBuffer, Records, subscriberFrame, reactorVars
<1>10. CASE Tick
    BY <1>1, <1>10 DEF Tick, Records, reactorVars
<1>11. ASSUME NEW c \in Consumers, Consumer(c) PROVE Partials'
  <2>1. UNCHANGED <<nq.rx, nq.timer, rpc>>
    BY <1>1, <1>11 DEF Consumer, NextPop, NextEnter, NextSleep, NextExpire, NextEmpty, NextEmit, Records,
                       consumerFrame, reactorVars
  <2>2. QED
    BY <2>1
<1>12. CASE \/ EpollWait \/ Lookup \/ Read \/ ReadThrows \/ PollReady \/ PollThrows
            \/ CleanupUnregister \/ CleanupClose
  <2>1. UNCHANGED nq /\ rpc \notin Parsing /\ rpc' \notin Parsing
    BY <1>12 DEF EpollWait, Lookup, Read, ReadThrows, PollReady, PollThrows,
                 CleanupUnregister, CleanupClose
  <2>2. QED
    BY <2>1
<1>13. CASE FlushEvent \/ FlushDone
    BY <1>13 DEF FlushEvent, FlushDone, reactorVars, Typed, ReactorTypes
<1>14. CASE \/ SubConnect \/ SubConnectThrows \/ SubReply \/ SubRegister \/ SubMarkConnected \/ SubClose
            \/ DelReadFd \/ DelUnregister \/ DelClose \/ DeviceSend \/ DeviceClose \/ UNCHANGED vars
  <2>1. UNCHANGED <<nq, rpc>>
    BY <1>14 DEF SubConnect, SubConnectThrows, SubReply, SubRegister, SubMarkConnected, SubClose,
                 DelReadFd, DelUnregister, DelClose, DeviceSend, DeviceClose, vars, subscriberFrame,
                 deleterFrame, reactorVars
  <2>2. QED
    BY <2>1
<1>15. QED
    BY <1>2, <1>3, <1>4, <1>5, <1>6, <1>7, <1>8, <1>9, <1>10, <1>11, <1>12, <1>13, <1>14
       DEF Next, Reactor, Subscriber, Deleter

-----------------------------------------------------------------------------
\* Deletions and refusals are counted for ever.
LEMMA SteadyBefore ==
    ASSUME Typed, [Next]_vars, Steady'
    PROVE  Steady /\ UNCHANGED <<refused, deletes>>
<1>1. refused \in Nat /\ deletes \in Nat
    BY StreamAssumption DEF Typed, CallerTypes
<1>2. \/ UNCHANGED <<refused, deletes>>
      \/ refused' = refused + 1
      \/ deletes' = deletes + 1
  <2>1. ASSUME NEW c \in Consumers, Consumer(c) PROVE UNCHANGED <<refused, deletes>>
    BY <2>1 DEF Consumer, NextEnter, NextPop, NextSleep, NextExpire, NextEmpty, NextEmit, consumerFrame,
                deleterVars
  <2>2. CASE DeviceSend \/ DeviceClose \/ Tick \/ UNCHANGED vars
    BY <2>2 DEF DeviceSend, DeviceClose, Tick, vars, deleterVars
  <2>3. CASE Reactor
    BY <2>3 DEF Reactor, EpollWait, Lookup, Read, ReadThrows, AppendBytes, EnterLoop, ParseTop, ParseEom,
                ParseTail, Guard, FlushEvent, FlushDone, PollReady, PollThrows, PollSlice,
                CleanupUnregister, CleanupClose, CleanupReset, reactorFrame, deleterVars
  <2>4. CASE Subscriber
    BY <2>4 DEF Subscriber, SubConnect, SubConnectThrows, SubReply, RpcThrows, SubClearBuffer,
                SubRegister, SubMarkConnected, SubClose, SubReset, subscriberFrame, deleterVars
  <2>5. CASE Deleter
    BY <2>5 DEF Deleter, DelReadFd, DelUnregister, DelClose, DelReset, deleterFrame, deleterVars
  <2>6. QED
    BY <2>1, <2>2, <2>3, <2>4, <2>5 DEF Next
<1>3. QED
    BY <1>1, <1>2 DEF Steady

\* What the device sends carries the session's number.
LEMMA CarriedStep ==
    ASSUME Typed, Carried, [Next]_vars
    PROVE  Carried'
<1> USE DEF Carried
<1>1. CASE DeviceSend
  <2>1. <<script[sent + 1], sess>> \in Token
    BY <1>1, SentToken DEF DeviceSend, Typed
  <2>2. <<script[sent + 1], sess>> \in TokensOf(sess)
    BY <2>1 DEF TokensOf
  <2>3. Append(wire, <<script[sent + 1], sess>>) \in Seq(TokensOf(sess))
    BY <2>2, AppendProperties
  <2>4. wire' \in Seq(TokensOf(sess)) /\ UNCHANGED <<sess, rpc, bytes>>
    BY <1>1, <2>3 DEF DeviceSend, reactorVars
  <2>5. QED
    BY <2>4
<1>2. CASE SubReply
  <2>1. wire' \in Seq(TokensOf(sess))
    <3>1. ASSUME NEW n \in 0..Len(wire) PROVE SubSeq(wire, n + 1, Len(wire)) \in Seq(TokensOf(sess))
      BY Cut
    <3>2. QED
      BY <1>2, <3>1 DEF SubReply, ReadUntilEom
  <2>2. QED
    BY <1>2, <2>1 DEF SubReply, reactorVars
<1>3. CASE SubConnect
    BY <1>3, EmptySeq DEF SubConnect, subscriberFrame, reactorVars
<1>4. CASE Read
    BY <1>4, EmptySeq DEF Read
<1>5. ASSUME CloseSession, UNCHANGED bytes, rpc # "append" \/ UNCHANGED rpc
      PROVE  Carried'
  <2>1. <<>> \in Seq(TokensOf(sess)) /\ UNCHANGED sess /\ wire' = <<>>
    BY <1>5, EmptySeq DEF CloseSession
  <2>2. wire' \in Seq(TokensOf(sess))'
    BY <2>1
  <2>3. QED
    BY <1>5, <2>2
<1>6. CASE CleanupClose \/ SubClose \/ DelClose
    BY <1>5, <1>6 DEF CleanupClose, SubClose, DelClose, subscriberFrame, deleterFrame, reactorVars
<1>7. ASSUME UNCHANGED <<wire, sess>>, UNCHANGED <<rpc, bytes>> \/ bytes' = <<>>
             \/ (UNCHANGED bytes /\ rpc # "append")
      PROVE  Carried'
    BY <1>7
<1>8. CASE \/ EpollWait \/ Lookup \/ ReadThrows \/ AppendBytes \/ EnterLoop \/ Parses
           \/ PollReady \/ PollThrows \/ CleanupUnregister \/ CleanupReset
    BY <1>7, <1>8 DEF EpollWait, Lookup, ReadThrows, AppendBytes, EnterLoop, Parses, ParseTop,
                      ParseEom, ParseTail, Guard, PollReady, PollThrows, PollSlice, CleanupUnregister,
                      CleanupReset, Unregister, sessionVars
<1>9. CASE \/ FlushEvent \/ FlushDone \/ DeviceClose \/ Tick \/ UNCHANGED vars
    BY <1>7, <1>9 DEF FlushEvent, FlushDone, DeviceClose, Tick, vars, sessionVars, reactorVars
<1>10. CASE \/ SubConnectThrows \/ SubClearBuffer \/ SubRegister \/ SubMarkConnected \/ SubReset
            \/ DelReadFd \/ DelUnregister \/ DelReset
    BY <1>7, <1>10 DEF SubConnectThrows, SubClearBuffer, SubRegister, SubMarkConnected, SubReset, DelReadFd,
                       DelUnregister, DelReset, subscriberFrame, deleterFrame, sessionVars, reactorVars
<1>11. ASSUME NEW c \in Consumers, Consumer(c) PROVE UNCHANGED <<sessionVars, reactorVars>>
    BY <1>11 DEF Consumer, NextEnter, NextPop, NextSleep, NextExpire, NextEmpty, NextEmit, consumerFrame
<1>12. QED
    BY <1>1, <1>2, <1>3, <1>4, <1>6, <1>7, <1>8, <1>9, <1>10, <1>11
       DEF Next, Reactor, Subscriber, Deleter, Parses, sessionVars, reactorVars

\* Only the reactor ends what is registered, once it is done with it.
LEMMA AttendedStep ==
    ASSUME Attended, [Next]_vars, UNCHANGED <<refused, deletes>>, refused = 0, deletes = 0
    PROVE  Attended'
<1> USE DEF Attended, Live
<1>1. ASSUME UNCHANGED <<dpc, connected, spc, armed, sock, rpc, rfd>> PROVE Attended'
    BY <1>1
<1>2. CASE EpollWait
    BY <1>2 DEF EpollWait, sessionVars, reactorFrame, deleterVars
<1>3. ASSUME UNCHANGED <<dpc, connected, spc, sock, rfd>>, armed' => armed,
             rpc \notin {"epoll", "dead2"}
      PROVE  Attended'
    BY <1>3
<1>4. CASE Lookup \/ Read \/ ReadThrows \/ AppendBytes \/ EnterLoop \/ PollReady \/ PollThrows
    BY <1>3, <1>4 DEF Lookup, Read, ReadThrows, AppendBytes, EnterLoop, PollReady, PollThrows,
                      sessionVars, reactorFrame, deleterVars
<1>5. CASE ParseTop \/ ParseEom \/ ParseTail \/ Guard \/ PollSlice
    BY <1>3, <1>5 DEF ParseTop, ParseEom, ParseTail, Guard, PollSlice, sessionVars, reactorFrame, deleterVars
<1>6. CASE FlushEvent \/ FlushDone \/ CleanupUnregister
    BY <1>3, <1>6 DEF FlushEvent, FlushDone, CleanupUnregister, Unregister, sessionVars, reactorVars,
                      reactorFrame, deleterVars
<1>7. CASE CleanupClose
    BY <1>7 DEF CleanupClose, CloseSession, reactorFrame, deleterVars
<1>8. CASE CleanupReset
    BY <1>8 DEF CleanupReset, sessionVars, deleterVars
<1>9. CASE SubConnect \/ SubReply \/ SubClearBuffer \/ SubRegister \/ SubMarkConnected
  <2>1. CASE SubConnect
    BY <2>1 DEF SubConnect, subscriberFrame, reactorVars, deleterVars
  <2>2. CASE SubReply \/ SubClearBuffer
    BY <2>2 DEF SubReply, SubClearBuffer, sessionVars, subscriberFrame, reactorVars, deleterVars
  <2>3. CASE SubRegister
    <3>1. armed' => sock # 0
      BY <2>3 DEF SubRegister
    <3>2. sock # 0 => spc' = "mark"
      BY <2>3 DEF SubRegister
    <3>3. ~connected' /\ UNCHANGED <<dpc, sock, rpc, rfd>> /\ rpc \in {"epoll", "dead2"}
      BY <2>3 DEF SubRegister, subscriberFrame, reactorVars, deleterVars
    <3>4. QED
      BY <3>1, <3>2, <3>3
  <2>4. CASE SubMarkConnected
    <3>1. connected' /\ spc' = "idle"
      BY <2>4 DEF SubMarkConnected
    <3>2. UNCHANGED <<dpc, armed, sock, rpc, rfd>>
      BY <2>4 DEF SubMarkConnected, subscriberFrame, reactorVars, deleterVars
    <3>3. QED
      BY <3>1, <3>2
  <2>5. QED
    BY <1>9, <2>1, <2>2, <2>3, <2>4
<1>10. CASE SubConnectThrows \/ DelReadFd
    BY <1>10 DEF SubConnectThrows, DelReadFd
<1>11. CASE SubClose \/ SubReset
    BY <1>11 DEF SubClose, SubReset, CloseSession, sessionVars, subscriberFrame, reactorVars, deleterVars
<1>12. CASE DelUnregister \/ DelClose \/ DelReset
    BY <1>12 DEF DelUnregister, DelClose, DelReset
<1>13. ASSUME NEW c \in Consumers, Consumer(c) PROVE Attended'
    BY <1>1, <1>13 DEF Consumer, NextEnter, NextPop, NextSleep, NextExpire, NextEmpty, NextEmit, consumerFrame,
                       sessionVars, reactorVars, deleterVars
<1>14. CASE DeviceSend \/ DeviceClose \/ Tick \/ UNCHANGED vars
    BY <1>1, <1>14 DEF DeviceSend, DeviceClose, Tick, vars, sessionVars, reactorVars, deleterVars
<1>15. QED
    BY <1>2, <1>4, <1>5, <1>6, <1>7, <1>8, <1>9, <1>10, <1>11, <1>12, <1>13, <1>14
       DEF Next, Reactor, Subscriber, Deleter

\* What is registered stays so until the reactor's own cleanup, which it ends by
\* emptying the queue.
LEMMA RegisteredUntilCleanup ==
    ASSUME Attended, [Next]_vars, UNCHANGED <<refused, deletes>>, refused = 0, deletes = 0
    PROVE  /\ Live => Live' \/ rpc' = "dead2"
           /\ rpc = "dead2" => rpc' = "dead2" \/ CleanupReset
           /\ UNCHANGED sess \/ SubConnect
           /\ bytes' \in {bytes, wire, <<>>}
<1> USE DEF Attended, Live
<1>1. CASE UNCHANGED <<spc, connected, rpc, sess, bytes>>
    BY <1>1
<1>2. CASE \/ EpollWait \/ Lookup \/ Read \/ ReadThrows \/ AppendBytes \/ EnterLoop \/ PollReady
           \/ PollThrows
    BY <1>2 DEF EpollWait, Lookup, Read, ReadThrows, AppendBytes, EnterLoop, PollReady, PollThrows,
                sessionVars, reactorFrame
<1>3. CASE Parses
    BY <1>3 DEF Parses, ParseTop, ParseEom, ParseTail, Guard, PollSlice, sessionVars, reactorFrame
<1>4. CASE FlushEvent \/ FlushDone
    BY <1>4 DEF FlushEvent, FlushDone, sessionVars, reactorVars
<1>5. CASE CleanupUnregister
    BY <1>5 DEF CleanupUnregister, reactorFrame
<1>6. CASE CleanupClose
    BY <1>6 DEF CleanupClose, CloseSession
<1>7. CASE CleanupReset
    BY <1>7 DEF CleanupReset, sessionVars
<1>8. CASE SubConnect
    BY <1>8 DEF SubConnect, subscriberFrame, reactorVars
<1>9. CASE SubConnectThrows \/ DelReadFd
    BY <1>9 DEF SubConnectThrows, DelReadFd
<1>10. CASE SubReply \/ SubClearBuffer \/ SubRegister \/ SubClose \/ SubReset
    BY <1>10 DEF SubReply, SubClearBuffer, SubRegister, SubClose, SubReset, CloseSession, sessionVars,
                 subscriberFrame, reactorVars
<1>11. CASE SubMarkConnected
    BY <1>11 DEF SubMarkConnected, subscriberFrame, reactorVars
<1>12. CASE DelUnregister \/ DelClose \/ DelReset
    BY <1>12 DEF DelUnregister, DelClose, DelReset
<1>13. ASSUME NEW c \in Consumers, Consumer(c) PROVE UNCHANGED <<spc, connected, rpc, sess, bytes>>
    BY <1>13 DEF Consumer, NextEnter, NextPop, NextSleep, NextExpire, NextEmpty, NextEmit, consumerFrame,
                 sessionVars, reactorVars
<1>14. CASE DeviceSend \/ DeviceClose \/ Tick \/ UNCHANGED vars
    BY <1>14 DEF DeviceSend, DeviceClose, Tick, vars, sessionVars, reactorVars
<1>15. QED
    BY <1>1, <1>2, <1>3, <1>4, <1>5, <1>6, <1>7, <1>8, <1>9, <1>10, <1>11, <1>12, <1>13, <1>14
       DEF Next, Reactor, Subscriber, Deleter, Parses

\* While nothing is registered and the reactor waits, the queue stays empty, and
\* so does the buffer once subscribe_non_blocking() has cleared it.
LEMMA IdleStaysEmpty ==
    ASSUME Typed, Attended, [Next]_vars, UNCHANGED <<refused, deletes>>, refused = 0, deletes = 0,
           ~Live, rpc = "epoll", nq.queue = <<>>
    PROVE  /\ rpc' = "epoll" /\ nq'.queue = <<>>
           /\ (spc = "add" /\ nq.rx = <<>>) \/ SubClearBuffer => nq'.rx = <<>>
           /\ Live' => spc = "add"
           /\ spc' = "add" => spc = "add" \/ SubClearBuffer
<1>1. nq \in Records(Seq(Token), Clock, Seq(Seq(Token)))
    BY StateOf, QueueFields DEF Typed
<1> USE DEF Attended, Live, Parsing
<1>2. CASE UNCHANGED <<spc, connected, rpc, nq>> /\ ~SubClearBuffer
    BY <1>2
<1>3. CASE Reactor
    BY <1>3 DEF Reactor, EpollWait, Lookup, Read, ReadThrows, AppendBytes, EnterLoop, ParseTop, ParseEom,
                ParseTail, Guard, FlushEvent, FlushDone, PollReady, PollThrows, PollSlice,
                CleanupUnregister, CleanupClose, CleanupReset
<1>4. CASE SubConnect \/ SubReply
    BY <1>4 DEF SubConnect, SubReply, SubClearBuffer, subscriberFrame, reactorVars
<1>5. CASE SubClearBuffer
    BY <1>1, <1>5 DEF SubClearBuffer, subscriberFrame, reactorVars, Records
<1>6. CASE SubRegister
    BY <1>6 DEF SubRegister, SubClearBuffer, subscriberFrame, reactorVars
<1>7. CASE SubConnectThrows \/ SubMarkConnected \/ DelReadFd
    BY <1>7 DEF SubConnectThrows, SubMarkConnected, DelReadFd
<1>8. CASE SubClose \/ SubReset
  <2>1. CASE SubClose
    BY <2>1 DEF SubClose, CloseSession, SubClearBuffer, subscriberFrame, reactorVars
  <2>2. CASE SubReset
    <3>1. nq'.queue = <<>> /\ nq'.rx = <<>>
      BY <1>1, <2>2 DEF SubReset, ResetQueue, Records
    <3>2. spc = "dead2" /\ spc' = "idle" /\ UNCHANGED <<rpc, connected>>
      BY <2>2 DEF SubReset, subscriberFrame, sessionVars, reactorVars
    <3>3. QED
      BY <3>1, <3>2 DEF SubClearBuffer
  <2>3. QED
    BY <1>8, <2>1, <2>2
<1>9. CASE DelUnregister \/ DelClose \/ DelReset
    BY <1>9 DEF DelUnregister, DelClose, DelReset
<1>10. ASSUME NEW c \in Consumers, Consumer(c)
       PROVE  UNCHANGED <<spc, connected, rpc, nq>> /\ ~SubClearBuffer
    BY <1>10 DEF Consumer, NextEnter, NextPop, NextSleep, NextExpire, NextEmpty, NextEmit, SubClearBuffer,
                 consumerFrame, sessionVars, reactorVars
<1>11. CASE Tick
    BY <1>1, <1>11 DEF Tick, SubClearBuffer, sessionVars, reactorVars, Records
<1>12. CASE DeviceSend \/ DeviceClose \/ UNCHANGED vars
    BY <1>12 DEF DeviceSend, DeviceClose, vars, SubClearBuffer, sessionVars, reactorVars
<1>13. QED
    BY <1>2, <1>3, <1>4, <1>5, <1>6, <1>7, <1>8, <1>9, <1>10, <1>11, <1>12
       DEF Next, Subscriber, Deleter

\* What is queued for a session came in over it.
LEMMA OwnedStep ==
    ASSUME Typed, Carried, Attended, Owned, [Next]_vars,
           UNCHANGED <<refused, deletes>>, refused = 0, deletes = 0
    PROVE  Owned'
<1>1. CASE SubConnect
  <2>1. ~Live /\ ~Live' /\ spc' # "add" /\ UNCHANGED <<nq, rpc, bytes>>
    BY <1>1 DEF SubConnect, Live, subscriberFrame, reactorVars
  <2>2. bytes = <<>>
    BY <2>1 DEF Attended, Carried
  <2>3. bytes' \in Seq(TokensOf(sess'))
    BY <2>1, <2>2, EmptySeq
  <2>4. QED
    BY <2>1, <2>3 DEF Owned
<1>2. CASE UNCHANGED sess
  <2>1. PICK n : n = sess
    OBVIOUS
  <2> DEFINE T == TokensOf(n)
  <2>2. bytes \in Seq(T) /\ wire \in Seq(T) /\ <<>> \in Seq(T)
    BY <2>1, EmptySeq DEF Owned, Carried
  <2>3. Typed'
    BY TypedStep
  <2> SUFFICES /\ bytes' \in Seq(T)
               /\ rpc' # "dead2" /\ Live' => nq'.rx \in Seq(T) /\ nq'.queue \in Seq(Seq(T))
               /\ rpc' # "dead2" /\ ~Live' => nq'.queue = <<>>
               /\ rpc' # "dead2" /\ spc' = "add" => nq'.rx = <<>>
    BY <1>2, <2>1 DEF Owned
  <2>4. bytes' \in Seq(T)
    BY <2>2, RegisteredUntilCleanup
  <2>5. CASE Live /\ rpc # "dead2"
    <3>1. State \in States(T)
      <4>1. nq.rx \in Seq(T) /\ nq.queue \in Seq(Seq(T))
        BY <2>1, <2>5 DEF Owned
      <4>2. nq \in Queues(Token) /\ events \in Seq(Events) /\ queued \in Nat
        BY StateOf DEF Typed
      <4> HIDE DEF T
      <4>3. nq \in Queues(T)
        BY <4>1, <4>2 DEF Queues, Records
      <4>4. QED
        BY <4>2, <4>3, StateOf
    <3>2. State' \in States(T)
      BY <2>2, <3>1, StateStep
    <3>3. nq'.rx \in Seq(T) /\ nq'.queue \in Seq(Seq(T))
      BY <3>2 DEF State, States, Queues, Records
    <3>4. Live' \/ rpc' = "dead2"
      BY <2>5, RegisteredUntilCleanup
    <3>5. Live' => spc' # "add"
      BY DEF Live
    <3>6. QED
      BY <2>4, <3>3, <3>4, <3>5
  <2>6. CASE ~Live /\ rpc # "dead2"
    <3>1. rpc = "epoll" /\ nq.queue = <<>> /\ (spc = "add" => nq.rx = <<>>)
      BY <2>6 DEF Attended, Owned
    <3>2. <<>> \in Seq(Seq(T))
      BY EmptySeq
    <3>3. QED
      BY <2>2, <2>4, <2>6, <3>1, <3>2, IdleStaysEmpty
  <2>7. CASE rpc = "dead2"
    <3>1. CASE CleanupReset
      <4>1. nq'.rx = <<>> /\ nq'.queue = <<>>
        <5>1. nq \in Records(Seq(Token), Clock, Seq(Seq(Token)))
          BY StateOf, QueueFields DEF Typed
        <5>2. QED
          BY <3>1, <5>1 DEF CleanupReset, ResetQueue, Records
      <4>2. <<>> \in Seq(Seq(T))
        BY EmptySeq
      <4>3. QED
        BY <2>2, <2>4, <4>1, <4>2
    <3>2. QED
      BY <2>4, <2>7, <3>1, RegisteredUntilCleanup
  <2>8. QED
    BY <2>5, <2>6, <2>7
<1>3. QED
    BY <1>1, <1>2, RegisteredUntilCleanup

\* While nothing was deleted or refused, sessions do not mix.
LEMMA SessionsStep ==
    ASSUME Typed, Sessions, [Next]_vars
    PROVE  Sessions'
<1>1. Carried'
    BY CarriedStep DEF Sessions
<1>2. ASSUME Steady' PROVE Attended' /\ Owned'
  <2>1. Steady /\ UNCHANGED <<refused, deletes>>
    BY <1>2, SteadyBefore
  <2>2. Carried /\ Attended /\ Owned /\ refused = 0 /\ deletes = 0
    BY <2>1 DEF Sessions, Steady
  <2>3. Attended'
    BY <2>1, <2>2, AttendedStep
  <2>4. Owned'
    BY <2>1, <2>2, OwnedStep
  <2>5. QED
    BY <2>3, <2>4
<1>3. QED
    BY <1>1, <1>2 DEF Sessions

-----------------------------------------------------------------------------
\* A client starts with no session, an empty buffer and an empty queue.
LEMMA InitIInv ==
    ASSUME Init
    PROVE  IInv
<1>1. State \in States(Token)
  <2>1. <<>> \in Seq(Token) /\ <<>> \in Seq(Seq(Token)) /\ <<>> \in Seq(Events) /\ 0 \in Nat
    BY EmptySeq
  <2>2. nq \in Queues(Token)
    BY <2>1 DEF Init, Queues, Records, Clock
  <2>3. QED
    BY <2>1, <2>2, StateOf DEF Init
<1>2. /\ <<>> \in Seq(Token) /\ <<>> \in Seq(Seq(Token)) /\ Len(<<>>) = 0
      /\ <<>> \in Seq(TokensOf(sess)) /\ 0 \in 0..0
      /\ 0 \in 0..MaxSessions /\ 0 \in 0..MaxRefused /\ 0 \in 0..MaxDeletes
    BY StreamAssumption, EmptySeq
<1>3. SessionTypes
    BY <1>2 DEF Init, SessionTypes
<1>4. ReactorTypes
    BY <1>2 DEF Init, ReactorTypes
<1>5. CallerTypes
    BY <1>2 DEF Init, CallerTypes
<1>6. EnqueuedAccounted /\ NoStrandedConsumer /\ Partials
    BY DEF Init, EnqueuedAccounted, NoStrandedConsumer, Partials, TimerTracksPartial
<1>7. Sessions
    BY <1>2 DEF Init, Sessions, Carried, Attended, Owned, Live
<1>8. QED
    BY <1>1, <1>3, <1>4, <1>5, <1>6, <1>7 DEF IInv, Typed

\* Each part of the invariant is kept.
LEMMA IInvStep ==
    ASSUME IInv, [Next]_vars
    PROVE  IInv'
BY TypedStep, AccountedStep, StrandedStep, PartialsStep, SessionsStep DEF IInv

\* The inductive invariant.
THEOREM StreamInvariant == Spec => []IInv
<1>1. Init => IInv
    BY InitIInv
<1>2. IInv /\ [Next]_vars => IInv'
    BY IInvStep
<1>3. QED
    BY <1>1, <1>2, PTL DEF Spec

\* Every variable keeps its type: no search of process_rx_buffer_locked or
\* notification_end_after_start() cuts the buffer outside its bounds, and the
\* counters under _notif_queue_mtx never go below zero.
THEOREM StreamTypes == Spec => []TypeOK
<1>1. IInv => TypeOK
  <2> SUFFICES ASSUME IInv PROVE TypeOK
    OBVIOUS
  <2>1. /\ nq \in Queues(Token) /\ events \in Seq(Events) /\ queued \in Nat
        /\ SessionTypes /\ ReactorTypes /\ CallerTypes
    BY StateOf DEF IInv, Typed
  <2>2. ASSUME NEW i \in DOMAIN events PROVE events[i].type \in EventType
    <3>1. events[i] \in Events
      BY <2>1
    <3>2. QED
      BY <3>1 DEF Events
  <2>3. /\ nq.rx \in Seq(Token) /\ nq.timer \in {"off", "running", "expired"}
        /\ nq.queue \in Seq(Seq(Token)) /\ nq.full \in BOOLEAN
        /\ {nq.dropped, nq.lastDrop, nq.enqueued, nq.incomplete, nq.high} \subseteq Nat
    BY <2>1 DEF Queues, Records, Clock
  <2>4. QED
    BY <2>1, <2>2, <2>3 DEF SessionTypes, ReactorTypes, CallerTypes, TypeOK
<1>2. QED
    BY <1>1, StreamInvariant, PTL

\* What enqueue_or_drop_locked counts in _notif_total_enqueued was returned by
\* next_notification() once, is in the queue, or was cleared with it by
\* mark_notification_dead(), for any number of consumers and sessions.
THEOREM EveryEnqueuedNotificationAccounted == Spec => []EnqueuedAccounted
<1>1. IInv => EnqueuedAccounted
    BY DEF IInv
<1>2. QED
    BY <1>1, StreamInvariant, PTL

\* No lost wakeup: while a next_notification() sleeps on _notif_queue_cv over a
\* queue that is not empty, the reactor has yet to call notify_all() for it.
THEOREM NoLostWakeup == Spec => []NoStrandedConsumer
<1>1. IInv => NoStrandedConsumer
    BY DEF IInv
<1>2. QED
    BY <1>1, StreamInvariant, PTL

\* However a stream is cut, the partial-notification timer is set whenever bytes
\* are left in _notif_rx_buffer with the mutex free, and only then.
THEOREM NoPartialWithoutTimer == Spec => []TimerTracksPartial
<1>1. IInv => TimerTracksPartial
    BY DEF IInv, Partials
<1>2. QED
    BY <1>1, StreamInvariant, PTL

\* Between on_notification_ready(), its cleanup_dead_fd and subscribe_non_blocking()
\* no notification of one session is queued for the next, for any number of
\* hangups and sessions and whatever descriptors the kernel reuses.
THEOREM QueueIsOfItsSession == Spec => []NoStaleNotification
<1>1. IInv => NoStaleNotification
  <2> SUFFICES ASSUME IInv, connected, rpc # "dead2", deletes = 0, refused = 0,
                      NEW i \in DOMAIN nq.queue, NEW j \in DOMAIN nq.queue[i]
               PROVE  nq.queue[i][j][2] = sess
    BY DEF NoStaleNotification
  <2>1. nq.queue \in Seq(Seq(TokensOf(sess)))
    BY DEF IInv, Sessions, Steady, Attended, Owned, Live
  <2>2. nq.queue[i] \in Seq(TokensOf(sess))
    BY <2>1
  <2>3. nq.queue[i][j] \in TokensOf(sess)
    BY <2>2
  <2>4. QED
    BY <2>3 DEF TokensOf
<1>2. QED
    BY <1>1, StreamInvariant, PTL
=============================================================================
