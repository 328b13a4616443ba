------------------------- MODULE NotificationStream -------------------------
(***************************************************************************)
(* One client's notification path, from the socket to the consumer:        *)
(* on_notification_ready() and mark_notification_dead() on the reactor     *)
(* thread, subscribe_non_blocking() on a pool thread,                      *)
(* delete_notification_session() on a Python thread and next_notification()*)
(* in any number of consumers.                                             *)
(*                                                                         *)
(* Two mutexes matter.  notif_mutex_ guards the session (sock, connected); *)
(* each of its sections is one step.  _notif_queue_mtx guards the record   *)
(* nq; the reactor holds it from the append to the end of the guards, and  *)
(* takes several steps meanwhile, the others have one-step sections.       *)
(* Nothing holds the first while waiting for the second, so bytes read     *)
(* under one are appended under the other, later.                          *)
(***************************************************************************)
EXTENDS NotificationFraming, FiniteSets

CONSTANTS
    Scripts,      \* the sequences of token kinds a device may send
    QMax,         \* _notif_queue_max_size_, -1 for an unbounded queue
    Threshold,    \* notif_drop_event_threshold_
    MaxPartial,   \* notif_incomplete_max_kb_, in tokens; 0 for no size guard
    TimeoutOn,    \* whether notif_incomplete_timeout_ > 0
    Consumers,    \* threads that call next_notification()
    Fds,          \* descriptor numbers the kernel may give the socket
    EarlyBytes,   \* whether the device sends before the client is registered
    CanClose,     \* whether the device may drop the connection
    MaxSessions,  \* bound: how many notification sessions are opened
    MaxRefused,   \* bound: how many subscription attempts fail
    MaxDeletes    \* bound: how many times delete_subscription() is called

ASSUME StreamAssumption ==
    /\ \A s \in Scripts : s \in Seq(STRING)
    /\ QMax \in Int /\ QMax >= -1
    /\ Threshold \in Nat \ {0}
    /\ MaxPartial \in Nat
    /\ {TimeoutOn, EarlyBytes, CanClose} \subseteq BOOLEAN
    /\ TimeoutOn \/ MaxPartial > 0
    /\ Fds \subseteq Nat \ {0}
    /\ {MaxSessions, MaxRefused, MaxDeletes} \subseteq Nat

VARIABLES
    sock,       \* notif_socket_, with its session and channel; 0 when reset
    connected,  \* notif_is_connected_
    armed,      \* sock is in the reactor's epoll set
    handlers,   \* the descriptors the reactor and the manager map to this client
    sess,       \* number of notification sessions opened so far
    script,     \* what the device will send in this session
    sent,       \* how much of it was sent
    wire,       \* the part sent that was not read
    hup,        \* the device closed the connection
    nq,         \* the state under _notif_queue_mtx
    rpc,        \* where the reactor thread is
    rfd,        \* the descriptor on_notification_ready() was called with
    bytes,      \* what read_currently_available() returned
    site,       \* where the reactor goes after the guards or the flush
    progressed, \* process_rx_buffer_locked's loop variable
    events,     \* events_to_emit
    queued,     \* queued_notifications
    spc,        \* where the subscriber is
    refused,    \* number of subscription attempts that failed
    dpc,        \* where the deleter is
    dfd,        \* the descriptor the deleter read
    deletes,    \* number of deletions begun
    cpc,        \* where each consumer is
    got,        \* everything appended to the receive buffer
    delivered,  \* the frames handed to consumers, in the order they were popped
    cleared,    \* number of queued frames thrown away with a session
    discarded,  \* number of tokens thrown away with a session, queued or not
    bus         \* the health events emitted, in order

sessionVars  == <<sock, connected, armed, handlers, sess, script, sent, wire, hup>>
reactorVars  == <<rpc, rfd, bytes, site, progressed>>
localVars    == <<events, queued>>
deleterVars  == <<dpc, dfd, deletes>>
historyVars  == <<got, delivered, cleared, discarded, bus>>
vars == <<sessionVars, nq, reactorVars, localVars, spc, refused, deleterVars, cpc, historyVars>>

Init ==
    /\ sock = 0 /\ connected = FALSE /\ armed = FALSE /\ handlers = {} /\ sess = 0
    /\ script = <<>> /\ sent = 0 /\ wire = <<>> /\ hup = FALSE
    /\ nq = [rx |-> <<>>, timer |-> "off", queue |-> <<>>, full |-> FALSE,
             dropped |-> 0, lastDrop |-> 0, enqueued |-> 0, incomplete |-> 0, high |-> 0]
    /\ rpc = "epoll" /\ rfd = 0 /\ bytes = <<>> /\ site = "loop" /\ progressed = FALSE
    /\ events = <<>> /\ queued = 0
    /\ spc = "idle" /\ refused = 0
    /\ dpc = "idle" /\ dfd = 0 /\ deletes = 0
    /\ cpc = [c \in Consumers |-> "idle"]
    /\ got = <<>> /\ delivered = <<>> /\ cleared = 0 /\ discarded = 0 /\ bus = <<>>

Parsing == {"top", "eom", "tail", "guard"}
QueueFree == rpc \notin Parsing

-----------------------------------------------------------------------------
(***************************************************************************)
(* The device                                                              *)
(***************************************************************************)
DeviceSend ==
    /\ sock # 0 /\ ~hup
    /\ EarlyBytes \/ spc \in {"mark", "idle"}
    /\ sent < Len(script)
    /\ sent' = sent + 1
    /\ wire' = Append(wire, <<script[sent + 1], sess>>)
    /\ UNCHANGED <<sock, connected, armed, handlers, sess, script, hup, nq, reactorVars, localVars,
                   spc, refused, deleterVars, cpc, historyVars>>

DeviceClose ==
    /\ CanClose /\ sock # 0 /\ ~hup
    /\ hup' = TRUE
    /\ UNCHANGED <<sock, connected, armed, handlers, sess, script, sent, wire, nq, reactorVars,
                   localVars, spc, refused, deleterVars, cpc, historyVars>>

\* The deadline of a partial notification passes.
Tick ==
    /\ TimeoutOn /\ nq.timer = "running"
    /\ nq' = [nq EXCEPT !.timer = "expired"]
    /\ UNCHANGED <<sessionVars, reactorVars, localVars, spc, refused, deleterVars, cpc, historyVars>>

-----------------------------------------------------------------------------
(***************************************************************************)
(* mark_notification_dead: one section under each mutex, then notify_all   *)
(***************************************************************************)
CloseSession ==
    /\ sock' = 0 /\ connected' = FALSE /\ armed' = FALSE
    /\ wire' = <<>> /\ hup' = FALSE
    /\ UNCHANGED <<handlers, sess, script, sent>>

WakeAll == cpc' = [c \in Consumers |-> IF cpc[c] = "blocked" THEN "woken" ELSE cpc[c]]

\* A second section that keeps the queue for whoever subscribes next.
ResetBufferOnly ==
    /\ QueueFree
    /\ nq' = [nq EXCEPT !.rx = <<>>, !.timer = "off"]
    /\ discarded' = discarded + Len(nq.rx)
    /\ UNCHANGED <<got, cleared>>
    /\ WakeAll

\* The second section: queue, receive buffer and timer, but not the full state.
ResetQueue ==
    /\ QueueFree
    /\ nq' = [nq EXCEPT !.queue = <<>>, !.rx = <<>>, !.timer = "off"]
    /\ cleared' = cleared + Len(nq.queue)
    /\ discarded' = discarded + Len(FlattenSeq(nq.queue)) + Len(nq.rx)
    /\ UNCHANGED got
    /\ WakeAll

\* The reactor and the manager forget descriptor f.
Unregister(f) ==
    /\ armed' = (armed /\ sock # f)
    /\ handlers' = handlers \ {f}

-----------------------------------------------------------------------------
(***************************************************************************)
(* The lambdas of on_notification_ready that run under _notif_queue_mtx.   *)
(* A state s is the record nq with the two locals they write.              *)
(***************************************************************************)
State == [q |-> nq, events |-> events, queued |-> queued]

\* make_notification_health_event_locked: dropped_delta and partial_bytes.  The
\* four malformed_notification events ("empty", "invalid", "noEom", "orphan") and
\* the two incomplete_notification events ("abandoned", "guard") are told apart
\* by their message.
Event(type, delta, size) == [type |-> type, delta |-> delta, size |-> size]

\* add_diagnostic_event_locked
AddDiagnostic(s, type, size) ==
    [s EXCEPT !.q.incomplete = IF type \in {"abandoned", "guard"} THEN @ + 1 ELSE @,
              !.events = Append(@, Event(type, 0, size))]

IsFull(q) == QMax >= 0 /\ Len(q.queue) >= QMax

\* A drop event that does not move _notif_last_drop_event_count.
EnqueueOrDropUnmarked(s, frame, size) ==
    LET delta == s.q.dropped + 1 - s.q.lastDrop
    IN  CASE ~IsFull(s.q) -> [s EXCEPT !.q.queue = Append(@, frame), !.q.enqueued = @ + 1,
                                       !.q.high = IF Len(s.q.queue) + 1 > @ THEN @ + 1 ELSE @,
                                       !.queued = @ + 1]
          [] IsFull(s.q) /\ (~s.q.full \/ delta >= Threshold) ->
               [s EXCEPT !.q.dropped = @ + 1, !.q.full = TRUE,
                         !.events = Append(@, Event(IF s.q.full THEN "drops" ELSE "full",
                                                    delta, size))]
          [] OTHER -> [s EXCEPT !.q.dropped = @ + 1]

\* enqueue_or_drop_locked
EnqueueOrDrop(s, frame, size) ==
    LET delta == s.q.dropped + 1 - s.q.lastDrop
    IN  CASE ~IsFull(s.q) ->
               [s EXCEPT !.q.queue = Append(@, frame),
                         !.q.enqueued = @ + 1,
                         !.q.high = IF Len(s.q.queue) + 1 > @ THEN Len(s.q.queue) + 1 ELSE @,
                         !.queued = @ + 1]
          [] IsFull(s.q) /\ (~s.q.full \/ delta >= Threshold) ->
               [s EXCEPT !.q.dropped = @ + 1,
                         !.q.lastDrop = s.q.dropped + 1,
                         !.q.full = TRUE,
                         !.events = Append(@, Event(IF s.q.full THEN "drops" ELSE "full",
                                                    delta, size))]
          [] OTHER -> [s EXCEPT !.q.dropped = @ + 1]

\* The first n tokens leave the receive buffer, and the timer is off.
Erase(s, n) ==
    [s EXCEPT !.q.rx = SubSeq(@, n + 1, Len(@)), !.q.timer = "off"]

\* process_eom_frame_locked, for the frame that ends before position eom.
ProcessEomFrame(s, eom) ==
    LET frame == SubSeq(s.q.rx, 1, eom - 1)
        whole == SubSeq(s.q.rx, 1, eom + 1)
        rest  == Erase(s, eom + 1)
    IN  CASE Blank(frame) -> AddDiagnostic(rest, "empty", Len(frame))
          [] ~Blank(frame) /\ ValidDocument(frame) -> EnqueueOrDrop(rest, whole, 0)
          [] OTHER -> EnqueueOrDrop(AddDiagnostic(rest, "invalid", Len(frame)), whole, Len(frame))

\* A guard that leaves the timer on.
FinalizeKeepsTimer(s) ==
    EnqueueOrDrop(AddDiagnostic([s EXCEPT !.q.rx = <<>>], "guard", Len(s.q.rx)),
                  s.q.rx, Len(s.q.rx))

\* finalize_incomplete_locked
Finalize(s) ==
    EnqueueOrDrop(AddDiagnostic(Erase(s, Len(s.q.rx)), "guard", Len(s.q.rx)),
                  s.q.rx, Len(s.q.rx))

SizeLimitReached(q) == MaxPartial > 0 /\ q.rx # <<>> /\ Len(q.rx) >= MaxPartial
TimeoutReached(q) == TimeoutOn /\ q.timer = "expired" /\ q.rx # <<>>

\* Write a state back.
Store(s) == nq' = s.q /\ events' = s.events /\ queued' = s.queued

-----------------------------------------------------------------------------
(***************************************************************************)
(* The reactor thread                                                      *)
(***************************************************************************)
reactorFrame == <<spc, refused, deleterVars, cpc, delivered, cleared, discarded, bus>>

\* An epoll set that reports a descriptor once and is never armed again.
EpollWaitOneShot ==
    /\ rpc = "epoll"
    /\ armed /\ (wire # <<>> \/ hup)
    /\ armed' = FALSE
    /\ rfd' = sock
    /\ rpc' = IF hup THEN "hupEvent" ELSE "event"
    /\ UNCHANGED <<sock, connected, handlers, sess, script, sent, wire, hup, nq, bytes, site,
                   progressed, localVars, got, reactorFrame>>

\* loop(): epoll_wait reports the descriptor, with or without a hangup.
EpollWait ==
    /\ rpc = "epoll"
    /\ armed /\ (wire # <<>> \/ hup)
    /\ rfd' = sock
    /\ rpc' = IF hup THEN "hupEvent" ELSE "event"
    /\ UNCHANGED <<sessionVars, nq, bytes, site, progressed, localVars, got, reactorFrame>>

\* A descriptor that is no longer handled is skipped; an error or a hangup goes
\* straight to cleanup_dead_fd, whatever is still unread.
Lookup ==
    /\ rpc \in {"event", "hupEvent"}
    /\ rpc' = CASE rfd \notin handlers                      -> "epoll"
                [] rfd \in handlers /\ rpc = "hupEvent"     -> "cleanup"
                [] rfd \in handlers /\ rpc = "event"        -> "read"
    /\ UNCHANGED <<sessionVars, nq, rfd, bytes, site, progressed, localVars, got, reactorFrame>>

\* read_currently_available() under notif_mutex_.
Read ==
    /\ rpc = "read"
    /\ sock = rfd
    /\ bytes' = wire
    /\ wire' = <<>>
    /\ rpc' = "append"
    /\ UNCHANGED <<sock, connected, armed, handlers, sess, script, sent, hup, nq, rfd, site, progressed,
                   localVars, got, reactorFrame>>

\* It throws: the session is gone, the descriptor is another one, or the
\* transport failed (and what it had read so far is lost).
ReadThrows ==
    /\ rpc = "read"
    /\ sock # rfd \/ hup
    /\ rpc' = "cleanup"
    /\ UNCHANGED <<sessionVars, nq, rfd, bytes, site, progressed, localVars, got, reactorFrame>>

\* The mutex is taken and the bytes are appended.
AppendBytes ==
    /\ rpc = "append"
    /\ nq' = [nq EXCEPT !.rx = @ \o bytes]
    /\ got' = got \o bytes
    /\ bytes' = <<>>
    /\ rpc' = "top"
    /\ site' = "read"
    /\ UNCHANGED <<sessionVars, rfd, progressed, localVars, reactorFrame>>

\* The mutex is taken at the top of the wait loop.
EnterLoop ==
    /\ rpc = "loop"
    /\ rpc' = "top"
    /\ site' = "loop"
    /\ UNCHANGED <<sessionVars, nq, rfd, bytes, progressed, localVars, got, reactorFrame>>

\* A parser that drops any prefix, white space too, and reports only the others.
ParseTopTrim ==
    /\ rpc = "top"
    /\ LET start == FindStart(nq.rx, 1)
           rest  == Erase(State, start - 1)
       IN  \/ /\ start > 1
              /\ Store(IF BenignPrefix(SubSeq(nq.rx, 1, start - 1)) THEN rest
                       ELSE AddDiagnostic(rest, "orphan", start - 1))
              /\ UNCHANGED rpc
           \/ /\ start <= 1
              /\ rpc' = IF nq.rx = <<>> THEN "guard" ELSE "eom"
              /\ UNCHANGED <<nq, localVars>>
    /\ progressed' = FALSE
    /\ UNCHANGED <<sessionVars, rfd, bytes, site, got, reactorFrame>>

\* process_rx_buffer_locked, head of the loop: an empty buffer ends it, an
\* orphan prefix is dropped.
ParseTop ==
    /\ rpc = "top"
    /\ LET start == FindStart(nq.rx, 1)
       IN  \/ /\ nq.rx = <<>>
              /\ rpc' = "guard"
              /\ nq' = [nq EXCEPT !.timer = "off"]
              /\ UNCHANGED localVars
           \/ /\ start > 1 /\ ~BenignPrefix(SubSeq(nq.rx, 1, start - 1))
              /\ Store(AddDiagnostic(Erase(State, start - 1), "orphan", start - 1))
              /\ UNCHANGED rpc
           \/ /\ nq.rx # <<>>
              /\ start <= 1 \/ BenignPrefix(SubSeq(nq.rx, 1, start - 1))
              /\ rpc' = "eom"
              /\ UNCHANGED <<nq, localVars>>
    /\ progressed' = FALSE
    /\ UNCHANGED <<sessionVars, rfd, bytes, site, got, reactorFrame>>

\* An EOM search that leaves the second half of the marker in the buffer.
ParseEomShort ==
    /\ rpc = "eom"
    /\ LET eom == FindEom(nq.rx)
       IN  IF eom # 0
             THEN /\ Store([ProcessEomFrame(State, eom) EXCEPT
                              !.q.rx = SubSeq(nq.rx, eom + 1, Len(nq.rx))])
                  /\ progressed' = TRUE
                  /\ UNCHANGED rpc
             ELSE /\ rpc' = IF nq.rx = <<>> THEN "guard" ELSE "tail"
                  /\ UNCHANGED <<nq, localVars, progressed>>
    /\ UNCHANGED <<sessionVars, rfd, bytes, site, got, reactorFrame>>

\* The inner loop: every EOM-delimited frame, first to last.
ParseEom ==
    /\ rpc = "eom"
    /\ LET eom == FindEom(nq.rx)
       IN  \/ /\ eom # 0
              /\ Store(ProcessEomFrame(State, eom))
              /\ progressed' = TRUE
              /\ UNCHANGED rpc
           \/ /\ eom = 0
              /\ rpc' = IF nq.rx = <<>> THEN "guard" ELSE "tail"
              /\ nq' = IF nq.rx = <<>> THEN [nq EXCEPT !.timer = "off"] ELSE nq
              /\ UNCHANGED <<localVars, progressed>>
    /\ UNCHANGED <<sessionVars, rfd, bytes, site, got, reactorFrame>>

\* No EOM is left: a notification followed by another start tag is recovered
\* when it is complete, abandoned when it is not.
ParseTail ==
    /\ rpc = "tail"
    /\ LET start == FindStart(nq.rx, 1)
           end   == IF start = 0 THEN 0 ELSE EndAfterStart(nq.rx, start)
           next  == IF start = 0 THEN 0
                    ELSE FindStart(nq.rx, (IF end # 0 THEN end ELSE start) + 1)
       IN  \/ /\ next # 0 /\ end # 0
              /\ Store(EnqueueOrDrop(AddDiagnostic(Erase(State, end), "noEom", end),
                                     SubSeq(nq.rx, 1, end), end))
              /\ rpc' = "top"
           \/ /\ next # 0 /\ end = 0
              /\ Store(EnqueueOrDrop(AddDiagnostic(Erase(State, next - 1), "abandoned", next - 1),
                                     SubSeq(nq.rx, 1, next - 1), next - 1))
              /\ rpc' = "top"
           \/ /\ next = 0
              /\ rpc' = IF progressed THEN "top" ELSE "guard"
              /\ UNCHANGED <<nq, localVars>>
    /\ UNCHANGED <<sessionVars, rfd, bytes, site, progressed, got, reactorFrame>>

\* A timer that is restarted whenever a partial is left.
GuardRestarting ==
    /\ rpc = "guard"
    /\ LET s == IF nq.rx # <<>> THEN [State EXCEPT !.q.timer = "running"] ELSE State
           g == IF SizeLimitReached(s.q) THEN Finalize(s) ELSE s
       IN  /\ Store(g)
           /\ site' = CASE site = "read"                                 -> "loop"
                        [] site = "loop" /\ g.q.rx # <<>> /\ TimeoutOn   -> "poll"
                        [] OTHER                                         -> "epoll"
    /\ rpc' = "flush"
    /\ UNCHANGED <<sessionVars, rfd, bytes, progressed, got, reactorFrame>>

\* The end of process_rx_buffer_locked starts the timer of a new partial; then
\* the guards: size only after a read, size or timeout in the wait loop, which
\* goes on to poll() while a partial is left.  The mutex is released.
Guard ==
    /\ rpc = "guard"
    /\ LET s == IF nq.rx # <<>> /\ nq.timer = "off"
                  THEN [State EXCEPT !.q.timer = "running"] ELSE State
           fires == SizeLimitReached(s.q) \/ (site = "loop" /\ TimeoutReached(s.q))
           g == IF fires THEN Finalize(s) ELSE s
       IN  /\ Store(g)
           /\ site' = CASE site = "read"                                 -> "loop"
                        [] site = "loop" /\ g.q.rx # <<>> /\ TimeoutOn   -> "poll"
                        [] OTHER                                         -> "epoll"
    /\ rpc' = "flush"
    /\ UNCHANGED <<sessionVars, rfd, bytes, progressed, got, reactorFrame>>

\* flush_events_and_notifications: the events, one by one.
FlushEvent ==
    /\ rpc = "flush"
    /\ events # <<>>
    /\ bus' = Append(bus, Head(events))
    /\ events' = Tail(events)
    /\ UNCHANGED <<sessionVars, nq, reactorVars, queued, spc, refused, deleterVars, cpc, got, delivered,
                   cleared, discarded>>

\* A flush that never notifies.
FlushDoneSilent ==
    /\ rpc = "flush"
    /\ events = <<>>
    /\ queued' = 0
    /\ rpc' = site
    /\ UNCHANGED <<sessionVars, nq, rfd, bytes, site, progressed, events, spc, refused, deleterVars, cpc,
                   historyVars>>

\* A flush that counts one notification per notify_all.
FlushDoneDecrement ==
    /\ rpc = "flush"
    /\ events = <<>>
    /\ IF queued > 0 THEN WakeAll ELSE UNCHANGED cpc
    /\ queued' = queued - 1
    /\ rpc' = site
    /\ UNCHANGED <<sessionVars, nq, rfd, bytes, site, progressed, events, spc, refused, deleterVars,
                   historyVars>>

\* Then notify_all, if anything was queued.
FlushDone ==
    /\ rpc = "flush"
    /\ events = <<>>
    /\ IF queued > 0 THEN WakeAll ELSE UNCHANGED cpc
    /\ queued' = 0
    /\ rpc' = site
    /\ UNCHANGED <<sessionVars, nq, rfd, bytes, site, progressed, events, spc, refused, deleterVars,
                   historyVars>>

\* poll_notification_fd: readable,
PollReady ==
    /\ rpc = "poll"
    /\ sock = rfd /\ (wire # <<>> \/ hup)
    /\ rpc' = "read"
    /\ UNCHANGED <<sessionVars, nq, rfd, bytes, site, progressed, localVars, got, reactorFrame>>

\* closed under it or by the device,
PollThrows ==
    /\ rpc = "poll"
    /\ sock # rfd \/ hup
    /\ rpc' = "cleanup"
    /\ UNCHANGED <<sessionVars, nq, rfd, bytes, site, progressed, localVars, got, reactorFrame>>

\* or the time slice ends: the timeout guard, then the loop again.
PollSlice ==
    /\ rpc = "poll"
    /\ sock = rfd /\ wire = <<>> /\ ~hup
    /\ IF TimeoutReached(nq) THEN Store(Finalize(State)) ELSE UNCHANGED <<nq, localVars>>
    /\ rpc' = "flush"
    /\ site' = "loop"
    /\ UNCHANGED <<sessionVars, rfd, bytes, progressed, got, reactorFrame>>

\* cleanup_dead_fd
CleanupUnregister ==
    /\ rpc = "cleanup"
    /\ Unregister(rfd)
    /\ rpc' = "dead1"
    /\ UNCHANGED <<sock, connected, sess, script, sent, wire, hup, nq, rfd, bytes, site,
                   progressed, localVars, got, reactorFrame>>

CleanupClose ==
    /\ rpc = "dead1"
    /\ CloseSession
    /\ rpc' = "dead2"
    /\ UNCHANGED <<nq, rfd, bytes, site, progressed, localVars, got, reactorFrame>>

CleanupReset ==
    /\ rpc = "dead2"
    /\ ResetQueue
    /\ rpc' = "epoll"
    /\ UNCHANGED <<sessionVars, rfd, bytes, site, progressed, localVars, spc, refused, deleterVars,
                   delivered, bus>>

-----------------------------------------------------------------------------
(***************************************************************************)
(* subscribe_non_blocking, under session_mutex_: one caller at a time      *)
(***************************************************************************)
subscriberFrame == <<reactorVars, localVars, refused, deleterVars>>

\* connect_notification_non_blocking opens a new session.
SubConnect ==
    /\ spc = "idle" /\ sess < MaxSessions
    /\ ~connected
    /\ sock' \in Fds
    /\ script' \in Scripts
    /\ sess' = sess + 1
    /\ sent' = 0 /\ wire' = <<>> /\ hup' = FALSE
    /\ connected' = FALSE /\ armed' = FALSE
    /\ spc' = "reply"
    /\ UNCHANGED <<handlers, nq, subscriberFrame, cpc, historyVars>>

\* It throws: a session exists already, or the device cannot be reached.
SubConnectThrows ==
    /\ spc = "idle" /\ refused < MaxRefused
    /\ refused' = refused + 1
    /\ spc' = "dead1"
    /\ UNCHANGED <<sessionVars, nq, reactorVars, localVars, deleterVars, cpc, historyVars>>

\* read_until_eom_non_blocking: it stops at the reply's EOM; bytes that came in the
\* same read are part of the string that is returned.
ReadUntilEom ==
    \E n \in 0..Len(wire) : wire' = SubSeq(wire, n + 1, Len(wire))

\* send_rpc_non_blocking_func throws: the session or the connection is gone, or
\* the device does not answer within read_timeout.
RpcThrows ==
    \/ (sock = 0 \/ hup) /\ UNCHANGED refused
    \/ refused < MaxRefused /\ refused' = refused + 1

\* <create-subscription> is sent and its reply read.
SubReply ==
    /\ spc = "reply"
    /\ \/ /\ sock # 0 /\ ~hup
          /\ ReadUntilEom
          /\ spc' = "clear"
          /\ UNCHANGED refused
       \/ /\ RpcThrows
          /\ spc' = "dead1"
          /\ UNCHANGED wire
    /\ UNCHANGED <<sock, connected, armed, handlers, sess, script, sent, hup, nq, reactorVars,
                   localVars, deleterVars, cpc, historyVars>>

SubClearBuffer ==
    /\ spc = "clear"
    /\ QueueFree
    /\ nq' = [nq EXCEPT !.rx = <<>>, !.timer = "off"]
    /\ discarded' = discarded + Len(nq.rx)
    /\ spc' = "add"
    /\ UNCHANGED <<sessionVars, subscriberFrame, cpc, got, delivered, cleared, bus>>

\* NotificationReactorManager::add; a reset socket is refused.
SubRegister ==
    /\ spc = "add"
    /\ armed' = (sock # 0)
    /\ handlers' = handlers \cup ({sock} \ {0})
    /\ spc' = IF sock # 0 THEN "mark" ELSE "dead1"
    /\ UNCHANGED <<sock, connected, sess, script, sent, wire, hup, nq, subscriberFrame, cpc,
                   historyVars>>

SubMarkConnected ==
    /\ spc = "mark"
    /\ connected' = TRUE
    /\ spc' = "idle"
    /\ UNCHANGED <<sock, armed, handlers, sess, script, sent, wire, hup, nq, subscriberFrame, cpc,
                   historyVars>>

\* The catch clause: mark_notification_dead.
SubClose ==
    /\ spc = "dead1"
    /\ CloseSession
    /\ spc' = "dead2"
    /\ UNCHANGED <<nq, subscriberFrame, cpc, historyVars>>

SubReset ==
    /\ spc = "dead2"
    /\ ResetQueue
    /\ spc' = "idle"
    /\ UNCHANGED <<sessionVars, subscriberFrame, delivered, bus>>

-----------------------------------------------------------------------------
(***************************************************************************)
(* delete_notification_session, under no mutex of its own                  *)
(***************************************************************************)
deleterFrame == <<reactorVars, localVars, spc, refused>>

DelReadFd ==
    /\ dpc = "idle" /\ deletes < MaxDeletes
    /\ deletes' = deletes + 1
    /\ dfd' = sock
    /\ dpc' = "remove"
    /\ UNCHANGED <<sessionVars, nq, deleterFrame, cpc, historyVars>>

DelUnregister ==
    /\ dpc = "remove"
    /\ IF dfd # 0 THEN Unregister(dfd) ELSE UNCHANGED <<armed, handlers>>
    /\ dpc' = "dead1"
    /\ UNCHANGED <<sock, connected, sess, script, sent, wire, hup, nq, dfd, deletes,
                   deleterFrame, cpc, historyVars>>

DelClose ==
    /\ dpc = "dead1"
    /\ CloseSession
    /\ dpc' = "dead2"
    /\ UNCHANGED <<nq, dfd, deletes, deleterFrame, cpc, historyVars>>

DelReset ==
    /\ dpc = "dead2"
    /\ ResetQueue
    /\ dpc' = "idle"
    /\ UNCHANGED <<sessionVars, dfd, deletes, deleterFrame, delivered, bus>>

-----------------------------------------------------------------------------
(***************************************************************************)
(* next_notification                                                       *)
(***************************************************************************)
consumerFrame == <<sessionVars, reactorVars, localVars, spc, refused, deleterVars, got, cleared,
                   discarded>>

\* The checks under notif_mutex_; a call that fails them throws.
NextEnter(c) ==
    /\ cpc[c] = "idle"
    /\ sock # 0 /\ connected
    /\ cpc' = [cpc EXCEPT ![c] = "entered"]
    /\ UNCHANGED <<nq, consumerFrame, delivered, bus>>

\* A pop that returns the front notification and leaves it there.
NextPopCopying(c) ==
    /\ cpc[c] \in {"entered", "woken", "expired"}
    /\ QueueFree
    /\ nq.queue # <<>>
    /\ cpc' = [cpc EXCEPT ![c] = "idle"]
    /\ delivered' = Append(delivered, Head(nq.queue))
    /\ Len(delivered) < 4
    /\ UNCHANGED <<nq, consumerFrame, bus>>

\* A pop that never leaves the full state.
NextPopKeepsFull(c) ==
    /\ cpc[c] \in {"entered", "woken", "expired"}
    /\ QueueFree
    /\ nq.queue # <<>>
    /\ nq' = [nq EXCEPT !.queue = Tail(@)]
    /\ cpc' = [cpc EXCEPT ![c] = "idle"]
    /\ delivered' = Append(delivered, Head(nq.queue))
    /\ UNCHANGED <<consumerFrame, bus>>

\* Under _notif_queue_mtx, at the first test or after a wait: pop, and leave the
\* full state when the queue has room again.
NextPop(c) ==
    /\ cpc[c] \in {"entered", "woken", "expired"}
    /\ QueueFree
    /\ nq.queue # <<>>
    /\ LET recovers == nq.full /\ (QMax < 0 \/ Len(nq.queue) - 1 < QMax)
       IN  /\ nq' = [nq EXCEPT !.queue = Tail(@), !.full = @ /\ ~recovers]
           /\ cpc' = [cpc EXCEPT ![c] = IF recovers THEN "emit" ELSE "idle"]
    /\ delivered' = Append(delivered, Head(nq.queue))
    /\ UNCHANGED <<consumerFrame, bus>>

\* An empty queue and a timeout to wait for.
NextSleep(c) ==
    /\ cpc[c] \in {"entered", "woken"}
    /\ QueueFree
    /\ nq.queue = <<>>
    /\ cpc' = [cpc EXCEPT ![c] = "blocked"]
    /\ UNCHANGED <<nq, consumerFrame, delivered, bus>>

\* The timeout passes (waking for no reason is no different up to the test).
NextExpire(c) ==
    /\ cpc[c] = "blocked"
    /\ cpc' = [cpc EXCEPT ![c] = "expired"]
    /\ UNCHANGED <<nq, consumerFrame, delivered, bus>>

\* An empty queue, timeout 0 or past: the empty string.
NextEmpty(c) ==
    /\ cpc[c] \in {"entered", "expired"}
    /\ QueueFree
    /\ nq.queue = <<>>
    /\ cpc' = [cpc EXCEPT ![c] = "idle"]
    /\ UNCHANGED <<nq, consumerFrame, delivered, bus>>

\* The recovery event, emitted with the mutex released.
NextEmit(c) ==
    /\ cpc[c] = "emit"
    /\ bus' = Append(bus, Event("recovered", 0, 0))
    /\ cpc' = [cpc EXCEPT ![c] = "idle"]
    /\ UNCHANGED <<nq, consumerFrame, delivered>>

-----------------------------------------------------------------------------
Reactor ==
    \/ EpollWait \/ Lookup \/ Read \/ ReadThrows \/ AppendBytes \/ EnterLoop
    \/ ParseTop \/ ParseEom \/ ParseTail \/ Guard
    \/ FlushEvent \/ FlushDone \/ PollReady \/ PollThrows \/ PollSlice
    \/ CleanupUnregister \/ CleanupClose \/ CleanupReset

Subscriber ==
    \/ SubConnect \/ SubConnectThrows \/ SubReply \/ SubClearBuffer
    \/ SubRegister \/ SubMarkConnected \/ SubClose \/ SubReset

Deleter == DelReadFd \/ DelUnregister \/ DelClose \/ DelReset

Consumer(c) == \/ NextEnter(c) \/ NextPop(c) \/ NextSleep(c)
               \/ NextExpire(c) \/ NextEmpty(c) \/ NextEmit(c)

Next ==
    \/ DeviceSend \/ DeviceClose \/ Tick
    \/ Reactor \/ Subscriber \/ Deleter
    \/ \E c \in Consumers : Consumer(c)

Spec == Init /\ [][Next]_vars

\* The reactor thread runs and time passes.
FairSpec == Spec /\ WF_vars(Reactor) /\ WF_vars(Tick)

-----------------------------------------------------------------------------
(***************************************************************************)
(* Properties                                                              *)
(***************************************************************************)
Token == (UNION {{s[i] : i \in DOMAIN s} : s \in Scripts}) \X (1..MaxSessions)
EventType == {"empty", "invalid", "noEom", "orphan", "abandoned", "guard",
              "full", "drops", "recovered"}

\* Every variable stays in its type.
TypeOK ==
    /\ sock \in Fds \cup {0} /\ connected \in BOOLEAN /\ armed \in BOOLEAN
    /\ handlers \subseteq Fds
    /\ sess \in 0..MaxSessions /\ script \in Scripts \cup {<<>>} /\ sent \in 0..Len(script)
    /\ wire \in Seq(Token) /\ hup \in BOOLEAN
    /\ nq.rx \in Seq(Token) /\ nq.timer \in {"off", "running", "expired"}
    /\ nq.queue \in Seq(Seq(Token)) /\ nq.full \in BOOLEAN
    /\ {nq.dropped, nq.lastDrop, nq.enqueued, nq.incomplete, nq.high} \subseteq Nat
    /\ rpc \in {"epoll", "event", "hupEvent", "read", "append", "loop", "flush", "poll", "cleanup", "dead1", "dead2"}
               \cup Parsing
    /\ rfd \in Fds \cup {0} /\ bytes \in Seq(Token)
    /\ site \in {"read", "loop", "poll", "epoll"} /\ progressed \in BOOLEAN
    /\ \A i \in DOMAIN events : events[i].type \in EventType
    /\ queued \in Nat
    /\ spc \in {"idle", "reply", "clear", "add", "mark", "dead1", "dead2"}
    /\ dpc \in {"idle", "remove", "dead1", "dead2"} /\ dfd \in Fds \cup {0}
    /\ refused \in 0..MaxRefused /\ deletes \in 0..MaxDeletes
    /\ cpc \in [Consumers -> {"idle", "entered", "blocked", "woken", "expired", "emit"}]

\* Every notification that was counted as enqueued was returned once, is
\* waiting, or went with its session.
EnqueuedAccounted == nq.enqueued = Len(delivered) + Len(nq.queue) + cleared

SumDeltas(es) == Total([i \in DOMAIN es |-> es[i].delta])

\* The drop events add up: the deltas of all events raised are exactly the drops
\* they cover, and fewer than notif_drop_event_threshold drops are unreported.
DropsAccounted ==
    /\ SumDeltas(bus \o events) = nq.lastDrop
    /\ nq.lastDrop <= nq.dropped /\ nq.dropped < nq.lastDrop + Threshold

\* The full state says what it means: until a session takes queued notifications with
\* it, it is on only if the queue is full, so the next overflow is announced as
\* notification_queue_full and not as more of an earlier one.
FullStateTracksQueue == cleared = 0 /\ nq.full => IsFull(nq)

\* What the diagnostics own up to: the orphans, and the empty frames with their EOM.
Admitted(e) == CASE e.type = "orphan" -> e.size
                 [] e.type = "empty"  -> e.size + 2
                 [] OTHER             -> 0
OrphanBytes(es) == Total([i \in DOMAIN es |-> Admitted(es[i])])

\* However the reads cut the stream, no byte is invented by the parser or changes its
\* place, and none is lost but with a whole notification that overflowed the queue: each
\* is in a queued frame or in the buffer, in a fragment that a malformed_notification
\* event reports as dropped, or went with its session.
BytesAccounted ==
    LET out  == FlattenSeq(delivered \o nq.queue) \o nq.rx
        lost == OrphanBytes(bus \o events) + discarded
    IN  /\ Len(got) >= Len(out) + lost
        /\ nq.dropped = 0 => Len(got) = Len(out) + lost
        /\ nq.dropped = 0 /\ lost = 0 => out = got

\* No lost wakeup: a consumer sleeps over a notification only while the reactor
\* that queued it is on its way to notify_all().
NoStrandedConsumer ==
    (\E c \in Consumers : cpc[c] = "blocked") /\ nq.queue # <<>> => queued > 0

\* The partial-notification timer runs exactly while bytes wait in the buffer,
\* whenever no one is in the middle of parsing: no partial without a deadline,
\* no deadline without a partial.
TimerTracksPartial ==
    QueueFree => (nq.timer = "off" <=> nq.rx = <<>>)

SentTokens == [i \in 1..sent |-> <<script[i], sess>>]

\* Complete notifications come out as sent, in order, however the reads cut the
\* stream: from a device that sends one start tag per message and nothing before the
\* client is registered, and unless a guard took a partial or the queue overflowed,
\* what the first session queued is a prefix of the frames sent, and all of them once
\* the reactor has nothing left to read.  (As long as nothing was deleted or refused:
\* see NoStaleNotification.)
FramesExact ==
    LET all == EomSplit(SentTokens)
        out == delivered \o nq.queue
    IN  /\ ~EarlyBytes /\ sess <= 1 /\ deletes = 0 /\ refused = 0 /\ cleared = 0
        /\ nq.incomplete = 0 /\ nq.dropped = 0
        /\ Orderly(all.cur) /\ \A f \in Range(all.frames) : Orderly(f)
        => /\ IsPrefix(out, all.frames)
           /\ armed /\ rpc = "epoll" /\ wire = <<>> => out = all.frames

\* What an active subscription has queued came in over its own session, across
\* hangups, new sessions and reused descriptors.  (Not while the cleanup of the
\* session before is still due; and not once a deletion or a refused second
\* subscription has closed a session on its own: it may come between the read of
\* some bytes and their append, which are under different mutexes.)
NoStaleNotification ==
    connected /\ sock # 0 /\ rpc # "dead2" /\ deletes = 0 /\ refused = 0 =>
        \A i \in DOMAIN nq.queue : \A j \in DOMAIN nq.queue[i] : nq.queue[i][j][2] = sess

\* With a timeout guard no partial stays in the buffer for ever.
PartialReleased == (nq.rx # <<>>) ~> (nq.rx = <<>>)

\* What a device has sent on a session with a handler is read.
SentIsRead == (sock \in handlers /\ wire # <<>>) ~> (wire = <<>>)
=============================================================================
