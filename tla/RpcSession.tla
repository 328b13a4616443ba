----------------------------- MODULE RpcSession -----------------------------
(***************************************************************************)
(* One client's RPC session: the *_async and *_sync calls that pool        *)
(* threads run on it, connect and disconnect among them, and the device at *)
(* the other end, which answers late or never, hangs up, and may have its  *)
(* datastore locked by someone else.                                       *)
(*                                                                         *)
(* The wrappers test is_connected_ and is_blocking_ before they take       *)
(* session_mutex_, so the tests, taking the mutex, and what is done under  *)
(* it are separate steps.  Under the mutex only its holder touches the     *)
(* session; its steps are divided where a device, or an unlocked test,     *)
(* can tell.  A session object is the number of the connect that made it,  *)
(* a channel the number of its session.  Replies are kept as the numbers   *)
(* of the requests they answer, which the code cannot see: every request   *)
(* has message-id 101.                                                     *)
(*                                                                         *)
(* A non-blocking write has no deadline, and the deadline of a read starts *)
(* anew with every chunk, so a device that has stopped reading, or that    *)
(* trickles a reply, keeps a call as long as it does ("holds"; it may stop *)
(* to at any time, so nothing is lost by letting neither a write nor the   *)
(* deadline of a read through meanwhile).  One blocking write may be       *)
(* short, and the rest is not written later: "framing" says what became of *)
(* the requests of a session.                                              *)
(***************************************************************************)
EXTENDS Integers, Sequences

CONSTANTS
    Callers,      \* pool threads
    Nobody,       \* no thread
    Ops,          \* the operations called
    Modes,        \* "async", "sync"
    MaxCalls,     \* bound: how many calls are made
    MaxConnects   \* bound: how many sessions are begun

AllOps == {"connect", "disconnect", "rpc", "lock", "unlock", "edit", "validatedEdit",
           "lockedEdit", "lockedValidatedEdit"}

ASSUME RpcAssumption ==
    /\ Nobody \notin Callers
    /\ Ops \subseteq AllOps
    /\ Modes \subseteq {"async", "sync"}
    /\ MaxCalls \in Nat /\ MaxConnects \in Nat

VARIABLES
    mutex,      \* who holds session_mutex_
    connected,  \* is_connected_
    blocking,   \* is_blocking_
    session,    \* session_ (and socket_), 0 when reset
    channel,    \* the session channel_ was opened on, 0 when reset
    pc,         \* where each caller is
    task,       \* its call: operation, mode, the requests it has yet to make, whether
                \* it is in a catch clause, and the number of its last request
    up,         \* whether the connection stands
    hello,      \* whether the hellos have been exchanged
    inbox,      \* requests the device has not handled
    outbox,     \* replies nobody has read
    holds,      \* whether the device has stopped reading, or sends byte by byte a
                \* message that does not end
    lock,       \* who has locked the device's datastore
    sent,       \* how many requests were sent on the session
    gaveUp,     \* whether a request of this session was given up
    framing,    \* of this session's requests: all "whole"; the last one was "cut"
                \* short; one was "joined" to the part that went before it
    denied,     \* whether this session was refused the lock of a locked_edit_config
    unguarded,  \* whether an edit or commit of one was applied without the lock
    failedLate, \* whether a connect failed when it had opened its channel, which
                \* stays until the next one, or a disconnect
    calls,      \* how many calls were made
    opened      \* how many sessions were begun

flagVars    == <<connected, blocking>>
objectVars  == <<session, channel>>
linkVars    == <<up, hello, inbox, outbox, holds>>
sessionVars == <<sent, gaveUp, framing, denied, unguarded>>
boundVars   == <<calls, opened>>
vars == <<mutex, flagVars, objectVars, pc, task, linkVars,
          lock, sessionVars, failedLate, boundVars>>

NoTask == [op |-> "none", mode |-> "async", todo |-> <<>>, undo |-> FALSE, asked |-> 0]

Init ==
    /\ mutex = Nobody
    /\ connected = FALSE /\ blocking = FALSE
    /\ session = 0 /\ channel = 0
    /\ pc = [c \in Callers |-> "idle"]
    /\ task = [c \in Callers |-> NoTask]
    /\ up = FALSE /\ hello = FALSE /\ inbox = <<>> /\ outbox = <<>>
    /\ holds = FALSE /\ lock = "free"
    /\ sent = 0 /\ gaveUp = FALSE /\ framing = "whole"
    /\ denied = FALSE /\ unguarded = FALSE /\ failedLate = FALSE
    /\ calls = 0 /\ opened = 0

LockedEdits == {"lockedEdit", "lockedValidatedEdit"}
Ours == {"call", "edit"}   \* locked by lock_async, or by locked_edit_config

\* The requests each operation makes, in order.
Plan == [connect             |-> <<>>,
         disconnect          |-> <<>>,
         rpc                 |-> <<"other">>,
         lock                |-> <<"lock">>,
         unlock              |-> <<"unlock">>,
         edit                |-> <<"edit">>,
         validatedEdit       |-> <<"edit", "validate">>,
         lockedEdit          |-> <<"lock", "edit", "commit", "unlock">>,
         lockedValidatedEdit |-> <<"lock", "edit", "validate", "commit", "unlock">>]

\* A commit that comes after the unlock.
RequestsUnlockFirst(o) ==
    [Plan EXCEPT !.lockedEdit          = <<"lock", "edit", "unlock", "commit">>,
                 !.lockedValidatedEdit = <<"lock", "edit", "validate", "unlock", "commit">>][o]

Requests(o) == Plan[o]

\* The caller's task is over: the mutex is released and the future has an outcome.
Return(c) ==
    /\ mutex' = Nobody
    /\ pc' = [pc EXCEPT ![c] = "idle"]
    /\ task' = [task EXCEPT ![c] = NoTask]

\* The session is freed: its connection is gone, and with it what was under way, our
\* lock, and what there was to say of its requests.
CloseLink ==
    /\ up' = FALSE /\ hello' = FALSE /\ inbox' = <<>> /\ outbox' = <<>>
    /\ holds' = FALSE
    /\ lock' = IF lock \in Ours THEN "free" ELSE lock
    /\ sent' = 0 /\ gaveUp' = FALSE /\ framing' = "whole"
    /\ denied' = FALSE /\ unguarded' = FALSE

-----------------------------------------------------------------------------
(***************************************************************************)
(* The wrappers of netconf_client_async.cpp and netconf_client_sync.cpp    *)
(***************************************************************************)
\* A call reaches a pool thread; connect makes no test of its own.
Call(c) ==
    /\ pc[c] = "idle" /\ calls < MaxCalls
    /\ calls' = calls + 1
    /\ \E o \in Ops, m \in Modes :
         /\ task' = [task EXCEPT ![c] = [NoTask EXCEPT !.op = o, !.mode = m,
                                                       !.todo = Requests(o)]]
         /\ pc' = [pc EXCEPT ![c] = IF o = "connect" THEN "mutex" ELSE "test"]
    /\ UNCHANGED <<mutex, flagVars, objectVars, linkVars, lock, sessionVars,
                   failedLate, opened>>

\* The tests of is_connected_ and is_blocking_, without the mutex; a call of the
\* other mode, or without a session, throws.
Test(c) ==
    /\ pc[c] = "test"
    /\ IF connected /\ (blocking <=> task[c].mode = "sync")
         THEN pc' = [pc EXCEPT ![c] = "mutex"] /\ UNCHANGED task
         ELSE pc' = [pc EXCEPT ![c] = "idle"] /\ task' = [task EXCEPT ![c] = NoTask]
    /\ UNCHANGED <<mutex, flagVars, objectVars, linkVars, lock, sessionVars,
                   failedLate, boundVars>>

\* A call that does not wait for session_mutex_.
AcquireNothing(c) ==
    /\ pc[c] = "mutex"
    /\ mutex' = c
    /\ pc' = [pc EXCEPT ![c] = IF task[c].op \in {"connect", "disconnect"}
                                  THEN task[c].op ELSE "send"]
    /\ UNCHANGED <<flagVars, objectVars, task, linkVars,
                   lock, sessionVars, failedLate, boundVars>>

\* session_mutex_ is taken.
Acquire(c) ==
    /\ pc[c] = "mutex" /\ mutex = Nobody
    /\ mutex' = c
    /\ pc' = [pc EXCEPT ![c] = IF task[c].op \in {"connect", "disconnect"}
                                  THEN task[c].op ELSE "send"]
    /\ UNCHANGED <<flagVars, objectVars, task, linkVars,
                   lock, sessionVars, failedLate, boundVars>>

-----------------------------------------------------------------------------
(***************************************************************************)
(* connect_non_blocking and connect_blocking                               *)
(***************************************************************************)
\* There is a session already.
ConnectRefused(c) ==
    /\ pc[c] = "connect" /\ connected
    /\ Return(c)
    /\ UNCHANGED <<flagVars, objectVars, linkVars,
                   lock, sessionVars, failedLate, boundVars>>

\* session_.reset(raw_session): a session left from a failed connect is freed.
ConnectSession(c) ==
    /\ pc[c] = "connect" /\ ~connected /\ opened < MaxConnects
    /\ opened' = opened + 1
    /\ session' = opened + 1
    /\ CloseLink
    /\ pc' = [pc EXCEPT ![c] = "open"]
    /\ UNCHANGED <<mutex, flagVars, channel, task, failedLate, calls>>

\* The name is resolved, the socket connects, the handshake and the password are
\* accepted, and channel_.reset(raw_channel) replaces what channel_ held.
ConnectChannel(c) ==
    /\ pc[c] = "open"
    /\ channel' = session
    /\ up' = TRUE /\ failedLate' = FALSE
    /\ pc' = [pc EXCEPT ![c] = "hello"]
    /\ UNCHANGED <<mutex, flagVars, session, task, hello, inbox, outbox, holds,
                   lock, sessionVars, boundVars>>

\* The subsystem starts and the hellos are exchanged; the flags come last.  Our
\* hello is written in a loop that has no deadline.
ConnectHello(c) ==
    /\ pc[c] = "hello" /\ up /\ ~holds
    /\ hello' = TRUE
    /\ connected' = TRUE /\ blocking' = (task[c].mode = "sync")
    /\ Return(c)
    /\ UNCHANGED <<objectVars, up, inbox, outbox, holds,
                   lock, sessionVars, failedLate, boundVars>>

\* Any stage fails or takes too long; the objects stay as they are, an open channel
\* among them.
ConnectFails(c) ==
    /\ pc[c] \in {"connect", "open", "hello"}
    /\ ~connected
    /\ failedLate' = (failedLate \/ pc[c] = "hello")
    /\ Return(c)
    /\ UNCHANGED <<flagVars, objectVars, linkVars,
                   lock, sessionVars, boundVars>>

-----------------------------------------------------------------------------
(***************************************************************************)
(* disconnect                                                              *)
(***************************************************************************)
\* A disconnect that leaves channel_ to the next connect.
DisconnectKeepsChannel(c) ==
    /\ pc[c] = "disconnect"
    /\ session' = 0 /\ failedLate' = FALSE
    /\ CloseLink
    /\ pc' = [pc EXCEPT ![c] = "flags"]
    /\ UNCHANGED <<mutex, flagVars, channel, task, boundVars>>

\* channel_, session_ and socket_ are reset, then the notification session,
Disconnect(c) ==
    /\ pc[c] = "disconnect"
    /\ session' = 0 /\ channel' = 0 /\ failedLate' = FALSE
    /\ CloseLink
    /\ pc' = [pc EXCEPT ![c] = "flags"]
    /\ UNCHANGED <<mutex, flagVars, task, boundVars>>

\* and the flags last: until here a call still passes its tests.
DisconnectFlags(c) ==
    /\ pc[c] = "flags"
    /\ connected' = FALSE /\ blocking' = FALSE
    /\ Return(c)
    /\ UNCHANGED <<objectVars, linkVars, lock, sessionVars,
                   failedLate, boundVars>>

-----------------------------------------------------------------------------
(***************************************************************************)
(* send_rpc_non_blocking_func and what calls it                            *)
(***************************************************************************)
\* A catch clause that unlocks after it has tried the rest.
ThrowsAndGoesOn(c) ==
    IF task[c].op \in LockedEdits /\ ~task[c].undo
      THEN /\ task' = [task EXCEPT ![c].undo = TRUE, ![c].todo = Append(@, "unlock")]
           /\ pc' = [pc EXCEPT ![c] = "send"]
           /\ UNCHANGED mutex
      ELSE Return(c)

\* A locked_edit_config without a catch clause.
ThrowsUncaught(c) == Return(c)

\* A request throws: locked_edit_config unlocks, once, and rethrows; any other
\* operation is over.
Throws(c) ==
    IF task[c].op \in LockedEdits /\ ~task[c].undo
      THEN /\ task' = [task EXCEPT ![c].undo = TRUE, ![c].todo = <<"unlock">>]
           /\ pc' = [pc EXCEPT ![c] = "send"]
           /\ UNCHANGED mutex
      ELSE Return(c)

\* There is no channel, or the write fails.
SendThrows(c) ==
    /\ pc[c] = "send"
    /\ channel = 0 \/ ~up
    /\ Throws(c)
    /\ UNCHANGED <<flagVars, objectVars, linkVars, lock, sessionVars,
                   failedLate, boundVars>>

\* What the device takes the request for: with a part before it, it is malformed.
Asked(c) == [id |-> sent + 1, edit |-> task[c].op \in LockedEdits,
             rpc |-> IF framing = "cut" THEN "other" ELSE Head(task[c].todo)]

\* The request is written, once the device has room for it; the loop over
\* LIBSSH2_ERROR_EAGAIN has no deadline.  A blocking write is not repeated when it
\* was short.  On a broken connection the request goes nowhere.
Send(c) ==
    /\ pc[c] = "send" /\ channel # 0 /\ ~holds
    /\ sent' = sent + 1
    /\ task' = [task EXCEPT ![c].asked = sent + 1]
    /\ \E whole \in IF task[c].mode = "sync" THEN BOOLEAN ELSE {TRUE} :
         /\ inbox' = IF up /\ whole THEN Append(inbox, Asked(c)) ELSE inbox
         /\ framing' = IF ~up THEN framing
                        ELSE IF ~whole THEN "cut"
                        ELSE IF framing = "cut" THEN "joined" ELSE framing
    /\ pc' = [pc EXCEPT ![c] = "read"]
    /\ UNCHANGED <<mutex, flagVars, objectVars, up, hello, outbox, holds, lock, gaveUp,
                   denied, unguarded, failedLate, boundVars>>

\* The next request, or the end of the operation.
Proceed(c) ==
    IF Len(task[c].todo) > 1
      THEN /\ task' = [task EXCEPT ![c].todo = Tail(@)]
           /\ pc' = [pc EXCEPT ![c] = "send"]
           /\ UNCHANGED mutex
      ELSE Return(c)

\* read_until_eom: up to an EOM, and whatever the last read brought with it (a
\* reply it brought in part counts with the part that has its EOM).  What follows
\* the reply's root element, the EOM itself, is a parse error to tinyxml2, which
\* check_for_rpc_error ignores: an <rpc-error> is never thrown.
ReadReply(c) ==
    /\ pc[c] = "read" /\ outbox # <<>>
    /\ \E n \in 1..Len(outbox) : outbox' = SubSeq(outbox, n + 1, Len(outbox))
    /\ Proceed(c)
    /\ UNCHANGED <<flagVars, objectVars, up, hello, inbox, holds, lock, sessionVars,
                   failedLate, boundVars>>


\* read_timeout passes since the last chunk, which a device that trickles does not
\* let happen, or the read fails: the request is given up, the session and its flags
\* stay.  A blocking read only fails: read_timeout is tested before it, and nothing
\* limits it.
ReadThrows(c) ==
    /\ pc[c] = "read" /\ outbox = <<>>
    /\ (task[c].mode = "async" /\ ~holds) \/ ~up
    /\ gaveUp' = TRUE
    /\ Throws(c)
    /\ UNCHANGED <<flagVars, objectVars, linkVars, lock, sent, framing, denied, unguarded,
                   failedLate, boundVars>>

-----------------------------------------------------------------------------
(***************************************************************************)
(* The device                                                              *)
(***************************************************************************)
\* It handles the requests of a session in order, and refuses a lock that is
\* taken, an unlock of what is not ours, and changes under a foreign lock.
DeviceHandles ==
    /\ up /\ hello /\ inbox # <<>> /\ ~holds
    /\ LET r == Head(inbox)
       IN  /\ outbox' = Append(outbox, r.id)
           /\ \/ r.rpc = "lock" /\ lock = "free" /\ lock' = (IF r.edit THEN "edit" ELSE "call")
              \/ r.rpc = "unlock" /\ lock \in Ours /\ lock' = "free"
              \/ /\ ~(r.rpc = "lock" /\ lock = "free") /\ ~(r.rpc = "unlock" /\ lock \in Ours)
                 /\ UNCHANGED lock
           /\ denied' = (denied \/ (r.rpc = "lock" /\ r.edit /\ lock # "free"))
           /\ unguarded' = (unguarded \/ (r.rpc \in {"edit", "commit"} /\ r.edit /\ lock = "free"))
    /\ inbox' = Tail(inbox)
    /\ UNCHANGED <<mutex, flagVars, objectVars, pc, task, up, hello, holds,
                   sent, gaveUp, framing, failedLate, boundVars>>

\* It stops reading, or begins to trickle, or no longer does.
DeviceTurns ==
    /\ up
    /\ holds' = ~holds
    /\ UNCHANGED <<mutex, flagVars, objectVars, pc, task, up, hello, inbox, outbox,
                   lock, sessionVars, failedLate, boundVars>>

\* The connection breaks; the device ends the session.
LinkDown ==
    /\ up
    /\ up' = FALSE /\ inbox' = <<>> /\ holds' = FALSE
    /\ lock' = IF lock \in Ours THEN "free" ELSE lock
    /\ UNCHANGED <<mutex, flagVars, objectVars, pc, task,
                   hello, outbox, sessionVars, failedLate, boundVars>>

\* Another client locks and unlocks the datastore.
OtherLocks ==
    /\ lock \in {"free", "other"}
    /\ lock' = IF lock = "free" THEN "other" ELSE "free"
    /\ UNCHANGED <<mutex, flagVars, objectVars, pc, task, linkVars,
                   sessionVars, failedLate, boundVars>>

-----------------------------------------------------------------------------
\* What a thread does once it has a call.
Running(c) ==
    \/ Test(c) \/ Acquire(c)
    \/ ConnectRefused(c) \/ ConnectSession(c) \/ ConnectChannel(c) \/ ConnectHello(c)
    \/ ConnectFails(c)
    \/ Disconnect(c) \/ DisconnectFlags(c)
    \/ SendThrows(c) \/ Send(c) \/ ReadReply(c) \/ ReadThrows(c)

Device == DeviceHandles \/ DeviceTurns \/ LinkDown \/ OtherLocks

Next == (\E c \in Callers : Call(c) \/ Running(c)) \/ Device

Spec == Init /\ [][Next]_vars

\* A blocking libssh2 call may wait for ever, or read the end of a channel again
\* and again; the exchange of the hellos waits for a device that does not read, or
\* whose hello trickles.
MayHang(c) ==
    \/ task[c].mode = "sync" /\ pc[c] \in {"connect", "open", "hello", "send", "read"}
    \/ pc[c] = "hello" /\ holds

\* Threads run, and the deadline of a non-blocking stage that has one comes.
\* Nothing makes a device answer, or read on.
FairSpec == Spec /\ \A c \in Callers : WF_vars(Running(c) /\ ~MayHang(c))

-----------------------------------------------------------------------------
(***************************************************************************)
(* Properties                                                              *)
(***************************************************************************)
Rpc == {"other", "lock", "unlock", "edit", "validate", "commit"}
Request == [id : Nat, rpc : Rpc, edit : BOOLEAN]
Task == [op : AllOps \cup {"none"}, mode : {"async", "sync"}, todo : Seq(Rpc),
         undo : BOOLEAN, asked : Nat]

\* Every variable stays in its type.
TypeOK ==
    /\ mutex \in Callers \cup {Nobody}
    /\ connected \in BOOLEAN /\ blocking \in BOOLEAN
    /\ session \in 0..MaxConnects /\ channel \in 0..MaxConnects
    /\ pc \in [Callers -> {"idle", "test", "mutex", "connect", "open", "hello",
                           "disconnect", "flags", "send", "read"}]
    /\ task \in [Callers -> Task] /\ \A c \in Callers : Len(task[c].todo) <= 5
    /\ up \in BOOLEAN /\ hello \in BOOLEAN
    /\ inbox \in Seq(Request) /\ outbox \in Seq(Nat)
    /\ holds \in BOOLEAN /\ framing \in {"whole", "cut", "joined"}
    /\ lock \in {"free", "call", "edit", "other"}
    /\ sent \in Nat
    /\ gaveUp \in BOOLEAN /\ denied \in BOOLEAN /\ unguarded \in BOOLEAN
    /\ failedLate \in BOOLEAN
    /\ calls \in 0..MaxCalls /\ opened \in 0..MaxConnects

\* On a session on which no request has been given up, all that a waiting call can
\* read is the reply to its own request, whoever else uses the client.  (After a
\* read timeout the late reply answers the next request.)
ReplyIsOwn ==
    ~gaveUp => \A c \in Callers :
        pc[c] = "read" /\ outbox # <<>> => outbox = <<task[c].asked>>

\* Whenever nobody holds session_mutex_, is_connected_ says that there is a
\* session with its own channel, on which the hellos were exchanged; and without it
\* there is no channel that a late call could use, unless the last connect that
\* opened one failed after it had.
ConnectedHasChannel ==
    mutex = Nobody =>
        /\ connected => session # 0 /\ channel = session /\ hello
        /\ ~connected => ~hello /\ (channel = 0 \/ failedLate)

\* channel_ never outlives the session it was opened on, which frees it.
ChannelOfLiveSession == channel # 0 => channel = session

\* The edit and the commit of a locked_edit_config are applied under its lock,
\* whatever times out and whichever reply is read for which: they are never applied
\* without one on a session that was not refused the lock, which is not thrown, and
\* whose requests were all written whole.
EditsUnderLock == unguarded => denied \/ framing # "whole"

\* A lock taken by locked_edit_config is released when it is over, on every path:
\* it is held only while the call runs or its unlock is still with the device.  (On
\* a session with a request that was cut short the unlock may not be understood.)
LockReleased ==
    lock = "edit" /\ framing = "whole" =>
        \/ \E c \in Callers : mutex = c /\ task[c].op \in LockedEdits
        \/ \E i \in DOMAIN inbox : inbox[i].rpc = "unlock"

\* The device, or a *_sync call that hangs, keeps session_mutex_ for a caller.
Obstructed == holds \/ \E c \in Callers : MayHang(c)

=============================================================================
