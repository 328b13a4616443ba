---------------------------- MODULE FutureBridge ----------------------------
(***************************************************************************)
(* How the result of a C++ std::future reaches the asyncio future that the *)
(* Python caller awaits (src/bindings.cpp): wrap_future() on the thread of *)
(* the event loop, the AsyncFutureDispatcher thread that polls, and the    *)
(* callback that the loop runs.                                            *)
(*                                                                         *)
(* Each section under mutex_ is one step, notify_one() comes after it.     *)
(* The GIL makes one access to a Python object atomic and no more: the     *)
(* interpreter may switch threads between any two, so the poller's look at *)
(* the asyncio future and its call_soon_threadsafe() are separate steps.   *)
(* The polls of one batch are in any order.                                *)
(*                                                                         *)
(* A std::string becomes a Python str only if it is UTF-8, which a device  *)
(* need not send (and a notification cut by the size guard may end within  *)
(* a character).  The conversion throws otherwise: of a value, in the      *)
(* callback; of an error's text, in the poller, whose catch clauses drop   *)
(* it.  Either leaves the asyncio future pending with nobody to answer it. *)
(***************************************************************************)
CONSTANTS
    Calls,        \* the *_async calls made
    NoCall,       \* no call
    MayGarble     \* the calls whose outcome may hold text that is not UTF-8

ASSUME BridgeAssumption == NoCall \notin Calls /\ MayGarble \subseteq Calls

VARIABLES
    future,     \* the std::future of each call
    garbled,    \* those whose outcome does hold such text
    pyFuture,   \* the asyncio future of each call
    loop,       \* whether the event loop is open
    caller,     \* the call wrap_future() is at, on the loop's thread
    lpc,        \* where it is
    callbacks,  \* calls whose callback the loop has yet to run
    pending,    \* pending_
    batch,      \* batch, less what has been polled
    still,      \* still_pending
    polled,     \* the call whose poller runs
    dpc         \* where the dispatcher is

loopVars == <<loop, caller, lpc>>
workVars == <<future, garbled>>
vars == <<workVars, pyFuture, loopVars, callbacks, pending, batch, still, polled, dpc>>

Init ==
    /\ future = [f \in Calls |-> "none"] /\ garbled = {}
    /\ pyFuture = [f \in Calls |-> "none"]
    /\ loop = "open" /\ caller = NoCall /\ lpc = "run"
    /\ callbacks = {} /\ pending = {} /\ batch = {} /\ still = {}
    /\ polled = NoCall /\ dpc = "lock"

Ended(f) == future[f] \in {"value", "error"}

-----------------------------------------------------------------------------
(***************************************************************************)
(* The thread of the event loop                                            *)
(***************************************************************************)
\* An *_async method: the task is in the pool before wrap_future() begins.
Call(f) ==
    /\ lpc = "run" /\ loop = "open" /\ future[f] = "none"
    /\ future' = [future EXCEPT ![f] = "running"]
    /\ caller' = f /\ lpc' = "wrap"
    /\ UNCHANGED <<garbled, pyFuture, loop, callbacks, pending, batch, still, polled, dpc>>

\* loop.create_future()
CreateFuture ==
    /\ lpc = "wrap"
    /\ pyFuture' = [pyFuture EXCEPT ![caller] = "pending"]
    /\ lpc' = "add"
    /\ UNCHANGED <<workVars, loop, caller, callbacks, pending, batch, still, polled, dpc>>

\* AsyncFutureDispatcher::add under mutex_,
Add ==
    /\ lpc = "add"
    /\ pending' = pending \cup {caller}
    /\ lpc' = "notify"
    /\ UNCHANGED <<workVars, pyFuture, loop, caller, callbacks, batch, still, polled, dpc>>

\* An add() that returns without notifying.
NotifyNever ==
    /\ lpc = "notify"
    /\ lpc' = "run" /\ caller' = NoCall
    /\ UNCHANGED <<workVars, pyFuture, loop, callbacks, pending, batch, still, polled, dpc>>

\* and its notify_one(); the asyncio future is returned.
Notify ==
    /\ lpc = "notify"
    /\ dpc' = IF dpc = "asleep" THEN "woken" ELSE dpc
    /\ lpc' = "run" /\ caller' = NoCall
    /\ UNCHANGED <<workVars, pyFuture, loop, callbacks, pending, batch, still, polled>>

\* A callback that does not look whether the future is still pending.
RunCallbackBlindly(f) ==
    /\ lpc = "run" /\ loop = "open" /\ f \in callbacks
    /\ callbacks' = callbacks \ {f}
    /\ pyFuture' = IF f \notin garbled
                     THEN [pyFuture EXCEPT ![f] = future[f]] ELSE pyFuture
    /\ UNCHANGED <<workVars, loopVars, pending, batch, still, polled, dpc>>

\* The loop runs a callback: set_result() or set_exception(), unless the future
\* is done by now.  When set_result() throws, the callback is spent all the same.
RunCallback(f) ==
    /\ lpc = "run" /\ loop = "open" /\ f \in callbacks
    /\ callbacks' = callbacks \ {f}
    /\ pyFuture' = IF pyFuture[f] = "pending" /\ f \notin garbled
                     THEN [pyFuture EXCEPT ![f] = future[f]] ELSE pyFuture
    /\ UNCHANGED <<workVars, loopVars, pending, batch, still, polled, dpc>>

\* The awaiting task is cancelled, or its wait_for() times out.
Cancel(f) ==
    /\ lpc = "run" /\ loop = "open" /\ pyFuture[f] = "pending"
    /\ pyFuture' = [pyFuture EXCEPT ![f] = "cancelled"]
    /\ UNCHANGED <<workVars, loopVars, callbacks, pending, batch, still, polled, dpc>>

\* The loop is closed, with whatever it had yet to run.
CloseLoop ==
    /\ lpc = "run" /\ loop = "open"
    /\ loop' = "closed"
    /\ callbacks' = {}
    /\ UNCHANGED <<workVars, pyFuture, caller, lpc, pending, batch, still, polled, dpc>>

\* A pool thread ends a task: its promise holds a value or an exception.
TaskEnds(f) ==
    /\ future[f] = "running"
    /\ \E o \in {"value", "error"} : future' = [future EXCEPT ![f] = o]
    /\ \E g \in SUBSET ({f} \cap MayGarble) : garbled' = garbled \cup g
    /\ UNCHANGED <<pyFuture, loopVars, callbacks, pending, batch, still, polled, dpc>>

-----------------------------------------------------------------------------
(***************************************************************************)
(* The dispatcher's thread: AsyncFutureDispatcher::run                     *)
(***************************************************************************)
\* mutex_ is taken: sleep until notified when there is nothing to poll, else for
\* the poll interval at most.
Wait ==
    /\ dpc = "lock"
    /\ dpc' = IF pending = {} THEN "asleep" ELSE "dozing"
    /\ UNCHANGED <<workVars, pyFuture, loopVars, callbacks, pending, batch, still, polled>>

\* cv_.wait() may wake for no reason, and sleeps again on an empty list.
Spurious ==
    /\ dpc = "asleep"
    /\ dpc' = "woken"
    /\ UNCHANGED <<workVars, pyFuture, loopVars, callbacks, pending, batch, still, polled>>

\* The wait ends (a doze at any time: notified, for no reason, or after the
\* interval) and the list becomes the batch.
Swap ==
    /\ dpc \in {"woken", "dozing"}
    /\ IF pending = {} THEN dpc' = "asleep" /\ UNCHANGED batch
                       ELSE dpc' = "poll" /\ batch' = pending
    /\ pending' = {}
    /\ UNCHANGED <<workVars, pyFuture, loopVars, callbacks, still, polled>>

\* A poller that waits for its std::future.
PollBlocks(f) ==
    /\ dpc = "poll" /\ f \in batch /\ Ended(f)
    /\ batch' = batch \ {f}
    /\ polled' = f /\ dpc' = "check"
    /\ UNCHANGED <<workVars, pyFuture, loopVars, callbacks, pending, still>>

\* A poller looks at its std::future; one that is not ready is kept.
Poll(f) ==
    /\ dpc = "poll" /\ f \in batch
    /\ batch' = batch \ {f}
    /\ IF Ended(f) THEN polled' = f /\ dpc' = "check" /\ UNCHANGED still
                   ELSE still' = still \cup {f} /\ UNCHANGED <<polled, dpc>>
    /\ UNCHANGED <<workVars, pyFuture, loopVars, callbacks, pending>>

\* With the GIL: an asyncio future that is done needs no answer.
Check ==
    /\ dpc = "check"
    /\ IF pyFuture[polled] = "pending"
         THEN dpc' = "schedule" /\ UNCHANGED polled
         ELSE dpc' = "poll" /\ polled' = NoCall
    /\ UNCHANGED <<workVars, pyFuture, loopVars, callbacks, pending, batch, still>>

\* The Python exception cannot be built from the error.
Untold(f) == future[f] = "error" /\ f \in garbled

\* A poller that resets its references before it uses them.
ScheduleReset ==
    /\ dpc = "schedule" /\ ~Untold(polled)
    /\ callbacks' = IF loop = "open" THEN callbacks \cup {NoCall} ELSE callbacks
    /\ dpc' = "poll" /\ polled' = NoCall
    /\ UNCHANGED <<workVars, pyFuture, loopVars, pending, batch, still>>

\* call_soon_threadsafe(): a closed loop refuses, and the answer is dropped.
Schedule ==
    /\ dpc = "schedule" /\ ~Untold(polled)
    /\ callbacks' = IF loop = "open" THEN callbacks \cup {polled} ELSE callbacks
    /\ dpc' = "poll" /\ polled' = NoCall
    /\ UNCHANGED <<workVars, pyFuture, loopVars, pending, batch, still>>

\* The catch clauses: the poller is done, and nobody has been told.
GiveUp ==
    /\ dpc = "schedule" /\ Untold(polled)
    /\ dpc' = "poll" /\ polled' = NoCall
    /\ UNCHANGED <<workVars, pyFuture, loopVars, callbacks, pending, batch, still>>

\* still_pending takes the place of what was added meanwhile.
MergeOverwrites ==
    /\ dpc = "poll" /\ batch = {}
    /\ pending' = IF still = {} THEN pending ELSE still
    /\ still' = {}
    /\ dpc' = "lock"
    /\ UNCHANGED <<workVars, pyFuture, loopVars, callbacks, batch, polled>>

\* The batch is through: what is not ready goes behind what was added meanwhile.
Merge ==
    /\ dpc = "poll" /\ batch = {}
    /\ pending' = pending \cup still
    /\ still' = {}
    /\ dpc' = "lock"
    /\ UNCHANGED <<workVars, pyFuture, loopVars, callbacks, batch, polled>>

-----------------------------------------------------------------------------
Wrapping == CreateFuture \/ Add \/ Notify

Loop == \/ \E f \in Calls : Call(f) \/ RunCallback(f) \/ Cancel(f)
        \/ Wrapping \/ CloseLoop

Dispatcher == \/ Wait \/ Swap \/ Check \/ Schedule \/ GiveUp \/ Merge
              \/ \E f \in Calls : Poll(f)

Next == Loop \/ Dispatcher \/ Spurious \/ \E f \in Calls : TaskEnds(f)

Spec == Init /\ [][Next]_vars

\* The dispatcher runs, wrap_future() goes on, and an open loop gets to each of
\* its callbacks.  Nothing makes a task end.
FairSpec ==
    /\ Spec
    /\ WF_vars(Dispatcher) /\ WF_vars(Wrapping)
    /\ \A f \in Calls : WF_vars(RunCallback(f))

-----------------------------------------------------------------------------
(***************************************************************************)
(* Properties                                                              *)
(***************************************************************************)
\* Every variable stays in its type.
TypeOK ==
    /\ future \in [Calls -> {"none", "running", "value", "error"}]
    /\ garbled \subseteq MayGarble
    /\ pyFuture \in [Calls -> {"none", "pending", "value", "error", "cancelled"}]
    /\ loop \in {"open", "closed"} /\ caller \in Calls \cup {NoCall}
    /\ lpc \in {"run", "wrap", "add", "notify"}
    /\ callbacks \subseteq Calls /\ pending \subseteq Calls
    /\ batch \subseteq Calls /\ still \subseteq Calls
    /\ polled \in Calls \cup {NoCall}
    /\ dpc \in {"lock", "asleep", "dozing", "woken", "poll", "check", "schedule"}

\* The places a poller can be.
Adding == IF lpc = "add" THEN {caller} ELSE {}
Polled == IF dpc \in {"check", "schedule"} THEN {polled} ELSE {}

Disjoint(S, T) == S \cap T = {}

\* A poller is in one place at a time: no call is polled or answered twice.
OnePlace ==
    /\ Disjoint(Adding, pending \cup batch \cup Polled \cup still \cup callbacks)
    /\ Disjoint(pending, batch \cup Polled \cup still \cup callbacks)
    /\ Disjoint(batch, Polled \cup still \cup callbacks)
    /\ Disjoint(Polled, still \cup callbacks)
    /\ Disjoint(still, callbacks)

\* While the loop is open an unanswered call is on its way: its poller is being
\* added, in the list, in the batch, running or kept for the next round, or its
\* callback is with the loop; and in only one of these places.  Given up are only
\* calls that have ended with text which is not UTF-8.
PollerInOnePlace ==
    /\ OnePlace
    /\ loop = "open" =>
         \A f \in Calls : pyFuture[f] = "pending" /\ ~(Ended(f) /\ f \in garbled) =>
             f \in Adding \cup pending \cup batch \cup Polled \cup still \cup callbacks

\* No lost wakeup: the dispatcher sleeps without a time limit over a poller only
\* while add() is on its way to notify_one().
NoStrandedPoller == dpc = "asleep" /\ pending # {} => lpc = "notify"

\* The bridge keeps the promise of an awaitable: a call is answered once, with its
\* own outcome, and never after it was cancelled.
Result == INSTANCE AsyncResult WITH work <- future, answer <- pyFuture
KeepsPromise == Result!Spec

\* A call whose task has ended is answered or cancelled, unless the loop is closed
\* first, however long other tasks take, and whichever of them is given up.  Those
\* whose outcome is not UTF-8 may stay pending for ever.
Answered ==
    \A f \in Calls : Ended(f) /\ f \notin garbled ~>
                      (pyFuture[f] \notin {"none", "pending"} \/ loop = "closed")
=============================================================================
