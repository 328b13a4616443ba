-------------------------- MODULE FutureBridgeProofs --------------------------
(***************************************************************************)
(* Proofs about FutureBridge for any set of calls: the types, the places   *)
(* of the pollers, the wakeups, and that the bridge implements AsyncResult.*)
(*                                                                         *)
(* That a poller is in one place is not inductive: it must also be known   *)
(* that a call that was not made, or whose wrap_future() is not through,   *)
(* has no poller yet, and that a batch exists only while the dispatcher    *)
(* polls.  That the answer is the call's own outcome rests on callbacks    *)
(* existing only for calls whose task has ended.                           *)
(***************************************************************************)
EXTENDS FutureBridge, TLAPS

\* Everywhere a poller or its callback can be, but for the add() under way.
Placed == pending \cup batch \cup Polled \cup still \cup callbacks

\* wrap_future() has a call, that has been made and has no poller.
CallerKnown ==
    /\ lpc # "run" => caller \in Calls /\ future[caller] # "none" /\ loop = "open"
    /\ lpc = "wrap" => pyFuture[caller] = "none" /\ caller \notin Placed
    /\ lpc = "add" => pyFuture[caller] # "none"

\* A call that was not made has no asyncio future, and one without an asyncio
\* future has no poller.
PlacedIsMade ==
    /\ \A f \in Calls : future[f] = "none" => pyFuture[f] = "none"
    /\ \A f \in Placed : pyFuture[f] # "none"

\* A batch is there while it is polled; what is being answered has ended.
BatchKnown ==
    /\ dpc \notin {"poll", "check", "schedule"} => batch = {} /\ still = {}
    /\ Polled \cup callbacks \subseteq Calls
    /\ \A f \in Polled \cup callbacks : Ended(f)

IInv ==
    /\ TypeOK
    /\ PollerInOnePlace
    /\ CallerKnown
    /\ PlacedIsMade
    /\ BatchKnown
    /\ NoStrandedPoller

-----------------------------------------------------------------------------
LEMMA InitInv == Init => IInv
    BY BridgeAssumption DEF Init, IInv, TypeOK, PollerInOnePlace, OnePlace, Disjoint, Adding,
       Polled, Placed, CallerKnown, PlacedIsMade, BatchKnown, Ended, NoStrandedPoller

\* The steps of the event loop's thread.
LEMMA LoopStep == IInv /\ Loop => IInv'
<1> SUFFICES ASSUME IInv, Loop PROVE IInv'
    OBVIOUS
<1> USE BridgeAssumption DEF IInv, TypeOK, PollerInOnePlace, OnePlace, Disjoint, Adding,
        Polled, Placed, CallerKnown, PlacedIsMade, BatchKnown, Ended, NoStrandedPoller
<1>1. ASSUME NEW f \in Calls, Call(f) PROVE IInv'
    BY <1>1 DEF Call
<1>2. CASE CreateFuture
    BY <1>2 DEF CreateFuture, workVars
<1>3. CASE Add
    BY <1>3 DEF Add, workVars
<1>4. CASE Notify
    BY <1>4 DEF Notify, workVars
<1>5. ASSUME NEW f \in Calls, RunCallback(f) PROVE IInv'
    BY <1>5 DEF RunCallback, loopVars, workVars
<1>6. ASSUME NEW f \in Calls, Cancel(f) PROVE IInv'
    BY <1>6 DEF Cancel, loopVars, workVars
<1>7. CASE CloseLoop
    BY <1>7 DEF CloseLoop, workVars
<1>8. QED
    BY <1>1, <1>2, <1>3, <1>4, <1>5, <1>6, <1>7 DEF Loop, Wrapping

\* The steps of the dispatcher, a spurious wakeup among them.
LEMMA DispatcherStep == IInv /\ (Dispatcher \/ Spurious) => IInv'
<1> SUFFICES ASSUME IInv, Dispatcher \/ Spurious PROVE IInv'
    OBVIOUS
<1> USE BridgeAssumption DEF IInv, TypeOK, PollerInOnePlace, OnePlace, Disjoint, Adding,
        Polled, Placed, CallerKnown, PlacedIsMade, BatchKnown, Ended, NoStrandedPoller, loopVars,
        workVars
<1>1. CASE Wait
    BY <1>1 DEF Wait
<1>2. CASE Swap
    BY <1>2 DEF Swap
<1>3. ASSUME NEW f \in Calls, Poll(f) PROVE IInv'
    BY <1>3 DEF Poll
<1>4. CASE Check
    BY <1>4 DEF Check
<1>5. CASE Schedule
    BY <1>5 DEF Schedule
<1>6. CASE Merge
    BY <1>6 DEF Merge
<1>7. CASE Spurious
    BY <1>7 DEF Spurious
<1>8. CASE GiveUp
    BY <1>8 DEF GiveUp, Untold
<1>9. QED
    BY <1>1, <1>2, <1>3, <1>4, <1>5, <1>6, <1>7, <1>8 DEF Dispatcher

\* A task that ends, and a stutter.
LEMMA OtherStep == IInv /\ ((\E f \in Calls : TaskEnds(f)) \/ UNCHANGED vars) => IInv'
<1> USE DEF IInv, TypeOK, PollerInOnePlace, OnePlace, Disjoint, Adding,
        Polled, Placed, CallerKnown, PlacedIsMade, BatchKnown, Ended, NoStrandedPoller, loopVars
<1>1. ASSUME IInv, NEW f \in Calls, TaskEnds(f) PROVE IInv'
    BY <1>1 DEF TaskEnds
<1>2. ASSUME IInv, UNCHANGED vars PROVE IInv'
    BY <1>2 DEF vars, workVars
<1>3. QED
    BY <1>1, <1>2

LEMMA InvStep == IInv /\ [Next]_vars => IInv'
    BY LoopStep, DispatcherStep, OtherStep DEF Next

THEOREM SpecInv == Spec => []IInv
<1>1. QED
    BY InitInv, InvStep, PTL DEF Spec

\* The types hold: no poller's references are used after they were reset, nothing
\* but calls is in the lists.
THEOREM TypesHold == Spec => []TypeOK
<1>1. IInv => TypeOK
    BY DEF IInv
<1>2. QED
    BY <1>1, SpecInv, PTL

\* The poller of an unanswered call is in exactly one place while the loop is open,
\* unless the call's outcome is not UTF-8 and was given up: nothing is lost between
\* add(), the batch, still_pending and the callbacks, and no call is answered twice.
THEOREM PollersHold == Spec => []PollerInOnePlace
<1>1. IInv => PollerInOnePlace
    BY DEF IInv
<1>2. QED
    BY <1>1, SpecInv, PTL

\* No wakeup of the dispatcher is lost, although add() notifies after it has
\* released mutex_.
THEOREM WakeupsHold == Spec => []NoStrandedPoller
<1>1. IInv => NoStrandedPoller
    BY DEF IInv
<1>2. QED
    BY <1>1, SpecInv, PTL

-----------------------------------------------------------------------------
\* The initial states are those of AsyncResult.
LEMMA InitImplements == Init => Result!Init
    BY DEF Init, Result!Init

\* Every step is a step of AsyncResult, or none.
LEMMA StepImplements == IInv /\ [Next]_vars => [Result!Next]_<<future, pyFuture>>
<1> SUFFICES ASSUME IInv, [Next]_vars PROVE [Result!Next]_<<future, pyFuture>>
    OBVIOUS
<1> USE DEF IInv
<1>1. ASSUME NEW f \in Calls, Call(f) PROVE Result!Start(f)
    BY <1>1 DEF Call, Result!Start
<1>2. ASSUME CreateFuture PROVE caller \in Calls /\ Result!Await(caller)
    BY <1>2 DEF CreateFuture, workVars, CallerKnown, Result!Await
<1>3. ASSUME NEW f \in Calls, RunCallback(f) PROVE Result!Settle(f) \/ UNCHANGED <<future, pyFuture>>
    BY <1>3 DEF RunCallback, workVars, BatchKnown, Ended, Result!Settle
<1>4. ASSUME NEW f \in Calls, Cancel(f) PROVE Result!Cancel(f)
    BY <1>4 DEF Cancel, workVars, Result!Cancel
<1>5. ASSUME NEW f \in Calls, TaskEnds(f) PROVE Result!Finish(f)
    BY <1>5 DEF TaskEnds, Result!Finish
<1>6. ASSUME Add \/ Notify \/ CloseLoop \/ Dispatcher \/ Spurious \/ UNCHANGED vars
      PROVE  UNCHANGED <<future, pyFuture>>
    BY <1>6 DEF Add, Notify, CloseLoop, Dispatcher, Wait, Swap, Poll, Check, Schedule,
                GiveUp, Merge, Spurious, vars, workVars
<1>7. QED
    BY <1>1, <1>2, <1>3, <1>4, <1>5, <1>6 DEF Next, Loop, Wrapping, Result!Next

\* The bridge implements AsyncResult: an awaitable is answered once, with the
\* outcome of its own call, and never after it was cancelled.
THEOREM BridgeImplements == Spec => KeepsPromise
<1>1. QED
    BY InitImplements, StepImplements, SpecInv, PTL DEF Spec, KeepsPromise, Result!Spec
=============================================================================
