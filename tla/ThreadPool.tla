----------------------------- MODULE ThreadPool -----------------------------
(***************************************************************************)
(* The worker pool of include/thread_pool.hpp, at the granularity of its   *)
(* mutexes, condition variables and relaxed atomics.                       *)
(*                                                                         *)
(* A worker holds its own mutex in two situations only: while it tests the *)
(* wait predicate and pops (the atomic step Take), and from a failed test  *)
(* of the predicate until cv.wait() has put it to sleep (wpc "toBlock").   *)
(* The second window matters because stop_ is stored, and the condition    *)
(* variable notified, by a destructor that does not take the mutex.        *)
(*                                                                         *)
(* enqueue() and ~ThreadPool() have one caller: every binding that reaches *)
(* them runs with the Python GIL held, so they never overlap.  The scan    *)
(* for the least loaded worker is one step per relaxed load, so workers    *)
(* move between two loads.                                                 *)
(***************************************************************************)
EXTENDS Integers, Sequences, FiniteSets

CONSTANTS
    N,          \* number of worker threads
    MaxTasks,   \* bound: how many tasks the caller submits
    Forever     \* the tasks whose body never returns, e.g. next_event(-1)
                \* on a bus nobody emits to

ASSUME ConstantsAssumption ==
    /\ N \in Nat \ {0}
    /\ MaxTasks \in Nat
    /\ Forever \subseteq 1..MaxTasks

Workers == 1..N

VARIABLES
    tasks,      \* Worker::tasks, the queue of each worker
    inflight,   \* Worker::inflight
    wpc,        \* where each worker thread is
    cur,        \* the task each worker popped last
    stop,       \* stop_
    cpc,        \* where the caller is in enqueue() or ~ThreadPool()
    idx,        \* the caller's loop index
    best,       \* enqueue()'s best
    bestCount,  \* enqueue()'s bestCount, -1 standing for SIZE_MAX
    submitted,  \* number of tasks given to enqueue() so far
    finished    \* the tasks whose body returned or threw

vars == <<tasks, inflight, wpc, cur, stop, cpc, idx, best, bestCount,
          submitted, finished>>

callerVars == <<cpc, idx, best, bestCount, submitted>>
workerVars == <<wpc, cur, finished>>

WorkerPc == {"ready", "toBlock", "blocked", "popped", "running", "exited"}
CallerPc == {"idle", "scan", "push", "notify", "notifyAll", "join", "joined"}

-----------------------------------------------------------------------------
Init ==
    /\ tasks = [w \in Workers |-> <<>>]
    /\ inflight = [w \in Workers |-> 0]
    /\ wpc = [w \in Workers |-> "ready"]
    /\ cur = [w \in Workers |-> 0]
    /\ stop = FALSE
    /\ cpc = "idle"
    /\ idx = 1
    /\ best = 1
    /\ bestCount = -1
    /\ submitted = 0
    /\ finished = {}

-----------------------------------------------------------------------------
(***************************************************************************)
(* enqueue                                                                 *)
(***************************************************************************)

\* The caller enters enqueue() with a new task.
EnqueueStart ==
    /\ cpc = "idle"
    /\ submitted < MaxTasks
    /\ submitted' = submitted + 1
    /\ cpc' = "scan"
    /\ idx' = 1
    /\ best' = 1
    /\ bestCount' = -1
    /\ UNCHANGED <<tasks, inflight, stop, workerVars>>

\* One iteration of the scan: a relaxed load of one worker's inflight, the
\* first minimum wins.
EnqueueScan ==
    /\ cpc = "scan"
    /\ IF bestCount = -1 \/ inflight[idx] < bestCount
         THEN best' = idx /\ bestCount' = inflight[idx]
         ELSE UNCHANGED <<best, bestCount>>
    /\ IF idx = N
         THEN cpc' = "push" /\ UNCHANGED idx
         ELSE idx' = idx + 1 /\ UNCHANGED cpc
    /\ UNCHANGED <<tasks, inflight, stop, submitted, workerVars>>

\* A push to the wrong end of the queue.
EnqueuePushFront ==
    /\ cpc = "push"
    /\ wpc[best] # "toBlock"
    /\ tasks' = [tasks EXCEPT ![best] = <<submitted>> \o @]
    /\ inflight' = [inflight EXCEPT ![best] = @ + 1]
    /\ cpc' = "notify"
    /\ UNCHANGED <<stop, idx, best, bestCount, submitted, workerVars>>

\* The push without its mutex.
EnqueuePushUnlocked ==
    /\ cpc = "push"
    /\ tasks' = [tasks EXCEPT ![best] = Append(@, submitted)]
    /\ inflight' = [inflight EXCEPT ![best] = @ + 1]
    /\ cpc' = "notify"
    /\ UNCHANGED <<stop, idx, best, bestCount, submitted, workerVars>>

\* The section under worker.mtx: emplace the task, count it.
EnqueuePush ==
    /\ cpc = "push"
    /\ wpc[best] # "toBlock"
    /\ tasks' = [tasks EXCEPT ![best] = Append(@, submitted)]
    /\ inflight' = [inflight EXCEPT ![best] = @ + 1]
    /\ cpc' = "notify"
    /\ UNCHANGED <<stop, idx, best, bestCount, submitted, workerVars>>

Wake(W) == wpc' = [w \in Workers |->
                     IF w \in W /\ wpc[w] = "blocked" THEN "ready" ELSE wpc[w]]

\* An enqueue() that wakes nobody.
EnqueueNotifyNobody ==
    /\ cpc = "notify"
    /\ cpc' = "idle"
    /\ UNCHANGED <<tasks, inflight, wpc, cur, stop, idx, best, bestCount,
                   submitted, finished>>

\* notify_one(), after the mutex is released.
EnqueueNotify ==
    /\ cpc = "notify"
    /\ Wake({best})
    /\ cpc' = "idle"
    /\ UNCHANGED <<tasks, inflight, cur, stop, idx, best, bestCount, submitted,
                   finished>>

-----------------------------------------------------------------------------
(***************************************************************************)
(* ~ThreadPool, reached when init_global_pool() replaces the global pool   *)
(***************************************************************************)

\* stop_.store(true), with no worker's mutex held.
DestroyStop ==
    /\ cpc = "idle"
    /\ stop' = TRUE
    /\ cpc' = "notifyAll"
    /\ idx' = 1
    /\ UNCHANGED <<tasks, inflight, best, bestCount, submitted, workerVars>>

\* One notify_all() per worker.
DestroyNotify ==
    /\ cpc = "notifyAll"
    /\ Wake({idx})
    /\ IF idx = N
         THEN cpc' = "join" /\ idx' = 1
         ELSE idx' = idx + 1 /\ UNCHANGED cpc
    /\ UNCHANGED <<tasks, inflight, cur, stop, best, bestCount, submitted,
                   finished>>

\* join() of one thread returns once that worker has returned.
DestroyJoin ==
    /\ cpc = "join"
    /\ wpc[idx] = "exited"
    /\ IF idx = N
         THEN cpc' = "joined" /\ UNCHANGED idx
         ELSE idx' = idx + 1 /\ UNCHANGED cpc
    /\ UNCHANGED <<tasks, inflight, stop, best, bestCount, submitted, workerVars>>

-----------------------------------------------------------------------------
(***************************************************************************)
(* The worker thread                                                       *)
(***************************************************************************)

\* A worker that exits as soon as the pool is stopping, tasks or not.
TakeStopFirst(w) ==
    /\ wpc[w] = "ready"
    /\ IF stop
         THEN wpc' = [wpc EXCEPT ![w] = "exited"] /\ UNCHANGED <<tasks, cur>>
         ELSE IF tasks[w] # <<>>
           THEN /\ cur' = [cur EXCEPT ![w] = Head(tasks[w])]
                /\ tasks' = [tasks EXCEPT ![w] = Tail(@)]
                /\ wpc' = [wpc EXCEPT ![w] = "popped"]
           ELSE wpc' = [wpc EXCEPT ![w] = "toBlock"] /\ UNCHANGED <<tasks, cur>>
    /\ UNCHANGED <<inflight, stop, finished, callerVars>>

\* A worker that copies the front task and forgets to pop it.
TakeNoPop(w) ==
    /\ wpc[w] = "ready"
    /\ IF tasks[w] # <<>>
         THEN /\ cur' = [cur EXCEPT ![w] = Head(tasks[w])]
              /\ wpc' = [wpc EXCEPT ![w] = "popped"]
         ELSE /\ wpc' = [wpc EXCEPT ![w] = IF stop THEN "exited" ELSE "toBlock"]
              /\ UNCHANGED cur
    /\ UNCHANGED <<tasks, inflight, stop, finished, callerVars>>

\* Lock the mutex and test the predicate: pop a task, return, or go to sleep.
Take(w) ==
    /\ wpc[w] = "ready"
    /\ IF tasks[w] # <<>>
         THEN /\ cur' = [cur EXCEPT ![w] = Head(tasks[w])]
              /\ tasks' = [tasks EXCEPT ![w] = Tail(@)]
              /\ wpc' = [wpc EXCEPT ![w] = "popped"]
         ELSE /\ wpc' = [wpc EXCEPT ![w] = IF stop THEN "exited" ELSE "toBlock"]
              /\ UNCHANGED <<tasks, cur>>
    /\ UNCHANGED <<inflight, stop, finished, callerVars>>

\* cv.wait() releases the mutex and sleeps.
Block(w) ==
    /\ wpc[w] = "toBlock"
    /\ wpc' = [wpc EXCEPT ![w] = "blocked"]
    /\ UNCHANGED <<tasks, inflight, cur, stop, finished, callerVars>>

\* A condition variable may wake a sleeper for no reason.
SpuriousWake(w) ==
    /\ wpc[w] = "blocked"
    /\ Wake({w})
    /\ UNCHANGED <<tasks, inflight, cur, stop, finished, callerVars>>

\* inflight.fetch_sub(1), with the mutex released and before the task runs.
Uncount(w) ==
    /\ wpc[w] = "popped"
    /\ inflight' = [inflight EXCEPT ![w] = @ - 1]
    /\ wpc' = [wpc EXCEPT ![w] = "running"]
    /\ UNCHANGED <<tasks, cur, stop, finished, callerVars>>

\* A worker that uncounts its task once more when the task has ended.
FinishUncounting(w) ==
    /\ wpc[w] = "running"
    /\ cur[w] \notin Forever
    /\ finished' = finished \cup {cur[w]}
    /\ inflight' = [inflight EXCEPT ![w] = @ - 1]
    /\ wpc' = [wpc EXCEPT ![w] = "ready"]
    /\ UNCHANGED <<tasks, cur, stop, callerVars>>

\* task() returns, or throws and the worker swallows the exception.
Finish(w) ==
    /\ wpc[w] = "running"
    /\ cur[w] \notin Forever
    /\ finished' = finished \cup {cur[w]}
    /\ wpc' = [wpc EXCEPT ![w] = "ready"]
    /\ UNCHANGED <<tasks, inflight, cur, stop, callerVars>>

-----------------------------------------------------------------------------
Caller == \/ EnqueueStart \/ EnqueueScan \/ EnqueuePush \/ EnqueueNotify
          \/ DestroyStop \/ DestroyNotify \/ DestroyJoin

Worker(w) == Take(w) \/ Block(w) \/ Uncount(w) \/ Finish(w)

\* The pool is gone: nothing is left to do.
Gone == cpc = "joined" /\ UNCHANGED vars

Next == Caller \/ (\E w \in Workers : Worker(w) \/ SpuriousWake(w)) \/ Gone

Spec == Init /\ [][Next]_vars

\* A caller inside enqueue() or ~ThreadPool() goes on, and the operating system
\* schedules every worker that is not asleep.  The push needs strong fairness:
\* spurious wakeups make the mutex unavailable again and again, and a mutex that
\* is free again and again is acquired in the end.  Nobody is obliged to submit
\* a task, to destroy the pool or to wake a sleeper spuriously.
Fairness ==
    /\ SF_vars(EnqueuePush)
    /\ WF_vars(EnqueueScan \/ EnqueueNotify \/ DestroyNotify \/ DestroyJoin)
    /\ \A w \in Workers : WF_vars(Worker(w))

FairSpec == Spec /\ Fairness

\* As FairSpec, where the caller does in the end replace the pool.
DestroyingSpec == FairSpec /\ WF_vars(DestroyStop)

-----------------------------------------------------------------------------
(***************************************************************************)
(* Properties                                                              *)
(***************************************************************************)

\* Every variable stays in its type; in particular no worker's inflight counter
\* (a size_t) ever wraps below zero.
TypeOK ==
    /\ tasks \in [Workers -> Seq(1..MaxTasks)]
    /\ inflight \in [Workers -> Nat]
    /\ wpc \in [Workers -> WorkerPc]
    /\ cur \in [Workers -> 0..MaxTasks]
    /\ stop \in BOOLEAN
    /\ cpc \in CallerPc
    /\ idx \in Workers
    /\ best \in Workers
    /\ bestCount \in Nat \cup {-1}
    /\ submitted \in 0..MaxTasks
    /\ finished \subseteq 1..MaxTasks

Held(w) == IF wpc[w] = "popped" THEN 1 ELSE 0

\* inflight counts the queued tasks plus the one popped but not yet uncounted,
\* although it is written outside the mutex with relaxed ordering: enqueue()'s
\* increment and the worker's decrement never lose one another.
InflightExact ==
    \A w \in Workers : inflight[w] = Len(tasks[w]) + Held(w)

\* No lost wakeup on the enqueue path: a worker asleep over a non-empty queue
\* is one that enqueue() has pushed to and is about to notify.
NoStrandedTask ==
    \A w \in Workers :
        wpc[w] = "blocked" /\ tasks[w] # <<>> => cpc = "notify" /\ best = w

\* Places where task t is: queue positions, workers holding it, the finished set.
QueuedAt(t) == {p \in Workers \X (1..MaxTasks) :
                  p[2] \in DOMAIN tasks[p[1]] /\ tasks[p[1]][p[2]] = t}
HeldBy(t) == {w \in Workers : wpc[w] \in {"popped", "running"} /\ cur[w] = t}
Pushed == IF cpc \in {"scan", "push"} THEN 1..(submitted - 1) ELSE 1..submitted

\* A submitted task is never lost and never runs twice: it is in exactly one
\* queue, or in the hands of exactly one worker, or finished.
ExactlyOnePlace ==
    \A t \in Pushed :
        Cardinality(QueuedAt(t)) + Cardinality(HeldBy(t))
          + (IF t \in finished THEN 1 ELSE 0) = 1

\* Replacing the pool drops no work: when the destructor has joined every
\* worker, every task ever submitted has run.
DrainedWhenJoined == cpc = "joined" => finished = 1..submitted

\* A worker starts its tasks in the order they were submitted.
WorkerFifo ==
    \A w \in Workers :
        /\ \A i, j \in DOMAIN tasks[w] : i < j => tasks[w][i] < tasks[w][j]
        /\ tasks[w] # <<>> => cur[w] < Head(tasks[w])

StuckBehind(t) ==
    \E w \in Workers :
        wpc[w] = "running" /\ cur[w] \in Forever /\ t \in {tasks[w][i] : i \in DOMAIN tasks[w]}

\* Every task that can end does end, while the pool is used and while it is
\* destroyed, unless it was queued at the very worker that a task that never
\* ends occupies (which can be, since a running task is no longer counted in
\* inflight, though others are idle).
EveryTaskFinishes ==
    \A t \in 1..MaxTasks \ Forever : (submitted >= t) ~> (t \in finished \/ StuckBehind(t))

\* ~ThreadPool terminates once it has begun ("wake up all threads", then join).
ShutdownCompletes == stop ~> (cpc = "joined")

=============================================================================
