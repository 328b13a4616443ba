-------------------------- MODULE ThreadPoolProofs --------------------------
(***************************************************************************)
(* Proofs about ThreadPool for any number of workers and tasks.            *)
(*                                                                         *)
(* The inductive invariant IInv adds to the properties what their proof    *)
(* needs: the worker that is going to sleep has seen its queue empty while *)
(* it holds the mutex (Sleepers); a queued task has a number that was      *)
(* pushed (QueueNumbers); no pushed task is out of sight (Covered); a      *)
(* worker that has returned left an empty queue behind, and the destructor *)
(* has passed only over returned workers (Stopping).                       *)
(***************************************************************************)
EXTENDS ThreadPool, TLAPS, SequenceTheorems, FiniteSetTheorems

Destroying == {"notifyAll", "join", "joined"}

Sleepers ==
    \A w \in Workers :
        wpc[w] \in {"toBlock", "blocked"} /\ tasks[w] # <<>>
            => wpc[w] = "blocked" /\ cpc = "notify" /\ best = w

QueueNumbers ==
    /\ cpc \in {"scan", "push"} => submitted > 0
    /\ finished \subseteq Pushed
    /\ \A w \in Workers : \A i \in 1..Len(tasks[w]) : tasks[w][i] \in Pushed
    /\ \A w \in Workers : cur[w] \in Pushed \cup {0}
    /\ \A w \in Workers : wpc[w] \in {"popped", "running"} => cur[w] # 0

Ascending ==
    \A w \in Workers :
        /\ \A i, j \in 1..Len(tasks[w]) : i < j => tasks[w][i] < tasks[w][j]
        /\ \A i \in 1..Len(tasks[w]) : cur[w] < tasks[w][i]

\* Task t is finished, in a worker's hands, or queued.
Seen(t) ==
    \/ t \in finished
    \/ \E w \in Workers : wpc[w] \in {"popped", "running"} /\ cur[w] = t
    \/ \E w \in Workers : \E i \in 1..Len(tasks[w]) : tasks[w][i] = t

Covered == \A t \in Pushed : Seen(t)

Stopping ==
    /\ stop <=> cpc \in Destroying
    /\ \A w \in Workers : wpc[w] = "exited" => stop /\ tasks[w] = <<>>
    /\ cpc = "join" => \A w \in Workers : w < idx => wpc[w] = "exited"
    /\ cpc = "joined" => \A w \in Workers : wpc[w] = "exited"

IInv ==
    /\ TypeOK
    /\ InflightExact
    /\ Sleepers
    /\ QueueNumbers
    /\ Ascending
    /\ Covered
    /\ Stopping

-----------------------------------------------------------------------------
\* Popping the front of a queue shifts the others by one.
LEMMA TailShifts ==
    ASSUME NEW S, NEW s \in Seq(S), s # <<>>
    PROVE  /\ Tail(s) \in Seq(S) /\ Len(s) \in Nat \ {0}
           /\ Len(Tail(s)) = Len(s) - 1 /\ Head(s) = s[1] /\ Head(s) \in S
           /\ \A i \in 1..Len(Tail(s)) : i + 1 \in 1..Len(s) /\ Tail(s)[i] = s[i + 1]
    OBVIOUS

\* Pushing at the back of a queue leaves the others where they are.
LEMMA AppendKeeps ==
    ASSUME NEW S, NEW s \in Seq(S), NEW e \in S
    PROVE  /\ Append(s, e) \in Seq(S) /\ Len(s) \in Nat
           /\ Len(Append(s, e)) = Len(s) + 1
           /\ \A i \in 1..Len(s) : i \in 1..(Len(s) + 1) /\ Append(s, e)[i] = s[i]
           /\ Append(s, e)[Len(s) + 1] = e
    OBVIOUS

\* The push makes the task in hand visible.
LEMMA PushShowsTask ==
    ASSUME TypeOK, QueueNumbers, EnqueuePush
    PROVE  submitted \in 1..MaxTasks /\ Pushed' = Pushed \cup {submitted}
<1>1. cpc = "push" /\ cpc' = "notify" /\ submitted' = submitted /\ submitted \in 1..MaxTasks
    BY ConstantsAssumption DEF EnqueuePush, QueueNumbers, TypeOK
<1>2. Pushed = 1..(submitted - 1) /\ Pushed' = 1..submitted
    BY <1>1 DEF Pushed
<1>3. 1..submitted = 1..(submitted - 1) \cup {submitted}
    BY <1>1, ConstantsAssumption
<1>4. QED
    BY <1>1, <1>2, <1>3

\* Nothing but the push makes a task visible.
LEMMA PushedGrows ==
    ASSUME TypeOK, QueueNumbers, Next
    PROVE  \/ Pushed' = Pushed
           \/ EnqueuePush /\ submitted \in 1..MaxTasks /\ Pushed' = Pushed \cup {submitted}
<1> USE ConstantsAssumption DEF TypeOK, CallerPc, Pushed, Workers
<1>1. CASE EnqueueStart
    BY <1>1 DEF EnqueueStart
<1>2. CASE EnqueuePush
    BY <1>2, PushShowsTask
<1>3. CASE EnqueueScan
    BY <1>3 DEF EnqueueScan
<1>4. CASE EnqueueNotify \/ DestroyStop \/ DestroyNotify \/ DestroyJoin
    BY <1>4 DEF EnqueueNotify, DestroyStop, DestroyNotify, DestroyJoin
<1>5. CASE Gone \/ \E w \in Workers : Worker(w) \/ SpuriousWake(w)
    BY <1>5 DEF Gone, vars, Worker, Take, Block, SpuriousWake, Uncount, Finish,
                callerVars
<1>6. QED
    BY <1>1, <1>2, <1>3, <1>4, <1>5 DEF Next, Caller

\* Every step keeps the types; that a decrement never takes inflight below zero
\* needs InflightExact.
LEMMA TypeStep == IInv /\ [Next]_vars => TypeOK'
<1> SUFFICES ASSUME IInv, [Next]_vars PROVE TypeOK'
    OBVIOUS
<1> USE ConstantsAssumption DEF IInv, Workers
<1>1. CASE EnqueueStart
    BY <1>1 DEF EnqueueStart, TypeOK, workerVars, WorkerPc, CallerPc
<1>2. CASE EnqueueScan
  <2>1. idx' \in Workers
    <3>1. idx \in 1..N /\ N \in Nat /\ 1 \in 1..N
        BY DEF TypeOK
    <3>2. idx' = idx \/ idx' = 1 \/ (idx # N /\ idx' = idx + 1)
        BY <1>2 DEF EnqueueScan
    <3>3. QED
        BY <3>1, <3>2
  <2>2. QED
        BY <1>2, <2>1 DEF EnqueueScan, TypeOK, workerVars, WorkerPc, CallerPc
<1>3. CASE EnqueuePush
  <2>1. submitted \in 1..MaxTasks /\ best \in Workers
        BY <1>3 DEF EnqueuePush, QueueNumbers, TypeOK
  <2>2. Append(tasks[best], submitted) \in Seq(1..MaxTasks) /\ inflight[best] + 1 \in Nat
        BY <2>1, AppendKeeps DEF TypeOK
  <2>3. QED
        BY <1>3, <2>1, <2>2 DEF EnqueuePush, TypeOK, workerVars, WorkerPc, CallerPc
<1>4. CASE EnqueueNotify
    BY <1>4 DEF EnqueueNotify, TypeOK, Wake, WorkerPc, CallerPc
<1>5. CASE DestroyStop
    BY <1>5 DEF DestroyStop, TypeOK, workerVars, WorkerPc, CallerPc
<1>6. CASE DestroyNotify
  <2>1. idx' \in Workers
    <3>1. idx \in 1..N /\ N \in Nat /\ 1 \in 1..N
        BY DEF TypeOK
    <3>2. idx' = idx \/ idx' = 1 \/ (idx # N /\ idx' = idx + 1)
        BY <1>6 DEF DestroyNotify
    <3>3. QED
        BY <3>1, <3>2
  <2>2. QED
        BY <1>6, <2>1 DEF DestroyNotify, TypeOK, Wake, WorkerPc, CallerPc
<1>7. CASE DestroyJoin
  <2>1. idx' \in Workers
    <3>1. idx \in 1..N /\ N \in Nat /\ 1 \in 1..N
        BY DEF TypeOK
    <3>2. idx' = idx \/ idx' = 1 \/ (idx # N /\ idx' = idx + 1)
        BY <1>7 DEF DestroyJoin
    <3>3. QED
        BY <3>1, <3>2
  <2>2. QED
        BY <1>7, <2>1 DEF DestroyJoin, TypeOK, workerVars, WorkerPc, CallerPc
<1>8. ASSUME NEW w \in Workers, Take(w) PROVE TypeOK'
  <2>1. tasks[w] # <<>> => Tail(tasks[w]) \in Seq(1..MaxTasks) /\ Head(tasks[w]) \in 1..MaxTasks
        BY TailShifts DEF TypeOK
  <2>2. tasks' \in [Workers -> Seq(1..MaxTasks)] /\ cur' \in [Workers -> 0..MaxTasks]
    <3>1. tasks \in [Workers -> Seq(1..MaxTasks)] /\ cur \in [Workers -> 0..MaxTasks]
        BY DEF TypeOK
    <3>2. CASE tasks[w] # <<>>
      <4>1. Head(tasks[w]) \in 0..MaxTasks /\ Tail(tasks[w]) \in Seq(1..MaxTasks)
          BY <2>1, <3>2
      <4>2. /\ tasks' = [tasks EXCEPT ![w] = Tail(tasks[w])]
            /\ cur' = [cur EXCEPT ![w] = Head(tasks[w])]
          BY <1>8, <3>2 DEF Take
      <4>3. QED
          BY <3>1, <4>1, <4>2
    <3>3. CASE tasks[w] = <<>>
        BY <1>8, <3>1, <3>3 DEF Take
    <3>4. QED
        BY <3>2, <3>3
  <2>3. QED
        BY <1>8, <2>2 DEF Take, TypeOK, callerVars, WorkerPc, CallerPc
<1>9. ASSUME NEW w \in Workers, Block(w) PROVE TypeOK'
    BY <1>9 DEF Block, TypeOK, callerVars, WorkerPc, CallerPc
<1>10. ASSUME NEW w \in Workers, SpuriousWake(w) PROVE TypeOK'
    BY <1>10 DEF SpuriousWake, TypeOK, Wake, callerVars, WorkerPc, CallerPc
<1>11. ASSUME NEW w \in Workers, Uncount(w) PROVE TypeOK'
  <2>1. inflight[w] = Len(tasks[w]) + 1 /\ Len(tasks[w]) \in Nat
        BY <1>11 DEF Uncount, InflightExact, Held, TypeOK
  <2>2. inflight' \in [Workers -> Nat]
        BY <1>11, <2>1 DEF Uncount, TypeOK
  <2>3. QED
        BY <1>11, <2>2 DEF Uncount, TypeOK, callerVars, WorkerPc, CallerPc
<1>12. ASSUME NEW w \in Workers, Finish(w) PROVE TypeOK'
  <2>1. cur[w] \in 1..MaxTasks
        BY <1>12 DEF Finish, QueueNumbers, TypeOK
  <2>2. QED
        BY <1>12, <2>1 DEF Finish, TypeOK, callerVars, WorkerPc, CallerPc
<1>13. CASE UNCHANGED vars
    BY <1>13 DEF vars, TypeOK, WorkerPc, CallerPc
<1>14. QED
    BY <1>1, <1>2, <1>3, <1>4, <1>5, <1>6, <1>7, <1>8, <1>9, <1>10, <1>11, <1>12, <1>13 DEF Next, Caller, Worker, Gone

\* Every step keeps inflight equal to queued plus popped.
LEMMA InflightStep == IInv /\ [Next]_vars => InflightExact'
<1> SUFFICES ASSUME IInv, [Next]_vars PROVE InflightExact'
    OBVIOUS
<1> USE ConstantsAssumption DEF IInv, Workers
<1>1. CASE EnqueueStart
    BY <1>1 DEF EnqueueStart, InflightExact, Held, TypeOK, workerVars
<1>2. CASE EnqueueScan
    BY <1>2 DEF EnqueueScan, InflightExact, Held, TypeOK, workerVars
<1>3. CASE EnqueuePush
  <2>1. /\ \A w \in Workers : w # best => tasks'[w] = tasks[w] /\ inflight'[w] = inflight[w]
        /\ wpc' = wpc /\ inflight'[best] = inflight[best] + 1 /\ best \in Workers
        /\ tasks'[best] = Append(tasks[best], submitted)
        BY <1>3 DEF EnqueuePush, TypeOK, workerVars
  <2>2. submitted \in 1..MaxTasks
        BY <1>3 DEF EnqueuePush, QueueNumbers, TypeOK
  <2>3. Len(tasks'[best]) = Len(tasks[best]) + 1 /\ Len(tasks[best]) \in Nat
        BY <2>1, <2>2, AppendKeeps DEF TypeOK
  <2>4. inflight[best] \in Nat
        BY <2>1 DEF TypeOK
  <2>5. \A w \in Workers : Held(w)' = Held(w) /\ Held(w) \in Nat
        BY <2>1 DEF Held
  <2>6. inflight'[best] = Len(tasks'[best]) + Held(best)
        BY <2>1, <2>3, <2>4, <2>5 DEF InflightExact
  <2>7. QED
        BY <2>1, <2>5, <2>6 DEF InflightExact
<1>4. CASE EnqueueNotify
    BY <1>4 DEF EnqueueNotify, InflightExact, Held, TypeOK, Wake
<1>5. CASE DestroyStop
    BY <1>5 DEF DestroyStop, InflightExact, Held, TypeOK, workerVars
<1>6. CASE DestroyNotify
    BY <1>6 DEF DestroyNotify, InflightExact, Held, TypeOK, Wake
<1>7. CASE DestroyJoin
    BY <1>7 DEF DestroyJoin, InflightExact, Held, TypeOK, workerVars
<1>8. ASSUME NEW w \in Workers, Take(w) PROVE InflightExact'
  <2>1. /\ \A v \in Workers : v # w => tasks'[v] = tasks[v] /\ wpc'[v] = wpc[v]
        /\ inflight' = inflight /\ wpc[w] = "ready"
        BY <1>8 DEF Take, TypeOK
  <2>2. CASE tasks[w] # <<>>
    <3>1. tasks'[w] = Tail(tasks[w]) /\ wpc'[w] = "popped"
        BY <1>8, <2>2 DEF Take, TypeOK
    <3>2. Len(tasks'[w]) = Len(tasks[w]) - 1 /\ Len(tasks[w]) \in Nat \ {0}
        BY <2>2, <3>1, TailShifts DEF TypeOK
    <3>3. Held(w) = 0 /\ Held(w)' = 1
        BY <2>1, <3>1 DEF Held
    <3>4. inflight'[w] = Len(tasks'[w]) + Held(w)'
        BY <2>1, <3>2, <3>3 DEF InflightExact
    <3>5. \A v \in Workers : v # w => Held(v)' = Held(v)
        BY <2>1 DEF Held
    <3>6. QED
        BY <2>1, <3>4, <3>5 DEF InflightExact
  <2>3. CASE tasks[w] = <<>>
    <3>1. tasks'[w] = tasks[w] /\ wpc'[w] # "popped"
        BY <1>8, <2>3 DEF Take, TypeOK
    <3>2. QED
        BY <2>1, <3>1 DEF InflightExact, Held
  <2>4. QED
        BY <2>2, <2>3
<1>9. ASSUME NEW w \in Workers, Block(w) PROVE InflightExact'
    BY <1>9 DEF Block, InflightExact, Held, TypeOK, callerVars
<1>10. ASSUME NEW w \in Workers, SpuriousWake(w) PROVE InflightExact'
    BY <1>10 DEF SpuriousWake, InflightExact, Held, TypeOK, Wake, callerVars
<1>11. ASSUME NEW w \in Workers, Uncount(w) PROVE InflightExact'
  <2>1. /\ \A v \in Workers : v # w => inflight'[v] = inflight[v] /\ Held(v)' = Held(v)
        /\ tasks' = tasks /\ inflight'[w] = inflight[w] - 1 /\ Held(w) = 1 /\ Held(w)' = 0
        BY <1>11 DEF Uncount, Held, TypeOK
  <2>2. Len(tasks[w]) \in Nat
        BY DEF TypeOK
  <2>3. QED
        BY <2>1, <2>2 DEF InflightExact
<1>12. ASSUME NEW w \in Workers, Finish(w) PROVE InflightExact'
    BY <1>12 DEF Finish, InflightExact, Held, TypeOK, callerVars
<1>13. CASE UNCHANGED vars
    BY <1>13 DEF vars, InflightExact, Held, TypeOK
<1>14. QED
    BY <1>1, <1>2, <1>3, <1>4, <1>5, <1>6, <1>7, <1>8, <1>9, <1>10, <1>11, <1>12, <1>13 DEF Next, Caller, Worker, Gone

\* Every step keeps sleepers from being stranded over a task.
LEMMA SleepersStep == IInv /\ [Next]_vars => Sleepers'
<1> SUFFICES ASSUME IInv, [Next]_vars PROVE Sleepers'
    OBVIOUS
<1> USE ConstantsAssumption DEF IInv, Workers
<1>1. CASE EnqueueStart
    BY <1>1 DEF EnqueueStart, Sleepers, TypeOK, workerVars
<1>2. CASE EnqueueScan
    BY <1>2 DEF EnqueueScan, Sleepers, TypeOK, workerVars
<1>3. CASE EnqueuePush
    BY <1>3 DEF EnqueuePush, Sleepers, TypeOK, workerVars
<1>4. CASE EnqueueNotify
    BY <1>4 DEF EnqueueNotify, Sleepers, TypeOK, Wake
<1>5. CASE DestroyStop
    BY <1>5 DEF DestroyStop, Sleepers, TypeOK, workerVars
<1>6. CASE DestroyNotify
    BY <1>6 DEF DestroyNotify, Sleepers, TypeOK, Wake
<1>7. CASE DestroyJoin
    BY <1>7 DEF DestroyJoin, Sleepers, TypeOK, workerVars
<1>8. ASSUME NEW w \in Workers, Take(w) PROVE Sleepers'
    BY <1>8 DEF Take, Sleepers, TypeOK, callerVars
<1>9. ASSUME NEW w \in Workers, Block(w) PROVE Sleepers'
    BY <1>9 DEF Block, Sleepers, TypeOK, callerVars
<1>10. ASSUME NEW w \in Workers, SpuriousWake(w) PROVE Sleepers'
    BY <1>10 DEF SpuriousWake, Sleepers, TypeOK, Wake, callerVars
<1>11. ASSUME NEW w \in Workers, Uncount(w) PROVE Sleepers'
    BY <1>11 DEF Uncount, Sleepers, TypeOK, callerVars
<1>12. ASSUME NEW w \in Workers, Finish(w) PROVE Sleepers'
    BY <1>12 DEF Finish, Sleepers, TypeOK, callerVars
<1>13. CASE UNCHANGED vars
    BY <1>13 DEF vars, Sleepers, TypeOK
<1>14. QED
    BY <1>1, <1>2, <1>3, <1>4, <1>5, <1>6, <1>7, <1>8, <1>9, <1>10, <1>11, <1>12, <1>13 DEF Next, Caller, Worker, Gone

\* Every step keeps queued and held tasks among the pushed ones.
LEMMA NumbersStep == IInv /\ [Next]_vars => QueueNumbers'
<1> SUFFICES ASSUME IInv, [Next]_vars PROVE QueueNumbers'
    OBVIOUS
<1> USE ConstantsAssumption DEF IInv, Workers
<1>1. CASE EnqueueStart
    BY <1>1 DEF EnqueueStart, QueueNumbers, Pushed, TypeOK, workerVars
<1>2. CASE EnqueueScan
    BY <1>2 DEF EnqueueScan, QueueNumbers, Pushed, TypeOK, workerVars
<1>3. CASE EnqueuePush
  <2>1. submitted \in 1..MaxTasks /\ Pushed' = Pushed \cup {submitted}
        BY <1>3, PushShowsTask
  <2>2. /\ \A w \in Workers : w # best => tasks'[w] = tasks[w]
        /\ wpc' = wpc /\ cur' = cur /\ finished' = finished /\ cpc' = "notify"
        /\ tasks'[best] = Append(tasks[best], submitted)
        BY <1>3 DEF EnqueuePush, TypeOK, workerVars
  <2>3. /\ Len(tasks'[best]) = Len(tasks[best]) + 1 /\ Len(tasks[best]) \in Nat
        /\ \A i \in 1..Len(tasks[best]) : tasks'[best][i] = tasks[best][i]
        /\ tasks'[best][Len(tasks[best]) + 1] = submitted
        BY <2>1, <2>2, AppendKeeps DEF TypeOK
  <2>4. \A i \in 1..Len(tasks'[best]) : tasks'[best][i] \in Pushed'
    <3>1. \A i \in 1..Len(tasks'[best]) :
              i \in 1..Len(tasks[best]) \/ i = Len(tasks[best]) + 1
        BY <2>3
    <3>2. \A i \in 1..Len(tasks[best]) : tasks[best][i] \in Pushed
        BY DEF QueueNumbers, TypeOK
    <3>3. QED
        BY <2>1, <2>3, <3>1, <3>2
  <2>5. QED
        BY <2>1, <2>2, <2>4 DEF QueueNumbers
<1>4. CASE EnqueueNotify
    BY <1>4 DEF EnqueueNotify, QueueNumbers, Pushed, TypeOK, Wake
<1>5. CASE DestroyStop
    BY <1>5 DEF DestroyStop, QueueNumbers, Pushed, TypeOK, workerVars
<1>6. CASE DestroyNotify
    BY <1>6 DEF DestroyNotify, QueueNumbers, Pushed, TypeOK, Wake
<1>7. CASE DestroyJoin
    BY <1>7 DEF DestroyJoin, QueueNumbers, Pushed, TypeOK, workerVars
<1>8. ASSUME NEW w \in Workers, Take(w) PROVE QueueNumbers'
  <2>1. /\ Pushed' = Pushed /\ 0 \notin Pushed /\ finished' = finished /\ cpc' = cpc
        /\ submitted' = submitted
        /\ \A v \in Workers : v # w => /\ tasks'[v] = tasks[v]
                                       /\ cur'[v] = cur[v] /\ wpc'[v] = wpc[v]
    <3>1. Pushed' = Pushed /\ finished' = finished /\ cpc' = cpc /\ submitted' = submitted
        BY <1>8 DEF Take, callerVars, Pushed
    <3>2. 0 \notin Pushed
        BY DEF Pushed, TypeOK
    <3>3. \A v \in Workers : v # w => /\ tasks'[v] = tasks[v]
                                      /\ cur'[v] = cur[v] /\ wpc'[v] = wpc[v]
        BY <1>8 DEF Take, TypeOK
    <3>4. QED
        BY <3>1, <3>2, <3>3
  <2>2. CASE tasks[w] # <<>>
    <3>1. tasks'[w] = Tail(tasks[w]) /\ cur'[w] = Head(tasks[w])
        BY <1>8, <2>2 DEF Take, TypeOK
    <3>2. /\ \A i \in 1..Len(tasks'[w]) : i + 1 \in 1..Len(tasks[w])
                                           /\ tasks'[w][i] = tasks[w][i + 1]
          /\ cur'[w] = tasks[w][1] /\ 1 \in 1..Len(tasks[w])
        BY <2>2, <3>1, TailShifts DEF TypeOK
    <3>3. /\ \A i \in 1..Len(tasks'[w]) : tasks'[w][i] \in Pushed
          /\ cur'[w] \in Pushed
        BY <3>2 DEF QueueNumbers
    <3>4. QED
        BY <2>1, <3>3 DEF QueueNumbers
  <2>3. CASE tasks[w] = <<>>
    <3>1. tasks' = tasks /\ cur' = cur /\ wpc'[w] \notin {"popped", "running"}
        BY <1>8, <2>3 DEF Take, TypeOK
    <3>2. QED
        BY <2>1, <3>1 DEF QueueNumbers
  <2>4. QED
        BY <2>2, <2>3
<1>9. ASSUME NEW w \in Workers, Block(w) PROVE QueueNumbers'
    BY <1>9 DEF Block, QueueNumbers, Pushed, TypeOK, callerVars
<1>10. ASSUME NEW w \in Workers, SpuriousWake(w) PROVE QueueNumbers'
    BY <1>10 DEF SpuriousWake, QueueNumbers, Pushed, TypeOK, Wake, callerVars
<1>11. ASSUME NEW w \in Workers, Uncount(w) PROVE QueueNumbers'
    BY <1>11 DEF Uncount, QueueNumbers, Pushed, TypeOK, callerVars
<1>12. ASSUME NEW w \in Workers, Finish(w) PROVE QueueNumbers'
    BY <1>12 DEF Finish, QueueNumbers, Pushed, TypeOK, callerVars
<1>13. CASE UNCHANGED vars
    BY <1>13 DEF vars, QueueNumbers, Pushed, TypeOK
<1>14. QED
    BY <1>1, <1>2, <1>3, <1>4, <1>5, <1>6, <1>7, <1>8, <1>9, <1>10, <1>11, <1>12, <1>13 DEF Next, Caller, Worker, Gone

\* Every step keeps the queues ascending, ahead of what the worker took.
LEMMA AscendingStep == IInv /\ [Next]_vars => Ascending'
<1> SUFFICES ASSUME IInv, [Next]_vars PROVE Ascending'
    OBVIOUS
<1> USE ConstantsAssumption DEF IInv, Workers
<1>1. CASE EnqueueStart
    BY <1>1 DEF EnqueueStart, Ascending, QueueNumbers, Pushed, TypeOK, workerVars
<1>2. CASE EnqueueScan
    BY <1>2 DEF EnqueueScan, Ascending, QueueNumbers, Pushed, TypeOK, workerVars
<1>3. CASE EnqueuePush
  <2>1. /\ Len(tasks'[best]) = Len(tasks[best]) + 1 /\ Len(tasks[best]) \in Nat
        /\ \A i \in 1..Len(tasks[best]) : tasks'[best][i] = tasks[best][i]
        /\ tasks'[best][Len(tasks[best]) + 1] = submitted
        /\ tasks[best] \in Seq(1..MaxTasks)
    <3>1. submitted \in 1..MaxTasks
        BY <1>3 DEF EnqueuePush, TypeOK, QueueNumbers
    <3>2. QED
        BY <1>3, <3>1, AppendKeeps DEF EnqueuePush, TypeOK
  <2>2. \A t \in Pushed \cup {0} : t < submitted
        BY <1>3 DEF EnqueuePush, Pushed, QueueNumbers, TypeOK
  <2>3. \A w \in Workers : w # best => tasks'[w] = tasks[w]
        BY <1>3 DEF EnqueuePush, TypeOK
  <2>4. cur' = cur
        BY <1>3 DEF EnqueuePush, workerVars
  <2>5. \A i \in 1..Len(tasks[best]) : tasks[best][i] < submitted
        BY <2>2 DEF QueueNumbers, TypeOK
  <2>6. cur[best] < submitted
        BY <2>2 DEF QueueNumbers, TypeOK
  <2>7. \A i, j \in 1..Len(tasks'[best]) : i < j => tasks'[best][i] < tasks'[best][j]
    <3>1. SUFFICES ASSUME NEW i \in 1..Len(tasks'[best]), NEW j \in 1..Len(tasks'[best]), i < j
                   PROVE  tasks'[best][i] < tasks'[best][j]
        OBVIOUS
    <3>2. i \in 1..Len(tasks[best])
        BY <2>1, <3>1
    <3>3. CASE j = Len(tasks[best]) + 1
        BY <2>1, <2>5, <3>2, <3>3
    <3>4. CASE j \in 1..Len(tasks[best])
        BY <2>1, <3>1, <3>2, <3>4 DEF Ascending, TypeOK
    <3>5. QED
        BY <2>1, <3>3, <3>4
  <2>8. \A i \in 1..Len(tasks'[best]) : cur[best] < tasks'[best][i]
    <3>1. \A i \in 1..Len(tasks'[best]) :
              i \in 1..Len(tasks[best]) \/ i = Len(tasks[best]) + 1
        BY <2>1
    <3>2. \A i \in 1..Len(tasks[best]) : cur[best] < tasks[best][i]
        BY DEF Ascending, TypeOK
    <3>3. QED
        BY <2>1, <2>6, <3>1, <3>2
  <2>9. QED
        BY <2>3, <2>4, <2>7, <2>8 DEF Ascending
<1>4. CASE EnqueueNotify
    BY <1>4 DEF EnqueueNotify, Ascending, QueueNumbers, Pushed, TypeOK, Wake
<1>5. CASE DestroyStop
    BY <1>5 DEF DestroyStop, Ascending, QueueNumbers, Pushed, TypeOK, workerVars
<1>6. CASE DestroyNotify
    BY <1>6 DEF DestroyNotify, Ascending, QueueNumbers, Pushed, TypeOK, Wake
<1>7. CASE DestroyJoin
    BY <1>7 DEF DestroyJoin, Ascending, QueueNumbers, Pushed, TypeOK, workerVars
<1>8. ASSUME NEW w \in Workers, Take(w) PROVE Ascending'
  <2>1. CASE tasks[w] # <<>>
    <3>1. /\ tasks'[w] = Tail(tasks[w]) /\ cur'[w] = Head(tasks[w])
          /\ \A v \in Workers : v # w => tasks'[v] = tasks[v] /\ cur'[v] = cur[v]
        BY <1>8, <2>1 DEF Take, TypeOK
    <3>2. /\ Len(tasks[w]) \in Nat \ {0} /\ Len(tasks'[w]) = Len(tasks[w]) - 1
          /\ \A i \in 1..Len(tasks'[w]) : tasks'[w][i] = tasks[w][i + 1]
          /\ cur'[w] = tasks[w][1]
        BY <2>1, <3>1, TailShifts DEF TypeOK
    <3>3. \A i, j \in 1..Len(tasks[w]) : i < j => tasks[w][i] < tasks[w][j]
        BY DEF Ascending
    <3>4. \A i, j \in 1..Len(tasks'[w]) : i < j => tasks'[w][i] < tasks'[w][j]
      <4>1. SUFFICES ASSUME NEW i \in 1..Len(tasks'[w]), NEW j \in 1..Len(tasks'[w]), i < j
                     PROVE  tasks'[w][i] < tasks'[w][j]
          OBVIOUS
      <4>2. i + 1 \in 1..Len(tasks[w]) /\ j + 1 \in 1..Len(tasks[w]) /\ i + 1 < j + 1
          BY <3>2, <4>1
      <4>3. QED
          BY <3>2, <3>3, <4>2
    <3>5. \A i \in 1..Len(tasks'[w]) : cur'[w] < tasks'[w][i]
      <4>1. SUFFICES ASSUME NEW i \in 1..Len(tasks'[w]) PROVE tasks[w][1] < tasks[w][i + 1]
          BY <3>2
      <4>2. i + 1 \in 1..Len(tasks[w]) /\ 1 \in 1..Len(tasks[w]) /\ 1 < i + 1
          BY <3>2, <4>1
      <4>3. QED
          BY <3>3, <4>2
    <3>6. QED
        BY <3>1, <3>4, <3>5 DEF Ascending
  <2>2. CASE tasks[w] = <<>>
        BY <1>8, <2>2 DEF Take, Ascending, TypeOK
  <2>3. QED
        BY <2>1, <2>2
<1>9. ASSUME NEW w \in Workers, Block(w) PROVE Ascending'
    BY <1>9 DEF Block, Ascending, QueueNumbers, Pushed, TypeOK, callerVars
<1>10. ASSUME NEW w \in Workers, SpuriousWake(w) PROVE Ascending'
    BY <1>10 DEF SpuriousWake, Ascending, QueueNumbers, Pushed, TypeOK, Wake, callerVars
<1>11. ASSUME NEW w \in Workers, Uncount(w) PROVE Ascending'
    BY <1>11 DEF Uncount, Ascending, QueueNumbers, Pushed, TypeOK, callerVars
<1>12. ASSUME NEW w \in Workers, Finish(w) PROVE Ascending'
    BY <1>12 DEF Finish, Ascending, QueueNumbers, Pushed, TypeOK, callerVars
<1>13. CASE UNCHANGED vars
    BY <1>13 DEF vars, Ascending, QueueNumbers, Pushed, TypeOK
<1>14. QED
    BY <1>1, <1>2, <1>3, <1>4, <1>5, <1>6, <1>7, <1>8, <1>9, <1>10, <1>11, <1>12, <1>13 DEF Next, Caller, Worker, Gone

\* No step loses sight of a task.
LEMMA CoveredStep == IInv /\ [Next]_vars => Covered'
<1> SUFFICES ASSUME IInv, [Next]_vars PROVE Covered'
    OBVIOUS
<1> USE ConstantsAssumption DEF IInv
<1>1. CASE EnqueuePush
  <2>1. submitted \in 1..MaxTasks /\ Pushed' = Pushed \cup {submitted}
        BY <1>1, PushShowsTask
  <2>2. /\ best \in Workers /\ tasks \in [Workers -> Seq(1..MaxTasks)]
        /\ tasks' = [tasks EXCEPT ![best] = Append(tasks[best], submitted)]
        BY <1>1 DEF EnqueuePush, TypeOK
  <2>3. /\ tasks'[best] = Append(tasks[best], submitted)
        /\ \A w \in Workers : w # best => tasks'[w] = tasks[w]
        BY <2>2
  <2>4. /\ Len(tasks[best]) \in Nat /\ Len(tasks'[best]) = Len(tasks[best]) + 1
        /\ \A i \in 1..Len(tasks[best]) : i \in 1..Len(tasks'[best])
                                           /\ tasks'[best][i] = tasks[best][i]
        /\ tasks'[best][Len(tasks[best]) + 1] = submitted
        BY <2>1, <2>2, <2>3, AppendKeeps
  <2>5. wpc' = wpc /\ cur' = cur /\ finished' = finished
        BY <1>1 DEF EnqueuePush, workerVars
  <2>6. SUFFICES ASSUME NEW t \in Pushed'
                 PROVE  Seen(t)'
        BY DEF Covered
  <2>7. CASE t = submitted
    <3>1. Len(tasks[best]) + 1 \in 1..Len(tasks'[best])
        BY <2>4
    <3>2. QED
        BY <2>2, <2>4, <2>7, <3>1 DEF Seen
  <2>8. CASE t \in Pushed
    <3>1. Seen(t)
        BY <2>8 DEF Covered
    <3>2. ASSUME NEW w \in Workers, NEW i \in 1..Len(tasks[w]), tasks[w][i] = t
          PROVE  Seen(t)'
      <4>1. i \in 1..Len(tasks'[w]) /\ tasks'[w][i] = t
          BY <2>3, <2>4, <3>2
      <4>2. QED
          BY <4>1 DEF Seen
    <3>3. QED
        BY <2>5, <3>1, <3>2 DEF Seen
  <2>9. QED
        BY <2>1, <2>7, <2>8
<1>2. ASSUME NEW w \in Workers, Take(w) PROVE Covered'
  <2>1. Pushed' = Pushed /\ finished' = finished
        BY <1>2 DEF Take, callerVars, Pushed
  <2>2. CASE tasks[w] # <<>>
    <3>1. /\ tasks \in [Workers -> Seq(1..MaxTasks)] /\ cur \in [Workers -> 0..MaxTasks]
          /\ wpc \in [Workers -> WorkerPc] /\ wpc[w] = "ready"
          /\ tasks' = [tasks EXCEPT ![w] = Tail(tasks[w])]
          /\ cur' = [cur EXCEPT ![w] = Head(tasks[w])]
          /\ wpc' = [wpc EXCEPT ![w] = "popped"]
        BY <1>2, <2>2 DEF Take, TypeOK
    <3>2. /\ tasks'[w] = Tail(tasks[w]) /\ cur'[w] = Head(tasks[w]) /\ wpc'[w] = "popped"
          /\ \A v \in Workers : v # w => /\ tasks'[v] = tasks[v]
                                         /\ cur'[v] = cur[v]
                                         /\ wpc'[v] = wpc[v]
        BY <3>1
    <3>3. /\ Len(tasks[w]) \in Nat \ {0} /\ Len(tasks'[w]) = Len(tasks[w]) - 1
          /\ \A i \in 1..Len(tasks'[w]) : tasks'[w][i] = tasks[w][i + 1]
          /\ cur'[w] = tasks[w][1]
        BY <2>2, <3>1, <3>2, TailShifts
    <3>4. SUFFICES ASSUME NEW t \in Pushed PROVE Seen(t)'
        BY <2>1 DEF Covered
    <3>5. Seen(t)
        BY DEF Covered
    <3>6. CASE t \in finished
        BY <2>1, <3>6 DEF Seen
    <3>7. ASSUME NEW v \in Workers, wpc[v] \in {"popped", "running"}, cur[v] = t
          PROVE  Seen(t)'
      <4>1. v # w
          BY <3>1, <3>7
      <4>2. QED
          BY <3>2, <3>7, <4>1 DEF Seen
    <3>8. ASSUME NEW v \in Workers, NEW i \in 1..Len(tasks[v]), tasks[v][i] = t
          PROVE  Seen(t)'
      <4>1. CASE v # w
          BY <3>2, <3>8, <4>1 DEF Seen
      <4>2. CASE v = w /\ i = 1
          BY <3>2, <3>3, <3>8, <4>2 DEF Seen
      <4>3. CASE v = w /\ i > 1
        <5>1. i - 1 \in 1..Len(tasks'[w]) /\ tasks'[w][i - 1] = t
            BY <3>3, <3>8, <4>3
        <5>2. QED
            BY <5>1 DEF Seen
      <4>4. QED
          BY <3>3, <4>1, <4>2, <4>3
    <3>9. QED
        BY <3>5, <3>6, <3>7, <3>8 DEF Seen
  <2>3. CASE tasks[w] = <<>>
    <3>1. tasks' = tasks /\ cur' = cur /\ wpc[w] = "ready"
          /\ wpc' = [wpc EXCEPT ![w] = IF stop THEN "exited" ELSE "toBlock"]
        BY <1>2, <2>3 DEF Take
    <3>2. \A v \in Workers : wpc[v] \in {"popped", "running"} => wpc'[v] = wpc[v]
        BY <3>1 DEF TypeOK
    <3>3. QED
        BY <2>1, <3>1, <3>2 DEF Covered, Seen
  <2>4. QED
        BY <2>2, <2>3
<1>3. ASSUME NEW w \in Workers, Finish(w) PROVE Covered'
  <2>1. /\ Pushed' = Pushed /\ tasks' = tasks /\ cur' = cur
        /\ finished' = finished \cup {cur[w]}
        /\ \A v \in Workers : v # w => wpc'[v] = wpc[v]
        BY <1>3 DEF Finish, callerVars, Pushed, TypeOK
  <2>2. QED
        BY <2>1 DEF Covered, Seen
<1>4. ASSUME ~EnqueuePush, \A w \in Workers : ~Take(w) /\ ~Finish(w)
      PROVE  Covered'
  <2>1. Pushed' = Pushed
        BY <1>4, PushedGrows DEF vars, Pushed
  <2>2. tasks' = tasks /\ cur' = cur /\ finished' = finished
        BY <1>4 DEF Next, Caller, Worker, Gone, vars, EnqueueStart, EnqueueScan, EnqueueNotify,
                    DestroyStop, DestroyNotify, DestroyJoin, Block, SpuriousWake,
                    Uncount, workerVars
  <2>3. \A v \in Workers : wpc[v] \in {"popped", "running"}
                            => wpc'[v] \in {"popped", "running"}
        BY <1>4 DEF Next, Caller, Worker, Gone, vars, EnqueueStart, EnqueueScan, EnqueueNotify,
                    DestroyStop, DestroyNotify, DestroyJoin, Block, SpuriousWake,
                    Uncount, workerVars, Wake, TypeOK
  <2>4. QED
        BY <2>1, <2>2, <2>3 DEF Covered, Seen
<1>5. QED
    BY <1>1, <1>2, <1>3, <1>4

\* Every step keeps the destructor behind the workers that have returned.
LEMMA StoppingStep == IInv /\ [Next]_vars => Stopping'
<1> SUFFICES ASSUME IInv, [Next]_vars PROVE Stopping'
    OBVIOUS
<1> USE ConstantsAssumption DEF IInv, Workers
<1>1. CASE EnqueueStart
    BY <1>1 DEF EnqueueStart, Stopping, Destroying, TypeOK, workerVars
<1>2. CASE EnqueueScan
    BY <1>2 DEF EnqueueScan, Stopping, Destroying, TypeOK, workerVars
<1>3. CASE EnqueuePush
    BY <1>3 DEF EnqueuePush, Stopping, Destroying, TypeOK, workerVars
<1>4. CASE EnqueueNotify
    BY <1>4 DEF EnqueueNotify, Stopping, Destroying, TypeOK, Wake
<1>5. CASE DestroyStop
    BY <1>5 DEF DestroyStop, Stopping, Destroying, TypeOK, workerVars
<1>6. CASE DestroyNotify
    BY <1>6 DEF DestroyNotify, Stopping, Destroying, TypeOK, Wake
<1>7. CASE DestroyJoin
  <2>1. /\ wpc' = wpc /\ tasks' = tasks /\ stop' = stop /\ wpc[idx] = "exited" /\ cpc = "join"
        /\ idx \in 1..N /\ N \in Nat /\ idx' \in Int
        BY <1>7 DEF DestroyJoin, workerVars, TypeOK
  <2>2. \A w \in 1..N : w < idx => wpc[w] = "exited"
        BY <2>1 DEF Stopping
  <2>3. CASE idx = N
    <3>1. \A w \in 1..N : wpc[w] = "exited"
        BY <2>1, <2>2, <2>3
    <3>2. QED
        BY <1>7, <2>1, <2>3, <3>1 DEF DestroyJoin, Stopping, Destroying
  <2>4. CASE idx # N
    <3>1. idx' = idx + 1 /\ cpc' = "join"
        BY <1>7, <2>1, <2>4 DEF DestroyJoin
    <3>2. \A w \in 1..N : w < idx' => wpc[w] = "exited"
        BY <2>1, <2>2, <3>1
    <3>3. QED
        BY <2>1, <3>1, <3>2 DEF Stopping, Destroying
  <2>5. QED
        BY <2>3, <2>4
<1>8. ASSUME NEW w \in Workers, Take(w) PROVE Stopping'
    BY <1>8 DEF Take, Stopping, Destroying, TypeOK, callerVars
<1>9. ASSUME NEW w \in Workers, Block(w) PROVE Stopping'
    BY <1>9 DEF Block, Stopping, Destroying, TypeOK, callerVars
<1>10. ASSUME NEW w \in Workers, SpuriousWake(w) PROVE Stopping'
    BY <1>10 DEF SpuriousWake, Stopping, Destroying, TypeOK, Wake, callerVars
<1>11. ASSUME NEW w \in Workers, Uncount(w) PROVE Stopping'
    BY <1>11 DEF Uncount, Stopping, Destroying, TypeOK, callerVars
<1>12. ASSUME NEW w \in Workers, Finish(w) PROVE Stopping'
    BY <1>12 DEF Finish, Stopping, Destroying, TypeOK, callerVars
<1>13. CASE UNCHANGED vars
    BY <1>13 DEF vars, Stopping, Destroying, TypeOK
<1>14. QED
    BY <1>1, <1>2, <1>3, <1>4, <1>5, <1>6, <1>7, <1>8, <1>9, <1>10, <1>11, <1>12, <1>13 DEF Next, Caller, Worker, Gone

-----------------------------------------------------------------------------
\* The initial state satisfies the inductive invariant.
LEMMA InitIInv == Init => IInv
<1> USE ConstantsAssumption
<1>1. ASSUME Init PROVE TypeOK /\ InflightExact
  <2>1. 1 \in Workers /\ 0 \in 0..MaxTasks /\ 0 \in Nat /\ <<>> \in Seq(1..MaxTasks) /\ Len(<<>>) = 0
        BY DEF Workers
  <2>2. InflightExact
        BY <1>1, <2>1 DEF Init, InflightExact, Held
  <2>3. /\ tasks \in [Workers -> Seq(1..MaxTasks)] /\ inflight \in [Workers -> Nat]
        /\ cur \in [Workers -> 0..MaxTasks] /\ wpc \in [Workers -> WorkerPc]
        BY <1>1, <2>1 DEF Init, WorkerPc
  <2>4. QED
        BY <1>1, <2>1, <2>2, <2>3 DEF Init, TypeOK, CallerPc
<1>2. ASSUME Init PROVE Sleepers /\ QueueNumbers /\ Ascending /\ Covered /\ Stopping
    BY <1>2 DEF Init, Sleepers, QueueNumbers, Ascending, Covered, Seen, Stopping, Pushed,
                Destroying, Workers
<1>3. QED
    BY <1>1, <1>2 DEF IInv

\* IInv holds in every reachable state.
THEOREM Inductive == Spec => []IInv
<1>1. IInv /\ [Next]_vars => IInv'
    BY TypeStep, InflightStep, SleepersStep, NumbersStep, AscendingStep, CoveredStep,
       StoppingStep DEF IInv
<1>2. QED
    BY InitIInv, <1>1, PTL DEF Spec

\* For every number of workers and tasks, every variable keeps its type; a
\* worker's inflight counter never wraps below zero.
THEOREM TypeCorrect == Spec => []TypeOK
<1>1. IInv => TypeOK
    BY DEF IInv
<1>2. QED
    BY Inductive, <1>1, PTL

\* For every number of workers and tasks, inflight is exactly the number of
\* queued tasks plus the one popped and not yet uncounted.
THEOREM InflightIsExact == Spec => []InflightExact
<1>1. IInv => InflightExact
    BY DEF IInv
<1>2. QED
    BY Inductive, <1>1, PTL

\* For every number of workers and tasks, no worker sleeps over a queued task
\* unless enqueue() is about to notify it.
THEOREM NoTaskStranded == Spec => []NoStrandedTask
<1>1. IInv => NoStrandedTask
    BY DEF IInv, Sleepers, NoStrandedTask
<1>2. QED
    BY Inductive, <1>1, PTL

\* For every number of workers and tasks, each worker starts its tasks in the
\* order of their submission.
THEOREM WorkersAreFifo == Spec => []WorkerFifo
<1>1. IInv => WorkerFifo
  <2>1. SUFFICES ASSUME IInv, NEW w \in Workers
                 PROVE  /\ \A i, j \in DOMAIN tasks[w] : i < j => tasks[w][i] < tasks[w][j]
                        /\ tasks[w] # <<>> => cur[w] < Head(tasks[w])
        BY DEF WorkerFifo
  <2>2. tasks[w] \in Seq(1..MaxTasks) /\ DOMAIN tasks[w] = 1..Len(tasks[w])
        BY <2>1 DEF IInv, TypeOK
  <2>3. tasks[w] # <<>> => Head(tasks[w]) = tasks[w][1] /\ 1 \in 1..Len(tasks[w])
        BY <2>2, TailShifts
  <2>4. QED
        BY <2>1, <2>2, <2>3 DEF IInv, Ascending
<1>2. QED
    BY Inductive, <1>1, PTL

\* For every number of workers and tasks, a destructor that returns has let
\* every submitted task run: no queued work is dropped with the pool.
THEOREM JoinedIsDrained == Spec => []DrainedWhenJoined
<1>1. IInv => DrainedWhenJoined
  <2>1. SUFFICES ASSUME IInv, cpc = "joined" PROVE finished = 1..submitted
        BY DEF DrainedWhenJoined
  <2>2. Pushed = 1..submitted
        BY <2>1 DEF Pushed
  <2>3. \A w \in Workers : wpc[w] = "exited" /\ Len(tasks[w]) = 0
        BY <2>1 DEF IInv, Stopping
  <2>4. \A t \in Pushed : t \in finished
        BY <2>1, <2>3 DEF IInv, Covered, Seen
  <2>5. QED
        BY <2>1, <2>2, <2>4 DEF IInv, QueueNumbers
<1>2. QED
    BY Inductive, <1>1, PTL
-----------------------------------------------------------------------------
(***************************************************************************)
(* A task is in one place only                                             *)
(***************************************************************************)
\* Worker w is yet to end task t.
Has(w, t) ==
    \/ wpc[w] \in {"popped", "running"} /\ cur[w] = t
    \/ \E i \in 1..Len(tasks[w]) : tasks[w][i] = t

\* No two workers have the same task, and none has one that is finished; task
\* numbers grow at least as fast as positions, so that MaxTasks positions are
\* enough to look at.
Once ==
    /\ \A v, w \in Workers : \A t \in 1..MaxTasks : Has(v, t) /\ Has(w, t) => v = w
    /\ \A w \in Workers : \A t \in 1..MaxTasks : Has(w, t) => t \notin finished
    /\ \A w \in Workers : \A i \in 1..Len(tasks[w]) : i <= tasks[w][i]

\* A queue holds task numbers.
LEMMA QueueTypes ==
    ASSUME TypeOK, NEW w \in Workers
    PROVE  \A i \in 1..Len(tasks[w]) : tasks[w][i] \in 1..MaxTasks
<1>1. tasks[w] \in Seq(1..MaxTasks)
    BY DEF TypeOK
<1>2. QED
    BY <1>1, ElementOfSeq

\* A push adds the new task behind the others; nobody has it yet.
LEMMA PushIsNew ==
    ASSUME IInv, Once, EnqueuePush
    PROVE  /\ \A v \in Workers : \A t \in 1..MaxTasks :
                  Has(v, t)' => Has(v, t) \/ (v = best /\ t = submitted)
           /\ \A v \in Workers : ~Has(v, submitted)
           /\ submitted \in 1..MaxTasks /\ submitted \notin finished /\ finished' = finished
           /\ \A w \in Workers : \A i \in 1..Len(tasks'[w]) : i <= tasks'[w][i]
<1>1. submitted \in 1..MaxTasks /\ submitted \notin Pushed /\ 0 # submitted
    BY ConstantsAssumption DEF EnqueuePush, IInv, TypeOK, QueueNumbers, Pushed
<1>2. /\ tasks'[best] = Append(tasks[best], submitted)
      /\ \A w \in Workers : w # best => tasks'[w] = tasks[w]
      /\ best \in Workers /\ wpc' = wpc /\ cur' = cur /\ finished' = finished
    BY DEF EnqueuePush, IInv, TypeOK, workerVars
<1>3. /\ Len(tasks[best]) \in Nat /\ Len(tasks'[best]) = Len(tasks[best]) + 1
      /\ \A i \in 1..Len(tasks[best]) : tasks'[best][i] = tasks[best][i]
      /\ tasks'[best][Len(tasks[best]) + 1] = submitted
    BY <1>1, <1>2, AppendKeeps DEF IInv, TypeOK
<1>4. \A i \in 1..Len(tasks'[best]) : i \in 1..Len(tasks[best]) \/ i = Len(tasks[best]) + 1
    BY <1>3
<1>5. \A v \in Workers : ~Has(v, submitted)
    BY <1>1 DEF Has, IInv, QueueNumbers
<1>6. \A v \in Workers : \A t \in 1..MaxTasks :
          Has(v, t)' => Has(v, t) \/ (v = best /\ t = submitted)
  <2>1. SUFFICES ASSUME NEW v \in Workers, NEW t \in 1..MaxTasks, Has(v, t)'
                 PROVE  Has(v, t) \/ (v = best /\ t = submitted)
        OBVIOUS
  <2>2. CASE v # best
        BY <1>2, <2>1, <2>2 DEF Has
  <2>3. CASE v = best
        BY <1>2, <1>3, <1>4, <2>1, <2>3 DEF Has
  <2>4. QED
        BY <2>2, <2>3
<1>7. Len(tasks[best]) + 1 <= submitted
  <2>1. CASE Len(tasks[best]) = 0
        BY <1>1, <2>1, ConstantsAssumption
  <2>2. CASE Len(tasks[best]) # 0
    <3>1. Len(tasks[best]) \in 1..Len(tasks[best])
          BY <1>3, <2>2
    <3>2. DEFINE last == tasks[best][Len(tasks[best])]
    <3>3. last \in Pushed /\ Len(tasks[best]) <= last
          BY <1>2, <3>1 DEF IInv, QueueNumbers, Once
    <3>4. Pushed = 1..(submitted - 1)
          BY DEF Pushed, EnqueuePush
    <3>5. QED
          BY <1>1, <1>3, <3>3, <3>4, ConstantsAssumption
  <2>3. QED
        BY <2>1, <2>2
<1>8. \A w \in Workers : \A i \in 1..Len(tasks'[w]) : i <= tasks'[w][i]
    BY <1>2, <1>3, <1>4, <1>7 DEF Once
<1>9. finished \subseteq Pushed
    BY DEF IInv, QueueNumbers
<1>10. QED
    BY <1>1, <1>2, <1>5, <1>6, <1>8, <1>9

\* A worker that takes a task had it in its queue.
LEMMA TakeIsOwn ==
    ASSUME IInv, Once, NEW w \in Workers, Take(w)
    PROVE  /\ \A v \in Workers : \A t \in 1..MaxTasks : Has(v, t)' => Has(v, t)
           /\ \A v \in Workers : \A i \in 1..Len(tasks'[v]) : i <= tasks'[v][i]
           /\ finished' = finished
<1>1. finished' = finished /\ wpc[w] = "ready"
    BY DEF Take
<1>2. CASE tasks[w] # <<>>
  <2>1. /\ tasks'[w] = Tail(tasks[w]) /\ cur'[w] = Head(tasks[w])
        /\ \A v \in Workers : v # w => /\ tasks'[v] = tasks[v]
                                       /\ cur'[v] = cur[v] /\ wpc'[v] = wpc[v]
        BY <1>2 DEF Take, IInv, TypeOK
  <2>2. /\ Len(tasks[w]) \in Nat \ {0} /\ Len(tasks'[w]) = Len(tasks[w]) - 1
        /\ \A i \in 1..Len(tasks'[w]) : tasks'[w][i] = tasks[w][i + 1]
        /\ cur'[w] = tasks[w][1]
        BY <1>2, <2>1, TailShifts DEF IInv, TypeOK
  <2>3. \A i \in 1..Len(tasks'[w]) : i \in Nat /\ i + 1 \in 1..Len(tasks[w])
        BY <2>2
  <2>4. \A i \in 1..Len(tasks[w]) : tasks[w][i] \in 1..MaxTasks /\ i <= tasks[w][i]
        BY QueueTypes DEF IInv, Once
  <2>5. \A i \in 1..Len(tasks'[w]) : i <= tasks'[w][i]
    <3>1. SUFFICES ASSUME NEW i \in 1..Len(tasks'[w]) PROVE i <= tasks[w][i + 1]
          BY <2>2
    <3>2. i + 1 <= tasks[w][i + 1] /\ tasks[w][i + 1] \in 1..MaxTasks
          BY <2>3, <2>4
    <3>3. QED
          BY <2>3, <3>2, ConstantsAssumption
  <2>6. \A t : Has(w, t)' => Has(w, t)
    <3>1. 1 \in 1..Len(tasks[w])
          BY <2>2
    <3>2. QED
          BY <2>2, <2>3, <3>1 DEF Has
  <2>7. \A v \in Workers : \A t : v # w /\ Has(v, t)' => Has(v, t)
        BY <2>1 DEF Has
  <2>8. \A v \in Workers : \A i \in 1..Len(tasks'[v]) : i <= tasks'[v][i]
    <3>1. SUFFICES ASSUME NEW v \in Workers PROVE \A i \in 1..Len(tasks'[v]) : i <= tasks'[v][i]
          OBVIOUS
    <3>2. CASE v = w
          BY <2>5, <3>2
    <3>3. CASE v # w
          BY <2>1, <3>3 DEF Once
    <3>4. QED
          BY <3>2, <3>3
  <2>9. \A v \in Workers : \A t : Has(v, t)' => Has(v, t)
        BY <2>6, <2>7
  <2>10. QED
        BY <1>1, <2>8, <2>9
<1>3. CASE tasks[w] = <<>>
  <2>1. /\ tasks' = tasks /\ cur' = cur
        /\ wpc' = [wpc EXCEPT ![w] = IF stop THEN "exited" ELSE "toBlock"]
        BY <1>3 DEF Take
  <2>2. \A v \in Workers : wpc'[v] \in {"popped", "running"} => wpc'[v] = wpc[v]
        BY <2>1 DEF IInv, TypeOK
  <2>3. QED
        BY <1>1, <2>1, <2>2 DEF Has, Once
<1>4. QED
    BY <1>2, <1>3

\* A task that ends was with this worker alone, and has left it.
LEMMA FinishLeaves ==
    ASSUME IInv, Once, NEW w \in Workers, Finish(w)
    PROVE  /\ \A v \in Workers : \A t \in 1..MaxTasks : Has(v, t)' => Has(v, t) /\ t # cur[w]
           /\ tasks' = tasks /\ finished' = finished \cup {cur[w]}
<1>1. /\ tasks' = tasks /\ cur' = cur /\ finished' = finished \cup {cur[w]}
      /\ wpc[w] = "running" /\ wpc'[w] = "ready"
      /\ \A v \in Workers : v # w => wpc'[v] = wpc[v]
    BY DEF Finish, IInv, TypeOK
<1>2. cur[w] \in 1..MaxTasks /\ Has(w, cur[w])
    BY <1>1 DEF IInv, TypeOK, QueueNumbers, Has
<1>3. \A v \in Workers : \A t : Has(v, t)' => Has(v, t)
    BY <1>1 DEF Has
<1>4. \A t : t = cur[w] => ~Has(w, t)'
  <2>1. \A i \in 1..Len(tasks[w]) : cur[w] < tasks[w][i] /\ tasks[w][i] \in 1..MaxTasks
        BY QueueTypes DEF IInv, Ascending
  <2>2. \A i \in 1..Len(tasks[w]) : tasks[w][i] # cur[w]
        BY <1>2, <2>1, ConstantsAssumption
  <2>3. QED
        BY <1>1, <2>2 DEF Has
<1>5. \A v \in Workers : \A t : t = cur[w] /\ Has(v, t)' => v = w
    BY <1>2, <1>3 DEF Once
<1>6. QED
    BY <1>1, <1>3, <1>4, <1>5

\* No step gives a task to a second worker or runs one again.
LEMMA OnceStep == IInv /\ Once /\ [Next]_vars => Once'
<1> SUFFICES ASSUME IInv, Once, [Next]_vars PROVE Once'
    OBVIOUS
<1>1. CASE EnqueuePush
    BY <1>1, PushIsNew DEF Once
<1>2. ASSUME NEW w \in Workers, Take(w) PROVE Once'
    BY <1>2, TakeIsOwn DEF Once
<1>3. ASSUME NEW w \in Workers, Finish(w) PROVE Once'
    BY <1>3, FinishLeaves DEF Once
<1>4. ASSUME ~EnqueuePush, \A w \in Workers : ~Take(w) /\ ~Finish(w)
      PROVE  Once'
  <2>1. tasks' = tasks /\ cur' = cur /\ finished' = finished
        BY <1>4 DEF Next, Caller, Worker, Gone, vars, EnqueueStart, EnqueueScan, EnqueueNotify,
                    DestroyStop, DestroyNotify, DestroyJoin, Block, SpuriousWake,
                    Uncount, workerVars
  <2>2. \A v \in Workers : wpc'[v] \in {"popped", "running"}
                            => wpc[v] \in {"popped", "running"}
        BY <1>4 DEF Next, Caller, Worker, Gone, vars, EnqueueStart, EnqueueScan, EnqueueNotify,
                    DestroyStop, DestroyNotify, DestroyJoin, Block, SpuriousWake,
                    Uncount, workerVars, Wake, IInv, TypeOK
  <2>3. \A v \in Workers : \A t : Has(v, t)' => Has(v, t)
        BY <2>1, <2>2 DEF Has
  <2>4. QED
        BY <2>1, <2>3 DEF Once
<1>5. QED
    BY <1>1, <1>2, <1>3, <1>4

\* The places of a task add up to one.
LEMMA PlacesAddUp ==
    ASSUME IInv, Once, NEW t \in Pushed
    PROVE  Cardinality(QueuedAt(t)) + Cardinality(HeldBy(t))
             + (IF t \in finished THEN 1 ELSE 0) = 1
<1> USE DEF IInv
<1>1. t \in 1..MaxTasks /\ Seen(t)
    BY ConstantsAssumption DEF TypeOK, Pushed, Covered, QueueNumbers
<1>2. \A w \in Workers : w \in HeldBy(t) => Has(w, t)
    BY DEF HeldBy, Has
<1>3. \A w \in Workers : DOMAIN tasks[w] = 1..Len(tasks[w])
    BY DEF TypeOK
<1>4. \A p \in QueuedAt(t) : /\ p = <<p[1], p[2]>> /\ p[1] \in Workers
                             /\ p[2] \in 1..Len(tasks[p[1]]) /\ tasks[p[1]][p[2]] = t
                             /\ Has(p[1], t)
    BY <1>3 DEF QueuedAt, Has
<1>5. CASE t \in finished
  <2>1. \A w \in Workers : ~Has(w, t)
        BY <1>1, <1>5 DEF Once
  <2>2. QueuedAt(t) = {} /\ HeldBy(t) = {}
        BY <1>2, <1>4, <2>1 DEF HeldBy
  <2>3. QED
        BY <1>5, <2>2, FS_EmptySet
<1>6. ASSUME NEW w \in Workers, wpc[w] \in {"popped", "running"}, cur[w] = t
      PROVE  t \notin finished /\ Cardinality(QueuedAt(t)) = 0 /\ Cardinality(HeldBy(t)) = 1
  <2>1. Has(w, t)
        BY <1>6 DEF Has
  <2>2. t \notin finished /\ \A v \in Workers : Has(v, t) => v = w
        BY <1>1, <2>1 DEF Once
  <2>3. HeldBy(t) = {w}
        BY <1>2, <1>6, <2>2 DEF HeldBy
  <2>4. \A i \in 1..Len(tasks[w]) : cur[w] < tasks[w][i] /\ tasks[w][i] \in 1..MaxTasks
        BY QueueTypes DEF Ascending
  <2>5. \A i \in 1..Len(tasks[w]) : tasks[w][i] # t
        BY <1>1, <1>6, <2>4, ConstantsAssumption
  <2>6. QueuedAt(t) = {}
        BY <1>4, <2>2, <2>5
  <2>7. QED
        BY <2>2, <2>3, <2>6, FS_EmptySet, FS_Singleton
<1>7. ASSUME NEW w \in Workers, NEW i \in 1..Len(tasks[w]), tasks[w][i] = t
      PROVE  t \notin finished /\ Cardinality(QueuedAt(t)) = 1 /\ Cardinality(HeldBy(t)) = 0
  <2>1. Has(w, t)
        BY <1>7 DEF Has
  <2>2. t \notin finished /\ \A v \in Workers : Has(v, t) => v = w
        BY <1>1, <2>1 DEF Once
  <2>3. cur[w] < t /\ cur[w] \in 0..MaxTasks
        BY <1>7 DEF TypeOK, Ascending
  <2>4. HeldBy(t) = {}
        BY <1>1, <1>2, <2>2, <2>3, ConstantsAssumption DEF HeldBy
  <2>5. tasks[w] \in Seq(1..MaxTasks) /\ Len(tasks[w]) \in Nat
        BY DEF TypeOK
  <2>6. \A j \in 1..Len(tasks[w]) : tasks[w][j] = t => j = i
    <3>1. SUFFICES ASSUME NEW j \in 1..Len(tasks[w]), tasks[w][j] = t PROVE j = i
          OBVIOUS
    <3>2. (i < j => t < t) /\ (j < i => t < t)
          BY <1>7, <3>1 DEF Ascending
    <3>3. QED
          BY <1>1, <2>5, <3>2, ConstantsAssumption
  <2>7. i \in 1..MaxTasks
        BY <1>1, <1>7, <2>5, ConstantsAssumption DEF Once
  <2>8. <<w, i>> \in QueuedAt(t)
        BY <1>3, <1>7, <2>7 DEF QueuedAt
  <2>9. \A p \in QueuedAt(t) : p = <<w, i>>
        BY <1>4, <2>2, <2>6
  <2>10. QueuedAt(t) = {<<w, i>>}
        BY <2>8, <2>9
  <2>11. QED
        BY <2>2, <2>4, <2>10, FS_EmptySet, FS_Singleton
<1>8. QED
    BY <1>1, <1>5, <1>6, <1>7 DEF Seen

\* For every number of workers and tasks, no task is lost and none runs twice:
\* from its push on, a task is in one queue, with one worker, or finished.
THEOREM TaskInOnePlace == Spec => []ExactlyOnePlace
<1>1. Init => Once
    BY DEF Init, Once, Has
<1>2. IInv /\ Once => ExactlyOnePlace
    BY PlacesAddUp DEF ExactlyOnePlace
<1>3. QED
    BY Inductive, OnceStep, <1>1, <1>2, PTL DEF Spec
=============================================================================
