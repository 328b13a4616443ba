--------------------------- MODULE RpcSessionProofs ---------------------------
(***************************************************************************)
(* Proofs about RpcSession for any set of callers, operations and modes    *)
(* and any bounds.                                                         *)
(*                                                                         *)
(* Basics is the inductive core: the holder of session_mutex_ is the only  *)
(* caller past Acquire, its task is a tail of one of the plans, and a      *)
(* broken connection keeps neither requests nor our lock.  On top of it    *)
(* each property has its own strengthening: OwnOnly (what can be on the    *)
(* wire while nothing was given up), ConnectKnown (what a connect and a    *)
(* disconnect leave at each of their steps), EditsGuarded (when the device *)
(* comes to a change in its queue it holds the lock) and LocksReleased     *)
(* (when it is through with the queue it does not).                        *)
(***************************************************************************)
EXTENDS RpcSession, TLAPS

\* A caller is past Acquire exactly while it holds session_mutex_.
Held == {"connect", "open", "hello", "disconnect", "flags", "send", "read"}
MutexHeld == \A c \in Callers : pc[c] \in Held <=> mutex = c

\* What a locked_edit_config, and any operation, may have left to request.
FromLock == {<<"lock", "edit", "commit", "unlock">>,
             <<"lock", "edit", "validate", "commit", "unlock">>}
Rest == FromLock \cup
        {<<"edit", "commit", "unlock">>, <<"edit", "validate", "commit", "unlock">>,
         <<"validate", "commit", "unlock">>, <<"commit", "unlock">>, <<"unlock">>}
Plans == Rest \cup {<<>>, <<"other">>, <<"lock">>, <<"edit">>, <<"edit", "validate">>, <<"validate">>}

\* A caller's task t while the caller is at p.
TaskAt(t, p) ==
    /\ t \in Task /\ t.todo \in Plans
    /\ p \in {"test", "mutex"} => t.op \in AllOps /\ ~t.undo /\ t.todo = Requests(t.op)
    /\ p \in {"send", "read"} => t.todo # <<>>
    /\ p \in {"send", "read"} /\ t.op \in LockedEdits =>
         t.todo \in IF t.undo THEN {<<"unlock">>} ELSE Rest

TaskKnown ==
    /\ task \in [Callers -> Task]
    /\ \A c \in Callers : TaskAt(task[c], pc[c])

\* A standing connection has a channel; a broken one has no requests and no lock.
LinkKnown ==
    /\ up => channel # 0
    /\ ~up => inbox = <<>> /\ lock \notin Ours
    /\ \A c \in Callers : pc[c] = "open" => ~up /\ outbox = <<>> /\ session # 0

Basics == TypeOK /\ MutexHeld /\ TaskKnown /\ LinkKnown

-----------------------------------------------------------------------------
\* What there is to say about the sequences of requests: the first is a request,
\* the others are a sequence of the kind, and an unlock comes last.
LEMMA PlanFacts ==
    ASSUME NEW p \in Plans, p # <<>>
    PROVE  /\ p \in Seq(Rpc) /\ Len(p) \in Nat /\ Len(p) <= 5
           /\ Head(p) \in Rpc /\ Tail(p) \in Plans
           /\ Len(p) > 1 <=> Tail(p) # <<>>
           /\ p \in Rest /\ Len(p) > 1 => Tail(p) \in Rest
           /\ p \in Rest => Head(p) # "other"
           /\ p \in Rest => (Head(p) = "unlock" <=> p = <<"unlock">>)
           /\ p \in Rest => (Len(p) <= 1 <=> p = <<"unlock">>)
           /\ p \in Rest => (Head(p) = "lock" <=> p \in FromLock)
<1> USE DEF Plans, Rest, Rpc, FromLock
<1>1. CASE p = <<"lock", "edit", "commit", "unlock">>
    BY <1>1
<1>2. CASE p = <<"lock", "edit", "validate", "commit", "unlock">>
    BY <1>2
<1>3. CASE p = <<"edit", "commit", "unlock">>
    BY <1>3
<1>4. CASE p = <<"edit", "validate", "commit", "unlock">>
    BY <1>4
<1>5. CASE p = <<"validate", "commit", "unlock">>
    BY <1>5
<1>6. CASE p = <<"commit", "unlock">>
    BY <1>6
<1>7. CASE p = <<"unlock">>
    BY <1>7
<1>8. CASE p = <<"other">>
    BY <1>8
<1>9. CASE p = <<"lock">>
    BY <1>9
<1>10. CASE p = <<"edit">>
    BY <1>10
<1>11. CASE p = <<"edit", "validate">>
    BY <1>11
<1>12. CASE p = <<"validate">>
    BY <1>12
<1>13. QED
    BY <1>1, <1>2, <1>3, <1>4, <1>5, <1>6, <1>7, <1>8, <1>9, <1>10, <1>11, <1>12

\* Only the first request is a lock.
LEMMA TailsUnlocked ==
    ASSUME NEW p \in Rest, Len(p) > 1
    PROVE  Head(Tail(p)) \in Rpc \ {"lock", "other"}
<1> USE DEF Rest, Rpc, FromLock
<1>1. CASE p = <<"lock", "edit", "commit", "unlock">>
    BY <1>1
<1>2. CASE p = <<"lock", "edit", "validate", "commit", "unlock">>
    BY <1>2
<1>3. CASE p = <<"edit", "commit", "unlock">>
    BY <1>3
<1>4. CASE p = <<"edit", "validate", "commit", "unlock">>
    BY <1>4
<1>5. CASE p = <<"validate", "commit", "unlock">>
    BY <1>5
<1>6. CASE p = <<"commit", "unlock">>
    BY <1>6
<1>7. CASE p = <<"unlock">>
    BY <1>7
<1>8. QED
    BY <1>1, <1>2, <1>3, <1>4, <1>5, <1>6, <1>7

LEMMA PlanTypes ==
    ASSUME NEW p \in Plans
    PROVE  p \in Seq(Rpc) /\ Len(p) \in Nat /\ Len(p) <= 5
<1>1. CASE p = <<>>
    BY <1>1
<1>2. CASE p # <<>>
    BY <1>2, PlanFacts
<1>3. QED
    BY <1>1, <1>2

LEMMA PlanShort == \A p \in Plans : Len(p) <= 5
    BY PlanTypes

\* What CloseLink leaves.
LEMMA Empty == <<>> \in Seq(Request) /\ <<>> \in Seq(Nat)
    OBVIOUS

LEMMA RequestsKnown ==
    ASSUME NEW o \in AllOps
    PROVE  /\ Requests(o) \in Plans
           /\ o \notin {"connect", "disconnect"} => Requests(o) # <<>>
           /\ o \in LockedEdits => Requests(o) \in FromLock
    BY DEF Requests, Plan, Plans, Rest, AllOps, LockedEdits, FromLock
-----------------------------------------------------------------------------
\* session_mutex_ has one holder, and every step that needs it is its holder's.
LEMMA MutexStep == Basics /\ [Next]_vars => MutexHeld'
<1> SUFFICES ASSUME Basics, [Next]_vars PROVE MutexHeld'
    OBVIOUS
<1> USE RpcAssumption DEF Basics, TypeOK, MutexHeld, Held
<1>1. ASSUME NEW c \in Callers, Call(c) PROVE MutexHeld'
    BY <1>1 DEF Call
<1>2. ASSUME NEW c \in Callers, Test(c) PROVE MutexHeld'
    BY <1>2 DEF Test
<1>3. ASSUME NEW c \in Callers, Acquire(c) PROVE MutexHeld'
    BY <1>3 DEF Acquire
<1>4. ASSUME NEW c \in Callers, ConnectRefused(c) PROVE MutexHeld'
    BY <1>4 DEF ConnectRefused, Return
<1>5. ASSUME NEW c \in Callers, ConnectSession(c) PROVE MutexHeld'
    BY <1>5 DEF ConnectSession, CloseLink
<1>6. ASSUME NEW c \in Callers, ConnectChannel(c) PROVE MutexHeld'
    BY <1>6 DEF ConnectChannel
<1>7. ASSUME NEW c \in Callers, ConnectHello(c) PROVE MutexHeld'
    BY <1>7 DEF ConnectHello, Return
<1>8. ASSUME NEW c \in Callers, ConnectFails(c) PROVE MutexHeld'
    BY <1>8 DEF ConnectFails, Return
<1>9. ASSUME NEW c \in Callers, Disconnect(c) PROVE MutexHeld'
    BY <1>9 DEF Disconnect, CloseLink
<1>10. ASSUME NEW c \in Callers, DisconnectFlags(c) PROVE MutexHeld'
    BY <1>10 DEF DisconnectFlags, Return
<1>11. ASSUME NEW c \in Callers, SendThrows(c) PROVE MutexHeld'
    BY <1>11 DEF SendThrows, Throws, Return
<1>12. ASSUME NEW c \in Callers, Send(c) PROVE MutexHeld'
    BY <1>12 DEF Send
<1>13. ASSUME NEW c \in Callers, ReadReply(c) PROVE MutexHeld'
    BY <1>13 DEF ReadReply, Proceed, Return
<1>14. ASSUME NEW c \in Callers, ReadThrows(c) PROVE MutexHeld'
    BY <1>14 DEF ReadThrows, Throws, Return
<1>15. CASE DeviceHandles
    BY <1>15 DEF DeviceHandles
<1>16. CASE LinkDown
    BY <1>16 DEF LinkDown
<1>17. CASE OtherLocks
    BY <1>17 DEF OtherLocks
<1>18. CASE DeviceTurns
    BY <1>18 DEF DeviceTurns
<1>19. CASE UNCHANGED vars
    BY <1>19 DEF vars
<1>20. QED
    BY <1>1, <1>2, <1>3, <1>4, <1>5, <1>6, <1>7, <1>8, <1>9, <1>10,
       <1>11, <1>12, <1>13, <1>14, <1>15, <1>16, <1>17, <1>18, <1>19
       DEF Next, Running, Device

\* Only the caller's own task changes.
LEMMA OneTask ==
    ASSUME Basics, NEW c \in Callers, NEW t, NEW p, TaskAt(t, p),
           task' = [task EXCEPT ![c] = t], pc' = [pc EXCEPT ![c] = p]
    PROVE  TaskKnown'
<1>1. t \in Task
    BY DEF TaskAt
<1>2. QED
    BY <1>1 DEF Basics, TypeOK, TaskKnown

\* A caller goes where nothing is asked of its task, or from the test to the mutex.
LEMMA SameTask ==
    ASSUME Basics, NEW c \in Callers, NEW p, UNCHANGED task, pc' = [pc EXCEPT ![c] = p],
           p \notin {"test", "mutex", "send", "read"} \/ (pc[c] = "test" /\ p = "mutex")
    PROVE  TaskKnown'
<1>1. TaskAt(task[c], pc[c])
    BY DEF Basics, TaskKnown
<1>2. TaskAt(task[c], p)
    BY <1>1 DEF TaskAt
<1>3. task' = [task EXCEPT ![c] = task[c]]
    BY DEF Basics, TypeOK
<1>4. QED
    BY <1>2, <1>3, OneTask

LEMMA ReturnTask ==
    ASSUME Basics, NEW c \in Callers, Return(c)
    PROVE  TaskKnown'
<1>1. TaskAt(NoTask, "idle")
    BY PlanTypes DEF TaskAt, NoTask, Task, Plans
<1>2. QED
    BY <1>1, OneTask DEF Return

LEMMA ThrowsTask ==
    ASSUME Basics, NEW c \in Callers, pc[c] \in {"send", "read"}, Throws(c)
    PROVE  TaskKnown'
<1>1. CASE task[c].op \in LockedEdits /\ ~task[c].undo
  <2> DEFINE t == [task[c] EXCEPT !.undo = TRUE, !.todo = <<"unlock">>]
  <2>1. task' = [task EXCEPT ![c] = t] /\ pc' = [pc EXCEPT ![c] = "send"]
        BY <1>1 DEF Throws, Basics, TypeOK, Task
  <2>2. task[c] \in Task /\ <<"unlock">> \in Plans
        BY DEF Basics, TypeOK, Plans, Rest
  <2>3. TaskAt(t, "send")
        BY <1>1, <2>2, PlanTypes DEF TaskAt, Task
  <2>4. QED
        BY <2>1, <2>3, OneTask
<1>2. CASE ~(task[c].op \in LockedEdits /\ ~task[c].undo)
    BY <1>2, ReturnTask DEF Throws
<1>3. QED
    BY <1>1, <1>2

LEMMA ProceedTask ==
    ASSUME Basics, NEW c \in Callers, pc[c] = "read", Proceed(c)
    PROVE  TaskKnown'
<1>1. CASE Len(task[c].todo) > 1
  <2> DEFINE t == [task[c] EXCEPT !.todo = Tail(@)]
  <2>1. task' = [task EXCEPT ![c] = t] /\ pc' = [pc EXCEPT ![c] = "send"]
        BY <1>1 DEF Proceed, Basics, TypeOK, Task
  <2>2. task[c] \in Task /\ TaskAt(task[c], "read")
        BY DEF Basics, TypeOK, TaskKnown
  <2>3. /\ Tail(task[c].todo) \in Plans /\ Tail(task[c].todo) # <<>>
        /\ task[c].todo \in Rest => Tail(task[c].todo) \in Rest
        BY <1>1, <2>2, PlanFacts DEF TaskAt
  <2>4. task[c].todo # <<"unlock">>
    <3>1. ~(Len(<<"unlock">>) > 1)
          OBVIOUS
    <3>2. QED
          BY <1>1, <3>1, Zenon
  <2>5. TaskAt(t, "send")
        BY <2>2, <2>3, <2>4, PlanTypes DEF TaskAt, Task
  <2>6. QED
        BY <2>1, <2>5, OneTask
<1>2. CASE ~(Len(task[c].todo) > 1)
    BY <1>2, ReturnTask DEF Proceed
<1>3. QED
    BY <1>1, <1>2

\* What is left to request is one of the sequences.
LEMMA TaskStep == Basics /\ [Next]_vars => TaskKnown'
<1> SUFFICES ASSUME Basics, [Next]_vars PROVE TaskKnown'
    OBVIOUS
<1> USE RpcAssumption DEF Basics, TaskKnown
<1>1. ASSUME NEW c \in Callers, Call(c) PROVE TaskKnown'
  <2>1. PICK o \in AllOps, m \in {"async", "sync"} :
          /\ task' = [task EXCEPT ![c] = [NoTask EXCEPT !.op = o, !.mode = m, !.todo = Requests(o)]]
          /\ pc' = [pc EXCEPT ![c] = IF o = "connect" THEN "mutex" ELSE "test"]
        BY <1>1 DEF Call
  <2>2. TaskAt([NoTask EXCEPT !.op = o, !.mode = m, !.todo = Requests(o)],
               IF o = "connect" THEN "mutex" ELSE "test")
        BY RequestsKnown, PlanTypes DEF TaskAt, NoTask, Task
  <2>3. QED
        BY <2>1, <2>2, OneTask
<1>2. ASSUME NEW c \in Callers, Test(c) PROVE TaskKnown'
  <2>1. CASE UNCHANGED task
        BY <1>2, <2>1, SameTask DEF Test
  <2>2. CASE ~ UNCHANGED task
    <3>1. TaskAt(NoTask, "idle")
          BY PlanTypes DEF TaskAt, NoTask, Task, Plans
    <3>2. QED
          BY <1>2, <2>2, <3>1, OneTask DEF Test
  <2>3. QED
        BY <2>1, <2>2
<1>3. ASSUME NEW c \in Callers, Acquire(c) PROVE TaskKnown'
  <2>1. TaskAt(task[c], "mutex")
        BY <1>3 DEF Acquire
  <2>2. TaskAt(task[c], IF task[c].op \in {"connect", "disconnect"} THEN task[c].op ELSE "send")
        BY <2>1, RequestsKnown DEF TaskAt, Rest, LockedEdits
  <2>3. QED
        BY <1>3, <2>2 DEF Acquire
<1>4. ASSUME NEW c \in Callers, ConnectRefused(c) PROVE TaskKnown'
    BY <1>4, ReturnTask DEF ConnectRefused, Return
<1>5. ASSUME NEW c \in Callers, ConnectSession(c) PROVE TaskKnown'
    BY <1>5, SameTask DEF ConnectSession, CloseLink
<1>6. ASSUME NEW c \in Callers, ConnectChannel(c) PROVE TaskKnown'
    BY <1>6, SameTask DEF ConnectChannel
<1>7. ASSUME NEW c \in Callers, ConnectHello(c) PROVE TaskKnown'
    BY <1>7, ReturnTask DEF ConnectHello, Return
<1>8. ASSUME NEW c \in Callers, ConnectFails(c) PROVE TaskKnown'
    BY <1>8, ReturnTask DEF ConnectFails, Return
<1>9. ASSUME NEW c \in Callers, Disconnect(c) PROVE TaskKnown'
    BY <1>9, SameTask DEF Disconnect, CloseLink
<1>10. ASSUME NEW c \in Callers, DisconnectFlags(c) PROVE TaskKnown'
    BY <1>10, ReturnTask DEF DisconnectFlags, Return
<1>11. ASSUME NEW c \in Callers, SendThrows(c) PROVE TaskKnown'
    BY <1>11, ThrowsTask DEF SendThrows, Throws, Return
<1>12. ASSUME NEW c \in Callers, Send(c) PROVE TaskKnown'
  <2>1. TaskAt(task[c], "send")
        BY <1>12 DEF Send
  <2>2. TaskAt([task[c] EXCEPT !.asked = sent + 1], "read")
    <3>1. sent + 1 \in Nat
          BY DEF TypeOK
    <3>2. QED
          BY <2>1, <3>1 DEF TaskAt, Task
  <2>3. /\ task' = [task EXCEPT ![c] = [task[c] EXCEPT !.asked = sent + 1]]
        /\ pc' = [pc EXCEPT ![c] = "read"]
        BY <1>12 DEF Send
  <2>4. QED
        BY <2>2, <2>3, OneTask
<1>13. ASSUME NEW c \in Callers, ReadReply(c) PROVE TaskKnown'
    BY <1>13, ProceedTask DEF ReadReply, Proceed, Return
<1>14. ASSUME NEW c \in Callers, ReadThrows(c) PROVE TaskKnown'
    BY <1>14, ThrowsTask DEF ReadThrows, Throws, Return
<1>15. CASE DeviceHandles
    BY <1>15 DEF DeviceHandles
<1>16. CASE LinkDown
    BY <1>16 DEF LinkDown
<1>17. CASE OtherLocks
    BY <1>17 DEF OtherLocks
<1>18. CASE DeviceTurns
    BY <1>18 DEF DeviceTurns
<1>19. CASE UNCHANGED vars
    BY <1>19 DEF vars
<1>20. QED
    BY <1>1, <1>2, <1>3, <1>4, <1>5, <1>6, <1>7, <1>8, <1>9, <1>10,
       <1>11, <1>12, <1>13, <1>14, <1>15, <1>16, <1>17, <1>18, <1>19
       DEF Next, Running, Device

\* A broken connection keeps nothing.
LEMMA LinkStep == Basics /\ [Next]_vars => LinkKnown'
<1> SUFFICES ASSUME Basics, [Next]_vars PROVE LinkKnown'
    OBVIOUS
<1> USE RpcAssumption DEF Basics, TypeOK, MutexHeld, Held, LinkKnown, Ours, flagVars, objectVars,
        linkVars, sessionVars, boundVars
<1>1. ASSUME NEW c \in Callers, Call(c) PROVE LinkKnown'
    BY <1>1 DEF Call
<1>2. ASSUME NEW c \in Callers, Test(c) PROVE LinkKnown'
    BY <1>2 DEF Test
<1>3. ASSUME NEW c \in Callers, Acquire(c) PROVE LinkKnown'
    BY <1>3 DEF Acquire
<1>4. ASSUME NEW c \in Callers, ConnectRefused(c) PROVE LinkKnown'
    BY <1>4 DEF ConnectRefused, Return
<1>5. ASSUME NEW c \in Callers, ConnectSession(c) PROVE LinkKnown'
    BY <1>5 DEF ConnectSession, CloseLink
<1>6. ASSUME NEW c \in Callers, ConnectChannel(c) PROVE LinkKnown'
    BY <1>6 DEF ConnectChannel
<1>7. ASSUME NEW c \in Callers, ConnectHello(c) PROVE LinkKnown'
    BY <1>7 DEF ConnectHello, Return
<1>8. ASSUME NEW c \in Callers, ConnectFails(c) PROVE LinkKnown'
    BY <1>8 DEF ConnectFails, Return
<1>9. ASSUME NEW c \in Callers, Disconnect(c) PROVE LinkKnown'
    BY <1>9 DEF Disconnect, CloseLink
<1>10. ASSUME NEW c \in Callers, DisconnectFlags(c) PROVE LinkKnown'
    BY <1>10 DEF DisconnectFlags, Return
<1>11. ASSUME NEW c \in Callers, SendThrows(c) PROVE LinkKnown'
    BY <1>11 DEF SendThrows, Throws, Return
<1>12. ASSUME NEW c \in Callers, Send(c) PROVE LinkKnown'
    BY <1>12 DEF Send
<1>13. ASSUME NEW c \in Callers, ReadReply(c) PROVE LinkKnown'
    BY <1>13 DEF ReadReply, Proceed, Return
<1>14. ASSUME NEW c \in Callers, ReadThrows(c) PROVE LinkKnown'
    BY <1>14 DEF ReadThrows, Throws, Return
<1>15. CASE DeviceHandles
    BY <1>15 DEF DeviceHandles
<1>16. CASE LinkDown
    BY <1>16 DEF LinkDown
<1>17. CASE OtherLocks
    BY <1>17 DEF OtherLocks
<1>18. CASE DeviceTurns
    BY <1>18 DEF DeviceTurns
<1>19. CASE UNCHANGED vars
    BY <1>19 DEF vars
<1>20. QED
    BY <1>1, <1>2, <1>3, <1>4, <1>5, <1>6, <1>7, <1>8, <1>9, <1>10,
       <1>11, <1>12, <1>13, <1>14, <1>15, <1>16, <1>17, <1>18, <1>19
       DEF Next, Running, Device

\* The types of what a session is made of, which most steps leave alone,
LinkTypes ==
    /\ up \in BOOLEAN /\ hello \in BOOLEAN /\ holds \in BOOLEAN
    /\ inbox \in Seq(Request) /\ outbox \in Seq(Nat)
    /\ lock \in {"free", "call", "edit", "other"}
    /\ sent \in Nat /\ framing \in {"whole", "cut", "joined"}
    /\ gaveUp \in BOOLEAN /\ denied \in BOOLEAN /\ unguarded \in BOOLEAN

LEMMA SameLink ==
    ASSUME TypeOK, UNCHANGED <<linkVars, lock, sessionVars>>
    PROVE  LinkTypes'
    BY DEF TypeOK, LinkTypes, linkVars, sessionVars

\* and others set anew.
LEMMA ClosedLink ==
    ASSUME TypeOK, CloseLink
    PROVE  LinkTypes'
<1>1. inbox' \in Seq(Request) /\ outbox' \in Seq(Nat)
    BY Empty DEF CloseLink
<1>2. lock' \in {"free", "call", "edit", "other"}
    BY DEF CloseLink, TypeOK
<1>3. QED
    BY <1>1, <1>2 DEF CloseLink, LinkTypes

\* Every step keeps the types.
LEMMA TypeStep == Basics /\ [Next]_vars => TypeOK'
<1> SUFFICES ASSUME Basics, [Next]_vars PROVE TypeOK'
    OBVIOUS
<1> USE RpcAssumption DEF Basics, TypeOK, flagVars, objectVars, linkVars, sessionVars, boundVars
<1>0. task' \in [Callers -> Task] /\ \A c \in Callers : Len(task'[c].todo) <= 5
  <2>1. TaskKnown'
        BY TaskStep
  <2>2. ASSUME NEW c \in Callers PROVE Len(task'[c].todo) <= 5
    <3>1. task'[c].todo \in Plans
          BY <2>1 DEF TaskKnown, TaskAt
    <3>2. QED
          BY <3>1, PlanShort, Zenon
  <2>3. QED
        BY <2>1, <2>2 DEF TaskKnown
<1> USE <1>0
<1>1. ASSUME NEW c \in Callers, Call(c) PROVE TypeOK'
    BY <1>1 DEF Call
<1>2. ASSUME NEW c \in Callers, Test(c) PROVE TypeOK'
  <2>1. LinkTypes'
        BY <1>2, SameLink DEF Test
  <2>2. QED
        BY <1>2, <2>1 DEF Test, LinkTypes
<1>3. ASSUME NEW c \in Callers, Acquire(c) PROVE TypeOK'
    BY <1>3 DEF Acquire
<1>4. ASSUME NEW c \in Callers, ConnectRefused(c) PROVE TypeOK'
    BY <1>4 DEF ConnectRefused, Return
<1>5. ASSUME NEW c \in Callers, ConnectSession(c) PROVE TypeOK'
  <2>1. LinkTypes'
        BY <1>5, ClosedLink DEF ConnectSession
  <2>2. QED
        BY <1>5, <2>1 DEF ConnectSession, LinkTypes
<1>6. ASSUME NEW c \in Callers, ConnectChannel(c) PROVE TypeOK'
  <2>1. LinkTypes'
        BY <1>6 DEF ConnectChannel, LinkTypes
  <2>2. QED
        BY <1>6, <2>1 DEF ConnectChannel, LinkTypes
<1>7. ASSUME NEW c \in Callers, ConnectHello(c) PROVE TypeOK'
    BY <1>7 DEF ConnectHello, Return
<1>8. ASSUME NEW c \in Callers, ConnectFails(c) PROVE TypeOK'
    BY <1>8 DEF ConnectFails, Return
<1>9. ASSUME NEW c \in Callers, Disconnect(c) PROVE TypeOK'
  <2>1. LinkTypes'
        BY <1>9, ClosedLink DEF Disconnect
  <2>2. session' = 0 /\ channel' = 0 /\ failedLate' \in BOOLEAN
        BY <1>9, Zenon DEF Disconnect
  <2>3. mutex' \in Callers \cup {Nobody} /\ UNCHANGED <<connected, blocking, calls, opened>>
        BY <1>9 DEF Disconnect
  <2>4. pc' \in [Callers -> {"idle", "test", "mutex", "connect", "open", "hello",
                            "disconnect", "flags", "send", "read"}]
        BY <1>9 DEF Disconnect
  <2>5. QED
        BY <2>1, <2>2, <2>3, <2>4 DEF LinkTypes
<1>10. ASSUME NEW c \in Callers, DisconnectFlags(c) PROVE TypeOK'
  <2>1. LinkTypes'
        BY <1>10, SameLink DEF DisconnectFlags
  <2>2. QED
        BY <1>10, <2>1 DEF DisconnectFlags, Return, LinkTypes
<1>11. ASSUME NEW c \in Callers, SendThrows(c) PROVE TypeOK'
  <2>1. LinkTypes'
        BY <1>11, SameLink DEF SendThrows
  <2>2. QED
        BY <1>11, <2>1 DEF SendThrows, Throws, Return, LinkTypes
<1>12. ASSUME NEW c \in Callers, Send(c) PROVE TypeOK'
  <2>1. task[c].todo \in Plans /\ task[c].todo # <<>>
        BY <1>12 DEF Send, TaskKnown, TaskAt
  <2>2. Asked(c) \in Request
        BY <2>1, PlanFacts DEF Request, Asked, Rpc
  <2>3. inbox' \in Seq(Request) /\ framing' \in {"whole", "cut", "joined"}
        BY <1>12, <2>2 DEF Send
  <2>4. QED
        BY <1>12, <2>3 DEF Send
<1>13. ASSUME NEW c \in Callers, ReadReply(c) PROVE TypeOK'
  <2>1. PICK n \in 1..Len(outbox) : outbox' = SubSeq(outbox, n + 1, Len(outbox))
        BY <1>13 DEF ReadReply
  <2>2. LinkTypes'
        BY <1>13, <2>1 DEF ReadReply, LinkTypes
  <2>3. QED
        BY <1>13, <2>2 DEF ReadReply, Proceed, Return, LinkTypes
<1>14. ASSUME NEW c \in Callers, ReadThrows(c) PROVE TypeOK'
    BY <1>14 DEF ReadThrows, Throws, Return
<1>15. CASE DeviceHandles
  <2>1. Head(inbox) \in Request /\ Tail(inbox) \in Seq(Request)
        BY <1>15 DEF DeviceHandles
  <2>2. outbox' \in Seq(Nat)
        BY <1>15, <2>1 DEF DeviceHandles, Request
  <2>3. denied' \in BOOLEAN /\ unguarded' \in BOOLEAN
        BY <1>15, Zenon DEF DeviceHandles
  <2>4. QED
        BY <1>15, <2>1, <2>2, <2>3 DEF DeviceHandles, Ours
<1>16. CASE LinkDown
    BY <1>16, Empty DEF LinkDown, Ours
<1>17. CASE OtherLocks
    BY <1>17 DEF OtherLocks
<1>18. CASE DeviceTurns
    BY <1>18 DEF DeviceTurns
<1>19. CASE UNCHANGED vars
    BY <1>19 DEF vars
<1>20. QED
    BY <1>1, <1>2, <1>3, <1>4, <1>5, <1>6, <1>7, <1>8, <1>9, <1>10,
       <1>11, <1>12, <1>13, <1>14, <1>15, <1>16, <1>17, <1>18, <1>19
       DEF Next, Running, Device

LEMMA BasicsStep == Basics /\ [Next]_vars => Basics'
    BY TypeStep, MutexStep, TaskStep, LinkStep DEF Basics

LEMMA BasicsInit == Init => Basics
<1>1. TaskAt(NoTask, "idle")
    BY PlanTypes DEF TaskAt, NoTask, Task, Plans
<1>2. ASSUME Init PROVE TaskKnown
    BY <1>1, <1>2 DEF Init, TaskKnown, TaskAt
<1>3. ASSUME Init PROVE TypeOK
  <2>1. ASSUME NEW c \in Callers PROVE Len(task[c].todo) <= 5
        BY <1>3 DEF Init, NoTask
  <2>2. inbox \in Seq(Request) /\ outbox \in Seq(Nat)
        BY <1>3, Empty DEF Init
  <2>3. /\ mutex \in Callers \cup {Nobody}
        /\ pc \in [Callers -> {"idle", "test", "mutex", "connect", "open", "hello",
                           "disconnect", "flags", "send", "read"}]
        /\ connected \in BOOLEAN /\ blocking \in BOOLEAN /\ up \in BOOLEAN /\ hello \in BOOLEAN
        /\ gaveUp \in BOOLEAN /\ denied \in BOOLEAN /\ unguarded \in BOOLEAN
        /\ holds \in BOOLEAN /\ framing \in {"whole", "cut", "joined"} /\ failedLate \in BOOLEAN
        /\ lock \in {"free", "call", "edit", "other"}
        BY <1>3 DEF Init
  <2>4. /\ session \in 0..MaxConnects /\ channel \in 0..MaxConnects /\ opened \in 0..MaxConnects
        /\ sent \in Nat /\ calls \in 0..MaxCalls
        BY <1>3, RpcAssumption DEF Init
  <2>5. QED
        BY <1>2, <1>3, <2>1, <2>2, <2>3, <2>4 DEF TypeOK, TaskKnown
<1>4. ASSUME Init PROVE MutexHeld /\ LinkKnown
    BY <1>4, RpcAssumption DEF Init, MutexHeld, Held, LinkKnown, Ours
<1>5. QED
    BY <1>2, <1>3, <1>4 DEF Basics

THEOREM SpecBasics == Spec => []Basics
<1>1. QED
    BY BasicsInit, BasicsStep, PTL DEF Spec

\* Every variable stays in its type: above all, an operation never asks for more
\* than its requests.
THEOREM TypesHold == Spec => []TypeOK
<1>1. Basics => TypeOK
    BY DEF Basics
<1>2. QED
    BY <1>1, SpecBasics, PTL

-----------------------------------------------------------------------------
\* As long as no request of the session was given up, there is nothing in either
\* direction but the one request of the reader, or its reply.
OwnOnly ==
    ~gaveUp =>
      /\ (\A c \in Callers : pc[c] # "read") => inbox = <<>> /\ outbox = <<>>
      /\ \A c \in Callers : pc[c] = "read" =>
           /\ task[c].asked = sent
           /\ \/ inbox = <<>> /\ outbox = <<>>
              \/ Len(inbox) = 1 /\ inbox[1].id = sent /\ outbox = <<>>
              \/ inbox = <<>> /\ outbox = <<sent>>

LEMMA OwnStep == Basics /\ OwnOnly /\ [Next]_vars => OwnOnly'
<1> SUFFICES ASSUME Basics /\ OwnOnly, [Next]_vars PROVE OwnOnly'
    OBVIOUS
<1> USE RpcAssumption DEF Basics, TypeOK, MutexHeld, Held, OwnOnly, LinkKnown, flagVars, objectVars,
        linkVars, sessionVars, boundVars
<1>1. ASSUME NEW c \in Callers, Call(c) PROVE OwnOnly'
    BY <1>1 DEF Call
<1>2. ASSUME NEW c \in Callers, Test(c) PROVE OwnOnly'
    BY <1>2 DEF Test
<1>3. ASSUME NEW c \in Callers, Acquire(c) PROVE OwnOnly'
    BY <1>3 DEF Acquire
<1>4. ASSUME NEW c \in Callers, ConnectRefused(c) PROVE OwnOnly'
    BY <1>4 DEF ConnectRefused, Return
<1>5. ASSUME NEW c \in Callers, ConnectSession(c) PROVE OwnOnly'
    BY <1>5 DEF ConnectSession, CloseLink
<1>6. ASSUME NEW c \in Callers, ConnectChannel(c) PROVE OwnOnly'
    BY <1>6 DEF ConnectChannel
<1>7. ASSUME NEW c \in Callers, ConnectHello(c) PROVE OwnOnly'
    BY <1>7 DEF ConnectHello, Return
<1>8. ASSUME NEW c \in Callers, ConnectFails(c) PROVE OwnOnly'
    BY <1>8 DEF ConnectFails, Return
<1>9. ASSUME NEW c \in Callers, Disconnect(c) PROVE OwnOnly'
    BY <1>9 DEF Disconnect, CloseLink
<1>10. ASSUME NEW c \in Callers, DisconnectFlags(c) PROVE OwnOnly'
    BY <1>10 DEF DisconnectFlags, Return
<1>11. ASSUME NEW c \in Callers, SendThrows(c) PROVE OwnOnly'
    BY <1>11 DEF SendThrows, Throws, Return
<1>12. ASSUME NEW c \in Callers, Send(c) PROVE OwnOnly'
  <2>1. ~gaveUp => inbox = <<>> /\ outbox = <<>>
        BY <1>12 DEF Send
  <2>2. ~gaveUp => inbox' = <<>> \/ (Len(inbox') = 1 /\ inbox'[1].id = sent')
        BY <1>12, <2>1 DEF Send, Asked
  <2>3. /\ \A d \in Callers : pc'[d] = "read" => d = c
        /\ pc'[c] = "read" /\ task'[c].asked = sent' /\ UNCHANGED <<outbox, gaveUp>>
        BY <1>12 DEF Send, Task
  <2>4. QED
        BY <2>1, <2>2, <2>3
<1>13. ASSUME NEW c \in Callers, ReadReply(c) PROVE OwnOnly'
  <2>1. CASE gaveUp
        BY <1>13, <2>1 DEF ReadReply, Proceed, Return
  <2>2. CASE ~gaveUp
    <3>1. inbox = <<>> /\ outbox = <<sent>>
          BY <1>13, <2>2 DEF ReadReply
    <3>2. PICK n \in 1..Len(outbox) : outbox' = SubSeq(outbox, n + 1, Len(outbox))
          BY <1>13 DEF ReadReply
    <3>3. n = 1 /\ Len(outbox) = 1
          BY <3>1, <3>2
    <3>4. outbox' = <<>>
          BY <3>2, <3>3
    <3>5. \A d \in Callers : pc'[d] # "read"
          BY <1>13 DEF ReadReply, Proceed, Return
    <3>6. QED
          BY <1>13, <3>1, <3>4, <3>5 DEF ReadReply
  <2>3. QED
        BY <2>1, <2>2
<1>14. ASSUME NEW c \in Callers, ReadThrows(c) PROVE OwnOnly'
    BY <1>14 DEF ReadThrows, Throws, Return
<1>15. CASE DeviceHandles
  <2>1. CASE gaveUp
        BY <1>15, <2>1 DEF DeviceHandles
  <2>2. CASE ~gaveUp
    <3>1. PICK c \in Callers : pc[c] = "read"
          BY <1>15, <2>2 DEF DeviceHandles
    <3>2. Len(inbox) = 1 /\ inbox[1].id = sent /\ outbox = <<>> /\ task[c].asked = sent
          BY <1>15, <2>2, <3>1 DEF DeviceHandles
    <3>3. inbox' = <<>> /\ outbox' = <<sent>>
          BY <1>15, <3>2 DEF DeviceHandles
    <3>4. \A d \in Callers : pc[d] = "read" => d = c
          BY <3>1
    <3>5. QED
          BY <1>15, <3>1, <3>2, <3>3, <3>4 DEF DeviceHandles
  <2>3. QED
        BY <2>1, <2>2
<1>16. CASE LinkDown
    BY <1>16 DEF LinkDown
<1>17. CASE OtherLocks
    BY <1>17 DEF OtherLocks
<1>18. CASE DeviceTurns
    BY <1>18 DEF DeviceTurns
<1>19. CASE UNCHANGED vars
    BY <1>19 DEF vars
<1>20. QED
    BY <1>1, <1>2, <1>3, <1>4, <1>5, <1>6, <1>7, <1>8, <1>9, <1>10,
       <1>11, <1>12, <1>13, <1>14, <1>15, <1>16, <1>17, <1>18, <1>19
       DEF Next, Running, Device


\* Until a request of the session is given up, no call can read a reply but its own,
\* although every request has the same message-id: session_mutex_ keeps requests and
\* replies of different threads apart, over disconnects and reconnects as well.
THEOREM RepliesHold == Spec => []ReplyIsOwn
<1>1. Init => OwnOnly
    BY DEF Init, OwnOnly
<1>2. Basics /\ OwnOnly => ReplyIsOwn
    BY DEF OwnOnly, ReplyIsOwn
<1>3. QED
    BY <1>1, <1>2, OwnStep, SpecBasics, PTL DEF Spec

-----------------------------------------------------------------------------
\* is_connected_ and channel_ agree, except inside a connect and between the two
\* steps of a disconnect; only a connect that fails late leaves a channel behind.
NoneLeft == ~hello /\ (channel = 0 \/ failedLate)
Settled == IF connected THEN session # 0 /\ channel = session /\ hello ELSE NoneLeft

ConnectKnown ==
    /\ (\A c \in Callers : pc[c] \notin {"open", "hello", "flags"}) => Settled
    /\ \A c \in Callers : pc[c] = "open" => ~connected /\ NoneLeft
    /\ \A c \in Callers : pc[c] = "hello" =>
         ~connected /\ ~hello /\ session # 0 /\ channel = session
    /\ \A c \in Callers : pc[c] = "flags" => ~hello /\ channel = 0

LEMMA ConnectStep == Basics /\ ConnectKnown /\ [Next]_vars => ConnectKnown'
<1> SUFFICES ASSUME Basics /\ ConnectKnown, [Next]_vars PROVE ConnectKnown'
    OBVIOUS
<1> USE RpcAssumption DEF Basics, TypeOK, MutexHeld, Held, LinkKnown, ConnectKnown, NoneLeft, Settled,
        flagVars, objectVars, linkVars, sessionVars, boundVars
<1>1. ASSUME NEW c \in Callers, Call(c) PROVE ConnectKnown'
    BY <1>1 DEF Call
<1>2. ASSUME NEW c \in Callers, Test(c) PROVE ConnectKnown'
    BY <1>2 DEF Test
<1>3. ASSUME NEW c \in Callers, Acquire(c) PROVE ConnectKnown'
    BY <1>3 DEF Acquire
<1>4. ASSUME NEW c \in Callers, ConnectRefused(c) PROVE ConnectKnown'
    BY <1>4 DEF ConnectRefused, Return
<1>5. ASSUME NEW c \in Callers, ConnectSession(c) PROVE ConnectKnown'
    BY <1>5 DEF ConnectSession, CloseLink
<1>6. ASSUME NEW c \in Callers, ConnectChannel(c) PROVE ConnectKnown'
    BY <1>6 DEF ConnectChannel
<1>7. ASSUME NEW c \in Callers, ConnectHello(c) PROVE ConnectKnown'
    BY <1>7 DEF ConnectHello, Return
<1>8. ASSUME NEW c \in Callers, ConnectFails(c) PROVE ConnectKnown'
    BY <1>8 DEF ConnectFails, Return
<1>9. ASSUME NEW c \in Callers, Disconnect(c) PROVE ConnectKnown'
    BY <1>9 DEF Disconnect, CloseLink
<1>10. ASSUME NEW c \in Callers, DisconnectFlags(c) PROVE ConnectKnown'
    BY <1>10 DEF DisconnectFlags, Return
<1>11. ASSUME NEW c \in Callers, SendThrows(c) PROVE ConnectKnown'
    BY <1>11 DEF SendThrows, Throws, Return
<1>12. ASSUME NEW c \in Callers, Send(c) PROVE ConnectKnown'
    BY <1>12 DEF Send
<1>13. ASSUME NEW c \in Callers, ReadReply(c) PROVE ConnectKnown'
    BY <1>13 DEF ReadReply, Proceed, Return
<1>14. ASSUME NEW c \in Callers, ReadThrows(c) PROVE ConnectKnown'
    BY <1>14 DEF ReadThrows, Throws, Return
<1>15. CASE DeviceHandles
    BY <1>15 DEF DeviceHandles
<1>16. CASE LinkDown
    BY <1>16 DEF LinkDown
<1>17. CASE OtherLocks
    BY <1>17 DEF OtherLocks
<1>18. CASE DeviceTurns
    BY <1>18 DEF DeviceTurns
<1>19. CASE UNCHANGED vars
    BY <1>19 DEF vars
<1>20. QED
    BY <1>1, <1>2, <1>3, <1>4, <1>5, <1>6, <1>7, <1>8, <1>9, <1>10,
       <1>11, <1>12, <1>13, <1>14, <1>15, <1>16, <1>17, <1>18, <1>19
       DEF Next, Running, Device

\* Whenever the mutex is free, is_connected_ says that there is a session with its own
\* channel, on which the hellos were exchanged; and a call that passed its test too
\* early finds no channel, or that of a connect that failed when it had opened it.
THEOREM ConnectedHolds == Spec => []ConnectedHasChannel
<1>1. Init => ConnectKnown
    BY DEF Init, ConnectKnown, Settled, NoneLeft
<1>2. Basics /\ ConnectKnown => ConnectedHasChannel
    BY RpcAssumption DEF Basics, MutexHeld, Held, ConnectKnown, Settled, NoneLeft,
       ConnectedHasChannel
<1>3. QED
    BY <1>1, <1>2, ConnectStep, SpecBasics, PTL DEF Spec

\* channel_ outlives its session only after a connect that failed when it had opened
\* its channel, until the next channel is opened or the client disconnects: no other
\* failure, hangup or order of calls can bring it about.
THEOREM ChannelHolds == Spec => [](failedLate \/ ChannelOfLiveSession)
<1>1. Init => ConnectKnown
    BY DEF Init, ConnectKnown, Settled, NoneLeft
<1>2. Basics /\ ConnectKnown => failedLate \/ ChannelOfLiveSession
    BY DEF Basics, MutexHeld, Held, ConnectKnown, Settled, NoneLeft, ChannelOfLiveSession
<1>3. QED
    BY <1>1, <1>2, ConnectStep, SpecBasics, PTL DEF Spec

-----------------------------------------------------------------------------
\* A queue q of requests, while the lock is lk: a lock, or a change, of a
\* locked_edit_config; no unlock between a and b; an unlock after a.
EditLock(r) == r.rpc = "lock" /\ r.edit
Change(r) == r.rpc \in {"edit", "commit"} /\ r.edit
NoUnlock(q, a, b) == \A k \in DOMAIN q : a < k /\ k < b => q[k].rpc # "unlock"
UnlockAfter(q, a) == \E k \in DOMAIN q : a < k /\ q[k].rpc = "unlock"

\* When the device comes to the i-th request it holds the lock, or has refused it.
Guarded(q, lk, i) ==
    \/ lk = "edit" /\ NoUnlock(q, 0, i)
    \/ \E j \in DOMAIN q : j < i /\ EditLock(q[j]) /\ NoUnlock(q, j, i)

\* When the device is through with the queue it does not hold the lock.
Released(q, lk) ==
    /\ lk = "edit" => UnlockAfter(q, 0)
    /\ \A j \in DOMAIN q : EditLock(q[j]) => UnlockAfter(q, j)

LEMMA AppendFacts ==
    ASSUME NEW q \in Seq(Request), NEW r \in Request
    PROVE  /\ Len(q) \in Nat /\ DOMAIN q = 1..Len(q)
           /\ Append(q, r) \in Seq(Request)
           /\ DOMAIN Append(q, r) = 1..(Len(q) + 1) /\ Len(Append(q, r)) = Len(q) + 1
           /\ \A k \in 1..Len(q) : Append(q, r)[k] = q[k]
           /\ Append(q, r)[Len(q) + 1] = r
    OBVIOUS

LEMMA TailFacts ==
    ASSUME NEW q \in Seq(Request), q # <<>>
    PROVE  /\ Len(q) \in Nat \ {0} /\ DOMAIN q = 1..Len(q) /\ Head(q) = q[1]
           /\ Tail(q) \in Seq(Request)
           /\ DOMAIN Tail(q) = 1..(Len(q) - 1) /\ Len(Tail(q)) = Len(q) - 1
           /\ \A k \in 1..(Len(q) - 1) : Tail(q)[k] = q[k + 1]
    OBVIOUS

\* A request more in the queue guards and leaves guarded what was.
LEMMA AppendGuards ==
    ASSUME NEW q \in Seq(Request), NEW r \in Request, NEW lk
    PROVE  /\ \A i \in 1..(Len(q) + 1) : Guarded(q, lk, i) => Guarded(Append(q, r), lk, i)
           /\ EditLock(r) \/ (r.rpc # "unlock" /\ Guarded(q, lk, Len(q) + 1)) =>
                Guarded(Append(q, r), lk, Len(q) + 2)
<1> DEFINE s == Append(q, r)
<1>1. /\ Len(q) \in Nat /\ DOMAIN q = 1..Len(q)
      /\ DOMAIN s = 1..(Len(q) + 1)
      /\ \A k \in 1..Len(q) : s[k] = q[k]
      /\ s[Len(q) + 1] = r
    BY AppendFacts
<1> HIDE DEF s
<1>2. ASSUME NEW i \in 1..(Len(q) + 1), Guarded(q, lk, i) PROVE Guarded(s, lk, i)
    BY <1>1, <1>2 DEF Guarded, NoUnlock
<1>3. ASSUME EditLock(r) PROVE Guarded(s, lk, Len(q) + 2)
    BY <1>1, <1>3 DEF Guarded, NoUnlock
<1>4. ASSUME r.rpc # "unlock", Guarded(q, lk, Len(q) + 1) PROVE Guarded(s, lk, Len(q) + 2)
    BY <1>1, <1>4 DEF Guarded, NoUnlock
<1>5. QED
    BY <1>2, <1>3, <1>4 DEF s

\* So does a request that is handled, with lk2 the lock after it.
LEMMA HandlingGuards ==
    ASSUME NEW q \in Seq(Request), q # <<>>, NEW lk, NEW lk2, NEW i \in 2..(Len(q) + 1),
           lk = "edit" /\ Head(q).rpc # "unlock" => lk2 = "edit",
           EditLock(Head(q)) => lk2 = "edit",
           Guarded(q, lk, i)
    PROVE  Guarded(Tail(q), lk2, i - 1)
<1> DEFINE s == Tail(q)
<1>1. /\ Len(q) \in Nat \ {0} /\ DOMAIN q = 1..Len(q) /\ Head(q) = q[1]
      /\ DOMAIN s = 1..(Len(q) - 1)
      /\ \A k \in 1..(Len(q) - 1) : s[k] = q[k + 1]
    BY TailFacts
<1> HIDE DEF s
<1>2. ASSUME NEW a \in Nat, NEW b \in Nat, NoUnlock(q, a, b), a > 0
      PROVE  NoUnlock(s, a - 1, b - 1)
  <2>1. SUFFICES ASSUME NEW k \in DOMAIN s, a - 1 < k, k < b - 1 PROVE s[k].rpc # "unlock"
        BY DEF NoUnlock
  <2>2. k + 1 \in DOMAIN q /\ a < k + 1 /\ k + 1 < b /\ s[k] = q[k + 1]
        BY <1>1, <2>1
  <2>3. QED
        BY <1>2, <2>2 DEF NoUnlock
<1>3. CASE lk = "edit" /\ NoUnlock(q, 0, i)
  <2>1. q[1].rpc # "unlock" /\ NoUnlock(q, 1, i)
        BY <1>1, <1>3 DEF NoUnlock
  <2>2. NoUnlock(s, 1 - 1, i - 1)
        BY <1>2, <2>1
  <2>3. NoUnlock(s, 0, i - 1)
        BY <2>2
  <2>4. lk2 = "edit"
        BY <1>1, <1>3, <2>1
  <2>5. QED
        BY <2>3, <2>4 DEF Guarded, s
<1>4. ASSUME NEW j \in DOMAIN q, j < i, EditLock(q[j]), NoUnlock(q, j, i)
      PROVE  Guarded(s, lk2, i - 1)
  <2>1. NoUnlock(s, j - 1, i - 1)
        BY <1>1, <1>2, <1>4
  <2>2. CASE j = 1
        BY <1>1, <1>4, <2>1, <2>2 DEF Guarded
  <2>3. CASE j > 1
    <3>1. j - 1 \in DOMAIN s /\ j - 1 < i - 1 /\ s[j - 1] = q[j]
          BY <1>1, <1>4, <2>3
    <3>2. QED
          BY <1>4, <2>1, <3>1 DEF Guarded
  <2>4. QED
        BY <1>1, <2>2, <2>3
<1>5. QED
    BY <1>3, <1>4 DEF Guarded, s

\* An unlock at the end releases whatever comes before it; what is not a lock of a
\* locked_edit_config asks for no release.
LEMMA AppendReleases ==
    ASSUME NEW q \in Seq(Request), NEW r \in Request, NEW lk,
           r.rpc = "unlock" \/ (Released(q, lk) /\ ~EditLock(r))
    PROVE  Released(Append(q, r), lk)
<1> DEFINE s == Append(q, r)
<1>1. /\ Len(q) \in Nat /\ DOMAIN q = 1..Len(q)
      /\ DOMAIN s = 1..(Len(q) + 1)
      /\ \A k \in 1..Len(q) : s[k] = q[k]
      /\ s[Len(q) + 1] = r
    BY AppendFacts
<1> HIDE DEF s
<1>2. CASE r.rpc = "unlock"
    BY <1>1, <1>2 DEF Released, UnlockAfter, EditLock
<1>3. CASE Released(q, lk) /\ ~EditLock(r)
    BY <1>1, <1>3 DEF Released, UnlockAfter, EditLock
<1>4. QED
    BY <1>2, <1>3 DEF s

LEMMA HandlingReleases ==
    ASSUME NEW q \in Seq(Request), q # <<>>, NEW lk, NEW lk2, Released(q, lk),
           lk2 = "edit" => EditLock(Head(q)) \/ (lk = "edit" /\ Head(q).rpc # "unlock")
    PROVE  Released(Tail(q), lk2)
<1> DEFINE s == Tail(q)
<1>1. /\ Len(q) \in Nat \ {0} /\ DOMAIN q = 1..Len(q) /\ Head(q) = q[1]
      /\ DOMAIN s = 1..(Len(q) - 1)
      /\ \A k \in 1..(Len(q) - 1) : s[k] = q[k + 1]
    BY TailFacts
<1> HIDE DEF s
<1>2. ASSUME NEW a \in Nat, UnlockAfter(q, a), a > 0 \/ Head(q).rpc # "unlock"
      PROVE  UnlockAfter(s, IF a > 0 THEN a - 1 ELSE 0)
  <2>1. PICK k \in DOMAIN q : a < k /\ q[k].rpc = "unlock"
        BY <1>2 DEF UnlockAfter
  <2>2. k > 1 /\ k - 1 \in DOMAIN s /\ s[k - 1] = q[k]
        BY <1>1, <1>2, <2>1
  <2>3. QED
        BY <1>1, <2>1, <2>2 DEF UnlockAfter
<1>3. lk2 = "edit" => UnlockAfter(s, 0)
  <2>1. CASE EditLock(Head(q))
        BY <1>1, <1>2, <2>1 DEF Released
  <2>2. CASE lk = "edit" /\ Head(q).rpc # "unlock"
        BY <1>2, <2>2 DEF Released
  <2>3. QED
        BY <2>1, <2>2
<1>4. ASSUME NEW j \in DOMAIN s, EditLock(s[j]) PROVE UnlockAfter(s, j)
  <2>1. j + 1 \in DOMAIN q /\ EditLock(q[j + 1]) /\ j + 1 \in Nat /\ j + 1 > 0 /\ (j + 1) - 1 = j
        BY <1>1, <1>4
  <2>2. QED
        BY <1>2, <2>1 DEF Released
<1>5. QED
    BY <1>3, <1>4 DEF Released, s

-----------------------------------------------------------------------------
\* A locked_edit_config that has locked and is not in its catch clause,
Guarding(c) ==
    /\ task[c].op \in LockedEdits /\ ~task[c].undo
    /\ \/ pc[c] = "send" /\ Head(task[c].todo) \in {"edit", "validate", "commit"}
       \/ pc[c] = "read" /\ Head(task[c].todo) # "unlock"

\* has what it asks for next guarded, as is every change in the queue, on a session
\* that was not refused a lock and had every request written whole.
Sound == ~denied /\ framing = "whole"

EditsGuarded ==
    /\ EditsUnderLock
    /\ Sound =>
         /\ \A i \in DOMAIN inbox : Change(inbox[i]) => Guarded(inbox, lock, i)
         /\ \A c \in Callers : Guarding(c) => ~up \/ Guarded(inbox, lock, Len(inbox) + 1)

\* A locked_edit_config that has not sent its unlock,
Locking(c) ==
    /\ pc[c] \in {"send", "read"} /\ task[c].op \in LockedEdits
    /\ pc[c] = "read" => Head(task[c].todo) # "unlock"

\* is all that can keep the datastore from being released.
LocksReleased ==
    framing = "whole" => Released(inbox, lock) \/ \E c \in Callers : Locking(c)

\* What a locked_edit_config is at while it holds the mutex.
LEMMA EditTask ==
    ASSUME Basics, NEW c \in Callers, pc[c] \in {"send", "read"}, task[c].op \in LockedEdits
    PROVE  /\ task[c].todo \in Rest /\ task[c].todo \in Plans /\ task[c].todo # <<>>
           /\ task[c].undo => Head(task[c].todo) = "unlock"
           /\ Head(task[c].todo) \in Rpc \ {"other"}
           /\ Len(task[c].todo) > 1 <=> Head(task[c].todo) # "unlock"
           /\ Len(task[c].todo) > 1 =>
                Tail(task[c].todo) \in Rest /\ Head(Tail(task[c].todo)) \in Rpc \ {"lock", "other"}
<1>1. TaskAt(task[c], pc[c])
    BY DEF Basics, TaskKnown
<1>2. <<"unlock">> \in Rest /\ Head(<<"unlock">>) = "unlock"
    BY DEF Rest
<1>3. /\ task[c].todo \in Rest /\ task[c].todo \in Plans /\ task[c].todo # <<>>
      /\ task[c].undo => task[c].todo = <<"unlock">>
    BY <1>1, <1>2 DEF TaskAt
<1>4. /\ Head(task[c].todo) \in Rpc \ {"other"}
      /\ Len(task[c].todo) \in Nat
      /\ Len(task[c].todo) > 1 <=> Head(task[c].todo) # "unlock"
    BY <1>3, PlanFacts
<1>5. ASSUME Len(task[c].todo) > 1
      PROVE  Tail(task[c].todo) \in Rest /\ Head(Tail(task[c].todo)) \in Rpc \ {"lock", "other"}
    BY <1>3, <1>5, PlanFacts, TailsUnlocked
<1>6. task[c].undo => Head(task[c].todo) = "unlock"
    BY <1>2, <1>3, Zenon
<1>7. QED
    BY <1>3, <1>4, <1>5, <1>6

\* Only the holder of the mutex sends and reads.
LEMMA Alone ==
    ASSUME Basics, NEW c \in Callers, NEW d \in Callers, pc[c] \in Held, pc[d] \in Held
    PROVE  c = d
    BY DEF Basics, MutexHeld

\* What the device does with a request.
LEMMA Handled ==
    ASSUME Basics, DeviceHandles
    PROVE  LET r == Head(inbox)
           IN  /\ inbox # <<>> /\ inbox \in Seq(Request) /\ inbox' = Tail(inbox) /\ r \in Request
               /\ EditLock(r) => lock' = "edit" \/ denied'
               /\ denied => denied'
               /\ lock = "edit" /\ r.rpc # "unlock" => lock' = "edit"
               /\ lock' = "edit" => EditLock(r) \/ (lock = "edit" /\ r.rpc # "unlock")
               /\ unguarded' => unguarded \/ (Change(r) /\ lock = "free")
               /\ UNCHANGED <<pc, task, up, framing>>
<1> DEFINE r == Head(inbox)
<1>1. inbox # <<>> /\ inbox \in Seq(Request) /\ inbox' = Tail(inbox) /\ r \in Request
      /\ UNCHANGED <<pc, task, up, framing>>
    BY DEF DeviceHandles, Basics, TypeOK
<1>2. denied => denied'
    BY DEF DeviceHandles
<1>3. EditLock(r) => lock' = "edit" \/ denied'
    BY DEF DeviceHandles, EditLock, Ours
<1>4. lock = "edit" /\ r.rpc # "unlock" => lock' = "edit"
    BY DEF DeviceHandles, Ours
<1>5. lock' = "edit" => EditLock(r) \/ (lock = "edit" /\ r.rpc # "unlock")
    BY DEF DeviceHandles, EditLock, Ours
<1>6. unguarded' => unguarded \/ (Change(r) /\ lock = "free")
    BY DEF DeviceHandles, Change
<1>7. QED
    BY <1>1, <1>2, <1>3, <1>4, <1>5, <1>6

-----------------------------------------------------------------------------
\* A step that leaves the queue alone, does not take the lock away, and after which
\* nobody guards that did not before.
LEMMA QuietGuards ==
    ASSUME EditsGuarded, UNCHANGED <<inbox, denied, unguarded, framing>>, lock = "edit" => lock' = "edit",
           \A c \in Callers : Guarding(c)' => ~up' \/ (up /\ Guarding(c))
    PROVE  EditsGuarded'
<1>1. \A i : Guarded(inbox, lock, i) => Guarded(inbox, lock', i)
    BY DEF Guarded
<1>2. EditsUnderLock'
    BY DEF EditsGuarded, EditsUnderLock
<1>3. ASSUME Sound'
      PROVE  /\ \A i \in DOMAIN inbox' : Change(inbox'[i]) => Guarded(inbox', lock', i)
             /\ \A c \in Callers : Guarding(c)' => ~up' \/ Guarded(inbox', lock', Len(inbox') + 1)
    BY <1>1, <1>3 DEF EditsGuarded, Sound
<1>4. QED
    BY <1>2, <1>3 DEF EditsGuarded

\* A step that breaks the connection.
LEMMA BrokenGuards ==
    ASSUME EditsGuarded, inbox' = <<>>, ~up',
           UNCHANGED <<denied, unguarded, framing>> \/ ~unguarded'
    PROVE  EditsGuarded'
    BY DEF EditsGuarded, EditsUnderLock

LEMMA SendGuards ==
    ASSUME Basics, EditsGuarded, NEW c \in Callers, Send(c)
    PROVE  EditsGuarded'
<1> DEFINE r == [id |-> sent + 1, rpc |-> Head(task[c].todo), edit |-> task[c].op \in LockedEdits]
<1>0. CASE framing' # "whole"
    BY <1>0 DEF EditsGuarded, EditsUnderLock, Sound
<1> SUFFICES ASSUME framing' = "whole" PROVE EditsGuarded'
    BY <1>0
<1>1. /\ pc[c] = "send" /\ UNCHANGED <<up, lock, denied, unguarded, framing>>
      /\ task' = [task EXCEPT ![c].asked = sent + 1] /\ pc' = [pc EXCEPT ![c] = "read"]
      /\ inbox' = IF up THEN Append(inbox, r) ELSE inbox
    BY DEF Send, Asked, Basics, TypeOK
<1>2. inbox \in Seq(Request) /\ r \in Request
  <2>1. task[c].todo \in Plans /\ task[c].todo # <<>> /\ sent \in Nat /\ inbox \in Seq(Request)
        BY <1>1 DEF Basics, TypeOK, TaskKnown, TaskAt
  <2>2. QED
        BY <2>1, PlanFacts DEF Request
<1>3. /\ r.rpc = Head(task[c].todo) /\ r.edit = (task[c].op \in LockedEdits)
      /\ task'[c].todo = task[c].todo /\ task'[c].op = task[c].op /\ task'[c].undo = task[c].undo
    BY <1>1 DEF Basics, TaskKnown, Task
<1> HIDE DEF r
<1>4. \A d \in Callers : Guarding(d)' => d = c
    BY <1>1, Alone DEF Guarding, Held, Basics, TypeOK
<1>5. Change(r) => Guarding(c)
    BY <1>1, <1>3, EditTask DEF Change, Guarding
<1>6. Guarding(c)' => EditLock(r) \/ (r.rpc # "unlock" /\ Guarding(c))
    BY <1>1, <1>3, EditTask DEF EditLock, Guarding, Rpc
<1>7. CASE ~up
    BY <1>1, <1>7, BrokenGuards DEF Basics, LinkKnown
<1>8. CASE up /\ ~denied
  <2>1. inbox' = Append(inbox, r) /\ up'
        BY <1>1, <1>8
  <2>2. \A k \in DOMAIN inbox : Change(inbox[k]) => Guarded(inbox, lock, k)
        BY <1>1, <1>8 DEF EditsGuarded, Sound
  <2>3. Guarding(c) => Guarded(inbox, lock, Len(inbox) + 1)
        BY <1>1, <1>8 DEF EditsGuarded, Sound
  <2>4. /\ Len(inbox) \in Nat /\ DOMAIN inbox = 1..Len(inbox)
        /\ DOMAIN inbox' = 1..(Len(inbox) + 1) /\ Len(inbox') = Len(inbox) + 1
        /\ \A k \in 1..Len(inbox) : inbox'[k] = inbox[k]
        /\ inbox'[Len(inbox) + 1] = r
        BY <1>2, <2>1, AppendFacts
  <2>5. /\ \A k \in 1..(Len(inbox) + 1) : Guarded(inbox, lock, k) => Guarded(inbox', lock, k)
        /\ EditLock(r) \/ (r.rpc # "unlock" /\ Guarded(inbox, lock, Len(inbox) + 1)) =>
             Guarded(inbox', lock, Len(inbox) + 2)
        BY <1>2, <2>1, AppendGuards
  <2>6. ASSUME NEW k \in DOMAIN inbox', Change(inbox'[k]) PROVE Guarded(inbox', lock', k)
        BY <1>1, <1>5, <2>2, <2>3, <2>4, <2>5, <2>6
  <2>7. ASSUME NEW d \in Callers, Guarding(d)' PROVE Guarded(inbox', lock', Len(inbox') + 1)
    <3>1. Guarded(inbox', lock, Len(inbox) + 2)
          BY <1>4, <1>6, <2>3, <2>5, <2>7
    <3>2. Len(inbox') + 1 = Len(inbox) + 2
          BY <2>4
    <3>3. QED
          BY <1>1, <3>1, <3>2
  <2>8. QED
        BY <1>1, <2>6, <2>7 DEF EditsGuarded, EditsUnderLock
<1>9. CASE denied
    BY <1>1, <1>9 DEF EditsGuarded, EditsUnderLock, Sound
<1>10. QED
    BY <1>7, <1>8, <1>9

LEMMA HandlingIsGuarded ==
    ASSUME Basics, EditsGuarded, DeviceHandles
    PROVE  EditsGuarded'
<1> DEFINE r == Head(inbox)
<1>1. /\ inbox # <<>> /\ inbox \in Seq(Request) /\ inbox' = Tail(inbox) /\ r \in Request
      /\ EditLock(r) => lock' = "edit" \/ denied'
      /\ denied => denied'
      /\ lock = "edit" /\ r.rpc # "unlock" => lock' = "edit"
      /\ unguarded' => unguarded \/ (Change(r) /\ lock = "free")
      /\ UNCHANGED <<pc, task, up, framing>>
    BY Handled
<1>2. /\ Len(inbox) \in Nat \ {0} /\ DOMAIN inbox = 1..Len(inbox) /\ r = inbox[1]
      /\ DOMAIN inbox' = 1..(Len(inbox) - 1) /\ Len(inbox') = Len(inbox) - 1
      /\ \A k \in 1..(Len(inbox) - 1) : inbox'[k] = inbox[k + 1]
    BY <1>1, TailFacts
<1> HIDE DEF r
<1>3. Sound => ~(Change(r) /\ lock = "free")
  <2>1. ASSUME Sound, Change(r) PROVE Guarded(inbox, lock, 1)
        BY <1>2, <2>1 DEF EditsGuarded
  <2>2. Guarded(inbox, lock, 1) => lock = "edit"
        BY <1>2 DEF Guarded
  <2>3. QED
        BY <2>1, <2>2
<1>4. EditsUnderLock'
    BY <1>1, <1>3 DEF EditsGuarded, EditsUnderLock, Sound
<1>5. ASSUME Sound'
      PROVE  /\ \A k \in DOMAIN inbox' : Change(inbox'[k]) => Guarded(inbox', lock', k)
             /\ \A c \in Callers : Guarding(c)' => ~up' \/ Guarded(inbox', lock', Len(inbox') + 1)
  <2>1. /\ \A i \in DOMAIN inbox : Change(inbox[i]) => Guarded(inbox, lock, i)
        /\ \A c \in Callers : Guarding(c) => ~up \/ Guarded(inbox, lock, Len(inbox) + 1)
        BY <1>1, <1>5 DEF EditsGuarded, Sound
  <2>2. ASSUME NEW k \in 1..Len(inbox), Guarded(inbox, lock, k + 1)
        PROVE  Guarded(inbox', lock', k)
    <3>1. k + 1 \in 2..(Len(inbox) + 1) /\ (k + 1) - 1 = k
          BY <1>2
    <3>2. Guarded(Tail(inbox), lock', (k + 1) - 1)
          BY <1>1, <1>5, <2>2, <3>1, HandlingGuards DEF r, Sound
    <3>3. QED
          BY <1>1, <3>1, <3>2
  <2>3. ASSUME NEW k \in DOMAIN inbox', Change(inbox'[k]) PROVE Guarded(inbox', lock', k)
    <3>1. k \in 1..Len(inbox) /\ k + 1 \in DOMAIN inbox /\ inbox'[k] = inbox[k + 1]
          BY <1>2
    <3>2. QED
          BY <2>1, <2>2, <2>3, <3>1
  <2>4. ASSUME NEW c \in Callers, Guarding(c)' PROVE ~up' \/ Guarded(inbox', lock', Len(inbox') + 1)
    <3>1. Guarding(c)
          BY <1>1, <2>4 DEF Guarding
    <3>2. CASE up
      <4>1. Guarded(inbox, lock, Len(inbox) + 1)
            BY <2>1, <3>1, <3>2
      <4>2. Len(inbox) \in 1..Len(inbox) /\ Len(inbox') + 1 = Len(inbox)
            BY <1>2
      <4>3. QED
            BY <2>2, <4>1, <4>2
    <3>3. QED
          BY <1>1, <3>2
  <2>5. QED
        BY <2>3, <2>4
<1>6. QED
    BY <1>4, <1>5 DEF EditsGuarded

\* A call that ends, or goes to its catch clause, no longer guards anything.
LEMMA ThrowsUnguards ==
    ASSUME Basics, NEW c \in Callers, Throws(c)
    PROVE  /\ ~Guarding(c)'
           /\ \A d \in Callers : d # c => pc'[d] = pc[d] /\ task'[d] = task[d]
<1>1. task \in [Callers -> Task] /\ DOMAIN pc = Callers
    BY DEF Basics, TypeOK
<1>2. CASE task[c].op \in LockedEdits /\ ~task[c].undo
  <2>1. /\ task' = [task EXCEPT ![c].undo = TRUE, ![c].todo = <<"unlock">>]
        /\ pc' = [pc EXCEPT ![c] = "send"]
        BY <1>2 DEF Throws
  <2>2. task'[c].undo
        BY <1>1, <2>1 DEF Task
  <2>3. QED
        BY <1>1, <2>1, <2>2 DEF Guarding
<1>3. CASE ~(task[c].op \in LockedEdits /\ ~task[c].undo)
    BY <1>1, <1>3 DEF Throws, Return, Guarding
<1>4. QED
    BY <1>2, <1>3

\* A locked_edit_config begins with its lock.
LEMMA LockFirst ==
    ASSUME NEW o \in LockedEdits
    PROVE  Head(Requests(o)) = "lock"
<1>1. o \in AllOps /\ FromLock \subseteq Rest /\ Rest \subseteq Plans
    BY DEF LockedEdits, AllOps, Rest, Plans
<1>2. Requests(o) \in FromLock
    BY <1>1, RequestsKnown
<1>3. Requests(o) # <<>>
    BY <1>2 DEF FromLock
<1>4. QED
    BY <1>1, <1>2, <1>3, PlanFacts

LEMMA GuardStep == Basics /\ EditsGuarded /\ [Next]_vars => EditsGuarded'
<1> SUFFICES ASSUME Basics /\ EditsGuarded, [Next]_vars PROVE EditsGuarded'
    OBVIOUS
<1> USE RpcAssumption DEF Basics, TypeOK, MutexHeld, Held, Guarding, flagVars, objectVars,
        linkVars, sessionVars, boundVars
<1>1. ASSUME NEW c \in Callers, Call(c) PROVE EditsGuarded'
    BY <1>1, QuietGuards DEF Call
<1>2. ASSUME NEW c \in Callers, Test(c) PROVE EditsGuarded'
    BY <1>2, QuietGuards DEF Test
<1>3. ASSUME NEW c \in Callers, Acquire(c) PROVE EditsGuarded'
  <2>1. TaskAt(task[c], "mutex")
        BY <1>3 DEF Acquire, TaskKnown
  <2>2. task[c].op \in LockedEdits => Head(task[c].todo) = "lock"
        BY <2>1, LockFirst DEF TaskAt
  <2>3. QED
        BY <1>3, <2>2, QuietGuards DEF Acquire
<1>4. ASSUME NEW c \in Callers, ConnectRefused(c) PROVE EditsGuarded'
    BY <1>4, QuietGuards DEF ConnectRefused, Return
<1>5. ASSUME NEW c \in Callers, ConnectSession(c) PROVE EditsGuarded'
    BY <1>5, BrokenGuards DEF ConnectSession, CloseLink
<1>6. ASSUME NEW c \in Callers, ConnectChannel(c) PROVE EditsGuarded'
    BY <1>6, QuietGuards DEF ConnectChannel
<1>7. ASSUME NEW c \in Callers, ConnectHello(c) PROVE EditsGuarded'
    BY <1>7, QuietGuards DEF ConnectHello, Return
<1>8. ASSUME NEW c \in Callers, ConnectFails(c) PROVE EditsGuarded'
    BY <1>8, QuietGuards DEF ConnectFails, Return
<1>9. ASSUME NEW c \in Callers, Disconnect(c) PROVE EditsGuarded'
    BY <1>9, BrokenGuards DEF Disconnect, CloseLink
<1>10. ASSUME NEW c \in Callers, DisconnectFlags(c) PROVE EditsGuarded'
    BY <1>10, QuietGuards DEF DisconnectFlags, Return
<1>11. ASSUME NEW c \in Callers, SendThrows(c) PROVE EditsGuarded'
  <2>1. Throws(c) /\ UNCHANGED <<inbox, lock, up, denied, unguarded, framing>>
        BY <1>11 DEF SendThrows
  <2>2. QED
        BY <2>1, ThrowsUnguards, QuietGuards
<1>12. ASSUME NEW c \in Callers, Send(c) PROVE EditsGuarded'
    BY <1>12, SendGuards
<1>13. ASSUME NEW c \in Callers, ReadReply(c) PROVE EditsGuarded'
  <2>1. /\ pc[c] = "read" /\ UNCHANGED <<inbox, lock, up, denied, unguarded, framing>> /\ Proceed(c)
        BY <1>13 DEF ReadReply
  <2>2. Guarding(c)' => Guarding(c)
    <3>1. CASE Len(task[c].todo) > 1
      <4>1. task' = [task EXCEPT ![c].todo = Tail(@)] /\ pc' = [pc EXCEPT ![c] = "send"]
            BY <2>1, <3>1 DEF Proceed
      <4>2. task'[c].op = task[c].op /\ task'[c].undo = task[c].undo
            BY <4>1 DEF Task
      <4>3. task[c].op \in LockedEdits => Head(task[c].todo) # "unlock"
            BY <2>1, <3>1, EditTask
      <4>4. QED
            BY <2>1, <4>1, <4>2, <4>3
    <3>2. CASE ~(Len(task[c].todo) > 1)
          BY <2>1, <3>2 DEF Proceed, Return
    <3>3. QED
          BY <3>1, <3>2
  <2>3. \A d \in Callers : d # c => pc'[d] = pc[d] /\ task'[d] = task[d]
        BY <2>1 DEF Proceed, Return
  <2>4. QED
        BY <2>1, <2>2, <2>3, QuietGuards
<1>14. ASSUME NEW c \in Callers, ReadThrows(c) PROVE EditsGuarded'
  <2>1. Throws(c) /\ UNCHANGED <<inbox, lock, up, denied, unguarded, framing>>
        BY <1>14 DEF ReadThrows
  <2>2. QED
        BY <2>1, ThrowsUnguards, QuietGuards
<1>15. CASE DeviceHandles
    BY <1>15, HandlingIsGuarded
<1>16. CASE LinkDown
    BY <1>16, BrokenGuards DEF LinkDown
<1>17. CASE OtherLocks
    BY <1>17, QuietGuards DEF OtherLocks
<1>18. CASE DeviceTurns
    BY <1>18, QuietGuards DEF DeviceTurns
<1>19. CASE UNCHANGED vars
    BY <1>19, QuietGuards DEF vars
<1>20. QED
    BY <1>1, <1>2, <1>3, <1>4, <1>5, <1>6, <1>7, <1>8, <1>9, <1>10,
       <1>11, <1>12, <1>13, <1>14, <1>15, <1>16, <1>17, <1>18, <1>19
       DEF Next, Running, Device


\* The edit and the commit of a locked_edit_config are applied under its lock,
\* whatever is lost, late or left in the queue by a call that has timed out, unless
\* the device refused the lock (which locked_edit_config does not notice).
THEOREM EditsHold == Spec => []EditsUnderLock
<1>1. Init => EditsGuarded
    BY DEF Init, EditsGuarded, EditsUnderLock, Guarding, NoTask, LockedEdits
<1>2. EditsGuarded => EditsUnderLock
    BY DEF EditsGuarded
<1>3. QED
    BY <1>1, <1>2, GuardStep, SpecBasics, PTL DEF Spec

-----------------------------------------------------------------------------
\* A step that leaves the queue and our lock alone and ends no locked_edit_config.
LEMMA QuietReleases ==
    ASSUME LocksReleased, UNCHANGED <<inbox, framing>>, lock' = "edit" => lock = "edit",
           \A c \in Callers : Locking(c) => Locking(c)'
    PROVE  LocksReleased'
    BY DEF LocksReleased, Released

LEMMA KeepsReleased ==
    ASSUME Released(inbox, lock), UNCHANGED <<inbox, lock>>
    PROVE  LocksReleased'
    BY DEF LocksReleased

\* A broken connection has released everything.
LEMMA BrokenReleases ==
    ASSUME inbox' = <<>>, lock' \notin Ours
    PROVE  LocksReleased'
    BY DEF LocksReleased, Released, Ours

\* A holder of the mutex that is not locking finds everything released.
LEMMA ReleasedAlone ==
    ASSUME Basics, LocksReleased, framing = "whole", NEW c \in Callers, pc[c] \in Held, ~Locking(c)
    PROVE  Released(inbox, lock)
    BY Alone DEF LocksReleased, Locking, Held

LEMMA SendReleases ==
    ASSUME Basics, LocksReleased, NEW c \in Callers, Send(c)
    PROVE  LocksReleased'
<1> DEFINE r == [id |-> sent + 1, rpc |-> Head(task[c].todo), edit |-> task[c].op \in LockedEdits]
<1> SUFFICES ASSUME framing' = "whole" PROVE LocksReleased'
    BY DEF LocksReleased
<1>1. /\ pc[c] = "send" /\ UNCHANGED <<up, lock, framing>>
      /\ task' = [task EXCEPT ![c].asked = sent + 1] /\ pc' = [pc EXCEPT ![c] = "read"]
      /\ inbox' = IF up THEN Append(inbox, r) ELSE inbox
    BY DEF Send, Asked, Basics, TypeOK
<1>2. inbox \in Seq(Request) /\ r \in Request
  <2>1. task[c].todo \in Plans /\ task[c].todo # <<>> /\ sent \in Nat /\ inbox \in Seq(Request)
        BY <1>1 DEF Basics, TypeOK, TaskKnown, TaskAt
  <2>2. QED
        BY <2>1, PlanFacts DEF Request
<1>3. /\ r.rpc = Head(task[c].todo) /\ r.edit = (task[c].op \in LockedEdits)
      /\ task'[c].todo = task[c].todo /\ task'[c].op = task[c].op
    BY <1>1 DEF Basics, TaskKnown, Task
<1> HIDE DEF r
<1>4. CASE task[c].op \in LockedEdits /\ r.rpc # "unlock"
  <2>1. Locking(c)'
        BY <1>1, <1>3, <1>4 DEF Locking, Basics, TypeOK
  <2>2. QED
        BY <2>1 DEF LocksReleased
<1>5. CASE ~up
    BY <1>1, <1>5, BrokenReleases DEF Basics, LinkKnown
<1>6. CASE up /\ r.rpc = "unlock"
    BY <1>1, <1>2, <1>6, AppendReleases DEF LocksReleased
<1>7. CASE up /\ task[c].op \notin LockedEdits
  <2>1. ~EditLock(r) /\ ~Locking(c)
        BY <1>3, <1>7 DEF EditLock, Locking
  <2>2. Released(inbox, lock)
        BY <1>1, <2>1, ReleasedAlone DEF Held
  <2>3. QED
        BY <1>1, <1>2, <1>7, <2>1, <2>2, AppendReleases DEF LocksReleased
<1>8. QED
    BY <1>4, <1>5, <1>6, <1>7

LEMMA ReleaseStep == Basics /\ LocksReleased /\ [Next]_vars => LocksReleased'
<1> SUFFICES ASSUME Basics /\ LocksReleased, [Next]_vars PROVE LocksReleased'
    OBVIOUS
<1> USE RpcAssumption DEF Basics, TypeOK, MutexHeld, Held, Locking, flagVars, objectVars,
        linkVars, sessionVars, boundVars
<1>1. ASSUME NEW c \in Callers, Call(c) PROVE LocksReleased'
    BY <1>1, QuietReleases DEF Call
<1>2. ASSUME NEW c \in Callers, Test(c) PROVE LocksReleased'
    BY <1>2, QuietReleases DEF Test
<1>3. ASSUME NEW c \in Callers, Acquire(c) PROVE LocksReleased'
    BY <1>3, QuietReleases DEF Acquire
<1>4. ASSUME NEW c \in Callers, ConnectRefused(c) PROVE LocksReleased'
    BY <1>4, QuietReleases DEF ConnectRefused, Return
<1>5. ASSUME NEW c \in Callers, ConnectSession(c) PROVE LocksReleased'
    BY <1>5, BrokenReleases DEF ConnectSession, CloseLink, Ours
<1>6. ASSUME NEW c \in Callers, ConnectChannel(c) PROVE LocksReleased'
    BY <1>6, QuietReleases DEF ConnectChannel
<1>7. ASSUME NEW c \in Callers, ConnectHello(c) PROVE LocksReleased'
    BY <1>7, QuietReleases DEF ConnectHello, Return
<1>8. ASSUME NEW c \in Callers, ConnectFails(c) PROVE LocksReleased'
    BY <1>8, QuietReleases DEF ConnectFails, Return
<1>9. ASSUME NEW c \in Callers, Disconnect(c) PROVE LocksReleased'
    BY <1>9, BrokenReleases DEF Disconnect, CloseLink, Ours
<1>10. ASSUME NEW c \in Callers, DisconnectFlags(c) PROVE LocksReleased'
    BY <1>10, QuietReleases DEF DisconnectFlags, Return
<1>11. ASSUME NEW c \in Callers, SendThrows(c) PROVE LocksReleased'
  <2>1. inbox' = <<>> /\ lock' \notin Ours
        BY <1>11 DEF SendThrows, LinkKnown
  <2>2. QED
        BY <2>1, BrokenReleases
<1>12. ASSUME NEW c \in Callers, Send(c) PROVE LocksReleased'
    BY <1>12, SendReleases
<1>13. ASSUME NEW c \in Callers, ReadReply(c) PROVE LocksReleased'
  <2>1. pc[c] = "read" /\ UNCHANGED <<inbox, lock, framing>> /\ Proceed(c)
        BY <1>13 DEF ReadReply
  <2>2. CASE Locking(c)
    <3>1. Len(task[c].todo) > 1
          BY <2>1, <2>2, EditTask
    <3>2. task' = [task EXCEPT ![c].todo = Tail(@)] /\ pc' = [pc EXCEPT ![c] = "send"]
          BY <2>1, <3>1 DEF Proceed
    <3>3. Locking(c)'
          BY <2>2, <3>2 DEF Task
    <3>4. QED
          BY <3>3 DEF LocksReleased
  <2>3. CASE ~Locking(c)
        BY <2>1, <2>3, ReleasedAlone, KeepsReleased DEF LocksReleased
  <2>4. QED
        BY <2>2, <2>3
<1>14. ASSUME NEW c \in Callers, ReadThrows(c) PROVE LocksReleased'
  <2>1. pc[c] = "read" /\ UNCHANGED <<inbox, lock, framing>> /\ Throws(c)
        BY <1>14 DEF ReadThrows
  <2>2. CASE Locking(c)
    <3>1. ~task[c].undo
          BY <2>1, <2>2, EditTask
    <3>2. /\ task' = [task EXCEPT ![c].undo = TRUE, ![c].todo = <<"unlock">>]
          /\ pc' = [pc EXCEPT ![c] = "send"]
          BY <2>1, <2>2, <3>1 DEF Throws
    <3>3. Locking(c)'
          BY <2>2, <3>2 DEF Task
    <3>4. QED
          BY <3>3 DEF LocksReleased
  <2>3. CASE ~Locking(c)
        BY <2>1, <2>3, ReleasedAlone, KeepsReleased DEF LocksReleased
  <2>4. QED
        BY <2>2, <2>3
<1>15. CASE DeviceHandles
  <2>1. CASE Released(inbox, lock)
    <3>1. Released(Tail(inbox), lock')
          BY <1>15, <2>1, Handled, HandlingReleases
    <3>2. QED
          BY <1>15, <3>1, Handled DEF LocksReleased
  <2>2. CASE ~Released(inbox, lock)
        BY <1>15, <2>2 DEF DeviceHandles, LocksReleased
  <2>3. QED
        BY <2>1, <2>2
<1>16. CASE LinkDown
    BY <1>16, BrokenReleases DEF LinkDown, Ours
<1>17. CASE OtherLocks
    BY <1>17, QuietReleases DEF OtherLocks
<1>18. CASE DeviceTurns
    BY <1>18, QuietReleases DEF DeviceTurns
<1>19. CASE UNCHANGED vars
    BY <1>19, QuietReleases DEF vars
<1>20. QED
    BY <1>1, <1>2, <1>3, <1>4, <1>5, <1>6, <1>7, <1>8, <1>9, <1>10,
       <1>11, <1>12, <1>13, <1>14, <1>15, <1>16, <1>17, <1>18, <1>19
       DEF Next, Running, Device


\* The lock of a locked_edit_config is held only while the call runs or its unlock
\* is with the device: on every path, whatever fails, an unlock follows the lock or
\* the connection is gone.
THEOREM LocksHold == Spec => []LockReleased
<1>1. Init => LocksReleased
    BY DEF Init, LocksReleased, Released
<1>2. Basics /\ LocksReleased => LockReleased
    BY DEF Basics, MutexHeld, Held, LocksReleased, Released, UnlockAfter, Locking, LockReleased
<1>3. QED
    BY <1>1, <1>2, ReleaseStep, SpecBasics, PTL DEF Spec
=============================================================================
