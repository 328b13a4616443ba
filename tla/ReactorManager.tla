--------------------------- MODULE ReactorManager ---------------------------
(***************************************************************************)
(* NotificationReactorManager and its NotificationReactors: which reactor  *)
(* thread watches which notification socket, and for whom, while clients   *)
(* subscribe and unsubscribe, devices hang up, the kernel gives closed     *)
(* descriptors out again, and set_reactor_count() replaces every reactor.  *)
(*                                                                         *)
(* add() and remove() hold mtx_ throughout and wait for nothing: one step  *)
(* each, enabled while mtx_ is free.  set_reactor_count() holds mtx_ while *)
(* it joins the reactor threads, so its parts are steps.  A reactor's own  *)
(* _mtx only makes its add(), remove() and lookup atomic.                  *)
(*                                                                         *)
(* What a client does with its bytes is in NotificationStream.  Here each  *)
(* client is driven by one thread at a time, and outlives the run.         *)
(***************************************************************************)
EXTENDS Integers, FiniteSets

CONSTANTS
    Clients,
    Nobody,       \* no client
    Fds,          \* descriptor numbers the kernel gives to sockets, finitely many
    MaxReactors,  \* bound: the largest reactor count asked for
    MaxOpens,     \* bound: how many notification sessions are opened
    MaxRefused,   \* bound: how many subscription attempts fail
    MaxDeletes,   \* bound: how many times delete_subscription() is called
    MaxResizes    \* bound: how many times set_reactor_count() is called

ASSUME ManagerAssumption ==
    /\ Nobody \notin Clients
    /\ Fds \subseteq Nat \ {0} /\ IsFiniteSet(Fds)
    /\ MaxReactors \in Nat \ {0}
    /\ {MaxOpens, MaxRefused, MaxDeletes, MaxResizes} \subseteq Nat

Reactors == 1..MaxReactors

VARIABLES
    nsock,      \* notif_socket_ of each client, 0 when reset
    connected,  \* notif_is_connected_ of each client
    hup,        \* the sockets whose device has closed the connection
    cpc,        \* where each client's caller is
    cfd,        \* the descriptor delete_notification_session() read
    count,      \* reactors_.size()
    epoll,      \* the epoll set of each reactor
    handlers,   \* _handlers of each reactor, by descriptor
    running,    \* _running of each reactor
    rpc,        \* where each reactor thread is
    rev,        \* the event each reactor thread is at: descriptor, hangup, client
    fdReactor,  \* fd_to_reactor_, 0 when absent
    fdClient,   \* fd_to_client_, Nobody when absent
    counts,     \* device_counts_
    apc,        \* where set_reactor_count() is; it holds mtx_ unless it is idle
    want,       \* new_count
    all,        \* the registrations it carries over
    joining,    \* the reactor it is destroying
    used        \* how often each bounded operation was called

clientVars  == <<nsock, connected, hup, cpc, cfd>>
reactorVars == <<count, epoll, handlers, running, rpc, rev>>
mapVars     == <<fdReactor, fdClient, counts>>
adminVars   == <<apc, want, all, joining>>
vars == <<clientVars, reactorVars, mapVars, adminVars, used>>

NoEvent == [fd |-> 0, hup |-> FALSE, client |-> Nobody]
NoHandlers == [f \in Fds |-> Nobody]

Init ==
    /\ nsock = [c \in Clients |-> 0] /\ connected = [c \in Clients |-> FALSE]
    /\ hup = {}
    /\ cpc = [c \in Clients |-> "idle"] /\ cfd = [c \in Clients |-> 0]
    /\ count = 0
    /\ epoll = [r \in Reactors |-> {}] /\ handlers = [r \in Reactors |-> NoHandlers]
    /\ running = [r \in Reactors |-> FALSE]
    /\ rpc = [r \in Reactors |-> "exited"] /\ rev = [r \in Reactors |-> NoEvent]
    /\ fdReactor = [f \in Fds |-> 0] /\ fdClient = NoHandlers
    /\ counts = [r \in Reactors |-> 0]
    /\ apc = "idle" /\ want = 0 /\ all = {} /\ joining = 0
    /\ used = [opens |-> 0, refused |-> 0, deletes |-> 0, resizes |-> 0]

MtxFree == apc = "idle"
Open == {nsock[c] : c \in Clients} \ {0}

-----------------------------------------------------------------------------
(***************************************************************************)
(* Operations that others are made of                                      *)
(***************************************************************************)
\* min_element(device_counts_): the first of the least loaded of n reactors.
LeastLoaded(cs, n) ==
    CHOOSE r \in 1..n : /\ \A s \in 1..n : cs[r] <= cs[s]
                        /\ \A s \in 1..(r - 1) : cs[s] > cs[r]

\* mark_notification_dead, of which only the socket matters here; the kernel
\* takes a closed descriptor out of every epoll set.
MarkDead(c) ==
    /\ nsock' = [nsock EXCEPT ![c] = 0]
    /\ connected' = [connected EXCEPT ![c] = FALSE]
    /\ hup' = hup \ {nsock[c]}
    /\ epoll' = [r \in Reactors |-> epoll[r] \ {nsock[c]}]

\* NotificationReactorManager::remove that leaves device_counts_ alone.
RemoveUncounted(f) ==
    LET r == fdReactor[f]
    IN  IF r = 0 THEN UNCHANGED <<epoll, handlers, mapVars>>
        ELSE /\ epoll' = [epoll EXCEPT ![r] = @ \ {f}]
             /\ handlers' = [handlers EXCEPT ![r][f] = Nobody]
             /\ fdReactor' = [fdReactor EXCEPT ![f] = 0]
             /\ fdClient' = [fdClient EXCEPT ![f] = Nobody]
             /\ UNCHANGED counts

\* NotificationReactorManager::remove that leaves the reactor alone.
RemoveMapOnly(f) ==
    /\ fdReactor' = [fdReactor EXCEPT ![f] = 0]
    /\ fdClient' = [fdClient EXCEPT ![f] = Nobody]
    /\ counts' = IF fdReactor[f] = 0 THEN counts ELSE [counts EXCEPT ![fdReactor[f]] = @ - 1]
    /\ UNCHANGED <<epoll, handlers>>

\* NotificationReactorManager::remove, with NotificationReactor::remove in it.
Remove(f) ==
    LET r == fdReactor[f]
    IN  IF r = 0 THEN UNCHANGED <<epoll, handlers, mapVars>>
        ELSE /\ epoll' = [epoll EXCEPT ![r] = @ \ {f}]
             /\ handlers' = [handlers EXCEPT ![r][f] = Nobody]
             /\ fdReactor' = [fdReactor EXCEPT ![f] = 0]
             /\ fdClient' = [fdClient EXCEPT ![f] = Nobody]
             /\ counts' = [counts EXCEPT ![r] = IF @ > 0 THEN @ - 1 ELSE 0]

Count(op, max) == used[op] < max /\ used' = [used EXCEPT ![op] = @ + 1]

-----------------------------------------------------------------------------
(***************************************************************************)
(* A client: subscribe_non_blocking, delete_notification_session           *)
(***************************************************************************)
\* connect_notification_non_blocking: a socket with a free descriptor.
SubOpen(c) ==
    /\ cpc[c] = "idle" /\ ~connected[c]
    /\ \E f \in Fds \ Open : nsock' = [nsock EXCEPT ![c] = f]
    /\ Count("opens", MaxOpens)
    /\ epoll' = [r \in Reactors |-> epoll[r] \ {nsock[c]}]
    /\ hup' = hup \ {nsock[c]}
    /\ cpc' = [cpc EXCEPT ![c] = "add"]
    /\ UNCHANGED <<connected, cfd, count, handlers, running, rpc, rev, mapVars, adminVars>>

\* A subscription attempt that throws before it registers: there is a session
\* already, or the device does not answer, before or after the socket is open.
SubRefused(c) ==
    /\ cpc[c] \in {"idle", "add"}
    /\ Count("refused", MaxRefused)
    /\ cpc' = [cpc EXCEPT ![c] = "dead"]
    /\ UNCHANGED <<nsock, connected, hup, cfd, reactorVars, mapVars, adminVars>>

\* An add() that does not look at the descriptor.
SubAddUnchecked(c) ==
    /\ cpc[c] = "add" /\ MtxFree /\ count > 0
    /\ LET best == LeastLoaded(counts, count)
       IN  /\ epoll' = [epoll EXCEPT ![best] = @ \cup {nsock[c]}]
           /\ counts' = [counts EXCEPT ![best] = @ + 1]
           /\ IF nsock[c] = 0 THEN UNCHANGED <<handlers, fdReactor, fdClient>>
              ELSE /\ handlers' = [handlers EXCEPT ![best][nsock[c]] = c]
                   /\ fdReactor' = [fdReactor EXCEPT ![nsock[c]] = best]
                   /\ fdClient' = [fdClient EXCEPT ![nsock[c]] = c]
    /\ cpc' = [cpc EXCEPT ![c] = "mark"]
    /\ UNCHANGED <<nsock, connected, hup, cfd, count, running, rpc, rev, adminVars, used>>

\* An add() that registers with every reactor.
SubAddEverywhere(c) ==
    /\ cpc[c] = "add" /\ MtxFree /\ count > 0 /\ nsock[c] # 0
    /\ epoll' = [r \in Reactors |-> IF r <= count THEN epoll[r] \cup {nsock[c]} ELSE epoll[r]]
    /\ handlers' = [r \in Reactors |-> [handlers[r] EXCEPT ![nsock[c]] = c]]
    /\ fdReactor' = [fdReactor EXCEPT ![nsock[c]] = 1]
    /\ fdClient' = [fdClient EXCEPT ![nsock[c]] = c]
    /\ counts' = [counts EXCEPT ![1] = @ + 1]
    /\ cpc' = [cpc EXCEPT ![c] = "mark"]
    /\ UNCHANGED <<nsock, connected, hup, cfd, count, running, rpc, rev, adminVars, used>>

\* NotificationReactorManager::add, with NotificationReactor::add in it: the
\* first registration starts a reactor; a descriptor that is invalid, or in the
\* epoll set already, makes it throw after that.
SubAdd(c) ==
    /\ cpc[c] = "add" /\ MtxFree
    /\ LET n == IF count = 0 THEN 1 ELSE count
           best == LeastLoaded(counts, n)
           f == nsock[c]
       IN  /\ count' = n
           /\ running' = IF count = 0 THEN [running EXCEPT ![1] = TRUE] ELSE running
           /\ rpc' = IF count = 0 THEN [rpc EXCEPT ![1] = "epoll"] ELSE rpc
           /\ \/ /\ f = 0 \/ f \in epoll[best]
                 /\ cpc' = [cpc EXCEPT ![c] = "dead"]
                 /\ UNCHANGED <<epoll, handlers, mapVars>>
              \/ /\ f # 0 /\ f \notin epoll[best]
                 /\ epoll' = [epoll EXCEPT ![best] = @ \cup {f}]
                 /\ handlers' = [handlers EXCEPT ![best][f] = c]
                 /\ fdReactor' = [fdReactor EXCEPT ![f] = best]
                 /\ fdClient' = [fdClient EXCEPT ![f] = c]
                 /\ counts' = [counts EXCEPT ![best] = @ + 1]
                 /\ cpc' = [cpc EXCEPT ![c] = "mark"]
    /\ UNCHANGED <<nsock, connected, hup, cfd, rev, adminVars, used>>

SubMark(c) ==
    /\ cpc[c] = "mark"
    /\ connected' = [connected EXCEPT ![c] = TRUE]
    /\ cpc' = [cpc EXCEPT ![c] = "idle"]
    /\ UNCHANGED <<nsock, hup, cfd, reactorVars, mapVars, adminVars, used>>

\* delete_notification_session: the descriptor is read under notif_mutex_,
DelRead(c) ==
    /\ cpc[c] = "idle"
    /\ Count("deletes", MaxDeletes)
    /\ cfd' = [cfd EXCEPT ![c] = nsock[c]]
    /\ cpc' = [cpc EXCEPT ![c] = IF nsock[c] # 0 THEN "remove" ELSE "dead"]
    /\ UNCHANGED <<nsock, connected, hup, reactorVars, mapVars, adminVars>>

\* and removed later, whoever has it by then.
DelRemove(c) ==
    /\ cpc[c] = "remove" /\ MtxFree
    /\ Remove(cfd[c])
    /\ cpc' = [cpc EXCEPT ![c] = "dead"]
    /\ UNCHANGED <<nsock, connected, hup, cfd, count, running, rpc, rev, adminVars, used>>

\* mark_notification_dead, from either.
Dead(c) ==
    /\ cpc[c] = "dead"
    /\ MarkDead(c)
    /\ cpc' = [cpc EXCEPT ![c] = "idle"]
    /\ UNCHANGED <<cfd, count, handlers, running, rpc, rev, mapVars, adminVars, used>>

\* A device closes its connection.
DeviceClose(f) ==
    /\ f \in Open \ hup
    /\ hup' = hup \cup {f}
    /\ UNCHANGED <<nsock, connected, cpc, cfd, reactorVars, mapVars, adminVars, used>>

-----------------------------------------------------------------------------
(***************************************************************************)
(* A reactor thread: NotificationReactor::loop                             *)
(***************************************************************************)
\* epoll_wait returns a descriptor, readable or hung up, unless ~_running.
EpollWait(r) ==
    /\ rpc[r] = "epoll" /\ running[r]
    /\ \E f \in epoll[r] : rev' = [rev EXCEPT ![r] = [fd |-> f, hup |-> f \in hup,
                                                      client |-> Nobody]]
    /\ rpc' = [rpc EXCEPT ![r] = "event"]
    /\ UNCHANGED <<clientVars, count, epoll, handlers, running, mapVars, adminVars, used>>

\* The loop ends.
Exit(r) ==
    /\ rpc[r] = "epoll" /\ ~running[r]
    /\ rpc' = [rpc EXCEPT ![r] = "exited"]
    /\ UNCHANGED <<clientVars, count, epoll, handlers, running, rev, mapVars, adminVars, used>>

\* The handler is looked up and its client held.
Lookup(r) ==
    /\ rpc[r] = "event"
    /\ LET c == handlers[r][rev[r].fd]
       IN  /\ rev' = [rev EXCEPT ![r].client = c]
           /\ rpc' = [rpc EXCEPT ![r] = CASE c = Nobody                   -> "epoll"
                                          [] c # Nobody /\ rev[r].hup     -> "cleanup"
                                          [] c # Nobody /\ ~rev[r].hup    -> "ready"]
    /\ UNCHANGED <<clientVars, count, epoll, handlers, running, mapVars, adminVars, used>>

\* on_notification_ready: it throws when the client's socket is another one by
\* now, and may throw when the device has closed it.
Ready(r) ==
    /\ rpc[r] = "ready"
    /\ LET c == rev[r].client
           f == rev[r].fd
       IN  \/ /\ nsock[c] = f
              /\ rpc' = [rpc EXCEPT ![r] = "epoll"]
           \/ /\ nsock[c] # f \/ f \in hup
              /\ rpc' = [rpc EXCEPT ![r] = "cleanup"]
    /\ UNCHANGED <<clientVars, count, epoll, handlers, running, rev, mapVars, adminVars, used>>

\* cleanup_dead_fd: the manager's remove, which needs mtx_,
CleanupRemove(r) ==
    /\ rpc[r] = "cleanup" /\ MtxFree
    /\ Remove(rev[r].fd)
    /\ rpc' = [rpc EXCEPT ![r] = "own"]
    /\ UNCHANGED <<clientVars, count, running, rev, adminVars, used>>

\* the reactor's own,
CleanupOwn(r) ==
    /\ rpc[r] = "own"
    /\ epoll' = [epoll EXCEPT ![r] = @ \ {rev[r].fd}]
    /\ handlers' = [handlers EXCEPT ![r][rev[r].fd] = Nobody]
    /\ rpc' = [rpc EXCEPT ![r] = "dead"]
    /\ UNCHANGED <<clientVars, count, running, rev, mapVars, adminVars, used>>

\* and mark_notification_dead, which closes the client's current socket.
CleanupDead(r) ==
    /\ rpc[r] = "dead"
    /\ MarkDead(rev[r].client)
    /\ rpc' = [rpc EXCEPT ![r] = "epoll"]
    /\ UNCHANGED <<cpc, cfd, count, handlers, running, rev, mapVars, adminVars, used>>

-----------------------------------------------------------------------------
(***************************************************************************)
(* set_reactor_count (and init, which computes a count and calls it)       *)
(***************************************************************************)
\* mtx_ is taken; every descriptor is removed from its reactor and remembered,
\* and the maps are cleared.  (A count of zero throws before that.)
ResizeStart ==
    /\ apc = "idle"
    /\ Count("resizes", MaxResizes)
    /\ want' \in Reactors
    /\ all' = {<<f, fdClient[f]>> : f \in {g \in Fds : fdClient[g] # Nobody}}
    /\ epoll' = [r \in Reactors |-> {f \in epoll[r] : fdReactor[f] # r}]
    /\ handlers' = [r \in Reactors |->
                      [f \in Fds |-> IF fdReactor[f] = r THEN Nobody ELSE handlers[r][f]]]
    /\ fdReactor' = [f \in Fds |-> 0] /\ fdClient' = NoHandlers
    /\ apc' = "stop" /\ joining' = 1
    /\ UNCHANGED <<clientVars, count, running, rpc, rev, counts>>

\* reactors_.clear(): each destructor clears _running
ResizeStop ==
    /\ apc = "stop" /\ joining <= count
    /\ running' = [running EXCEPT ![joining] = FALSE]
    /\ apc' = "join"
    /\ UNCHANGED <<clientVars, count, epoll, handlers, rpc, rev, mapVars, want, all, joining, used>>

\* and waits for the thread.
ResizeJoin ==
    /\ apc = "join" /\ rpc[joining] = "exited"
    /\ epoll' = [epoll EXCEPT ![joining] = {}]
    /\ handlers' = [handlers EXCEPT ![joining] = NoHandlers]
    /\ apc' = "stop" /\ joining' = joining + 1
    /\ UNCHANGED <<clientVars, count, running, rpc, rev, mapVars, want, all, used>>

\* new_count fresh reactors.
ResizeCreate ==
    /\ apc = "stop" /\ joining > count
    /\ count' = want
    /\ counts' = [r \in Reactors |-> 0]
    /\ running' = [r \in Reactors |-> r <= want]
    /\ rpc' = [r \in Reactors |-> IF r <= want THEN "epoll" ELSE "exited"]
    /\ apc' = "add"
    /\ UNCHANGED <<clientVars, epoll, handlers, rev, fdReactor, fdClient, want, all, joining, used>>

\* A registration is carried over, in any order; a descriptor that was closed
\* meanwhile makes epoll_ctl fail, and the exception leaves the rest out.
ResizeAdd ==
    /\ apc = "add"
    /\ \E e \in all :
         LET f == e[1]
             best == LeastLoaded(counts, count)
         IN  \/ /\ f \in Open
                /\ epoll' = [epoll EXCEPT ![best] = @ \cup {f}]
                /\ handlers' = [handlers EXCEPT ![best][f] = e[2]]
                /\ fdReactor' = [fdReactor EXCEPT ![f] = best]
                /\ fdClient' = [fdClient EXCEPT ![f] = e[2]]
                /\ counts' = [counts EXCEPT ![best] = @ + 1]
                /\ all' = all \ {e}
                /\ UNCHANGED apc
             \/ /\ f \notin Open
                /\ all' = {} /\ apc' = "idle"
                /\ UNCHANGED <<epoll, handlers, mapVars>>
    /\ UNCHANGED <<clientVars, count, running, rpc, rev, want, joining, used>>

\* A resize that may return before everything is registered.
ResizeDoneEarly ==
    /\ apc = "add"
    /\ apc' = "idle"
    /\ UNCHANGED <<clientVars, reactorVars, mapVars, want, all, joining, used>>

\* Everything is registered: mtx_ is released.
ResizeDone ==
    /\ apc = "add" /\ all = {}
    /\ apc' = "idle"
    /\ UNCHANGED <<clientVars, reactorVars, mapVars, want, all, joining, used>>

-----------------------------------------------------------------------------
Client(c) == \/ SubOpen(c) \/ SubRefused(c) \/ SubAdd(c) \/ SubMark(c)
             \/ DelRead(c) \/ DelRemove(c) \/ Dead(c)

Reactor(r) == \/ EpollWait(r) \/ Exit(r) \/ Lookup(r) \/ Ready(r)
              \/ CleanupRemove(r) \/ CleanupOwn(r) \/ CleanupDead(r)

Resizing == \/ ResizeStop \/ ResizeJoin \/ ResizeCreate \/ ResizeAdd \/ ResizeDone

Next ==
    \/ \E c \in Clients : Client(c)
    \/ \E f \in Fds : DeviceClose(f)
    \/ \E r \in Reactors : Reactor(r)
    \/ ResizeStart \/ Resizing

Spec == Init /\ [][Next]_vars

\* Threads run: a reactor, a resize that has begun.
FairSpec ==
    /\ Spec
    /\ \A r \in Reactors : WF_vars(Reactor(r))
    /\ WF_vars(Resizing)

-----------------------------------------------------------------------------
(***************************************************************************)
(* Properties                                                              *)
(***************************************************************************)
\* Every variable stays in its type.
TypeOK ==
    /\ nsock \in [Clients -> Fds \cup {0}] /\ connected \in [Clients -> BOOLEAN]
    /\ hup \subseteq Fds
    /\ cpc \in [Clients -> {"idle", "add", "mark", "remove", "dead"}]
    /\ cfd \in [Clients -> Fds \cup {0}]
    /\ count \in 0..MaxReactors
    /\ epoll \in [Reactors -> SUBSET Fds]
    /\ handlers \in [Reactors -> [Fds -> Clients \cup {Nobody}]]
    /\ running \in [Reactors -> BOOLEAN]
    /\ rpc \in [Reactors -> {"epoll", "event", "ready", "cleanup", "own", "dead", "exited"}]
    /\ rev \in [Reactors -> [fd : Fds \cup {0}, hup : BOOLEAN, client : Clients \cup {Nobody}]]
    /\ fdReactor \in [Fds -> 0..MaxReactors] /\ fdClient \in [Fds -> Clients \cup {Nobody}]
    /\ counts \in [Reactors -> Nat]
    /\ apc \in {"idle", "stop", "join", "add"}
    /\ want \in 0..MaxReactors /\ all \subseteq Fds \X Clients
    /\ joining \in 0..(MaxReactors + 1)
    /\ used \in [{"opens", "refused", "deletes", "resizes"} -> Nat]

\* No subscription is deleted and no attempt to subscribe fails: either may
\* leave the registration of a closed descriptor behind,
Kept == used.deletes = 0 /\ used.refused = 0

\* which a resize carries over to whoever has the descriptor by then.
NothingCarriedOver == Kept \/ used.resizes = 0

\* A socket is watched by one reactor thread at most: two would run
\* on_notification_ready() for one client at the same time.
OneReactorPerFd ==
    NothingCarriedOver =>
        \A f \in Fds : Cardinality({r \in Reactors : f \in epoll[r]}) <= 1

\* Whatever a reactor watches is in the manager's maps under that reactor and
\* has a handler, so remove() and a resize find it: no socket is watched that
\* nobody can unregister.
WatchedIsTracked ==
    MtxFree /\ NothingCarriedOver =>
        \A r \in Reactors : \A f \in epoll[r] :
            fdReactor[f] = r /\ fdClient[f] = handlers[r][f] /\ handlers[r][f] # Nobody

\* device_counts_, which the balancing goes by, is the number of descriptors
\* each reactor is registered for.
CountsExact ==
    MtxFree /\ Kept =>
        \A r \in Reactors :
            r <= count => counts[r] = Cardinality({f \in Fds : fdReactor[f] = r})

CleaningUp(c) == \E r \in Reactors : rpc[r] \in {"own", "dead"} /\ rev[r].client = c

\* The socket of an active subscription is watched, for its own client: its
\* notifications will be read.
ActiveIsWatched ==
    MtxFree => \A c \in Clients :
        cpc[c] = "idle" /\ connected[c] /\ nsock[c] # 0 /\ ~CleaningUp(c) =>
            \E r \in Reactors : nsock[c] \in epoll[r] /\ handlers[r][nsock[c]] = c

\* The same across hangups, reused descriptors and resizes.
KeptIsWatched == Kept => ActiveIsWatched

\* set_reactor_count() returns.
ResizeCompletes == (apc # "idle") ~> (apc = "idle")
=============================================================================
