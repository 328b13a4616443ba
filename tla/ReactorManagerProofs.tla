------------------------ MODULE ReactorManagerProofs ------------------------
(***************************************************************************)
(* Theorems about ReactorManager, for any clients, descriptors, reactors   *)
(* and bounds.                                                             *)
(*                                                                         *)
(* IInv has two layers.  Types, threads and sockets hold always, and what  *)
(* a reactor watches is tracked while nothing can be carried over.  Under  *)
(* Kept (nothing deleted, no attempt refused) the maps, the list of a      *)
(* resize and the reactors at work all speak of the sockets as they are:   *)
(* KeptParts.  There is one lemma per action for it, since each action     *)
(* disturbs several of its parts; RegisterEffect and RemoveEffect say once *)
(* what the two operations do to the nested tables.                        *)
(***************************************************************************)
EXTENDS ReactorManager, FiniteSetTheorems, WellFoundedInduction, TLAPS

\* A reactor thread holds a client.
Busy(r) == rpc[r] \in {"ready", "cleanup", "own", "dead"}

\* Where the threads are, beyond their types.
Threads ==
    /\ \A r \in Reactors :
         /\ rpc[r] \notin {"epoll", "exited"} => rev[r].fd \in Fds
         /\ Busy(r) => rev[r].client \in Clients
         /\ r > count => rpc[r] = "exited"
    /\ \A c \in Clients : cpc[c] = "remove" => cfd[c] \in Fds
    /\ apc = "idle" => all = {}
    /\ apc \in {"stop", "join"} => \A f \in Fds : fdReactor[f] = 0
    /\ apc # "idle" => want \in Reactors
    /\ apc \in {"stop", "join"} =>
         /\ joining \in 1..(count + 1)
         /\ \A r \in Reactors : r < joining => rpc[r] = "exited"
    /\ apc = "join" => joining <= count
    /\ apc = "add" => count > 0
    /\ used.resizes = 0 => apc = "idle"

\* Two clients have two sockets, and the kernel watches only open ones.
Sockets ==
    /\ \A c, d \in Clients : nsock[c] = nsock[d] /\ nsock[c] # 0 => c = d
    /\ \A r \in Reactors : epoll[r] \subseteq Open
    /\ \A f \in Fds : fdReactor[f] = 0 <=> fdClient[f] = Nobody

\* What a reactor watches is in the maps under its own name.
Tracked ==
    NothingCarriedOver =>
        \A r \in Reactors : \A f \in epoll[r] :
            fdReactor[f] = r /\ fdClient[f] = handlers[r][f] /\ handlers[r][f] # Nobody

\* A socket that was never registered is not watched.
Fresh ==
    used.resizes = 0 =>
        \A c \in Clients : cpc[c] = "add" => \A r \in Reactors : nsock[c] \notin epoll[r]

\* Registered, or connected.
Active(c) == cpc[c] = "mark" \/ (cpc[c] = "idle" /\ connected[c])

\* A caller subscribes or is idle; it comes to add() with a socket.
Callers ==
    \A c \in Clients :
        cpc[c] \in {"idle", "add", "mark"} /\ (cpc[c] = "add" => nsock[c] # 0)

\* The maps, a resize's list and the reactors' tables speak of sockets as they are.
InMaps ==
    \A f \in Fds : fdReactor[f] # 0 =>
        /\ nsock[fdClient[f]] = f /\ Active(fdClient[f])
        /\ f \in epoll[fdReactor[f]] /\ handlers[fdReactor[f]][f] = fdClient[f]
InList ==
    \A f \in Fds, c \in Clients : <<f, c>> \in all =>
        nsock[c] = f /\ Active(c) /\ fdReactor[f] = 0
InTables ==
    \A r \in Reactors, f \in Fds : handlers[r][f] # Nobody =>
        fdReactor[f] = r /\ fdClient[f] = handlers[r][f]
Maps == InMaps /\ InList /\ InTables

\* A reactor is at work on a socket that it watches, or that a resize has taken
\* from it; or it is done with it.  No two are at work for one client.
Before(r) ==
    rpc[r] \in {"ready", "cleanup"} =>
        \/ fdReactor[rev[r].fd] = r /\ fdClient[rev[r].fd] = rev[r].client
        \/ apc \in {"stop", "join"} /\ <<rev[r].fd, rev[r].client>> \in all
After(r) ==
    rpc[r] \in {"own", "dead"} =>
        /\ nsock[rev[r].client] = rev[r].fd /\ Active(rev[r].client)
        /\ fdReactor[rev[r].fd] = 0 /\ <<rev[r].fd, rev[r].client>> \notin all
Alone ==
    \A r, s \in Reactors :
        Busy(r) /\ Busy(s) /\ rev[r].client = rev[s].client => r = s
Work == Alone /\ \A r \in Reactors : Before(r) /\ After(r)

\* An active client's socket is registered, carried over or cleaned up.
NoneForgotten ==
    \A c \in Clients : Active(c) /\ nsock[c] # 0 =>
        fdClient[nsock[c]] = c \/ <<nsock[c], c>> \in all \/ CleaningUp(c)

\* device_counts_ counts.
Counted ==
    apc \in {"idle", "add"} =>
        \A r \in Reactors : counts[r] = Cardinality({f \in Fds : fdReactor[f] = r})

KeptParts == Callers /\ Maps /\ Work /\ NoneForgotten /\ Counted

IInv ==
    /\ TypeOK /\ Threads /\ Sockets /\ Tracked /\ Fresh
    /\ Kept => KeptParts

-----------------------------------------------------------------------------
\* A set of natural numbers has a least element.
LEMMA LeastElement ==
    ASSUME NEW S, S \subseteq Nat, S # {}
    PROVE  \E m \in S : \A n \in S : m <= n
<1> DEFINE below == {p \in Nat \X Nat : p[1] < p[2]}
<1>1. IsWellFoundedOn(below, Nat)
    BY NatLessThanWellFounded DEF OpToRel
<1>2. PICK m \in S : \A n \in S : <<n, m>> \notin below
  <2> HIDE DEF below
  <2> QED
    BY <1>1, WFMin
<1>3. ASSUME NEW n \in S PROVE m <= n
  <2>1. n \in Nat /\ m \in Nat
    OBVIOUS
  <2>2. n < m => <<n, m>> \in below
    BY <2>1
  <2>3. QED
    BY <1>2, <2>1, <2>2
<1>4. QED
    BY <1>3

\* min_element() finds one of the n reactors.
LEMMA LeastLoadedIsOne ==
    ASSUME NEW cs \in [Reactors -> Nat], NEW n \in Reactors
    PROVE  LeastLoaded(cs, n) \in 1..n /\ LeastLoaded(cs, n) \in Reactors
<1>0. 1..n \subseteq Reactors /\ 1 \in 1..n
    BY ManagerAssumption DEF Reactors
<1> DEFINE loads == {cs[r] : r \in 1..n}
<1>1. loads \subseteq Nat /\ loads # {}
    BY <1>0
<1>2. PICK m \in loads : \A k \in loads : m <= k
    BY <1>1, LeastElement
<1> DEFINE least == {r \in 1..n : cs[r] = m}
<1>3. least \subseteq Nat /\ least # {}
    BY <1>2
<1>4. PICK b \in least : \A s \in least : b <= s
    BY <1>3, LeastElement
<1>5. b \in 1..n /\ cs[b] = m
    BY <1>4
<1>6. \A s \in 1..n : cs[b] <= cs[s]
    BY <1>2, <1>5
<1>7. \A s \in 1..(b - 1) : cs[s] > cs[b]
  <2> SUFFICES ASSUME NEW s \in 1..(b - 1) PROVE cs[s] > cs[b]
    OBVIOUS
  <2>1. s \in 1..n /\ ~(b <= s)
    BY <1>5, ManagerAssumption DEF Reactors
  <2>2. cs[s] # m
    BY <1>4, <2>1
  <2>3. cs[s] \in Nat /\ m \in Nat /\ m <= cs[s]
    BY <1>0, <1>1, <1>2, <2>1
  <2>4. QED
    BY <1>5, <2>2, <2>3
<1>8. QED
    BY <1>0, <1>5, <1>6, <1>7 DEF LeastLoaded

-----------------------------------------------------------------------------
(***************************************************************************)
(* What the steps that change a nested function do, point by point         *)
(***************************************************************************)
\* _handlers of every reactor.
HandlerTables == [Reactors -> [Fds -> Clients \cup {Nobody}]]

Tables ==
    /\ epoll \in [Reactors -> SUBSET Fds] /\ handlers \in HandlerTables
    /\ fdReactor \in [Fds -> 0..MaxReactors] /\ fdClient \in [Fds -> Clients \cup {Nobody}]
    /\ counts \in [Reactors -> Nat]

\* What the types say of the maps and the reactors' tables.
LEMMA TablesKnown ==
    ASSUME TypeOK
    PROVE  Tables
BY DEF TypeOK, Tables, HandlerTables

\* add(): descriptor f of client c at reactor b.
Register(b, f, c) ==
    /\ epoll' = [epoll EXCEPT ![b] = @ \cup {f}]
    /\ handlers' = [handlers EXCEPT ![b][f] = c]
    /\ fdReactor' = [fdReactor EXCEPT ![f] = b]
    /\ fdClient' = [fdClient EXCEPT ![f] = c]
    /\ counts' = [counts EXCEPT ![b] = @ + 1]

\* add(), seen at each reactor and each descriptor.
LEMMA RegisterEffect ==
    ASSUME Tables, NEW b \in Reactors, NEW f \in Fds, NEW c \in Clients, Register(b, f, c)
    PROVE  /\ Tables'
           /\ \A r \in Reactors : epoll'[r] = IF r = b THEN epoll[r] \cup {f} ELSE epoll[r]
           /\ \A r \in Reactors, g \in Fds :
                  handlers'[r][g] = IF r = b /\ g = f THEN c ELSE handlers[r][g]
           /\ \A g \in Fds : fdReactor'[g] = IF g = f THEN b ELSE fdReactor[g]
           /\ \A g \in Fds : fdClient'[g] = IF g = f THEN c ELSE fdClient[g]
           /\ \A r \in Reactors : counts'[r] = IF r = b THEN counts[r] + 1 ELSE counts[r]
<1> USE DEF Tables, Register
<1>1. /\ handlers' \in HandlerTables
      /\ \A r \in Reactors, g \in Fds :
             handlers'[r][g] = IF r = b /\ g = f THEN c ELSE handlers[r][g]
  <2> DEFINE h == [handlers[b] EXCEPT ![f] = c]
  <2>1. h \in [Fds -> Clients \cup {Nobody}] /\ \A g \in Fds : h[g] = IF g = f THEN c ELSE handlers[b][g]
    BY DEF HandlerTables
  <2>2. handlers' = [handlers EXCEPT ![b] = h]
    OBVIOUS
  <2> HIDE DEF h
  <2>3. handlers' \in HandlerTables /\ \A r \in Reactors : handlers'[r] = IF r = b THEN h ELSE handlers[r]
    BY <2>1, <2>2 DEF HandlerTables
  <2> HIDE DEF Tables, Register
  <2>4. QED
    BY <2>1, <2>3
<1>2. /\ epoll' \in [Reactors -> SUBSET Fds]
      /\ \A r \in Reactors : epoll'[r] = IF r = b THEN epoll[r] \cup {f} ELSE epoll[r]
    OBVIOUS
<1>3. /\ fdReactor' \in [Fds -> 0..MaxReactors]
      /\ \A g \in Fds : fdReactor'[g] = IF g = f THEN b ELSE fdReactor[g]
    BY ManagerAssumption DEF Reactors
<1>4. /\ fdClient' \in [Fds -> Clients \cup {Nobody}]
      /\ \A g \in Fds : fdClient'[g] = IF g = f THEN c ELSE fdClient[g]
    OBVIOUS
<1>5. /\ counts' \in [Reactors -> Nat]
      /\ \A r \in Reactors : counts'[r] = IF r = b THEN counts[r] + 1 ELSE counts[r]
    OBVIOUS
<1>6. QED
    BY <1>1, <1>2, <1>3, <1>4, <1>5

\* remove(), seen likewise: nothing, or everything that add() did is undone.
LEMMA RemoveEffect ==
    ASSUME Tables, NEW f \in Fds, Remove(f)
    PROVE  LET b == fdReactor[f]
           IN  /\ Tables'
               /\ b = 0 => UNCHANGED <<epoll, handlers, fdReactor, fdClient, counts>>
               /\ b # 0 =>
                    /\ b \in Reactors
                    /\ \A r \in Reactors : epoll'[r] = IF r = b THEN epoll[r] \ {f} ELSE epoll[r]
                    /\ \A r \in Reactors, g \in Fds :
                           handlers'[r][g] = IF r = b /\ g = f THEN Nobody ELSE handlers[r][g]
                    /\ \A g \in Fds : fdReactor'[g] = IF g = f THEN 0 ELSE fdReactor[g]
                    /\ \A g \in Fds : fdClient'[g] = IF g = f THEN Nobody ELSE fdClient[g]
                    /\ \A r \in Reactors :
                          counts'[r] = IF r = b /\ counts[r] > 0 THEN counts[r] - 1 ELSE counts[r]
<1> DEFINE b == fdReactor[f]
<1>1. CASE b = 0
    BY <1>1 DEF Remove, mapVars, Tables
<1>2. CASE b # 0
  <2>1. b \in Reactors
    BY <1>2, ManagerAssumption DEF Tables, Reactors
  <2>2. /\ epoll' = [epoll EXCEPT ![b] = @ \ {f}]
        /\ handlers' = [handlers EXCEPT ![b][f] = Nobody]
        /\ fdReactor' = [fdReactor EXCEPT ![f] = 0]
        /\ fdClient' = [fdClient EXCEPT ![f] = Nobody]
        /\ counts' = [counts EXCEPT ![b] = IF @ > 0 THEN @ - 1 ELSE 0]
    BY <1>2 DEF Remove
  <2> HIDE DEF b
  <2>3. /\ handlers' \in HandlerTables
        /\ \A r \in Reactors, g \in Fds :
               handlers'[r][g] = IF r = b /\ g = f THEN Nobody ELSE handlers[r][g]
    <3> DEFINE h == [handlers[b] EXCEPT ![f] = Nobody]
    <3>1. h \in [Fds -> Clients \cup {Nobody}] /\ \A g \in Fds : h[g] = IF g = f THEN Nobody ELSE handlers[b][g]
      BY <2>1 DEF HandlerTables, Tables
    <3>2. handlers' = [handlers EXCEPT ![b] = h]
      BY <2>2
    <3> HIDE DEF h
    <3>3. handlers' \in HandlerTables /\ \A r \in Reactors : handlers'[r] = IF r = b THEN h ELSE handlers[r]
      BY <2>1, <3>1, <3>2 DEF HandlerTables, Tables
    <3>4. QED
      BY <2>1, <3>1, <3>3
  <2>4. /\ epoll' \in [Reactors -> SUBSET Fds]
        /\ \A r \in Reactors : epoll'[r] = IF r = b THEN epoll[r] \ {f} ELSE epoll[r]
    BY <2>1, <2>2 DEF Tables
  <2>5. /\ fdReactor' \in [Fds -> 0..MaxReactors]
        /\ \A g \in Fds : fdReactor'[g] = IF g = f THEN 0 ELSE fdReactor[g]
    BY <2>2, ManagerAssumption DEF Tables
  <2>6. /\ fdClient' \in [Fds -> Clients \cup {Nobody}]
        /\ \A g \in Fds : fdClient'[g] = IF g = f THEN Nobody ELSE fdClient[g]
    BY <2>2 DEF Tables
  <2>7. /\ counts' \in [Reactors -> Nat]
        /\ \A r \in Reactors :
              counts'[r] = IF r = b /\ counts[r] > 0 THEN counts[r] - 1 ELSE counts[r]
    BY <2>1, <2>2 DEF Tables
  <2>8. QED
    BY <1>2, <2>1, <2>3, <2>4, <2>5, <2>6, <2>7 DEF Tables, b
<1>3. QED
    BY <1>1, <1>2

\* add() makes nobody watch anything else,
LEMMA RegisterGrows ==
    ASSUME Tables, NEW b \in Reactors, NEW f \in Fds, NEW c \in Clients, Register(b, f, c)
    PROVE  \A r \in Reactors : epoll'[r] \subseteq epoll[r] \cup {f}
BY DEF Tables, Register

\* and after remove() nobody watches anything new.
LEMMA RemoveShrinks ==
    ASSUME Tables, NEW f \in Fds, Remove(f)
    PROVE  \A r \in Reactors : epoll'[r] \subseteq epoll[r]
<1>1. CASE fdReactor[f] = 0
    BY <1>1, RemoveEffect
<1>2. CASE fdReactor[f] # 0
    BY <1>2, RemoveEffect
<1>3. QED
    BY <1>1, <1>2

\* A reactor takes the client that its table has for the descriptor.
LEMMA LookupEffect ==
    ASSUME TypeOK, Threads, NEW r \in Reactors, Lookup(r)
    PROVE  LET c == handlers[r][rev[r].fd]
           IN  /\ rev' \in [Reactors -> [fd : Fds \cup {0}, hup : BOOLEAN, client : Clients \cup {Nobody}]]
               /\ \A s \in Reactors : rev'[s].fd = rev[s].fd
                                      /\ rev'[s].client = IF s = r THEN c ELSE rev[s].client
               /\ rpc' \in [Reactors -> {"epoll", "event", "ready", "cleanup", "own", "dead", "exited"}]
               /\ \A s \in Reactors \ {r} : rpc'[s] = rpc[s]
               /\ rpc'[r] \in IF c = Nobody THEN {"epoll"} ELSE {"ready", "cleanup"}
               /\ rev[r].fd \in Fds /\ c \in Clients \cup {Nobody}
<1> DEFINE Revs == [fd : Fds \cup {0}, hup : BOOLEAN, client : Clients \cup {Nobody}]
           c == handlers[r][rev[r].fd]
           e == [rev[r] EXCEPT !.client = c]
<1>1. rev[r].fd \in Fds /\ rev[r] \in Revs
    BY DEF Lookup, Threads, TypeOK
<1>2. c \in Clients \cup {Nobody}
    BY <1>1 DEF TypeOK
<1> HIDE DEF c
<1>3. e \in Revs /\ e.fd = rev[r].fd /\ e.client = c /\ rev[r].hup \in BOOLEAN
    BY <1>1, <1>2
<1>4. rev' = [rev EXCEPT ![r] = e]
    BY DEF Lookup, c
<1> HIDE DEF e
<1>5. rev' \in [Reactors -> Revs] /\ \A s \in Reactors : rev'[s] = IF s = r THEN e ELSE rev[s]
    BY <1>3, <1>4 DEF TypeOK
<1>6. \E p \in IF c = Nobody THEN {"epoll"} ELSE {"ready", "cleanup"} : rpc' = [rpc EXCEPT ![r] = p]
    BY <1>3 DEF Lookup, c
<1>7. QED
    BY <1>1, <1>2, <1>3, <1>5, <1>6 DEF TypeOK, c

\* add() registers with one reactor, or throws.
LEMMA SubAddEffect ==
    ASSUME TypeOK, NEW c \in Clients, SubAdd(c)
    PROVE  \/ \E b \in Reactors :
                /\ nsock[c] \in Fds /\ Register(b, nsock[c], c)
                /\ cpc' = [cpc EXCEPT ![c] = "mark"]
           \/ /\ nsock[c] = 0 \/ \E b \in Reactors : nsock[c] \in epoll[b]
              /\ cpc' = [cpc EXCEPT ![c] = "dead"]
              /\ UNCHANGED <<epoll, handlers, mapVars>>
<1> DEFINE n == IF count = 0 THEN 1 ELSE count
           best == LeastLoaded(counts, n)
<1>1. n \in Reactors
    BY ManagerAssumption DEF TypeOK, Reactors
<1>2. best \in Reactors
    BY <1>1, LeastLoadedIsOne DEF TypeOK
<1>3. \/ /\ nsock[c] # 0 /\ Register(best, nsock[c], c)
         /\ cpc' = [cpc EXCEPT ![c] = "mark"]
      \/ /\ nsock[c] = 0 \/ nsock[c] \in epoll[best]
         /\ cpc' = [cpc EXCEPT ![c] = "dead"]
         /\ UNCHANGED <<epoll, handlers, mapVars>>
    BY DEF SubAdd, Register
<1>4. nsock[c] \in Fds \cup {0}
    BY DEF TypeOK
<1> HIDE DEF best
<1>5. QED
    BY <1>2, <1>3, <1>4

\* A resize registers one of the sockets it remembers, or finds it closed and
\* throws, which leaves the rest out.
LEMMA ResizeAddEffect ==
    ASSUME TypeOK, Threads, ResizeAdd
    PROVE  \E f \in Fds, c \in Clients :
             /\ <<f, c>> \in all
             /\ \/ /\ \E b \in Reactors : Register(b, f, c)
                   /\ f \in Open /\ all' = all \ {<<f, c>>} /\ UNCHANGED apc
                \/ /\ f \notin Open /\ all' = {} /\ apc' = "idle"
                   /\ UNCHANGED <<epoll, handlers, mapVars>>
<1> DEFINE best == LeastLoaded(counts, count)
<1>1. count \in Reactors
    BY ManagerAssumption DEF ResizeAdd, TypeOK, Threads, Reactors
<1>2. best \in Reactors
    BY <1>1, LeastLoadedIsOne DEF TypeOK
<1>3. PICK e \in all :
         \/ Register(best, e[1], e[2]) /\ e[1] \in Open /\ all' = all \ {e} /\ UNCHANGED apc
         \/ e[1] \notin Open /\ all' = {} /\ apc' = "idle" /\ UNCHANGED <<epoll, handlers, mapVars>>
    BY DEF ResizeAdd, Register
<1>4. e[1] \in Fds /\ e[2] \in Clients /\ e = <<e[1], e[2]>>
    BY DEF TypeOK
<1> HIDE DEF best
<1>5. QED
    BY <1>2, <1>3, <1>4

\* mark_notification_dead: one client's socket is closed.
LEMMA MarkDeadEffect ==
    ASSUME TypeOK, NEW c \in Clients, MarkDead(c)
    PROVE  /\ \A d \in Clients : nsock'[d] = IF d = c THEN 0 ELSE nsock[d]
           /\ \A d \in Clients : connected'[d] = IF d = c THEN FALSE ELSE connected[d]
           /\ \A r \in Reactors : epoll'[r] = epoll[r] \ {nsock[c]}
           /\ nsock' \in [Clients -> Fds \cup {0}] /\ connected' \in [Clients -> BOOLEAN]
           /\ hup' \subseteq Fds /\ epoll' \in [Reactors -> SUBSET Fds]
BY DEF MarkDead, TypeOK

\* It makes nobody watch anything new.
LEMMA MarkDeadShrinks ==
    ASSUME TypeOK, NEW c \in Clients, MarkDead(c)
    PROVE  /\ \A d \in Clients : nsock'[d] \in {0, nsock[d]}
           /\ \A r \in Reactors : epoll'[r] \subseteq epoll[r]
BY MarkDeadEffect

-----------------------------------------------------------------------------
\* Every step keeps the types.
LEMMA TypesStep ==
    ASSUME TypeOK, Threads, [Next]_vars
    PROVE  TypeOK'
<1> USE DEF TypeOK
<1>1. CASE UNCHANGED vars
    BY <1>1 DEF vars, clientVars, reactorVars, mapVars, adminVars
<1>2. ASSUME NEW op \in {"opens", "refused", "deletes", "resizes"}, NEW max, Count(op, max)
      PROVE  used' \in [{"opens", "refused", "deletes", "resizes"} -> Nat]
    BY <1>2 DEF Count
<1>3. ASSUME NEW f \in Fds, Remove(f)
      PROVE  /\ epoll' \in [Reactors -> SUBSET Fds]
             /\ handlers' \in [Reactors -> [Fds -> Clients \cup {Nobody}]]
             /\ fdReactor' \in [Fds -> 0..MaxReactors] /\ fdClient' \in [Fds -> Clients \cup {Nobody}]
             /\ counts' \in [Reactors -> Nat]
    BY <1>3, RemoveEffect DEF Tables, HandlerTables
<1>5. ASSUME NEW c \in Clients, Client(c)
      PROVE  TypeOK'
  <2> USE DEF clientVars, reactorVars, mapVars, adminVars
  <2>1. CASE SubOpen(c)
    BY <2>1, <1>2 DEF SubOpen
  <2>2. CASE SubRefused(c)
    BY <2>2, <1>2 DEF SubRefused
  <2>3. CASE SubAdd(c)
    <3>1. count' \in 0..MaxReactors /\ 1 \in Reactors
      BY <2>3, ManagerAssumption DEF SubAdd, Reactors
    <3>2. /\ running' \in [Reactors -> BOOLEAN]
          /\ rpc' \in [Reactors -> {"epoll", "event", "ready", "cleanup", "own", "dead", "exited"}]
          /\ UNCHANGED <<nsock, connected, hup, cfd, rev, adminVars, used>>
      BY <2>3, <3>1 DEF SubAdd
    <3>3. Tables' /\ cpc' \in [Clients -> {"idle", "add", "mark", "remove", "dead"}]
      <4> HIDE DEF TypeOK
      <4>1. cpc' \in [Clients -> {"idle", "add", "mark", "remove", "dead"}]
        BY <2>3, SubAddEffect DEF TypeOK
      <4>2. ASSUME NEW b \in Reactors, nsock[c] \in Fds, Register(b, nsock[c], c)
            PROVE  Tables'
        BY <4>2, TablesKnown, RegisterEffect
      <4>3. ASSUME UNCHANGED <<epoll, handlers, mapVars>>
            PROVE  Tables'
        BY <4>3, TablesKnown DEF Tables, mapVars
      <4>4. QED
        BY <2>3, <4>1, <4>2, <4>3, SubAddEffect
    <3>4. QED
      BY <3>1, <3>2, <3>3 DEF Tables, HandlerTables
  <2>4. CASE SubMark(c)
    BY <2>4 DEF SubMark
  <2>5. CASE DelRead(c)
    BY <2>5, <1>2 DEF DelRead
  <2>6. CASE DelRemove(c)
    BY <2>6, <1>3 DEF DelRemove, Threads
  <2>7. CASE Dead(c)
    BY <2>7, MarkDeadEffect DEF Dead
  <2>8. QED
    BY <1>5, <2>1, <2>2, <2>3, <2>4, <2>5, <2>6, <2>7 DEF Client
<1>6. ASSUME NEW f \in Fds, DeviceClose(f)
      PROVE  TypeOK'
    BY <1>6 DEF DeviceClose, reactorVars, mapVars, adminVars
<1>7. ASSUME NEW r \in Reactors, Reactor(r)
      PROVE  TypeOK'
  <2> USE DEF clientVars, mapVars, adminVars
  <2>1. CASE EpollWait(r)
    BY <2>1 DEF EpollWait
  <2>2. CASE Exit(r)
    BY <2>2 DEF Exit
  <2>3. CASE Lookup(r)
    <3>1. UNCHANGED <<clientVars, count, epoll, handlers, running, mapVars, adminVars, used>>
      BY <2>3 DEF Lookup
    <3>2. QED
      BY <2>3, <3>1, LookupEffect
  <2>4. CASE Ready(r)
    BY <2>4 DEF Ready
  <2>5. CASE CleanupRemove(r)
    BY <2>5, <1>3 DEF CleanupRemove, Threads
  <2>6. CASE CleanupOwn(r)
    BY <2>6 DEF CleanupOwn, Threads
  <2>7. CASE CleanupDead(r)
    BY <2>7, MarkDeadEffect DEF CleanupDead, Threads, Busy
  <2>8. QED
    BY <1>7, <2>1, <2>2, <2>3, <2>4, <2>5, <2>6, <2>7 DEF Reactor
<1>8. CASE ResizeStart
  <2>1. all' \subseteq Fds \X Clients
    BY <1>8 DEF ResizeStart
  <2>2. want' \in 0..MaxReactors /\ joining' \in 0..(MaxReactors + 1)
    BY <1>8, ManagerAssumption DEF ResizeStart, Reactors
  <2>3. epoll' \in [Reactors -> SUBSET Fds] /\ handlers' \in [Reactors -> [Fds -> Clients \cup {Nobody}]]
    BY <1>8 DEF ResizeStart
  <2>4. fdReactor' \in [Fds -> 0..MaxReactors] /\ fdClient' \in [Fds -> Clients \cup {Nobody}]
    BY <1>8, ManagerAssumption DEF ResizeStart, NoHandlers
  <2>5. QED
    BY <1>8, <1>2, <2>1, <2>2, <2>3, <2>4 DEF ResizeStart, clientVars
<1>9. CASE Resizing
  <2> USE DEF clientVars, mapVars, reactorVars
  <2>1. CASE ResizeStop
    BY <2>1 DEF ResizeStop
  <2>2. CASE ResizeJoin
    <3>1. joining \in Reactors /\ joining' \in 0..(MaxReactors + 1)
      BY <2>2, ManagerAssumption DEF ResizeJoin, Threads, Reactors
    <3>2. QED
      BY <2>2, <3>1 DEF ResizeJoin, NoHandlers
  <2>3. CASE ResizeCreate
    BY <2>3 DEF ResizeCreate
  <2>4. CASE ResizeAdd
    <3>1. /\ epoll' \in [Reactors -> SUBSET Fds]
          /\ handlers' \in [Reactors -> [Fds -> Clients \cup {Nobody}]]
          /\ fdReactor' \in [Fds -> 0..MaxReactors] /\ fdClient' \in [Fds -> Clients \cup {Nobody}]
          /\ counts' \in [Reactors -> Nat]
          /\ all' \subseteq Fds \X Clients /\ apc' \in {"stop", "join", "add", "idle"}
      BY <2>4, ResizeAddEffect, RegisterEffect DEF Tables, HandlerTables
    <3>2. QED
      BY <2>4, <3>1 DEF ResizeAdd
  <2>5. CASE ResizeDone
    BY <2>5 DEF ResizeDone
  <2>6. QED
    BY <1>9, <2>1, <2>2, <2>3, <2>4, <2>5 DEF Resizing
<1>10. QED
    BY <1>1, <1>5, <1>6, <1>7, <1>8, <1>9 DEF Next
\* The names of the bounded operations.
Bounds == {"opens", "refused", "deletes", "resizes"}

\* A counted operation is counted for ever.
LEMMA CountEffect ==
    ASSUME TypeOK, NEW op \in Bounds, NEW max, Count(op, max)
    PROVE  /\ op = "opens"   => UNCHANGED <<used.refused, used.deletes, used.resizes>>
           /\ op = "refused" => used'.refused # 0 /\ UNCHANGED <<used.deletes, used.resizes>>
           /\ op = "deletes" => used'.deletes # 0 /\ UNCHANGED <<used.refused, used.resizes>>
           /\ op = "resizes" => used'.resizes # 0 /\ UNCHANGED <<used.refused, used.deletes>>
BY DEF TypeOK, Count, Bounds

\* Once something was deleted or refused, or a resize begun, it stays that way.
LEMMA BoundsStep ==
    ASSUME TypeOK, [Next]_vars
    PROVE  /\ Kept' => Kept /\ \A c \in Clients : ~SubRefused(c) /\ ~DelRead(c)
           /\ used'.resizes = 0 => used.resizes = 0 /\ ~ResizeStart
<1> USE DEF Kept
<1>1. ASSUME NEW c \in Clients, SubRefused(c)
      PROVE  used'.refused # 0 /\ UNCHANGED used.resizes
    BY <1>1, CountEffect DEF SubRefused, Bounds
<1>2. ASSUME NEW c \in Clients, DelRead(c)
      PROVE  used'.deletes # 0 /\ UNCHANGED used.resizes
    BY <1>2, CountEffect DEF DelRead, Bounds
<1>3. ASSUME ResizeStart
      PROVE  used'.resizes # 0 /\ (Kept' => Kept)
    BY <1>3, CountEffect DEF ResizeStart, Bounds
<1>4. ASSUME NEW c \in Clients, SubOpen(c)
      PROVE  UNCHANGED used.resizes /\ (Kept' => Kept)
    BY <1>4, CountEffect DEF SubOpen, Bounds
<1>5. \/ UNCHANGED used
      \/ ResizeStart
      \/ \E c \in Clients : SubOpen(c) \/ SubRefused(c) \/ DelRead(c)
  <2>1. ASSUME NEW c \in Clients, Client(c)
        PROVE  UNCHANGED used \/ SubOpen(c) \/ SubRefused(c) \/ DelRead(c)
    BY <2>1 DEF Client, SubAdd, SubMark, DelRemove, Dead
  <2>2. ASSUME NEW f \in Fds, DeviceClose(f) PROVE UNCHANGED used
    BY <2>2 DEF DeviceClose
  <2>3. ASSUME NEW r \in Reactors, Reactor(r) PROVE UNCHANGED used
    BY <2>3 DEF Reactor, EpollWait, Exit, Lookup, Ready, CleanupRemove, CleanupOwn, CleanupDead
  <2>4. CASE Resizing \/ UNCHANGED vars
    BY <2>4 DEF Resizing, ResizeStop, ResizeJoin, ResizeCreate, ResizeAdd, ResizeDone, vars
  <2>5. QED
    BY <2>1, <2>2, <2>3, <2>4 DEF Next
<1>6. QED
    BY <1>1, <1>2, <1>3, <1>4, <1>5

-----------------------------------------------------------------------------
\* Every step leaves each thread where Threads says.
LEMMA ThreadsStep ==
    ASSUME TypeOK, Threads, [Next]_vars
    PROVE  Threads'
<1>1. CASE UNCHANGED vars
    BY <1>1 DEF vars, clientVars, reactorVars, mapVars, adminVars, Threads, Busy
<1>2. ASSUME NEW c \in Clients, Client(c)
      PROVE  Threads'
  <2>1. CASE SubOpen(c) \/ SubRefused(c) \/ DelRead(c)
    <3>1. used'.resizes = used.resizes
      BY <2>1, CountEffect DEF SubOpen, SubRefused, DelRead, Bounds
    <3>2. /\ UNCHANGED <<count, rpc, rev, fdReactor, adminVars>>
          /\ \A d \in Clients : cpc'[d] = "remove" => cfd'[d] \in Fds
      BY <2>1 DEF SubOpen, SubRefused, DelRead, reactorVars, mapVars, Threads, TypeOK
    <3>3. QED
      BY <3>1, <3>2 DEF Threads, Busy, adminVars
  <2>2. CASE SubAdd(c)
    <3>1. UNCHANGED <<cfd, rev, adminVars, used>> /\ apc = "idle"
      BY <2>2 DEF SubAdd, MtxFree
    <3>2. \A d \in Clients : cpc'[d] = "remove" => cpc[d] = "remove"
      BY <2>2 DEF SubAdd, TypeOK
    <3>3. \/ count' = count /\ rpc' = rpc
          \/ count = 0 /\ count' = 1 /\ rpc' = [rpc EXCEPT ![1] = "epoll"]
      BY <2>2 DEF SubAdd
    <3>4. \A r \in Reactors :
             /\ rpc'[r] \notin {"epoll", "exited"} => rpc'[r] = rpc[r]
             /\ r > count' => rpc'[r] = "exited"
      <4>1. CASE count' = count /\ rpc' = rpc
        BY <4>1 DEF Threads
      <4>2. CASE count = 0 /\ count' = 1 /\ rpc' = [rpc EXCEPT ![1] = "epoll"]
        <5>1. \A r \in Reactors : rpc[r] = "exited"
          BY <4>2 DEF Threads, Reactors
        <5>2. \A r \in Reactors : rpc'[r] = IF r = 1 THEN "epoll" ELSE rpc[r]
          BY <4>2 DEF TypeOK
        <5>3. QED
          BY <4>2, <5>1, <5>2 DEF Reactors
      <4>3. QED
        BY <3>3, <4>1, <4>2
    <3>5. QED
      BY <3>1, <3>2, <3>4 DEF Threads, Busy, adminVars
  <2>3. CASE SubMark(c) \/ DelRemove(c) \/ Dead(c)
    <3>1. /\ UNCHANGED <<cfd, count, rpc, rev, adminVars, used>>
          /\ \A d \in Clients : cpc'[d] = "remove" => cpc[d] = "remove"
          /\ apc = "idle" \/ UNCHANGED fdReactor
      BY <2>3 DEF SubMark, DelRemove, Dead, reactorVars, mapVars, MtxFree, TypeOK
    <3>2. QED
      BY <3>1 DEF Threads, Busy, adminVars
  <2>4. QED
    BY <1>2, <2>1, <2>2, <2>3 DEF Client
<1>3. ASSUME NEW f \in Fds, DeviceClose(f) PROVE Threads'
    BY <1>3 DEF DeviceClose, reactorVars, mapVars, adminVars, Threads, Busy
<1>4. ASSUME NEW r \in Reactors, Reactor(r)
      PROVE  Threads'
  <2>1. UNCHANGED <<cpc, cfd, count, adminVars, used>> /\ (apc = "idle" \/ UNCHANGED fdReactor)
    BY <1>4 DEF Reactor, EpollWait, Exit, Lookup, Ready, CleanupRemove, CleanupOwn, CleanupDead,
                clientVars, mapVars, MtxFree
  <2>2. rpc[r] # "exited" /\ \A s \in Reactors \ {r} : rpc'[s] = rpc[s] /\ rev'[s] = rev[s]
    BY <1>4 DEF Reactor, EpollWait, Exit, Lookup, Ready, CleanupRemove, CleanupOwn, CleanupDead, TypeOK
  <2>3. /\ rpc'[r] \notin {"epoll", "exited"} => rev'[r].fd \in Fds
        /\ Busy(r)' => rev'[r].client \in Clients
    <3>1. CASE EpollWait(r)
      <4>1. PICK g \in epoll[r] :
               rev' = [rev EXCEPT ![r] = [fd |-> g, hup |-> g \in hup, client |-> Nobody]]
        BY <3>1 DEF EpollWait
      <4>2. rev'[r].fd = g /\ g \in Fds /\ rpc'[r] = "event"
        BY <3>1, <4>1 DEF EpollWait, TypeOK
      <4>3. QED
        BY <4>2 DEF Busy
    <3>2. CASE Lookup(r)
      BY <3>2, LookupEffect DEF Busy
    <3>3. CASE Exit(r) \/ Ready(r) \/ CleanupRemove(r) \/ CleanupOwn(r) \/ CleanupDead(r)
      <4>1. /\ UNCHANGED rev
            /\ rpc'[r] \notin {"epoll", "exited"} => rpc[r] \in {"ready", "cleanup", "own"}
        BY <3>3 DEF Exit, Ready, CleanupRemove, CleanupOwn, CleanupDead, TypeOK
      <4>2. QED
        BY <4>1 DEF Busy, Threads
    <3>4. QED
      BY <1>4, <3>1, <3>2, <3>3 DEF Reactor
  <2>4. QED
    BY <2>1, <2>2, <2>3 DEF Threads, Busy, adminVars
<1>5. CASE ResizeStart
  <2>1. used'.resizes # 0
    BY <1>5, CountEffect DEF ResizeStart, Bounds
  <2>2. count \in Nat
    BY DEF TypeOK
  <2>3. /\ UNCHANGED <<cpc, cfd, count, rpc, rev>> /\ apc' = "stop" /\ joining' = 1
        /\ want' \in Reactors /\ \A f \in Fds : fdReactor'[f] = 0
    BY <1>5 DEF ResizeStart, clientVars
  <2>4. QED
    BY <2>1, <2>2, <2>3 DEF Threads, Busy, Reactors
<1>6. CASE Resizing
  <2>1. CASE ResizeStop
    BY <2>1 DEF ResizeStop, Threads, Busy, clientVars, mapVars
  <2>2. CASE ResizeJoin
    <3>1. joining' \in 1..(count' + 1) /\ \A r \in Reactors : r < joining' => r < joining \/ r = joining
      BY <2>2 DEF ResizeJoin, Threads, TypeOK, Reactors
    <3>2. QED
      BY <2>2, <3>1 DEF ResizeJoin, Threads, Busy, clientVars, mapVars
  <2>3. CASE ResizeCreate
    <3>1. \A r \in Reactors : rpc'[r] = IF r <= want THEN "epoll" ELSE "exited"
      BY <2>3 DEF ResizeCreate
    <3>2. want \in Reactors
      BY <2>3 DEF ResizeCreate, Threads
    <3>3. \A r \in Reactors : r > want => ~(r <= want)
      BY <3>2, ManagerAssumption DEF Reactors
    <3>4. count' > 0 /\ count' = want /\ apc' = "add" /\ UNCHANGED <<cpc, cfd, want, used>> /\ apc = "stop"
      BY <2>3, <3>2 DEF ResizeCreate, clientVars, Reactors
    <3>5. QED
      BY <3>1, <3>2, <3>3, <3>4 DEF Threads, Busy
  <2>4. CASE ResizeAdd
    <3>1. /\ apc = "add" /\ (apc' = "add" \/ (apc' = "idle" /\ all' = {}))
          /\ UNCHANGED <<cpc, cfd, count, rpc, rev, want, used>>
      BY <2>4 DEF ResizeAdd, clientVars
    <3>2. QED
      BY <3>1 DEF Threads, Busy
  <2>5. CASE ResizeDone
    BY <2>5 DEF ResizeDone, Threads, Busy, clientVars, reactorVars, mapVars
  <2>6. QED
    BY <1>6, <2>1, <2>2, <2>3, <2>4, <2>5 DEF Resizing
<1>7. QED
    BY <1>1, <1>2, <1>3, <1>4, <1>5, <1>6 DEF Next
-----------------------------------------------------------------------------
\* Descriptors are given out once at a time.
LEMMA SocketsStep ==
    ASSUME TypeOK, Threads, Sockets, [Next]_vars
    PROVE  Sockets'
<1> USE DEF Sockets, Open
<1>1. ASSUME UNCHANGED nsock, UNCHANGED <<fdReactor, fdClient>>,
             \A r \in Reactors : epoll'[r] \subseteq epoll[r]
      PROVE  Sockets'
    BY <1>1
<1>2. ASSUME NEW b \in Reactors, NEW f \in Fds, NEW c \in Clients, Register(b, f, c),
             f \in Open, UNCHANGED nsock
      PROVE  Sockets'
  <2>1. /\ \A r \in Reactors : epoll'[r] = IF r = b THEN epoll[r] \cup {f} ELSE epoll[r]
        /\ \A g \in Fds : fdReactor'[g] = IF g = f THEN b ELSE fdReactor[g]
        /\ \A g \in Fds : fdClient'[g] = IF g = f THEN c ELSE fdClient[g]
    <3> HIDE DEF Sockets, Open
    <3>1. Tables
      BY TablesKnown
    <3>2. QED
      BY <1>2, <3>1, RegisterEffect
  <2>2. b # 0 /\ c # Nobody
    BY ManagerAssumption DEF Reactors
  <2>3. \A r \in Reactors : epoll'[r] \subseteq Open'
    <3>1. Open' = Open
      BY <1>2
    <3> HIDE DEF Open
    <3>2. QED
      BY <1>2, <2>1, <3>1
  <2>4. \A g \in Fds : fdReactor'[g] = 0 <=> fdClient'[g] = Nobody
    BY <2>1, <2>2
  <2>5. QED
    BY <1>2, <2>3, <2>4
<1>3. ASSUME NEW f \in Fds, Remove(f), UNCHANGED nsock
      PROVE  Sockets'
  <2>1. CASE fdReactor[f] = 0
    BY <1>3, <2>1, TablesKnown, RemoveEffect
  <2>2. CASE fdReactor[f] # 0
    <3>1. /\ \A r \in Reactors : epoll'[r] \subseteq epoll[r]
          /\ \A g \in Fds : fdReactor'[g] = IF g = f THEN 0 ELSE fdReactor[g]
          /\ \A g \in Fds : fdClient'[g] = IF g = f THEN Nobody ELSE fdClient[g]
      BY <1>3, <2>2, TablesKnown, RemoveEffect
    <3>2. QED
      BY <1>3, <3>1
  <2>3. QED
    BY <2>1, <2>2
<1>4. ASSUME NEW c \in Clients, MarkDead(c), UNCHANGED <<fdReactor, fdClient>>
      PROVE  Sockets'
  <2>1. /\ \A d \in Clients : nsock'[d] = IF d = c THEN 0 ELSE nsock[d]
        /\ \A r \in Reactors : epoll'[r] = epoll[r] \ {nsock[c]}
    BY <1>4, MarkDeadEffect
  <2>2. Open \ {nsock[c]} \subseteq Open'
    BY <2>1
  <2>3. \A r \in Reactors : epoll'[r] \subseteq Open'
    BY <2>1, <2>2
  <2>4. QED
    BY <1>4, <2>1, <2>3
<1>5. ASSUME NEW c \in Clients, Client(c) PROVE Sockets'
  <2>1. CASE SubOpen(c)
    <3>1. PICK f \in Fds \ Open : nsock' = [nsock EXCEPT ![c] = f]
      BY <2>1 DEF SubOpen
    <3>2. /\ \A d \in Clients : nsock'[d] = IF d = c THEN f ELSE nsock[d]
          /\ \A r \in Reactors : epoll'[r] = epoll[r] \ {nsock[c]}
          /\ UNCHANGED <<fdReactor, fdClient>>
      BY <2>1, <3>1 DEF SubOpen, TypeOK, mapVars
    <3>3. f # 0
      BY ManagerAssumption
    <3>4. QED
      BY <3>1, <3>2, <3>3
  <2>2. CASE SubAdd(c)
    <3>1. UNCHANGED nsock
      BY <2>2 DEF SubAdd
    <3>2. nsock[c] \in Fds => nsock[c] \in Open
      BY ManagerAssumption
    <3>3. QED
      BY <2>2, <3>1, <3>2, <1>1, <1>2, SubAddEffect DEF mapVars
  <2>3. CASE DelRemove(c)
    BY <2>3, <1>3 DEF DelRemove, Threads
  <2>4. CASE Dead(c)
    BY <2>4, <1>4 DEF Dead, mapVars
  <2>5. CASE SubRefused(c) \/ SubMark(c) \/ DelRead(c)
    BY <2>5, <1>1 DEF SubRefused, SubMark, DelRead, reactorVars, mapVars
  <2>6. QED
    BY <1>5, <2>1, <2>2, <2>3, <2>4, <2>5 DEF Client
<1>6. ASSUME NEW r \in Reactors, Reactor(r) PROVE Sockets'
  <2>1. CASE CleanupRemove(r)
    BY <2>1, <1>3 DEF CleanupRemove, Threads, clientVars
  <2>2. CASE CleanupOwn(r)
    BY <2>2, <1>1 DEF CleanupOwn, TypeOK, clientVars, mapVars
  <2>3. CASE CleanupDead(r)
    BY <2>3, <1>4 DEF CleanupDead, Threads, Busy, mapVars
  <2>4. CASE EpollWait(r) \/ Exit(r) \/ Lookup(r) \/ Ready(r)
    BY <2>4, <1>1 DEF EpollWait, Exit, Lookup, Ready, clientVars, mapVars
  <2>5. QED
    BY <1>6, <2>1, <2>2, <2>3, <2>4 DEF Reactor
<1>7. CASE ResizeStart
    BY <1>7 DEF ResizeStart, NoHandlers, clientVars
<1>8. CASE Resizing
  <2>1. CASE ResizeStop \/ ResizeJoin \/ ResizeCreate \/ ResizeDone
    BY <2>1, <1>1 DEF ResizeStop, ResizeJoin, ResizeCreate, ResizeDone, TypeOK, clientVars, reactorVars, mapVars
  <2>2. CASE ResizeAdd
    <3>1. UNCHANGED nsock
      BY <2>2 DEF ResizeAdd, clientVars
    <3>2. QED
      BY <2>2, <3>1, <1>1, <1>2, ResizeAddEffect DEF mapVars
  <2>3. QED
    BY <1>8, <2>1, <2>2 DEF Resizing
<1>9. CASE (\E f \in Fds : DeviceClose(f)) \/ UNCHANGED vars
    BY <1>9, <1>1 DEF DeviceClose, vars, clientVars, reactorVars, mapVars
<1>10. QED
    BY <1>5, <1>6, <1>7, <1>8, <1>9 DEF Next
-----------------------------------------------------------------------------
\* A client that is about to register has a socket nobody watches.
LEMMA NotWatched ==
    ASSUME IInv, NothingCarriedOver, NEW c \in Clients, cpc[c] = "add", NEW r \in Reactors
    PROVE  nsock[c] \notin epoll[r]
<1>1. CASE used.resizes = 0
    BY <1>1 DEF IInv, Fresh
<1>2. CASE Kept
  <2>1. SUFFICES ASSUME nsock[c] \in epoll[r] PROVE FALSE
    OBVIOUS
  <2> DEFINE f == nsock[c]
  <2>2. f \in Fds /\ r # 0
    BY <2>1, ManagerAssumption DEF IInv, TypeOK, Reactors
  <2>3. fdReactor[f] # 0 /\ fdClient[f] \in Clients
    BY <2>1, <2>2 DEF IInv, Tracked, Sockets, TypeOK
  <2>4. nsock[fdClient[f]] = f /\ Active(fdClient[f])
    BY <1>2, <2>2, <2>3 DEF IInv, KeptParts, Maps, InMaps, InList
  <2>5. f # 0
    BY <2>2, ManagerAssumption
  <2>6. fdClient[f] = c
    BY <2>3, <2>4, <2>5 DEF IInv, Sockets
  <2>7. QED
    BY <2>4, <2>6 DEF Active
<1>3. QED
    BY <1>1, <1>2 DEF NothingCarriedOver

\* What a resize has in its list is watched by no reactor.
LEMMA CarriedNotWatched ==
    ASSUME IInv, NothingCarriedOver, apc = "add", NEW f \in Fds, NEW c \in Clients,
           <<f, c>> \in all, NEW r \in Reactors
    PROVE  Kept /\ f \notin epoll[r]
<1>1. Kept
    BY DEF NothingCarriedOver, IInv, Threads
<1>2. fdReactor[f] = 0
    BY <1>1 DEF IInv, KeptParts, Maps, InMaps, InList
<1>3. r # 0
    BY ManagerAssumption DEF Reactors
<1>4. QED
    BY <1>1, <1>2, <1>3 DEF IInv, Tracked

\* What a reactor watches stays in the manager's maps: add() only brings in a
\* socket that nobody watches yet.
LEMMA TrackedStep ==
    ASSUME IInv, [Next]_vars
    PROVE  Tracked'
<1> SUFFICES ASSUME NothingCarriedOver' PROVE Tracked'
    BY DEF Tracked
<1>1. /\ TypeOK /\ Threads /\ Sockets /\ Tables /\ TypeOK'
    BY TypesStep, TablesKnown DEF IInv
<1>2. NothingCarriedOver /\ (ResizeStart => Kept)
    BY <1>1, BoundsStep DEF NothingCarriedOver
<1>3. \A r \in Reactors : \A f \in epoll[r] :
         fdReactor[f] = r /\ fdClient[f] = handlers[r][f] /\ handlers[r][f] # Nobody
    BY <1>2 DEF IInv, Tracked
<1>4. \A r \in Reactors : epoll[r] \subseteq Fds
    BY <1>1 DEF TypeOK
<1>5. ASSUME UNCHANGED <<handlers, fdReactor, fdClient>>,
             \A r \in Reactors : epoll'[r] \subseteq epoll[r]
      PROVE  Tracked'
    BY <1>3, <1>5 DEF Tracked
<1>6. ASSUME NEW b \in Reactors, NEW f \in Fds, NEW c \in Clients, Register(b, f, c),
             \A r \in Reactors : f \notin epoll[r]
      PROVE  Tracked'
  <2>1. /\ \A r \in Reactors : epoll'[r] = IF r = b THEN epoll[r] \cup {f} ELSE epoll[r]
        /\ \A r \in Reactors, g \in Fds :
               handlers'[r][g] = IF r = b /\ g = f THEN c ELSE handlers[r][g]
        /\ \A g \in Fds : fdReactor'[g] = IF g = f THEN b ELSE fdReactor[g]
        /\ \A g \in Fds : fdClient'[g] = IF g = f THEN c ELSE fdClient[g]
    BY <1>1, <1>6, RegisterEffect
  <2>2. c # Nobody
    BY ManagerAssumption
  <2>3. ASSUME NEW r \in Reactors, NEW g \in epoll'[r]
        PROVE  fdReactor'[g] = r /\ fdClient'[g] = handlers'[r][g] /\ handlers'[r][g] # Nobody
    <3>1. CASE g = f
      <4>1. r = b
        BY <1>6, <2>1, <2>3, <3>1
      <4>2. QED
        BY <2>1, <2>2, <3>1, <4>1
    <3>2. CASE g # f
      <4>1. g \in epoll[r] /\ g \in Fds
        BY <1>4, <2>1, <2>3, <3>2
      <4>2. QED
        BY <1>3, <2>1, <3>2, <4>1
    <3>3. QED
      BY <3>1, <3>2
  <2>4. QED
    BY <2>3 DEF Tracked
<1>7. ASSUME NEW f \in Fds, Remove(f)
      PROVE  Tracked'
  <2> DEFINE b == fdReactor[f]
  <2>1. CASE b = 0
    BY <1>1, <1>5, <1>7, <2>1, RemoveEffect
  <2>2. CASE b # 0
    <3>1. /\ b \in Reactors
          /\ \A r \in Reactors : epoll'[r] = IF r = b THEN epoll[r] \ {f} ELSE epoll[r]
          /\ \A r \in Reactors, g \in Fds :
                 handlers'[r][g] = IF r = b /\ g = f THEN Nobody ELSE handlers[r][g]
          /\ \A g \in Fds : fdReactor'[g] = IF g = f THEN 0 ELSE fdReactor[g]
          /\ \A g \in Fds : fdClient'[g] = IF g = f THEN Nobody ELSE fdClient[g]
      BY <1>1, <1>7, <2>2, RemoveEffect
    <3>2. ASSUME NEW r \in Reactors, NEW g \in epoll'[r]
          PROVE  g # f /\ g \in epoll[r] /\ g \in Fds
      <4>1. CASE r = b
        BY <1>4, <3>1, <3>2, <4>1
      <4>2. CASE r # b
        <5>1. g \in epoll[r]
          BY <3>1, <3>2, <4>2
        <5>2. QED
          BY <1>3, <1>4, <4>2, <5>1
      <4>3. QED
        BY <4>1, <4>2
    <3>3. QED
      BY <1>3, <3>1, <3>2 DEF Tracked
  <2>3. QED
    BY <2>1, <2>2
<1>8. ASSUME NEW c \in Clients, Client(c) PROVE Tracked'
  <2>1. CASE SubOpen(c)
    <3>1. \A r \in Reactors : epoll'[r] \subseteq epoll[r]
      BY <2>1 DEF SubOpen
    <3>2. QED
      BY <2>1, <3>1, <1>5 DEF SubOpen, mapVars
  <2>2. CASE SubAdd(c)
    <3>1. cpc[c] = "add"
      BY <2>2 DEF SubAdd
    <3>2. \A r \in Reactors : nsock[c] \notin epoll[r]
      BY <1>2, <3>1, NotWatched
    <3>3. ASSUME NEW b \in Reactors, nsock[c] \in Fds, Register(b, nsock[c], c)
          PROVE  Tracked'
      BY <1>6, <3>2, <3>3
    <3>4. ASSUME UNCHANGED <<epoll, handlers, mapVars>>
          PROVE  Tracked'
      BY <1>5, <3>4 DEF mapVars
    <3>5. QED
      BY <1>1, <2>2, <3>3, <3>4, SubAddEffect
  <2>3. CASE DelRemove(c)
    BY <1>1, <1>7, <2>3 DEF DelRemove, Threads
  <2>4. CASE Dead(c)
    <3>1. \A r \in Reactors : epoll'[r] \subseteq epoll[r]
      BY <1>1, <2>4, MarkDeadEffect DEF Dead
    <3>2. QED
      BY <2>4, <3>1, <1>5 DEF Dead, mapVars
  <2>5. CASE SubRefused(c) \/ SubMark(c) \/ DelRead(c)
    BY <1>5, <2>5 DEF SubRefused, SubMark, DelRead, reactorVars, mapVars
  <2>6. QED
    BY <1>8, <2>1, <2>2, <2>3, <2>4, <2>5 DEF Client
<1>9. ASSUME NEW r \in Reactors, Reactor(r) PROVE Tracked'
  <2>1. CASE CleanupRemove(r)
    BY <1>1, <1>7, <2>1 DEF CleanupRemove, Threads
  <2>2. CASE CleanupOwn(r)
    <3>1. /\ UNCHANGED <<fdReactor, fdClient>>
          /\ \A s \in Reactors : epoll'[s] = IF s = r THEN epoll[s] \ {rev[r].fd} ELSE epoll[s]
      BY <1>1, <2>2 DEF CleanupOwn, TypeOK, mapVars
    <3>2. rev[r].fd \in Fds
      BY <1>1, <2>2 DEF CleanupOwn, Threads
    <3>3. \A s \in Reactors, g \in Fds : ~(s = r /\ g = rev[r].fd) => handlers'[s][g] = handlers[s][g]
      BY <1>1, <2>2, <3>2 DEF CleanupOwn, TypeOK
    <3>4. ASSUME NEW s \in Reactors, NEW g \in epoll'[s]
          PROVE  g \in epoll[s] /\ handlers'[s][g] = handlers[s][g]
      <4>1. g \in epoll[s] /\ g \in Fds /\ ~(s = r /\ g = rev[r].fd)
        BY <1>4, <3>1, <3>4
      <4>2. QED
        BY <3>3, <4>1
    <3>5. QED
      BY <1>3, <3>1, <3>4 DEF Tracked
  <2>3. CASE CleanupDead(r)
    <3>1. rev[r].client \in Clients
      BY <1>1, <2>3 DEF CleanupDead, Threads, Busy
    <3>2. \A s \in Reactors : epoll'[s] \subseteq epoll[s]
      BY <1>1, <2>3, <3>1, MarkDeadShrinks DEF CleanupDead
    <3>3. QED
      BY <2>3, <3>2, <1>5 DEF CleanupDead, mapVars
  <2>4. CASE EpollWait(r) \/ Exit(r) \/ Lookup(r) \/ Ready(r)
    BY <1>5, <2>4 DEF EpollWait, Exit, Lookup, Ready, mapVars
  <2>5. QED
    BY <1>9, <2>1, <2>2, <2>3, <2>4 DEF Reactor
<1>10. CASE ResizeStart
  <2>1. ASSUME NEW r \in Reactors, NEW f \in epoll'[r] PROVE FALSE
    BY <1>3, <1>10, <2>1 DEF ResizeStart
  <2>2. QED
    BY <2>1 DEF Tracked
<1>11. CASE Resizing
  <2>1. CASE ResizeStop \/ ResizeCreate \/ ResizeDone
    BY <1>5, <2>1 DEF ResizeStop, ResizeCreate, ResizeDone, reactorVars, mapVars
  <2>2. CASE ResizeJoin
    <3>1. /\ \A r \in Reactors : epoll'[r] = IF r = joining THEN {} ELSE epoll[r]
          /\ \A r \in Reactors : r # joining => handlers'[r] = handlers[r]
          /\ UNCHANGED <<fdReactor, fdClient>>
      BY <1>1, <2>2 DEF ResizeJoin, TypeOK, mapVars
    <3>2. QED
      BY <1>3, <3>1 DEF Tracked
  <2>3. CASE ResizeAdd
    <3>1. PICK f \in Fds, c \in Clients :
            /\ <<f, c>> \in all
            /\ \/ \E b \in Reactors : Register(b, f, c)
               \/ UNCHANGED <<epoll, handlers, mapVars>>
      BY <1>1, <2>3, ResizeAddEffect
    <3>2. \A r \in Reactors : f \notin epoll[r]
      BY <1>2, <2>3, <3>1, CarriedNotWatched DEF ResizeAdd
    <3>3. ASSUME NEW b \in Reactors, Register(b, f, c)
          PROVE  Tracked'
      BY <1>6, <3>2, <3>3
    <3>4. ASSUME UNCHANGED <<epoll, handlers, mapVars>>
          PROVE  Tracked'
      BY <1>5, <3>4 DEF mapVars
    <3>5. QED
      BY <3>1, <3>3, <3>4
  <2>4. QED
    BY <1>11, <2>1, <2>2, <2>3 DEF Resizing
<1>12. CASE (\E f \in Fds : DeviceClose(f)) \/ UNCHANGED vars
    BY <1>5, <1>12 DEF DeviceClose, vars, reactorVars, mapVars
<1>13. QED
    BY <1>8, <1>9, <1>10, <1>11, <1>12 DEF Next

\* Before the first resize, the number of a new socket is in no epoll set, since
\* the kernel took it out when its last owner closed it.
LEMMA FreshStep ==
    ASSUME IInv, [Next]_vars
    PROVE  Fresh'
<1> SUFFICES ASSUME used'.resizes = 0 PROVE Fresh'
    BY DEF Fresh
<1>1. TypeOK /\ Threads /\ Sockets /\ Tables
    BY TablesKnown DEF IInv
<1>2. used.resizes = 0 /\ ~ResizeStart
    BY <1>1, BoundsStep
<1>3. apc = "idle" /\ ~Resizing
    BY <1>1, <1>2 DEF Threads, Resizing, ResizeStop, ResizeJoin, ResizeCreate, ResizeAdd, ResizeDone
<1>4. \A c \in Clients : cpc[c] = "add" => \A r \in Reactors : nsock[c] \notin epoll[r]
    BY <1>2 DEF IInv, Fresh
<1>5. ASSUME \A r \in Reactors : epoll'[r] \subseteq epoll[r],
             \A c \in Clients : cpc'[c] = "add" => cpc[c] = "add" /\ nsock'[c] \in {0, nsock[c]}
      PROVE  Fresh'
  <2>1. \A r \in Reactors : 0 \notin epoll[r]
    BY <1>1, ManagerAssumption DEF TypeOK
  <2>2. QED
    BY <1>4, <1>5, <2>1 DEF Fresh
<1>6. ASSUME NEW c \in Clients, Client(c) PROVE Fresh'
  <2>1. CASE SubOpen(c)
    <3>1. PICK f \in Fds \ Open : nsock' = [nsock EXCEPT ![c] = f]
      BY <2>1 DEF SubOpen
    <3>2. /\ \A d \in Clients : nsock'[d] = IF d = c THEN f ELSE nsock[d]
          /\ \A d \in Clients : d # c => cpc'[d] = cpc[d]
          /\ \A r \in Reactors : epoll'[r] \subseteq epoll[r]
      BY <1>1, <2>1, <3>1 DEF SubOpen, TypeOK
    <3>3. \A r \in Reactors : f \notin epoll[r]
      BY <1>1, <3>1 DEF Sockets
    <3>4. QED
      BY <1>4, <3>2, <3>3 DEF Fresh
  <2>2. CASE SubAdd(c)
    <3>1. /\ UNCHANGED nsock
          /\ \A d \in Clients : cpc'[d] = "add" => cpc[d] = "add" /\ d # c
      BY <1>1, <2>2 DEF SubAdd, TypeOK
    <3>2. ASSUME NEW b \in Reactors, nsock[c] \in Fds, Register(b, nsock[c], c)
          PROVE  Fresh'
      <4>1. \A r \in Reactors : epoll'[r] \subseteq epoll[r] \cup {nsock[c]}
        BY <1>1, <3>2, RegisterGrows
      <4>2. nsock[c] # 0
        BY <3>2, ManagerAssumption
      <4>3. \A d \in Clients : d # c => nsock[d] # nsock[c]
        BY <1>1, <4>2 DEF Sockets
      <4>4. QED
        BY <1>4, <3>1, <4>1, <4>3 DEF Fresh
    <3>3. ASSUME UNCHANGED <<epoll, handlers, mapVars>>
          PROVE  Fresh'
      BY <1>5, <3>1, <3>3
    <3>4. QED
      BY <1>1, <2>2, <3>2, <3>3, SubAddEffect
  <2>3. CASE DelRemove(c)
    <3>1. cfd[c] \in Fds /\ Remove(cfd[c]) /\ UNCHANGED nsock
          /\ \A d \in Clients : cpc'[d] = "add" => cpc[d] = "add"
      BY <1>1, <2>3 DEF DelRemove, Threads, TypeOK
    <3>2. \A r \in Reactors : epoll'[r] \subseteq epoll[r]
      BY <1>1, <3>1, RemoveShrinks
    <3>3. QED
      BY <1>5, <3>1, <3>2
  <2>4. CASE Dead(c)
    <3>1. /\ \A d \in Clients : nsock'[d] = IF d = c THEN 0 ELSE nsock[d]
          /\ \A r \in Reactors : epoll'[r] \subseteq epoll[r]
      BY <1>1, <2>4, MarkDeadEffect DEF Dead
    <3>2. \A d \in Clients : cpc'[d] = "add" => cpc[d] = "add"
      BY <1>1, <2>4 DEF Dead, TypeOK
    <3>3. QED
      BY <1>5, <3>1, <3>2
  <2>5. CASE SubRefused(c) \/ SubMark(c) \/ DelRead(c)
    <3>1. UNCHANGED <<nsock, epoll>> /\ \A d \in Clients : cpc'[d] = "add" => cpc[d] = "add"
      BY <1>1, <2>5 DEF SubRefused, SubMark, DelRead, reactorVars, TypeOK
    <3>2. QED
      BY <1>5, <3>1
  <2>6. QED
    BY <1>6, <2>1, <2>2, <2>3, <2>4, <2>5 DEF Client
<1>7. ASSUME NEW r \in Reactors, Reactor(r) PROVE Fresh'
  <2>1. CASE CleanupRemove(r)
    <3>1. rev[r].fd \in Fds /\ Remove(rev[r].fd) /\ UNCHANGED <<nsock, cpc>>
      BY <1>1, <2>1 DEF CleanupRemove, Threads, clientVars
    <3>2. \A s \in Reactors : epoll'[s] \subseteq epoll[s]
      BY <1>1, <3>1, RemoveShrinks
    <3>3. QED
      BY <1>5, <3>1, <3>2
  <2>2. CASE CleanupOwn(r)
    <3>1. UNCHANGED <<nsock, cpc>> /\ \A s \in Reactors : epoll'[s] \subseteq epoll[s]
      BY <1>1, <2>2 DEF CleanupOwn, clientVars, TypeOK
    <3>2. QED
      BY <1>5, <3>1
  <2>3. CASE CleanupDead(r)
    <3>1. rev[r].client \in Clients /\ UNCHANGED cpc
      BY <1>1, <2>3 DEF CleanupDead, Threads, Busy
    <3>2. /\ \A d \in Clients : nsock'[d] \in {0, nsock[d]}
          /\ \A s \in Reactors : epoll'[s] \subseteq epoll[s]
      BY <1>1, <2>3, <3>1, MarkDeadShrinks DEF CleanupDead
    <3>3. QED
      BY <1>5, <3>1, <3>2
  <2>4. CASE EpollWait(r) \/ Exit(r) \/ Lookup(r) \/ Ready(r)
    BY <1>5, <2>4 DEF EpollWait, Exit, Lookup, Ready, clientVars
  <2>5. QED
    BY <1>7, <2>1, <2>2, <2>3, <2>4 DEF Reactor
<1>8. CASE (\E f \in Fds : DeviceClose(f)) \/ UNCHANGED vars
    BY <1>5, <1>8 DEF DeviceClose, vars, clientVars, reactorVars
<1>9. QED
    BY <1>2, <1>3, <1>6, <1>7, <1>8 DEF Next
-----------------------------------------------------------------------------
(***************************************************************************)
(* With nothing deleted or refused                                         *)
(***************************************************************************)
\* What IInv says when nothing was deleted or refused.
LEMMA Known ==
    ASSUME IInv, Kept
    PROVE  /\ TypeOK /\ Tables /\ Threads /\ Sockets /\ KeptParts
           /\ \A r \in Reactors : \A f \in epoll[r] :
                 fdReactor[f] = r /\ fdClient[f] = handlers[r][f] /\ handlers[r][f] # Nobody
           /\ \A f \in Fds : fdReactor[f] # 0 =>
                 fdReactor[f] \in Reactors /\ fdClient[f] \in Clients /\ nsock[fdClient[f]] = f
           /\ 0 \notin Fds /\ 0 \notin Reactors /\ Nobody \notin Clients
<1>1. /\ TypeOK /\ Threads /\ Sockets /\ KeptParts
      /\ \A r \in Reactors : \A f \in epoll[r] :
            fdReactor[f] = r /\ fdClient[f] = handlers[r][f] /\ handlers[r][f] # Nobody
    BY DEF IInv, Tracked, NothingCarriedOver
<1>2. Tables /\ 0 \notin Fds /\ 0 \notin Reactors /\ Nobody \notin Clients
    BY <1>1, TablesKnown, ManagerAssumption DEF Reactors
<1>3. ASSUME NEW f \in Fds, fdReactor[f] # 0
      PROVE  fdReactor[f] \in Reactors /\ fdClient[f] \in Clients /\ nsock[fdClient[f]] = f
  <2>1. fdReactor[f] \in Reactors
    BY <1>2, <1>3, ManagerAssumption DEF Tables, Reactors
  <2>2. fdClient[f] \in Clients
    BY <1>1, <1>2, <1>3 DEF Sockets, Tables
  <2>3. QED
    BY <1>1, <1>3, <2>1, <2>2 DEF KeptParts, Maps, InMaps
<1>4. QED
    BY <1>1, <1>2, <1>3

\* device_counts_ after an add(),
LEMMA OneMore ==
    ASSUME NEW b \in Reactors, NEW f \in Fds, fdReactor[f] = 0,
           \A g \in Fds : fdReactor'[g] = IF g = f THEN b ELSE fdReactor[g],
           \A r \in Reactors : counts'[r] = IF r = b THEN counts[r] + 1 ELSE counts[r],
           \A r \in Reactors : counts[r] = Cardinality({g \in Fds : fdReactor[g] = r})
    PROVE  \A r \in Reactors : counts'[r] = Cardinality({g \in Fds : fdReactor'[g] = r})
<1> TAKE r \in Reactors
<1> DEFINE S == {g \in Fds : fdReactor[g] = r}
           T == {g \in Fds : fdReactor'[g] = r}
<1>1. IsFiniteSet(S) /\ f \notin S
    BY FS_Subset, ManagerAssumption DEF Reactors
<1>2. CASE r = b
  <2>1. T = S \cup {f}
    BY <1>2
  <2>2. Cardinality(S \cup {f}) = Cardinality(S) + 1
    BY <1>1, FS_AddElement
  <2>3. QED
    BY <1>2, <2>1, <2>2
<1>3. CASE r # b
  <2>1. T = S
    BY <1>1, <1>3
  <2>2. QED
    BY <1>3, <2>1
<1>4. QED
    BY <1>2, <1>3

\* and after a remove().
LEMMA OneLess ==
    ASSUME NEW b \in Reactors, NEW f \in Fds, fdReactor[f] = b,
           \A g \in Fds : fdReactor'[g] = IF g = f THEN 0 ELSE fdReactor[g],
           \A r \in Reactors :
              counts'[r] = IF r = b /\ counts[r] > 0 THEN counts[r] - 1 ELSE counts[r],
           \A r \in Reactors : counts[r] = Cardinality({g \in Fds : fdReactor[g] = r})
    PROVE  \A r \in Reactors : counts'[r] = Cardinality({g \in Fds : fdReactor'[g] = r})
<1> TAKE r \in Reactors
<1> DEFINE S == {g \in Fds : fdReactor[g] = r}
           T == {g \in Fds : fdReactor'[g] = r}
<1>1. IsFiniteSet(S) /\ r # 0
    BY FS_Subset, ManagerAssumption DEF Reactors
<1>2. CASE r = b
  <2>1. T = S \ {f} /\ f \in S
    BY <1>1, <1>2
  <2>2. Cardinality(S \ {f}) = Cardinality(S) - 1 /\ Cardinality(S) \in Nat /\ S # {}
    BY <1>1, <2>1, FS_RemoveElement, FS_CardinalityType
  <2>3. Cardinality(S) > 0
    BY <1>1, <2>2, FS_EmptySet
  <2>4. QED
    BY <1>2, <2>1, <2>2, <2>3
<1>3. CASE r # b
  <2>1. T = S
    BY <1>1, <1>3
  <2>2. QED
    BY <1>3, <2>1
<1>4. QED
    BY <1>2, <1>3

\* A client is registered whose socket nobody is at work on.
LEMMA RegisterKept ==
    ASSUME IInv, Kept, NEW b \in Reactors, NEW f \in Fds, NEW c \in Clients, Register(b, f, c),
           nsock[c] = f, fdReactor[f] = 0, ~CleaningUp(c),
           UNCHANGED <<nsock, rev, apc>>, apc \in {"idle", "add"}, all' = all \ {<<f, c>>},
           Active(c)', \A d \in Clients : d # c => (Active(d)' <=> Active(d)),
           \A r \in Reactors : rpc'[r] = rpc[r] \/ (~Busy(r) /\ ~Busy(r)')
    PROVE  Maps' /\ Work' /\ NoneForgotten' /\ Counted'
<1>1. /\ TypeOK /\ Tables /\ Threads /\ Sockets /\ KeptParts
      /\ \A g \in Fds : fdReactor[g] # 0 =>
            fdReactor[g] \in Reactors /\ fdClient[g] \in Clients /\ nsock[fdClient[g]] = g
      /\ 0 \notin Fds /\ 0 \notin Reactors /\ Nobody \notin Clients
    BY Known
<1>2. /\ \A r \in Reactors : epoll'[r] = IF r = b THEN epoll[r] \cup {f} ELSE epoll[r]
      /\ \A r \in Reactors, g \in Fds :
             handlers'[r][g] = IF r = b /\ g = f THEN c ELSE handlers[r][g]
      /\ \A g \in Fds : fdReactor'[g] = IF g = f THEN b ELSE fdReactor[g]
      /\ \A g \in Fds : fdClient'[g] = IF g = f THEN c ELSE fdClient[g]
      /\ \A r \in Reactors : counts'[r] = IF r = b THEN counts[r] + 1 ELSE counts[r]
    BY <1>1, RegisterEffect
<1>3. \A d \in Clients : nsock[d] = f => d = c
    BY <1>1 DEF Sockets
<1>4. \A d \in Clients : Active(d) => Active(d)'
    OBVIOUS
<1>5. InMaps'
  <2> SUFFICES ASSUME NEW g \in Fds, fdReactor'[g] # 0
               PROVE  /\ nsock'[fdClient'[g]] = g /\ Active(fdClient[g])'
                      /\ g \in epoll'[fdReactor'[g]]
                      /\ handlers'[fdReactor'[g]][g] = fdClient'[g]
    BY DEF InMaps
  <2>1. CASE g = f
    BY <1>2, <2>1
  <2>2. CASE g # f
    <3>1. fdReactor'[g] = fdReactor[g] /\ fdClient'[g] = fdClient[g] /\ fdReactor[g] # 0
      BY <1>2, <2>2
    <3>2. /\ nsock[fdClient[g]] = g /\ Active(fdClient[g])
          /\ g \in epoll[fdReactor[g]] /\ handlers[fdReactor[g]][g] = fdClient[g]
          /\ fdReactor[g] \in Reactors /\ fdClient[g] \in Clients
      BY <1>1, <3>1 DEF KeptParts, Maps, InMaps
    <3>3. g \in epoll'[fdReactor[g]] /\ handlers'[fdReactor[g]][g] = fdClient[g]
      BY <1>2, <2>2, <3>2
    <3>4. Active(fdClient[g])'
      BY <1>4, <3>1, <3>2 DEF Active
    <3>5. QED
      BY <3>1, <3>2, <3>3, <3>4
  <2>3. QED
    BY <2>1, <2>2
<1>6. InList'
  <2> SUFFICES ASSUME NEW g \in Fds, NEW d \in Clients, <<g, d>> \in all'
               PROVE  nsock'[d] = g /\ Active(d)' /\ fdReactor'[g] = 0
    BY DEF InList
  <2>1. nsock[d] = g /\ Active(d) /\ fdReactor[g] = 0
    BY <1>1 DEF KeptParts, Maps, InList
  <2>2. g # f
    BY <1>3, <2>1
  <2>3. QED
    BY <1>2, <1>4, <2>1, <2>2
<1>7. InTables'
  <2>1. \A r \in Reactors : handlers[r][f] = Nobody
    BY <1>1 DEF KeptParts, Maps, InTables
  <2>2. QED
    BY <1>1, <1>2, <2>1 DEF KeptParts, Maps, InTables
<1>8. Work'
  <2>1. \A r \in Reactors : Busy(r)' => rpc'[r] = rpc[r] /\ Busy(r)
    BY DEF Busy
  <2>2. Alone'
    BY <1>1, <2>1 DEF KeptParts, Work, Alone
  <2>3. ASSUME NEW r \in Reactors PROVE Before(r)'
    <3>1. SUFFICES ASSUME rpc'[r] \in {"ready", "cleanup"}
                   PROVE  fdReactor'[rev[r].fd] = r /\ fdClient'[rev[r].fd] = rev[r].client
      BY DEF Before
    <3>2. rpc[r] = rpc'[r] /\ rev[r].fd \in Fds
      BY <1>1, <2>1, <3>1 DEF Busy, Threads
    <3>3. fdReactor[rev[r].fd] = r /\ fdClient[rev[r].fd] = rev[r].client
      BY <1>1, <3>1, <3>2 DEF KeptParts, Work, Before
    <3>4. rev[r].fd # f
      BY <1>1, <3>3
    <3>5. QED
      BY <1>2, <3>2, <3>3, <3>4
  <2>4. ASSUME NEW r \in Reactors PROVE After(r)'
    <3>1. SUFFICES ASSUME rpc'[r] \in {"own", "dead"}
                   PROVE  /\ nsock[rev[r].client] = rev[r].fd /\ Active(rev[r].client)'
                          /\ fdReactor'[rev[r].fd] = 0 /\ <<rev[r].fd, rev[r].client>> \notin all
      BY DEF After
    <3>2. rpc[r] = rpc'[r] /\ rev[r].fd \in Fds /\ rev[r].client \in Clients
      BY <1>1, <2>1, <3>1 DEF Busy, Threads
    <3>3. /\ nsock[rev[r].client] = rev[r].fd /\ Active(rev[r].client)
          /\ fdReactor[rev[r].fd] = 0 /\ <<rev[r].fd, rev[r].client>> \notin all
      BY <1>1, <3>1, <3>2 DEF KeptParts, Work, After
    <3>4. rev[r].client # c
      BY <3>1, <3>2 DEF CleaningUp
    <3>5. rev[r].fd # f
      BY <1>3, <3>2, <3>3, <3>4
    <3>6. Active(rev[r].client)'
      BY <1>4, <3>2, <3>3 DEF Active
    <3>7. QED
      BY <1>2, <3>2, <3>3, <3>5, <3>6
  <2>5. QED
    BY <2>2, <2>3, <2>4 DEF Work
<1>9. NoneForgotten'
  <2> SUFFICES ASSUME NEW d \in Clients, Active(d)', nsock'[d] # 0
               PROVE  fdClient'[nsock[d]] = d \/ <<nsock[d], d>> \in all' \/ CleaningUp(d)'
    BY DEF NoneForgotten
  <2>1. CASE d = c
    BY <1>2, <2>1
  <2>2. CASE d # c
    <3>1. Active(d) /\ nsock[d] # 0 /\ nsock[d] \in Fds /\ nsock[d] # f
      BY <1>1, <1>3, <2>2 DEF TypeOK
    <3>2. fdClient[nsock[d]] = d \/ <<nsock[d], d>> \in all \/ CleaningUp(d)
      BY <1>1, <3>1 DEF KeptParts, NoneForgotten
    <3>3. CleaningUp(d) => CleaningUp(d)'
      BY DEF CleaningUp, Busy
    <3>4. QED
      BY <1>2, <2>2, <3>1, <3>2, <3>3
  <2>3. QED
    BY <2>1, <2>2
<1>10. Counted'
    BY <1>1, <1>2, OneMore DEF KeptParts, Counted
<1>11. QED
    BY <1>5, <1>6, <1>7, <1>8, <1>9, <1>10 DEF Maps

\* What the maps say only depends on the sockets, the tables and who is active.
LEMMA MapsSame ==
    ASSUME IInv, Kept, UNCHANGED <<nsock, mapVars, all>>,
           \A d \in Clients : Active(d)' <=> Active(d),
           \/ UNCHANGED <<epoll, handlers>>
           \/ /\ \A f \in Fds : fdReactor[f] = 0
              /\ \A r \in Reactors, f \in Fds : handlers'[r][f] \in {Nobody, handlers[r][f]},
           apc' \in {"idle", "add"} => apc \in {"idle", "add"}
    PROVE  Maps' /\ Counted'
<1>1. /\ KeptParts
      /\ \A g \in Fds : fdReactor[g] # 0 => fdClient[g] \in Clients
    BY Known
<1>2. InMaps'
  <2>1. CASE UNCHANGED <<epoll, handlers>>
    <3> SUFFICES ASSUME NEW g \in Fds, fdReactor[g] # 0
                 PROVE  /\ nsock[fdClient[g]] = g /\ Active(fdClient[g])'
                        /\ g \in epoll[fdReactor[g]] /\ handlers[fdReactor[g]][g] = fdClient[g]
      BY <2>1 DEF InMaps, mapVars
    <3>1. /\ nsock[fdClient[g]] = g /\ Active(fdClient[g])
          /\ g \in epoll[fdReactor[g]] /\ handlers[fdReactor[g]][g] = fdClient[g]
          /\ fdClient[g] \in Clients
      BY <1>1 DEF KeptParts, Maps, InMaps
    <3>2. fdClient' = fdClient
      BY DEF mapVars
    <3>3. Active(fdClient[g])'
      BY <3>1, <3>2 DEF Active
    <3>4. QED
      BY <3>1, <3>3
  <2>2. CASE \A f \in Fds : fdReactor[f] = 0
    BY <2>2 DEF InMaps, mapVars
  <2>3. QED
    BY <2>1, <2>2
<1>3. InList'
    BY <1>1 DEF KeptParts, Maps, InList, mapVars
<1>4. InTables'
    BY <1>1 DEF KeptParts, Maps, InTables, mapVars
<1>5. Counted'
    BY <1>1 DEF KeptParts, Counted, mapVars
<1>6. QED
    BY <1>2, <1>3, <1>4, <1>5 DEF Maps

\* What the reactors are at depends on them and the maps.
LEMMA WorkSame ==
    ASSUME IInv, Kept, UNCHANGED <<nsock, fdReactor, fdClient, all, rpc, rev>>,
           \A d \in Clients : Active(d)' <=> Active(d),
           apc \in {"stop", "join"} => apc' \in {"stop", "join"}
    PROVE  Work' /\ NoneForgotten'
<1>1. KeptParts /\ Threads
    BY Known
<1>2. Alone'
    BY <1>1 DEF KeptParts, Work, Alone, Busy
<1>3. \A r \in Reactors : Before(r)'
    BY <1>1 DEF KeptParts, Work, Before
<1>4. ASSUME NEW r \in Reactors PROVE After(r)'
  <2>1. SUFFICES ASSUME rpc[r] \in {"own", "dead"}
                 PROVE  /\ nsock[rev[r].client] = rev[r].fd /\ Active(rev[r].client)'
                        /\ fdReactor[rev[r].fd] = 0 /\ <<rev[r].fd, rev[r].client>> \notin all
    BY DEF After
  <2>2. /\ nsock[rev[r].client] = rev[r].fd /\ Active(rev[r].client)
        /\ fdReactor[rev[r].fd] = 0 /\ <<rev[r].fd, rev[r].client>> \notin all
        /\ rev[r].client \in Clients
    BY <1>1, <2>1 DEF KeptParts, Work, After, Threads, Busy
  <2>3. Active(rev[r].client)'
    BY <2>2 DEF Active
  <2>4. QED
    BY <2>2, <2>3
<1>5. NoneForgotten'
    BY <1>1 DEF KeptParts, NoneForgotten, CleaningUp
<1>6. QED
    BY <1>2, <1>3, <1>4, <1>5 DEF Work

\* A client that is not active opens a socket with a number nobody has.
LEMMA SubOpenKept ==
    ASSUME IInv, Kept, NEW c \in Clients, SubOpen(c)
    PROVE  KeptParts'
<1>1. /\ TypeOK /\ Threads /\ Sockets /\ KeptParts
      /\ \A g \in Fds : fdReactor[g] # 0 =>
            fdReactor[g] \in Reactors /\ fdClient[g] \in Clients /\ nsock[fdClient[g]] = g
      /\ 0 \notin Fds
    BY Known
<1>2. PICK f \in Fds \ Open : nsock' = [nsock EXCEPT ![c] = f]
    BY DEF SubOpen
<1>3. /\ \A d \in Clients : nsock'[d] = IF d = c THEN f ELSE nsock[d]
      /\ \A d \in Clients : cpc'[d] = IF d = c THEN "add" ELSE cpc[d]
      /\ \A r \in Reactors : epoll'[r] = epoll[r] \ {nsock[c]}
      /\ UNCHANGED <<connected, handlers, fdReactor, fdClient, counts, all, apc, rpc, rev>>
    BY <1>1, <1>2 DEF SubOpen, TypeOK, mapVars, adminVars
<1>4. \A d \in Clients : (Active(d)' <=> Active(d)) /\ (Active(d) => d # c)
    BY <1>3 DEF Active, SubOpen
<1>5. Callers'
    BY <1>1, <1>3 DEF KeptParts, Callers
<1>6. InMaps'
  <2> SUFFICES ASSUME NEW g \in Fds, fdReactor[g] # 0
               PROVE  /\ nsock'[fdClient[g]] = g /\ Active(fdClient[g])'
                      /\ g \in epoll'[fdReactor[g]] /\ handlers[fdReactor[g]][g] = fdClient[g]
    BY <1>3 DEF InMaps
  <2>1. /\ nsock[fdClient[g]] = g /\ Active(fdClient[g])
        /\ g \in epoll[fdReactor[g]] /\ handlers[fdReactor[g]][g] = fdClient[g]
        /\ fdReactor[g] \in Reactors /\ fdClient[g] \in Clients
    BY <1>1 DEF KeptParts, Maps, InMaps
  <2>2. fdClient[g] # c
    BY <1>4, <2>1
  <2>3. g # nsock[c]
    BY <1>1, <2>1, <2>2 DEF Sockets
  <2>4. Active(fdClient[g])'
    BY <1>3, <2>1, <2>2 DEF Active
  <2>5. QED
    BY <1>3, <2>1, <2>2, <2>3, <2>4
<1>7. InList'
    BY <1>1, <1>3, <1>4 DEF KeptParts, Maps, InList
<1>8. InTables'
    BY <1>1, <1>3 DEF KeptParts, Maps, InTables
<1>9. Alone' /\ \A r \in Reactors : Before(r)'
    BY <1>1, <1>3 DEF KeptParts, Work, Alone, Busy, Before
<1>10. ASSUME NEW r \in Reactors PROVE After(r)'
  <2>1. SUFFICES ASSUME rpc[r] \in {"own", "dead"}
                 PROVE  /\ nsock'[rev[r].client] = rev[r].fd /\ Active(rev[r].client)'
                        /\ fdReactor[rev[r].fd] = 0 /\ <<rev[r].fd, rev[r].client>> \notin all
    BY <1>3 DEF After
  <2>2. /\ nsock[rev[r].client] = rev[r].fd /\ Active(rev[r].client)
        /\ fdReactor[rev[r].fd] = 0 /\ <<rev[r].fd, rev[r].client>> \notin all
        /\ rev[r].client \in Clients
    BY <1>1, <2>1 DEF KeptParts, Work, After, Threads, Busy
  <2>3. rev[r].client # c
    BY <1>4, <2>2
  <2>4. Active(rev[r].client)'
    BY <1>3, <2>2, <2>3 DEF Active
  <2>5. QED
    BY <1>3, <2>2, <2>3, <2>4
<1>11. NoneForgotten'
    BY <1>1, <1>3, <1>4 DEF KeptParts, NoneForgotten, CleaningUp
<1>12. Counted'
    BY <1>1, <1>3 DEF KeptParts, Counted
<1>13. QED
    BY <1>5, <1>6, <1>7, <1>8, <1>9, <1>10, <1>11, <1>12 DEF KeptParts, Maps, Work

\* Its registration succeeds, as the maps do not have that number.
LEMMA SubAddKept ==
    ASSUME IInv, Kept, NEW c \in Clients, SubAdd(c)
    PROVE  KeptParts'
<1>1. /\ TypeOK /\ Threads /\ Sockets /\ KeptParts /\ NothingCarriedOver
      /\ \A g \in Fds : fdReactor[g] # 0 =>
            fdReactor[g] \in Reactors /\ fdClient[g] \in Clients /\ nsock[fdClient[g]] = g
      /\ 0 \notin Fds
    BY Known DEF NothingCarriedOver
<1>2. /\ cpc[c] = "add" /\ apc = "idle" /\ all = {} /\ nsock[c] # 0 /\ nsock[c] \in Fds
      /\ UNCHANGED <<nsock, connected, rev, apc, all>>
    BY <1>1 DEF SubAdd, MtxFree, KeptParts, Callers, TypeOK, Threads, adminVars
<1>3. PICK b \in Reactors : Register(b, nsock[c], c) /\ cpc' = [cpc EXCEPT ![c] = "mark"]
  <2>1. \A r \in Reactors : nsock[c] \notin epoll[r]
    BY <1>1, <1>2, NotWatched
  <2>2. QED
    BY <1>1, <1>2, <2>1, SubAddEffect
<1>4. /\ \A d \in Clients : cpc'[d] = IF d = c THEN "mark" ELSE cpc[d]
      /\ ~Active(c)
    BY <1>1, <1>2, <1>3 DEF TypeOK, Active
<1>5. Active(c)' /\ \A d \in Clients : d # c => (Active(d)' <=> Active(d))
    BY <1>2, <1>4 DEF Active
<1>6. Callers'
    BY <1>1, <1>2, <1>4 DEF KeptParts, Callers
<1>7. fdReactor[nsock[c]] = 0
  <2>1. SUFFICES ASSUME fdReactor[nsock[c]] # 0 PROVE FALSE
    OBVIOUS
  <2>2. fdClient[nsock[c]] \in Clients /\ nsock[fdClient[nsock[c]]] = nsock[c]
    BY <1>1, <1>2, <2>1
  <2>3. fdClient[nsock[c]] = c
    BY <1>1, <1>2, <2>2 DEF Sockets
  <2>4. Active(fdClient[nsock[c]])
    BY <1>1, <1>2, <2>1 DEF KeptParts, Maps, InMaps
  <2>5. QED
    BY <1>4, <2>3, <2>4
<1>8. ~CleaningUp(c)
    BY <1>1, <1>4 DEF KeptParts, Work, After, CleaningUp
<1>9. \A r \in Reactors : rpc'[r] = rpc[r] \/ (~Busy(r) /\ ~Busy(r)')
  <2>1. CASE count = 0
    <3>1. \A r \in Reactors : rpc[r] = "exited"
      BY <1>1, <2>1 DEF Threads, Reactors
    <3>2. \A r \in Reactors : rpc'[r] \in {"epoll", rpc[r]}
      BY <1>1, <2>1 DEF SubAdd, TypeOK
    <3>3. QED
      BY <3>1, <3>2 DEF Busy
  <2>2. CASE count # 0
    BY <2>2 DEF SubAdd
  <2>3. QED
    BY <2>1, <2>2
<1>10. Maps' /\ Work' /\ NoneForgotten' /\ Counted'
  <2> DEFINE f == nsock[c]
  <2>1. f \in Fds /\ Register(b, f, c) /\ nsock[c] = f /\ fdReactor[f] = 0
        /\ all' = all \ {<<f, c>>}
    BY <1>2, <1>3, <1>7
  <2> HIDE DEF f
  <2>2. QED
    BY <1>2, <1>5, <1>8, <1>9, <2>1, RegisterKept
<1>11. QED
    BY <1>6, <1>10 DEF KeptParts

\* Registered, it becomes connected.
LEMMA SubMarkKept ==
    ASSUME IInv, Kept, NEW c \in Clients, SubMark(c)
    PROVE  KeptParts'
<1>1. TypeOK /\ KeptParts
    BY Known
<1>2. /\ \A d \in Clients : cpc'[d] = IF d = c THEN "idle" ELSE cpc[d]
      /\ \A d \in Clients : connected'[d] = IF d = c THEN TRUE ELSE connected[d]
      /\ cpc[c] = "mark"
      /\ UNCHANGED <<nsock, epoll, handlers, mapVars, all, apc, rpc, rev>>
    BY <1>1 DEF SubMark, TypeOK, reactorVars, adminVars
<1>3. \A d \in Clients : Active(d)' <=> Active(d)
    BY <1>2 DEF Active
<1>4. Callers'
    BY <1>1, <1>2 DEF KeptParts, Callers
<1>5. Maps' /\ Counted'
    BY <1>2, <1>3, MapsSame
<1>6. Work' /\ NoneForgotten'
  <2>1. UNCHANGED <<fdReactor, fdClient>>
    BY <1>2 DEF mapVars
  <2>2. QED
    BY <1>2, <1>3, <2>1, WorkSame
<1>7. QED
    BY <1>4, <1>5, <1>6 DEF KeptParts

\* A reactor waits, looks its event up, reads, or ends.
LEMMA ReactorMovesKept ==
    ASSUME IInv, Kept, NEW r \in Reactors, EpollWait(r) \/ Exit(r) \/ Lookup(r) \/ Ready(r)
    PROVE  KeptParts'
<1>1. /\ TypeOK /\ Threads /\ KeptParts
      /\ \A g \in Fds : fdReactor[g] # 0 =>
            fdReactor[g] \in Reactors /\ fdClient[g] \in Clients /\ nsock[fdClient[g]] = g
      /\ 0 \notin Reactors /\ Nobody \notin Clients
    BY Known
<1>2. /\ UNCHANGED <<nsock, connected, cpc, epoll, handlers, fdReactor, fdClient, counts, all, apc>>
      /\ \A s \in Reactors \ {r} : rpc'[s] = rpc[s] /\ rev'[s] = rev[s]
      /\ rpc[r] \notin {"own", "dead"}
    BY <1>1 DEF EpollWait, Exit, Lookup, Ready, TypeOK, clientVars, mapVars, adminVars
<1>3. /\ rpc'[r] \notin {"own", "dead"}
      /\ Busy(r)' =>
            /\ rev'[r].fd \in Fds /\ Before(r)'
            /\ \/ fdReactor[rev'[r].fd] = r /\ fdClient[rev'[r].fd] = rev'[r].client
               \/ Busy(r) /\ rev' = rev
  <2>1. CASE EpollWait(r) \/ Exit(r)
    <3>1. rpc'[r] \in {"event", "exited"}
      BY <1>1, <2>1 DEF EpollWait, Exit, TypeOK
    <3>2. QED
      BY <3>1 DEF Busy
  <2>2. CASE Lookup(r)
    <3> DEFINE f == rev[r].fd
               c == handlers[r][f]
    <3>1. /\ f \in Fds /\ rev'[r].fd = f /\ rev'[r].client = c
          /\ rpc'[r] \in IF c = Nobody THEN {"epoll"} ELSE {"ready", "cleanup"}
      BY <1>1, <2>2, LookupEffect
    <3>2. c # Nobody => fdReactor[f] = r /\ fdClient[f] = c
      BY <1>1, <3>1 DEF KeptParts, Maps, InTables
    <3> HIDE DEF f, c
    <3>3. QED
      BY <1>2, <3>1, <3>2 DEF Busy, Before
  <2>3. CASE Ready(r)
    <3>1. /\ rpc[r] = "ready" /\ rpc'[r] \in {"epoll", "cleanup"} /\ UNCHANGED rev
          /\ rev[r].fd \in Fds
      BY <1>1, <2>3 DEF Ready, TypeOK, Threads
    <3>2. Before(r)
      BY <1>1 DEF KeptParts, Work
    <3>3. QED
      BY <1>2, <3>1, <3>2 DEF Busy, Before
  <2>4. QED
    BY <2>1, <2>2, <2>3
<1>4. \A d \in Clients : Active(d)' <=> Active(d)
    BY <1>2 DEF Active
<1>5. Callers'
    BY <1>1, <1>2 DEF KeptParts, Callers
<1>6. Maps' /\ Counted'
    BY <1>2, <1>4, MapsSame DEF mapVars
<1>7. \A s \in Reactors : Before(s)' /\ After(s)'
  <2> TAKE s \in Reactors
  <2>1. CASE s = r
    BY <1>3, <2>1 DEF Before, After, Busy
  <2>2. CASE s # r
    <3>1. Before(s)'
      BY <1>1, <1>2, <2>2 DEF KeptParts, Work, Before
    <3>2. After(s)'
      BY <1>1, <1>2, <2>2 DEF KeptParts, Work, After, Active
    <3>3. QED
      BY <3>1, <3>2
  <2>3. QED
    BY <2>1, <2>2
<1>8. Alone'
  <2>1. ASSUME NEW s \in Reactors, Busy(r)', Busy(s)', rev'[r].client = rev'[s].client, s # r
        PROVE  FALSE
    <3> DEFINE f == rev'[r].fd
               c == rev'[r].client
               g == rev[s].fd
    <3>1. Busy(s) /\ rev[s].client = c /\ g \in Fds
      BY <1>1, <1>2, <2>1 DEF Busy, Threads
    <3>2. CASE Busy(r) /\ rev' = rev
      BY <1>1, <2>1, <3>1, <3>2 DEF KeptParts, Work, Alone
    <3>3. CASE fdReactor[f] = r /\ fdClient[f] = c
      <4>1. f \in Fds
        BY <1>3, <2>1
      <4>2. nsock[c] = f /\ c \in Clients
        BY <1>1, <3>3, <4>1
      <4>3. CASE rpc[s] \in {"own", "dead"}
        <5>1. nsock[c] = g /\ fdReactor[g] = 0
          BY <1>1, <3>1, <4>3 DEF KeptParts, Work, After
        <5>2. QED
          BY <1>1, <3>3, <4>2, <5>1
      <4>4. CASE rpc[s] \in {"ready", "cleanup"}
        <5>1. \/ fdReactor[g] = s /\ fdClient[g] = c
              \/ <<g, c>> \in all
          BY <1>1, <3>1, <4>4 DEF KeptParts, Work, Before
        <5>2. CASE fdReactor[g] = s /\ fdClient[g] = c
          BY <1>1, <2>1, <3>1, <3>3, <4>2, <5>2
        <5>3. CASE <<g, c>> \in all
          BY <1>1, <3>1, <3>3, <4>2, <5>3 DEF KeptParts, Maps, InList
        <5>4. QED
          BY <5>1, <5>2, <5>3
      <4>5. QED
        BY <3>1, <4>3, <4>4 DEF Busy
    <3>4. QED
      BY <1>3, <2>1, <3>2, <3>3
  <2>2. QED
    BY <1>1, <1>2, <2>1 DEF KeptParts, Work, Alone, Busy
<1>9. NoneForgotten'
  <2>1. \A d \in Clients : CleaningUp(d) => CleaningUp(d)'
    BY <1>2 DEF CleaningUp
  <2>2. QED
    BY <1>1, <1>2, <1>4, <2>1 DEF KeptParts, NoneForgotten
<1>10. QED
    BY <1>5, <1>6, <1>7, <1>8, <1>9 DEF KeptParts, Work

\* With mtx_ free, the manager still has the dead descriptor under the reactor and
\* the client that the reactor is at.
LEMMA CleanupRemoveKept ==
    ASSUME IInv, Kept, NEW r \in Reactors, CleanupRemove(r)
    PROVE  KeptParts'
<1> DEFINE f == rev[r].fd
           c == rev[r].client
<1>1. /\ TypeOK /\ Tables /\ Threads /\ Sockets /\ KeptParts
      /\ \A g \in Fds : fdReactor[g] # 0 =>
            fdReactor[g] \in Reactors /\ fdClient[g] \in Clients /\ nsock[fdClient[g]] = g
      /\ 0 \notin Fds /\ 0 \notin Reactors /\ Nobody \notin Clients
    BY Known
<1>2. /\ rpc[r] = "cleanup" /\ rpc'[r] = "own" /\ apc = "idle" /\ all = {}
      /\ \A s \in Reactors : s # r => rpc'[s] = rpc[s]
      /\ UNCHANGED <<nsock, connected, cpc, rev, apc, all>>
      /\ f \in Fds /\ c \in Clients /\ Remove(f)
    BY <1>1 DEF CleanupRemove, MtxFree, TypeOK, Threads, Busy, clientVars, adminVars
<1>3. fdReactor[f] = r /\ fdClient[f] = c
    BY <1>1, <1>2 DEF KeptParts, Work, Before
<1>4. nsock[c] = f /\ Active(c)
    BY <1>1, <1>2, <1>3 DEF KeptParts, Maps, InMaps
<1> HIDE DEF f, c
<1>5. /\ \A s \in Reactors : epoll'[s] = IF s = r THEN epoll[s] \ {f} ELSE epoll[s]
      /\ \A s \in Reactors, g \in Fds :
             handlers'[s][g] = IF s = r /\ g = f THEN Nobody ELSE handlers[s][g]
      /\ \A g \in Fds : fdReactor'[g] = IF g = f THEN 0 ELSE fdReactor[g]
      /\ \A g \in Fds : fdClient'[g] = IF g = f THEN Nobody ELSE fdClient[g]
      /\ \A s \in Reactors :
            counts'[s] = IF s = r /\ counts[s] > 0 THEN counts[s] - 1 ELSE counts[s]
  <2>1. fdReactor[f] # 0
    BY <1>1, <1>3
  <2>2. Tables /\ f \in Fds /\ Remove(f)
    BY <1>1, <1>2
  <2> DEFINE b == fdReactor[f]
  <2>3. /\ \A s \in Reactors : epoll'[s] = IF s = b THEN epoll[s] \ {f} ELSE epoll[s]
        /\ \A s \in Reactors, g \in Fds :
               handlers'[s][g] = IF s = b /\ g = f THEN Nobody ELSE handlers[s][g]
        /\ \A g \in Fds : fdReactor'[g] = IF g = f THEN 0 ELSE fdReactor[g]
        /\ \A g \in Fds : fdClient'[g] = IF g = f THEN Nobody ELSE fdClient[g]
        /\ \A s \in Reactors :
              counts'[s] = IF s = b /\ counts[s] > 0 THEN counts[s] - 1 ELSE counts[s]
    BY <2>1, <2>2, RemoveEffect
  <2>4. QED
    BY <1>3, <2>3
<1>6. \A d \in Clients : (Active(d)' <=> Active(d)) /\ (nsock[d] = f => d = c)
    BY <1>1, <1>2, <1>4 DEF Active, Sockets
<1>7. Callers'
    BY <1>1, <1>2 DEF KeptParts, Callers
<1>8. InMaps'
  <2> SUFFICES ASSUME NEW g \in Fds, fdReactor'[g] # 0
               PROVE  /\ nsock[fdClient'[g]] = g /\ Active(fdClient[g])'
                      /\ g \in epoll'[fdReactor'[g]]
                      /\ handlers'[fdReactor'[g]][g] = fdClient'[g]
    BY <1>2 DEF InMaps
  <2>1. g # f /\ fdReactor'[g] = fdReactor[g] /\ fdClient'[g] = fdClient[g]
    BY <1>5
  <2>2. /\ nsock[fdClient[g]] = g /\ Active(fdClient[g])
        /\ g \in epoll[fdReactor[g]] /\ handlers[fdReactor[g]][g] = fdClient[g]
        /\ fdReactor[g] \in Reactors /\ fdClient[g] \in Clients
    BY <1>1, <2>1 DEF KeptParts, Maps, InMaps
  <2>3. Active(fdClient[g])'
    BY <1>2, <2>1, <2>2 DEF Active
  <2>4. g \in epoll'[fdReactor[g]] /\ handlers'[fdReactor[g]][g] = fdClient[g]
    BY <1>5, <2>1, <2>2
  <2>5. QED
    BY <2>1, <2>2, <2>3, <2>4
<1>9. InList' /\ InTables'
  <2>1. InList'
    BY <1>2 DEF InList
  <2>2. InTables'
    BY <1>1, <1>3, <1>5 DEF KeptParts, Maps, InTables
  <2>3. QED
    BY <2>1, <2>2
<1>10. Alone'
    BY <1>1, <1>2 DEF KeptParts, Work, Alone, Busy
<1>11. \A s \in Reactors : Before(s)'
  <2> SUFFICES ASSUME NEW s \in Reactors, rpc'[s] \in {"ready", "cleanup"}
               PROVE  fdReactor'[rev[s].fd] = s /\ fdClient'[rev[s].fd] = rev[s].client
    BY <1>2 DEF Before
  <2>1. s # r /\ rpc[s] = rpc'[s] /\ rev[s].fd \in Fds
    BY <1>1, <1>2 DEF Threads
  <2>2. fdReactor[rev[s].fd] = s /\ fdClient[rev[s].fd] = rev[s].client
    BY <1>1, <1>2, <2>1 DEF KeptParts, Work, Before
  <2>3. QED
    BY <1>3, <1>5, <2>1, <2>2
<1>12. \A s \in Reactors : After(s)'
  <2> SUFFICES ASSUME NEW s \in Reactors, rpc'[s] \in {"own", "dead"}
               PROVE  /\ nsock[rev[s].client] = rev[s].fd /\ Active(rev[s].client)'
                      /\ fdReactor'[rev[s].fd] = 0
    BY <1>2 DEF After
  <2>1. CASE s = r
    <3>1. rev[s].fd = f /\ rev[s].client = c
      BY <2>1 DEF f, c
    <3>2. QED
      BY <1>2, <1>4, <1>5, <1>6, <3>1
  <2>2. CASE s # r
    <3>1. rpc[s] = rpc'[s] /\ rev[s].fd \in Fds /\ rev[s].client \in Clients
      BY <1>1, <1>2, <2>2 DEF Threads, Busy
    <3>2. nsock[rev[s].client] = rev[s].fd /\ Active(rev[s].client) /\ fdReactor[rev[s].fd] = 0
      BY <1>1, <3>1 DEF KeptParts, Work, After
    <3>3. Active(rev[s].client)'
      BY <1>2, <3>1, <3>2 DEF Active
    <3>4. QED
      BY <1>5, <3>1, <3>2, <3>3
  <2>3. QED
    BY <2>1, <2>2
<1>13. NoneForgotten'
  <2> SUFFICES ASSUME NEW d \in Clients, Active(d)', nsock[d] # 0
               PROVE  fdClient'[nsock[d]] = d \/ CleaningUp(d)'
    BY <1>2 DEF NoneForgotten
  <2>1. CASE d = c
    BY <1>2, <2>1 DEF CleaningUp, c
  <2>2. CASE d # c
    <3>1. Active(d) /\ nsock[d] \in Fds /\ nsock[d] # f
      BY <1>1, <1>6, <2>2 DEF TypeOK
    <3>2. fdClient[nsock[d]] = d \/ CleaningUp(d)
      BY <1>1, <1>2, <3>1 DEF KeptParts, NoneForgotten
    <3>3. CleaningUp(d) => CleaningUp(d)'
      BY <1>2 DEF CleaningUp
    <3>4. QED
      BY <1>5, <3>1, <3>2, <3>3
  <2>3. QED
    BY <2>1, <2>2
<1>14. Counted'
    BY <1>1, <1>2, <1>3, <1>5, OneLess DEF KeptParts, Counted
<1>15. QED
    BY <1>7, <1>8, <1>9, <1>10, <1>11, <1>12, <1>13, <1>14 DEF KeptParts, Maps, Work

\* The reactor's own removal finds nothing left.
LEMMA CleanupOwnKept ==
    ASSUME IInv, Kept, NEW r \in Reactors, CleanupOwn(r)
    PROVE  KeptParts'
<1> DEFINE f == rev[r].fd
<1>1. /\ TypeOK /\ Threads /\ KeptParts
      /\ \A s \in Reactors : \A g \in epoll[s] : fdReactor[g] = s
      /\ 0 \notin Reactors
    BY Known
<1>2. /\ rpc[r] = "own" /\ rpc'[r] = "dead"
      /\ \A s \in Reactors : s # r => rpc'[s] = rpc[s]
      /\ UNCHANGED <<nsock, connected, cpc, rev, fdReactor, fdClient, counts, apc, all>>
      /\ f \in Fds
    BY <1>1 DEF CleanupOwn, TypeOK, Threads, clientVars, mapVars, adminVars
<1>3. fdReactor[f] = 0
    BY <1>1, <1>2 DEF KeptParts, Work, After
<1>4. f \notin epoll[r] /\ handlers[r][f] = Nobody
    BY <1>1, <1>2, <1>3 DEF KeptParts, Maps, InTables
<1>5. UNCHANGED epoll
    BY <1>1, <1>4 DEF CleanupOwn, TypeOK
<1>6. UNCHANGED handlers
  <2>1. handlers[r] \in [Fds -> Clients \cup {Nobody}]
    BY <1>1 DEF TypeOK
  <2>2. [handlers[r] EXCEPT ![f] = Nobody] = handlers[r]
    BY <1>2, <1>4, <2>1
  <2>3. handlers' = [handlers EXCEPT ![r] = [handlers[r] EXCEPT ![f] = Nobody]]
    BY DEF CleanupOwn
  <2>4. QED
    BY <1>1, <2>2, <2>3 DEF TypeOK
<1> HIDE DEF f
<1>7. \A d \in Clients : Active(d)' <=> Active(d)
    BY <1>2 DEF Active
<1>8. Callers'
    BY <1>1, <1>2 DEF KeptParts, Callers
<1>9. Maps' /\ Counted'
    BY <1>2, <1>5, <1>6, <1>7, MapsSame DEF mapVars
<1>10. Work'
  <2>1. \A s \in Reactors : (rpc'[s] \in {"own", "dead"} <=> rpc[s] \in {"own", "dead"})
                            /\ (rpc'[s] \in {"ready", "cleanup"} => rpc'[s] = rpc[s])
                            /\ (Busy(s)' <=> Busy(s))
    BY <1>2 DEF Busy
  <2>2. Alone'
    BY <1>1, <1>2, <2>1 DEF KeptParts, Work, Alone
  <2>3. \A s \in Reactors : Before(s)'
    BY <1>1, <1>2, <2>1 DEF KeptParts, Work, Before
  <2>4. \A s \in Reactors : After(s)'
    BY <1>1, <1>2, <2>1 DEF KeptParts, Work, After, Active
  <2>5. QED
    BY <2>2, <2>3, <2>4 DEF Work
<1>11. NoneForgotten'
  <2>1. \A d \in Clients : CleaningUp(d) => CleaningUp(d)'
    BY <1>2 DEF CleaningUp
  <2>2. QED
    BY <1>1, <1>2, <1>7, <2>1 DEF KeptParts, NoneForgotten
<1>12. QED
    BY <1>8, <1>9, <1>10, <1>11 DEF KeptParts

\* mark_notification_dead ends a client that is in no map any more.
LEMMA CleanupDeadKept ==
    ASSUME IInv, Kept, NEW r \in Reactors, CleanupDead(r)
    PROVE  KeptParts'
<1> DEFINE f == rev[r].fd
           c == rev[r].client
<1>1. /\ TypeOK /\ Threads /\ Sockets /\ KeptParts
      /\ \A g \in Fds : fdReactor[g] # 0 =>
            fdReactor[g] \in Reactors /\ fdClient[g] \in Clients /\ nsock[fdClient[g]] = g
    BY Known
<1>2. /\ rpc[r] = "dead" /\ rpc'[r] = "epoll"
      /\ \A s \in Reactors : s # r => rpc'[s] = rpc[s]
      /\ UNCHANGED <<cpc, handlers, rev, fdReactor, fdClient, counts, apc, all>>
      /\ f \in Fds /\ c \in Clients /\ MarkDead(c)
    BY <1>1 DEF CleanupDead, TypeOK, Threads, Busy, mapVars, adminVars
<1>3. nsock[c] = f /\ Active(c) /\ fdReactor[f] = 0 /\ <<f, c>> \notin all
    BY <1>1, <1>2 DEF KeptParts, Work, After
<1> HIDE DEF f, c
<1>4. /\ \A d \in Clients : nsock'[d] = IF d = c THEN 0 ELSE nsock[d]
      /\ \A d \in Clients : connected'[d] = IF d = c THEN FALSE ELSE connected[d]
      /\ \A s \in Reactors : epoll'[s] = epoll[s] \ {f}
    BY <1>1, <1>2, <1>3, MarkDeadEffect
<1>5. \A d \in Clients : d # c => (Active(d)' <=> Active(d))
    BY <1>2, <1>4 DEF Active
<1>6. Callers'
    BY <1>1, <1>2, <1>3, <1>4 DEF KeptParts, Callers, Active
<1>7. InMaps'
  <2> SUFFICES ASSUME NEW g \in Fds, fdReactor[g] # 0
               PROVE  /\ nsock'[fdClient[g]] = g /\ Active(fdClient[g])'
                      /\ g \in epoll'[fdReactor[g]] /\ handlers[fdReactor[g]][g] = fdClient[g]
    BY <1>2 DEF InMaps
  <2>1. /\ nsock[fdClient[g]] = g /\ Active(fdClient[g])
        /\ g \in epoll[fdReactor[g]] /\ handlers[fdReactor[g]][g] = fdClient[g]
        /\ fdReactor[g] \in Reactors /\ fdClient[g] \in Clients
    BY <1>1 DEF KeptParts, Maps, InMaps
  <2>2. g # f /\ fdClient[g] # c
    BY <1>3, <2>1
  <2>3. Active(fdClient[g])'
    BY <1>2, <1>4, <2>1, <2>2 DEF Active
  <2>4. QED
    BY <1>4, <2>1, <2>2, <2>3
<1>8. InList' /\ InTables'
  <2> SUFFICES ASSUME NEW g \in Fds, NEW d \in Clients, <<g, d>> \in all
               PROVE  nsock'[d] = g /\ Active(d)' /\ fdReactor[g] = 0
    BY <1>1, <1>2 DEF InList, KeptParts, Maps, InTables
  <2>1. nsock[d] = g /\ Active(d) /\ fdReactor[g] = 0
    BY <1>1 DEF KeptParts, Maps, InList
  <2>2. d # c
    BY <1>3, <2>1
  <2>3. QED
    BY <1>4, <1>5, <2>1, <2>2
<1>9. Alone'
    BY <1>1, <1>2 DEF KeptParts, Work, Alone, Busy
<1>10. \A s \in Reactors : Before(s)'
    BY <1>1, <1>2 DEF KeptParts, Work, Before
<1>11. \A s \in Reactors : After(s)'
  <2> SUFFICES ASSUME NEW s \in Reactors, rpc'[s] \in {"own", "dead"}
               PROVE  /\ nsock'[rev[s].client] = rev[s].fd /\ Active(rev[s].client)'
                      /\ fdReactor[rev[s].fd] = 0 /\ <<rev[s].fd, rev[s].client>> \notin all
    BY <1>2 DEF After
  <2>1. s # r /\ rpc[s] = rpc'[s]
    BY <1>2
  <2>2. rev[s].client \in Clients /\ rev[s].client # c
    BY <1>1, <1>2, <2>1 DEF KeptParts, Work, Alone, Busy, Threads, c
  <2>3. /\ nsock[rev[s].client] = rev[s].fd /\ Active(rev[s].client)
        /\ fdReactor[rev[s].fd] = 0 /\ <<rev[s].fd, rev[s].client>> \notin all
    BY <1>1, <2>1 DEF KeptParts, Work, After
  <2>4. Active(rev[s].client)'
    BY <1>2, <1>4, <2>2, <2>3 DEF Active
  <2>5. QED
    BY <1>4, <2>2, <2>3, <2>4
<1>12. NoneForgotten'
  <2> SUFFICES ASSUME NEW d \in Clients, Active(d)', nsock'[d] # 0
               PROVE  fdClient[nsock'[d]] = d \/ <<nsock'[d], d>> \in all \/ CleaningUp(d)'
    BY <1>2 DEF NoneForgotten
  <2>1. d # c /\ nsock'[d] = nsock[d] /\ Active(d)
    BY <1>4, <1>5
  <2>2. fdClient[nsock[d]] = d \/ <<nsock[d], d>> \in all \/ CleaningUp(d)
    BY <1>1, <2>1 DEF KeptParts, NoneForgotten
  <2>3. CleaningUp(d) => CleaningUp(d)'
    BY <1>2, <2>1 DEF CleaningUp, c
  <2>4. QED
    BY <2>1, <2>2, <2>3
<1>13. Counted'
    BY <1>1, <1>2 DEF KeptParts, Counted
<1>14. QED
    BY <1>6, <1>7, <1>8, <1>9, <1>10, <1>11, <1>12, <1>13 DEF KeptParts, Maps, Work

\* set_reactor_count() remembers what is registered and nothing else.
LEMMA ResizeStartKept ==
    ASSUME IInv, Kept, ResizeStart
    PROVE  KeptParts'
<1>1. /\ TypeOK /\ Threads /\ Sockets /\ KeptParts
      /\ \A g \in Fds : fdReactor[g] # 0 =>
            fdReactor[g] \in Reactors /\ fdClient[g] \in Clients /\ nsock[fdClient[g]] = g
      /\ 0 \notin Reactors /\ Nobody \notin Clients
    BY Known
<1>2. /\ apc = "idle" /\ apc' = "stop" /\ all = {}
      /\ UNCHANGED <<nsock, connected, cpc, rpc, rev>>
      /\ \A f \in Fds : fdReactor'[f] = 0
      /\ \A r \in Reactors, f \in Fds :
            handlers'[r][f] = IF fdReactor[f] = r THEN Nobody ELSE handlers[r][f]
    BY <1>1 DEF ResizeStart, Threads, clientVars
<1>3. \A f, c : <<f, c>> \in all' <=> f \in Fds /\ c = fdClient[f] /\ c # Nobody
    BY DEF ResizeStart
<1>4. \A d \in Clients : Active(d)' <=> Active(d)
    BY <1>2 DEF Active
<1>5. Callers'
    BY <1>1, <1>2 DEF KeptParts, Callers
<1>6. InMaps' /\ Counted'
    BY <1>2 DEF InMaps, Counted
<1>7. InList'
  <2> SUFFICES ASSUME NEW f \in Fds, NEW c \in Clients, <<f, c>> \in all'
               PROVE  nsock[c] = f /\ Active(c)'
    BY <1>2 DEF InList
  <2>1. c = fdClient[f] /\ fdReactor[f] # 0
    BY <1>1, <1>3 DEF Sockets
  <2>2. QED
    BY <1>1, <1>4, <2>1 DEF KeptParts, Maps, InMaps
<1>8. InTables'
    BY <1>1, <1>2 DEF KeptParts, Maps, InTables
<1>9. Alone'
    BY <1>1, <1>2 DEF KeptParts, Work, Alone, Busy
<1>10. \A r \in Reactors : Before(r)'
  <2> SUFFICES ASSUME NEW r \in Reactors, rpc[r] \in {"ready", "cleanup"}
               PROVE  <<rev[r].fd, rev[r].client>> \in all'
    BY <1>2 DEF Before
  <2>1. rev[r].fd \in Fds /\ rev[r].client \in Clients
    BY <1>1 DEF Threads, Busy
  <2>2. fdClient[rev[r].fd] = rev[r].client
    BY <1>1, <1>2 DEF KeptParts, Work, Before
  <2>3. QED
    BY <1>1, <1>3, <2>1, <2>2
<1>11. \A r \in Reactors : After(r)'
  <2> SUFFICES ASSUME NEW r \in Reactors, rpc[r] \in {"own", "dead"}
               PROVE  /\ nsock[rev[r].client] = rev[r].fd /\ Active(rev[r].client)'
                      /\ fdReactor'[rev[r].fd] = 0 /\ <<rev[r].fd, rev[r].client>> \notin all'
    BY <1>2 DEF After
  <2>1. rev[r].fd \in Fds /\ rev[r].client \in Clients
    BY <1>1 DEF Threads, Busy
  <2>2. nsock[rev[r].client] = rev[r].fd /\ Active(rev[r].client) /\ fdReactor[rev[r].fd] = 0
    BY <1>1 DEF KeptParts, Work, After
  <2>3. fdClient[rev[r].fd] = Nobody
    BY <1>1, <2>1, <2>2 DEF Sockets
  <2>4. Active(rev[r].client)'
    BY <1>2, <2>1, <2>2 DEF Active
  <2>5. QED
    BY <1>1, <1>2, <1>3, <2>1, <2>2, <2>3, <2>4
<1>12. NoneForgotten'
  <2> SUFFICES ASSUME NEW c \in Clients, Active(c), nsock[c] # 0
               PROVE  <<nsock[c], c>> \in all' \/ CleaningUp(c)'
    BY <1>2, <1>4 DEF NoneForgotten
  <2>1. nsock[c] \in Fds
    BY <1>1 DEF TypeOK
  <2>2. fdClient[nsock[c]] = c \/ CleaningUp(c)
    BY <1>1, <1>2 DEF KeptParts, NoneForgotten
  <2>3. CleaningUp(c) => CleaningUp(c)'
    BY <1>2 DEF CleaningUp
  <2>4. QED
    BY <1>1, <1>3, <2>1, <2>2, <2>3
<1>13. QED
    BY <1>5, <1>6, <1>7, <1>8, <1>9, <1>10, <1>11, <1>12 DEF KeptParts, Maps, Work

\* Reactors are stopped and joined one by one; mtx_ is given back in the end.
LEMMA ResizeJoinKept ==
    ASSUME IInv, Kept, ResizeStop \/ ResizeJoin \/ ResizeDone
    PROVE  KeptParts'
<1>1. TypeOK /\ Threads /\ KeptParts
    BY Known
<1>2. UNCHANGED <<nsock, connected, cpc, rpc, rev, fdReactor, fdClient, counts, all>>
    BY DEF ResizeStop, ResizeJoin, ResizeDone, clientVars, reactorVars, mapVars
<1>3. /\ apc \in {"stop", "join"} => apc' \in {"stop", "join"}
      /\ apc' \in {"idle", "add"} => apc \in {"idle", "add"}
    BY DEF ResizeStop, ResizeJoin, ResizeDone
<1>4. \A d \in Clients : Active(d)' <=> Active(d)
    BY <1>2 DEF Active
<1>5. \/ UNCHANGED <<epoll, handlers>>
      \/ /\ \A f \in Fds : fdReactor[f] = 0
         /\ \A r \in Reactors, f \in Fds : handlers'[r][f] \in {Nobody, handlers[r][f]}
  <2>1. CASE ResizeStop \/ ResizeDone
    BY <2>1 DEF ResizeStop, ResizeDone, reactorVars
  <2>2. CASE ResizeJoin
    <3>1. \A f \in Fds : fdReactor[f] = 0
      BY <1>1, <2>2 DEF ResizeJoin, Threads
    <3>2. \A r \in Reactors : handlers'[r] = IF r = joining THEN NoHandlers ELSE handlers[r]
      BY <1>1, <2>2 DEF ResizeJoin, TypeOK
    <3>3. QED
      BY <3>1, <3>2 DEF NoHandlers
  <2>3. QED
    BY <2>1, <2>2
<1>6. Maps' /\ Counted'
    BY <1>2, <1>3, <1>4, <1>5, MapsSame DEF mapVars
<1>7. Work' /\ NoneForgotten'
    BY <1>2, <1>3, <1>4, WorkSame
<1>8. Callers'
    BY <1>1, <1>2 DEF KeptParts, Callers
<1>9. QED
    BY <1>6, <1>7, <1>8 DEF KeptParts

\* No reactor is left from before when the fresh ones start.
LEMMA ResizeCreateKept ==
    ASSUME IInv, Kept, ResizeCreate
    PROVE  KeptParts'
<1>1. TypeOK /\ Threads /\ KeptParts /\ 0 \notin Reactors
    BY Known
<1>2. /\ UNCHANGED <<nsock, connected, cpc, epoll, handlers, fdReactor, fdClient, all>>
      /\ apc = "stop" /\ joining > count
      /\ \A r \in Reactors : counts'[r] = 0
      /\ \A r \in Reactors : rpc'[r] \in {"epoll", "exited"}
    BY DEF ResizeCreate, clientVars
<1>3. \A r \in Reactors : rpc[r] = "exited"
  <2> TAKE r \in Reactors
  <2>1. joining \in 1..(count + 1) /\ count \in Nat /\ r \in Nat
    BY <1>1, <1>2 DEF Threads, TypeOK, Reactors
  <2>2. r < joining \/ r > count
    BY <1>2, <2>1
  <2>3. QED
    BY <1>1, <1>2, <2>2 DEF Threads
<1>4. \A d \in Clients : (Active(d)' <=> Active(d)) /\ ~CleaningUp(d)
    BY <1>2, <1>3 DEF Active, CleaningUp
<1>5. Callers'
    BY <1>1, <1>2 DEF KeptParts, Callers
<1>6. \A f \in Fds : fdReactor[f] = 0
    BY <1>1, <1>2 DEF Threads
<1>7. Maps'
    BY <1>1, <1>2, <1>4, <1>6 DEF KeptParts, Maps, InMaps, InList, InTables
<1>8. Work'
    BY <1>2 DEF Work, Alone, Before, After, Busy
<1>9. NoneForgotten'
    BY <1>1, <1>2, <1>4 DEF KeptParts, NoneForgotten
<1>10. Counted'
  <2>1. \A r \in Reactors : {f \in Fds : fdReactor'[f] = r} = {}
    BY <1>1, <1>2, <1>6
  <2>2. QED
    BY <1>2, <2>1, FS_EmptySet DEF Counted
<1>11. QED
    BY <1>5, <1>7, <1>8, <1>9, <1>10 DEF KeptParts

\* Each socket it remembers is open still and in no map, so it gets a reactor.
LEMMA ResizeAddKept ==
    ASSUME IInv, Kept, ResizeAdd
    PROVE  KeptParts'
<1>1. /\ TypeOK /\ Threads /\ KeptParts /\ 0 \notin Fds
    BY Known
<1>2. /\ apc = "add"
      /\ UNCHANGED <<nsock, connected, cpc, rpc, rev>>
    BY DEF ResizeAdd, clientVars
<1>3. PICK f \in Fds, c \in Clients :
         /\ <<f, c>> \in all
         /\ \/ /\ \E b \in Reactors : Register(b, f, c)
               /\ f \in Open /\ all' = all \ {<<f, c>>} /\ UNCHANGED apc
            \/ f \notin Open
    BY <1>1, ResizeAddEffect
<1>4. nsock[c] = f /\ Active(c) /\ fdReactor[f] = 0
    BY <1>1, <1>3 DEF KeptParts, Maps, InList
<1>5. f \in Open
    BY <1>1, <1>4 DEF Open
<1>6. PICK b \in Reactors : Register(b, f, c)
    BY <1>3, <1>5
<1>7. all' = all \ {<<f, c>>} /\ UNCHANGED apc
    BY <1>3, <1>5
<1>8. ~CleaningUp(c)
  <2>1. SUFFICES ASSUME NEW r \in Reactors, rpc[r] \in {"own", "dead"}, rev[r].client = c
                 PROVE  FALSE
    BY DEF CleaningUp
  <2>2. nsock[c] = rev[r].fd /\ <<rev[r].fd, c>> \notin all
    BY <1>1, <2>1 DEF KeptParts, Work, After
  <2>3. QED
    BY <1>3, <1>4, <2>2
<1>9. \A d \in Clients : Active(d)' <=> Active(d)
    BY <1>2 DEF Active
<1>10. Maps' /\ Work' /\ NoneForgotten' /\ Counted'
    BY <1>2, <1>4, <1>6, <1>7, <1>8, <1>9, RegisterKept
<1>11. Callers'
    BY <1>1, <1>2 DEF KeptParts, Callers
<1>12. QED
    BY <1>10, <1>11 DEF KeptParts

\* Every step that neither deletes nor refuses keeps the parts.
LEMMA KeptStep ==
    ASSUME IInv, [Next]_vars, Kept'
    PROVE  KeptParts'
<1>1. Kept /\ \A c \in Clients : ~SubRefused(c) /\ ~DelRead(c)
    BY BoundsStep DEF IInv
<1>2. TypeOK /\ KeptParts
    BY <1>1, Known
<1>3. ASSUME NEW c \in Clients, Client(c) PROVE KeptParts'
  <2>1. ~DelRemove(c) /\ ~Dead(c)
    BY <1>2 DEF DelRemove, Dead, KeptParts, Callers
  <2>2. QED
    BY <1>1, <1>3, <2>1, SubOpenKept, SubAddKept, SubMarkKept DEF Client
<1>4. ASSUME NEW r \in Reactors, Reactor(r) PROVE KeptParts'
    BY <1>1, <1>4, ReactorMovesKept, CleanupRemoveKept, CleanupOwnKept, CleanupDeadKept DEF Reactor
<1>5. CASE ResizeStart \/ Resizing
    BY <1>1, <1>5, ResizeStartKept, ResizeJoinKept, ResizeCreateKept, ResizeAddKept DEF Resizing
<1>6. CASE (\E f \in Fds : DeviceClose(f)) \/ UNCHANGED vars
  <2>1. UNCHANGED <<nsock, connected, cpc, epoll, handlers, fdReactor, fdClient, counts, apc, all, rpc, rev>>
    BY <1>6 DEF DeviceClose, vars, clientVars, reactorVars, mapVars, adminVars
  <2>2. \A d \in Clients : Active(d)' <=> Active(d)
    BY <2>1 DEF Active
  <2>3. Maps' /\ Counted'
    BY <1>1, <2>1, <2>2, MapsSame DEF mapVars
  <2>4. Work' /\ NoneForgotten'
    BY <1>1, <2>1, <2>2, WorkSame
  <2>5. Callers'
    BY <1>2, <2>1 DEF KeptParts, Callers
  <2>6. QED
    BY <2>3, <2>4, <2>5 DEF KeptParts
<1>7. QED
    BY <1>3, <1>4, <1>5, <1>6 DEF Next

-----------------------------------------------------------------------------
\* The invariant holds at first,
LEMMA InitHolds ==
    ASSUME Init
    PROVE  IInv
<1> USE DEF Init
<1>1. TypeOK
  <2>1. NoHandlers \in [Fds -> Clients \cup {Nobody}] /\ 0 \in 0..MaxReactors
        /\ 0 \in 0..(MaxReactors + 1)
    BY ManagerAssumption DEF NoHandlers
  <2>2. NoEvent \in [fd : Fds \cup {0}, hup : BOOLEAN, client : Clients \cup {Nobody}]
    BY DEF NoEvent
  <2>3. QED
    BY <2>1, <2>2 DEF TypeOK
<1>2. Threads
    BY DEF Threads, Busy
<1>3. Sockets
    BY DEF Sockets, NoHandlers
<1>4. Tracked /\ Fresh
    BY DEF Tracked, Fresh
<1>5. Callers /\ Maps /\ NoneForgotten
    BY DEF Callers, Maps, InMaps, InList, InTables, NoneForgotten, NoHandlers, Active
<1>6. Work
    BY DEF Work, Alone, Before, After, Busy
<1>7. Counted
  <2>1. \A r \in Reactors : {f \in Fds : fdReactor[f] = r} = {}
    BY ManagerAssumption DEF Reactors
  <2>2. QED
    BY <2>1, FS_EmptySet DEF Counted
<1>8. QED
    BY <1>1, <1>2, <1>3, <1>4, <1>5, <1>6, <1>7 DEF IInv, KeptParts

\* and every step keeps it.
LEMMA InvariantStep ==
    ASSUME IInv, [Next]_vars
    PROVE  IInv'
<1>1. TypeOK /\ Threads /\ Sockets
    BY DEF IInv
<1>2. TypeOK' /\ Threads' /\ Sockets' /\ Tracked' /\ Fresh'
    BY <1>1, TypesStep, ThreadsStep, SocketsStep, TrackedStep, FreshStep
<1>3. Kept' => KeptParts'
    BY KeptStep
<1>4. QED
    BY <1>2, <1>3 DEF IInv

\* The inductive invariant, for any clients, descriptors, reactors and bounds.
THEOREM ManagerInvariant == Spec => []IInv
<1>1. Init => IInv
    BY InitHolds
<1>2. IInv /\ [Next]_vars => IInv'
    BY InvariantStep
<1>3. QED
    BY <1>1, <1>2, PTL DEF Spec

\* The manager's and the reactors' variables keep their types.
THEOREM ManagerTypes == Spec => []TypeOK
<1>1. IInv => TypeOK
    BY DEF IInv
<1>2. QED
    BY <1>1, ManagerInvariant, PTL

\* A socket is watched by one reactor at most, whatever clients subscribe and
\* devices hang up: no two reactor threads run on_notification_ready() for it.
THEOREM EverySocketHasOneReactor == Spec => []OneReactorPerFd
<1>1. ASSUME IInv PROVE OneReactorPerFd
  <2> SUFFICES ASSUME NothingCarriedOver, NEW f \in Fds
               PROVE  Cardinality({r \in Reactors : f \in epoll[r]}) <= 1
    BY DEF OneReactorPerFd
  <2> DEFINE watching == {r \in Reactors : f \in epoll[r]}
             one == {fdReactor[f]}
  <2>1. watching \in SUBSET one
    BY <1>1 DEF IInv, Tracked
  <2>2. IsFiniteSet(one) /\ Cardinality(one) = 1
    BY FS_Singleton
  <2> HIDE DEF watching, one
  <2>3. Cardinality(watching) <= Cardinality(one)
    BY <2>1, <2>2, FS_Subset
  <2>4. QED
    BY <2>2, <2>3 DEF watching
<1>2. QED
    BY <1>1, ManagerInvariant, PTL

\* While mtx_ is free, whatever a reactor watches is in fd_to_reactor_ and
\* fd_to_client_ under that reactor and client, so that remove() finds it.
THEOREM EveryWatchedSocketIsTracked == Spec => []WatchedIsTracked
<1>1. IInv => WatchedIsTracked
    BY DEF IInv, Tracked, WatchedIsTracked
<1>2. QED
    BY <1>1, ManagerInvariant, PTL

\* If nothing was deleted or refused, device_counts_ is exact whenever mtx_ is
\* free: add() balances by the true loads, after a resize too.
THEOREM CountsAreExact == Spec => []CountsExact
<1>1. IInv => CountsExact
    BY DEF IInv, KeptParts, Counted, CountsExact, MtxFree
<1>2. QED
    BY <1>1, ManagerInvariant, PTL

\* If nothing was deleted or refused, an active subscription's socket is watched
\* for its own client, across hangups, reused descriptors and resizes.
THEOREM ActiveSubscriptionsAreWatched == Spec => []KeptIsWatched
<1>1. ASSUME IInv PROVE KeptIsWatched
  <2> SUFFICES ASSUME Kept, MtxFree, NEW c \in Clients,
                      cpc[c] = "idle", connected[c], nsock[c] # 0, ~CleaningUp(c)
               PROVE  \E r \in Reactors : nsock[c] \in epoll[r] /\ handlers[r][nsock[c]] = c
    BY DEF KeptIsWatched, ActiveIsWatched
  <2>1. /\ TypeOK /\ Threads /\ Sockets /\ KeptParts
        /\ \A f \in Fds : fdReactor[f] # 0 => fdReactor[f] \in Reactors
        /\ Nobody \notin Clients
    BY <1>1, Known
  <2>2. nsock[c] \in Fds /\ all = {}
    BY <2>1 DEF TypeOK, Threads, MtxFree
  <2>3. fdClient[nsock[c]] = c
    BY <2>1, <2>2 DEF KeptParts, NoneForgotten, Active
  <2>4. fdReactor[nsock[c]] # 0
    BY <2>1, <2>2, <2>3 DEF Sockets
  <2>5. QED
    BY <2>1, <2>2, <2>3, <2>4 DEF KeptParts, Maps, InMaps
<1>2. QED
    BY <1>1, ManagerInvariant, PTL
=============================================================================
