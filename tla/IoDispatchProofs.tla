-------------------------- MODULE IoDispatchProofs --------------------------
(***************************************************************************)
(* The event loop of an I/O thread, for any clients, descriptors, backends *)
(* and requests: who owns which descriptor, what libevent holds, and what  *)
(* the sessions relay.                                                     *)
(*                                                                         *)
(* A callback goes through states of the kernel and of libevent that are   *)
(* no states of the specification, so the parts of the invariant are       *)
(* operators on the kernel's record, on libevent's record, on the          *)
(* descriptor of each session's event and on the set of live sessions.     *)
(***************************************************************************)
EXTENDS IoDispatch, FiniteSetTheorems, TLAPS

Events == [s : Sessions, res : {"read", "timeout"}]

LibTypes ==
  [inserted : SUBSET Sessions, timers : Seq(Sessions),
   evread : [Fds -> Sessions \cup {Nil}], active : Seq(Events)]

\* libevent is right about the sessions that are live, when fdOf gives the
\* descriptor of the event of each.
EventsSound(lb, fdOf, live) ==
  /\ lb \in LibTypes
  /\ Range(lb.timers) = lb.inserted
  /\ IsInjective(lb.timers)
  /\ \A f \in Fds : lb.evread[f] # Nil =>
       lb.evread[f] \in lb.inserted /\ fdOf[lb.evread[f]] = f
  /\ lb.inserted \subseteq live
  /\ \A i \in DOMAIN lb.active :
       /\ lb.active[i].s \in live
       /\ lb.active[i].res = "read" => fdOf[lb.active[i].s] \in Fds
  /\ \A i, j \in DOMAIN lb.active : lb.active[i].s = lb.active[j].s => i = j

\* libevent holds nothing of the session.
Absent(lb, s) ==
  s \notin lb.inserted /\ \A i \in DOMAIN lb.active : lb.active[i].s # s

Requests == {p \in Pieces : p.seg = 0}
Tokens   == {p \in Pieces : p.seg < Segments}

NetTypes ==
  [owner : [Fds -> Sessions \cup Backends \cup {Nil}],
   peer : [Fds -> {"up", "syn", "late", "gone"}],
   inq : [Fds -> Seq(Pieces)], reqs : [Fds -> Seq(Tokens)], epoll : SUBSET Fds]

\* Clients send requests, backends are sent requests that are not answered in
\* full, and a descriptor begins empty.
DataSound(nt) ==
  /\ nt \in NetTypes
  /\ \A f \in Fds :
       /\ nt.owner[f] \in Sessions => nt.inq[f] \in Seq(Requests)
       /\ nt.owner[f] = Nil => nt.inq[f] = <<>> /\ nt.reqs[f] = <<>>

\* Each live session has its client's socket, and nobody else has one but the
\* clients that were accepted and got no session.
ClientsOwn(nt, client, live, lost) ==
  /\ \A s \in live : client[s] \in Fds /\ nt.owner[client[s]] = s
  /\ \A f \in Fds : nt.owner[f] \in Sessions =>
       \/ nt.owner[f] \in live /\ client[nt.owner[f]] = f
       \/ nt.owner[f] \in lost

\* What is cached is a connection to the entry's backend.  Where Io_Comp is an
\* order, no two entries are alike and a connection that was established in
\* time is cached.
Entries == [of : Backends, sd : Fds]

CachedSound(nt, cached) ==
  /\ cached \subseteq Entries
  /\ \A e \in cached : nt.owner[e.sd] = e.of /\ \A d \in cached : d.sd = e.sd => d = e
  /\ Ordered =>
       /\ \A d, e \in cached : <<d.of, e.of>> \in Alike => d = e
       /\ \A f \in Fds : nt.owner[f] \in Backends /\ nt.peer[f] = "up" =>
            \E e \in cached : e.sd = f

NetSound(nt, client, live, lost, cached) ==
  DataSound(nt) /\ ClientsOwn(nt, client, live, lost) /\ CachedSound(nt, cached)

EventFds     == [s \in Sessions |-> EvFd(s)]
LiveSessions == {s \in Sessions : Live(s)}
LostSessions == {s \in Sessions : waits[s] = "lost"}

SessionTypes ==
  /\ phase    \in {"poll", "process"}
  /\ waits    \in [Sessions -> {"none", "up", "down", "freed", "lost"}]
  /\ clientFd \in [Sessions -> Fds \cup {Nil}]
  /\ downFd   \in [Sessions -> Fds \cup {Nil}]
  /\ upBuf    \in [Sessions -> Seq(Requests)]
  /\ unset    \in [Sessions -> SUBSET {"up", "down"}]
  /\ cache    \in SUBSET Entries
  /\ asked    \in [Sessions -> Nat]
  /\ \A s \in Sessions : asked[s] <= MaxReqs[s]
  /\ got      \in [Sessions -> Seq(Pieces)]
  /\ ended = FALSE /\ crashed \in BOOLEAN
  /\ \A s \in Sessions : clientFd[s] = Nil <=> waits[s] \in {"none", "lost"}

\* The invariant as long as the thread runs.
Running ==
  /\ SessionTypes
  /\ EventsSound(lib, EventFds, LiveSessions)
  /\ NetSound(net, clientFd, LiveSessions, LostSessions, cache)

Promises ==
  TypeOK /\ NoDanglingEvent /\ RegisteredHasTimer /\ ClientSocketOwned /\ CacheSound

DispatchInv == Promises /\ (~ ended => Running)
-----------------------------------------------------------------------------
(* Sequences. *)

LEMMA RemovedAt ==
  ASSUME NEW S, NEW q \in Seq(S), NEW i \in 1..Len(q)
  PROVE  /\ RemoveAt(q, i) \in Seq(S)
         /\ Len(RemoveAt(q, i)) = Len(q) - 1
         /\ \A j \in 1..Len(q) - 1 : RemoveAt(q, i)[j] = q[IF j < i THEN j ELSE j + 1]
<1> DEFINE a == SubSeq(q, 1, i - 1)
           b == SubSeq(q, i + 1, Len(q))
<1>1. Len(q) \in Nat /\ i \in Nat
  OBVIOUS
<1>2. a \in Seq(S) /\ Len(a) = i - 1 /\ \A j \in 1..i - 1 : a[j] = q[j]
  OBVIOUS
<1>3. b \in Seq(S) /\ Len(b) = Len(q) - i /\ \A j \in 1..Len(q) - i : b[j] = q[i + j]
  OBVIOUS
<1> HIDE DEF a, b
<1>4. a \o b \in Seq(S) /\ Len(a \o b) = Len(q) - 1
  <2>1. a \in Seq(S) /\ b \in Seq(S)
    BY <1>2, <1>3
  <2>2. a \o b \in Seq(S) /\ Len(a \o b) = Len(a) + Len(b)
    BY ONLY <2>1
  <2> QED BY <1>1, <1>2, <1>3, <2>2
<1>5. ASSUME NEW j \in 1..Len(q) - 1 PROVE (a \o b)[j] = q[IF j < i THEN j ELSE j + 1]
  <2>1. CASE j < i
    BY <1>1, <1>2, <1>3, <2>1
  <2>2. CASE ~ (j < i)
    <3>1. (a \o b)[j] = b[j - (i - 1)]
      BY <1>1, <1>2, <1>3, <2>2
    <3>2. j - (i - 1) \in 1..Len(q) - i /\ i + (j - (i - 1)) = j + 1
      BY <1>1, <2>2
    <3> QED BY <1>3, <2>2, <3>1, <3>2
  <2> QED BY <2>1, <2>2
<1> QED BY <1>4, <1>5 DEF RemoveAt, a, b

\* TakeOut keeps all the other elements, each once.
LEMMA TakenOut ==
  ASSUME NEW S, NEW q \in Seq(S), NEW at \in SUBSET DOMAIN q, \A i, j \in at : i = j
  PROVE  /\ TakeOut(q, at) \in Seq(S)
         /\ \E m \in [DOMAIN TakeOut(q, at) -> DOMAIN q \ at] :
              /\ \A j \in DOMAIN TakeOut(q, at) : TakeOut(q, at)[j] = q[m[j]]
              /\ \A j, k \in DOMAIN TakeOut(q, at) : m[j] = m[k] => j = k
              /\ \A i \in DOMAIN q \ at : \E j \in DOMAIN TakeOut(q, at) : m[j] = i
<1> DEFINE p == TakeOut(q, at)
<1>1. CASE at = {}
  <2>1. p = q
    BY <1>1 DEF TakeOut
  <2> HIDE DEF p
  <2> DEFINE m == [j \in DOMAIN q |-> j]
  <2>2. m \in [DOMAIN q -> DOMAIN q \ at] /\ \A j \in DOMAIN q : m[j] = j
    BY <1>1
  <2> HIDE DEF m
  <2>3. \E x \in [DOMAIN p -> DOMAIN q \ at] :
          /\ \A j \in DOMAIN p : p[j] = q[x[j]]
          /\ \A j, k \in DOMAIN p : x[j] = x[k] => j = k
          /\ \A h \in DOMAIN q \ at : \E j \in DOMAIN p : x[j] = h
    BY <2>1, <2>2
  <2> QED BY <2>1, <2>3 DEF p
<1>2. CASE at # {}
  <2>1. PICK i \in DOMAIN q : at = {i} /\ p = RemoveAt(q, i)
    BY <1>2 DEF TakeOut
  <2>2. Len(q) \in Nat /\ i \in 1..Len(q)
    OBVIOUS
  <2>3. /\ p \in Seq(S) /\ DOMAIN p = 1..Len(q) - 1
        /\ \A j \in 1..Len(q) - 1 : p[j] = q[IF j < i THEN j ELSE j + 1]
    <3> HIDE DEF p
    <3>1. /\ p \in Seq(S) /\ Len(p) = Len(q) - 1
          /\ \A j \in 1..Len(q) - 1 : p[j] = q[IF j < i THEN j ELSE j + 1]
      BY <2>1, <2>2, RemovedAt
    <3>2. DOMAIN p = 1..Len(p)
      BY <3>1
    <3> QED BY <3>1, <3>2
  <2> HIDE DEF p
  <2> DEFINE m == [j \in 1..Len(q) - 1 |-> IF j < i THEN j ELSE j + 1]
  <2>4. m \in [DOMAIN p -> DOMAIN q \ at]
    BY <2>1, <2>2, <2>3
  <2>5. \A j \in DOMAIN p : p[j] = q[m[j]]
    BY <2>3
  <2>6. \A j, k \in DOMAIN p : m[j] = m[k] => j = k
    BY <2>2, <2>3
  <2>7. ASSUME NEW h \in DOMAIN q \ at PROVE \E j \in DOMAIN p : m[j] = h
    <3>1. h \in 1..Len(q) /\ h # i
      BY <2>1, <2>2
    <3>2. CASE h < i
      <4>1. h \in DOMAIN p /\ m[h] = h
        BY <2>2, <2>3, <3>1, <3>2
      <4> QED BY <4>1
    <3>3. CASE h > i
      <4>1. h - 1 \in DOMAIN p /\ m[h - 1] = h
        BY <2>2, <2>3, <3>1, <3>3
      <4> QED BY <4>1
    <3> QED BY <2>2, <3>1, <3>2, <3>3
  <2> HIDE DEF m
  <2>8. \E x \in [DOMAIN p -> DOMAIN q \ at] :
          /\ \A j \in DOMAIN p : p[j] = q[x[j]]
          /\ \A j, k \in DOMAIN p : x[j] = x[k] => j = k
          /\ \A h \in DOMAIN q \ at : \E j \in DOMAIN p : x[j] = h
    BY <2>4, <2>5, <2>6, <2>7
  <2> QED BY <2>3, <2>8 DEF p
<1> QED BY <1>1, <1>2

-----------------------------------------------------------------------------
(* libevent. *)

\* event_del takes all out that libevent holds of the session.
LEMMA DelSound ==
  ASSUME NEW lb, NEW fdOf, NEW live, EventsSound(lb, fdOf, live), NEW s
  PROVE  /\ EventsSound(LibDel(lb, s, fdOf[s]), fdOf, live)
         /\ Absent(LibDel(lb, s, fdOf[s]), s)
<1> DEFINE new == LibDel(lb, s, fdOf[s])
           ats == {i \in DOMAIN lb.timers : lb.timers[i] = s}
           act == {i \in DOMAIN lb.active : lb.active[i].s = s}
<1> USE DEF EventsSound, LibTypes
<1>1. /\ lb.timers \in Seq(Sessions) /\ ats \in SUBSET DOMAIN lb.timers
      /\ lb.active \in Seq(Events) /\ act \in SUBSET DOMAIN lb.active
      /\ \A i, j \in ats : i = j
      /\ \A i, j \in act : i = j
  BY DEF IsInjective
<1>2. /\ new.inserted = lb.inserted \ {s}
      /\ new.timers = TakeOut(lb.timers, ats)
      /\ new.active = TakeOut(lb.active, act)
      /\ new.evread = IF s \in lb.inserted THEN [lb.evread EXCEPT ![fdOf[s]] = Nil] ELSE lb.evread
      /\ new = [inserted |-> new.inserted, timers |-> new.timers,
                evread |-> new.evread, active |-> new.active]
  <2>1. lb \in LibTypes
    OBVIOUS
  <2>2. lb = [inserted |-> lb.inserted, timers |-> lb.timers,
              evread |-> lb.evread, active |-> lb.active]
    BY <2>1
  <2> HIDE DEF EventsSound, LibTypes, ats, act
  <2>3. new = [lb EXCEPT
                 !.evread = IF s \in lb.inserted THEN [lb.evread EXCEPT ![fdOf[s]] = Nil]
                            ELSE lb.evread,
                 !.inserted = lb.inserted \ {s}, !.timers = TakeOut(lb.timers, ats),
                 !.active = TakeOut(lb.active, act)]
    BY DEF LibDel, ats, act
  <2> HIDE DEF new
  <2> QED BY <2>2, <2>3
<1>3. /\ new.timers \in Seq(Sessions)
      /\ \E m \in [DOMAIN new.timers -> DOMAIN lb.timers \ ats] :
           /\ \A j \in DOMAIN new.timers : new.timers[j] = lb.timers[m[j]]
           /\ \A j, k \in DOMAIN new.timers : m[j] = m[k] => j = k
           /\ \A i \in DOMAIN lb.timers \ ats : \E j \in DOMAIN new.timers : m[j] = i
  <2> HIDE DEF ats, new
  <2> QED BY <1>1, <1>2, TakenOut
<1>4. /\ new.active \in Seq(Events)
      /\ \E m \in [DOMAIN new.active -> DOMAIN lb.active \ act] :
           /\ \A j \in DOMAIN new.active : new.active[j] = lb.active[m[j]]
           /\ \A j, k \in DOMAIN new.active : m[j] = m[k] => j = k
           /\ \A i \in DOMAIN lb.active \ act : \E j \in DOMAIN new.active : m[j] = i
  <2> HIDE DEF act, new, EventsSound, LibTypes
  <2>1. lb.active \in Seq(Events) /\ act \in SUBSET DOMAIN lb.active /\ \A i, j \in act : i = j
    BY <1>1
  <2>2. new.active = TakeOut(lb.active, act)
    BY <1>2
  <2> QED BY <2>1, <2>2, TakenOut
<1> HIDE DEF new
<1>5. new \in LibTypes
  <2>1. new.evread \in [Fds -> Sessions \cup {Nil}] /\ new.inserted \in SUBSET Sessions
    BY <1>2
  <2> QED BY <1>2, <1>3, <1>4, <2>1
<1>6. Range(new.timers) = new.inserted /\ IsInjective(new.timers)
  <2>1. PICK m \in [DOMAIN new.timers -> DOMAIN lb.timers \ ats] :
          /\ \A j \in DOMAIN new.timers : new.timers[j] = lb.timers[m[j]]
          /\ \A j, k \in DOMAIN new.timers : m[j] = m[k] => j = k
          /\ \A i \in DOMAIN lb.timers \ ats : \E j \in DOMAIN new.timers : m[j] = i
    BY <1>3
  <2>2. \A j \in DOMAIN new.timers : m[j] \in DOMAIN lb.timers /\ lb.timers[m[j]] # s
    BY <2>1
  <2>3. \A i \in DOMAIN lb.timers : lb.timers[i] # s => \E j \in DOMAIN new.timers : new.timers[j] = lb.timers[i]
    BY <2>1
  <2>4. Range(lb.timers) = lb.inserted /\ IsInjective(lb.timers)
    OBVIOUS
  <2> HIDE DEF EventsSound, LibTypes, ats
  <2>5. IsInjective(new.timers)
    BY <2>1, <2>2, <2>4 DEF IsInjective
  <2>6. \A t : t \in Range(new.timers) <=> t \in Range(lb.timers) /\ t # s
    BY <2>1, <2>2, <2>3 DEF Range
  <2>7. Range(new.timers) = lb.inserted \ {s}
    BY <2>4, <2>6
  <2> QED BY <1>2, <2>5, <2>7
<1>7. ASSUME NEW f \in Fds, new.evread[f] # Nil
      PROVE  new.evread[f] \in new.inserted /\ fdOf[new.evread[f]] = f
  <2>1. new.evread[f] = lb.evread[f] /\ (s \in lb.inserted => f # fdOf[s])
    BY <1>2, <1>7
  <2> QED BY <1>2, <1>7, <2>1
<1>8. /\ \A i \in DOMAIN new.active :
           /\ new.active[i].s \in live /\ new.active[i].s # s
           /\ new.active[i].res = "read" => fdOf[new.active[i].s] \in Fds
      /\ \A i, j \in DOMAIN new.active : new.active[i].s = new.active[j].s => i = j
  BY <1>4
<1>9. new.inserted \subseteq live /\ s \notin new.inserted
  BY <1>2
<1> QED BY <1>5, <1>6, <1>7, <1>8, <1>9 DEF Absent, new

\* A session of which libevent holds nothing may change, appear or go.
LEMMA AbsentSound ==
  ASSUME NEW lb, NEW fdOf, NEW live, EventsSound(lb, fdOf, live), NEW s, Absent(lb, s),
         NEW fdOf2, NEW live2,
         live \ {s} \subseteq live2,
         \A t \in live \ {s} : fdOf2[t] = fdOf[t]
  PROVE  EventsSound(lb, fdOf2, live2)
BY DEF EventsSound, Absent

\* event_add arms the event of a session and its timeout.
LEMMA AddSound ==
  ASSUME NEW lb, NEW fdOf, NEW live, EventsSound(lb, fdOf, live),
         NEW s \in Sessions, s \in live, s \notin lb.inserted, NEW f, fdOf[s] = f, NEW nt
  PROVE  EventsSound(LibAdd(nt, lb, s, f), fdOf, live)
<1> DEFINE new == LibAdd(nt, lb, s, f)
<1> USE DEF EventsSound, LibTypes
<1>1. CASE ~ CanAdd(nt, lb, f)
  BY <1>1 DEF LibAdd
<1>2. CASE CanAdd(nt, lb, f)
  <2>1. /\ new.inserted = lb.inserted \cup {s}
        /\ new.timers = Append(lb.timers, s)
        /\ new.evread = [lb.evread EXCEPT ![f] = s]
        /\ new.active = lb.active
        /\ new = [inserted |-> new.inserted, timers |-> new.timers,
                  evread |-> new.evread, active |-> new.active]
    BY <1>2 DEF LibAdd
  <2>2. f \in Fds
    BY <1>2 DEF CanAdd
  <2> HIDE DEF new
  <2>3. new \in LibTypes
    <3>1. new.timers \in Seq(Sessions) /\ new.evread \in [Fds -> Sessions \cup {Nil}]
          /\ new.inserted \in SUBSET Sessions
      BY <2>1, <2>2
    <3> QED BY <2>1, <3>1
  <2>4. Range(new.timers) = new.inserted /\ IsInjective(new.timers)
    <3>1. lb.timers \in Seq(Sessions) /\ Len(lb.timers) \in Nat /\ s \notin Range(lb.timers)
      OBVIOUS
    <3>2. DOMAIN new.timers = 1..Len(lb.timers) + 1 /\ DOMAIN lb.timers = 1..Len(lb.timers)
          /\ new.timers[Len(lb.timers) + 1] = s
          /\ \A i \in 1..Len(lb.timers) : new.timers[i] = lb.timers[i]
      BY <2>1, <3>1
    <3>3. \A i \in DOMAIN new.timers : i \in DOMAIN lb.timers \/ i = Len(lb.timers) + 1
      BY <3>1, <3>2
    <3>4. \A i \in DOMAIN lb.timers : i \in DOMAIN new.timers
      BY <3>1, <3>2
    <3>5. Len(lb.timers) + 1 \in DOMAIN new.timers
      BY <3>1, <3>2
    <3> QED BY <2>1, <3>1, <3>2, <3>3, <3>4, <3>5 DEF Range, IsInjective
  <2>5. \A g \in Fds : new.evread[g] # Nil =>
          new.evread[g] \in new.inserted /\ fdOf[new.evread[g]] = g
    BY <2>1, <2>2
  <2> QED BY <2>1, <2>3, <2>4, <2>5 DEF new
<1> QED BY <1>1, <1>2

\* An event joins the active queue.
LEMMA ActiveSound ==
  ASSUME NEW lb, NEW fdOf, NEW live, EventsSound(lb, fdOf, live),
         NEW s \in Sessions, s \in live, ~ IsActive(lb, s), NEW res \in {"read", "timeout"},
         res = "read" => fdOf[s] \in Fds
  PROVE  EventsSound([lb EXCEPT !.active = Append(@, [s |-> s, res |-> res])], fdOf, live)
<1> DEFINE ev == [s |-> s, res |-> res]
           q == Append(lb.active, ev)
           n == Len(lb.active)
<1> USE DEF EventsSound, LibTypes
<1>1. lb.active \in Seq(Events) /\ n \in Nat /\ DOMAIN lb.active = 1..n
  OBVIOUS
<1>2. ev \in Events /\ ev.s = s /\ ev.res = res
  BY DEF Events
<1> HIDE DEF ev
<1>3. q \in Seq(Events) /\ DOMAIN q = 1..n + 1 /\ q[n + 1] = ev
      /\ \A i \in 1..n : q[i] = lb.active[i]
  BY <1>1, <1>2
<1>4. \A i \in DOMAIN q : i \in 1..n \/ i = n + 1
  BY <1>1, <1>3
<1> HIDE DEF q, n
<1>5. /\ \A i \in DOMAIN q :
           /\ q[i].s \in live
           /\ q[i].res = "read" => fdOf[q[i].s] \in Fds
      /\ \A i, j \in DOMAIN q : q[i].s = q[j].s => i = j
  BY <1>1, <1>2, <1>3, <1>4 DEF IsActive
<1>6. EventsSound([lb EXCEPT !.active = q], fdOf, live)
  BY <1>3, <1>5
<1> QED BY <1>6 DEF q, ev
-----------------------------------------------------------------------------
(* The kernel. *)

\* The epoll set plays no part in who owns a socket and what it holds.
LEMMA EpollSound ==
  ASSUME NEW nt, NEW client, NEW lost, NEW live, NEW cached, NetSound(nt, client, live, lost, cached),
         NEW e \in SUBSET Fds
  PROVE  NetSound([nt EXCEPT !.epoll = e], client, live, lost, cached)
<1> DEFINE new == [nt EXCEPT !.epoll = e]
<1>1. new \in NetTypes
  BY DEF NetSound, DataSound, NetTypes
<1>2. /\ new.owner = nt.owner /\ new.peer = nt.peer
      /\ new.inq = nt.inq /\ new.reqs = nt.reqs
  BY DEF NetSound, DataSound, NetTypes
<1> HIDE DEF new
<1>3. NetSound(new, client, live, lost, cached)
  BY <1>1, <1>2 DEF NetSound, DataSound, ClientsOwn, CachedSound
<1> QED BY <1>3 DEF new

LEMMA AddDelSound ==
  ASSUME NEW nt, NEW client, NEW lost, NEW live, NEW cached, NetSound(nt, client, live, lost, cached),
         NEW lb, NEW s, NEW f
  PROVE  /\ NetSound(NetAdd(nt, lb, f), client, live, lost, cached)
         /\ NetSound(NetDel(nt, lb, s, f), client, live, lost, cached)
         /\ NetDel(nt, lb, s, f).inq = nt.inq /\ NetDel(nt, lb, s, f).owner = nt.owner
         /\ NetDel(nt, lb, s, f).reqs = nt.reqs
         /\ NetAdd(nt, lb, f).inq = nt.inq /\ NetAdd(nt, lb, f).reqs = nt.reqs
<1>1. nt \in NetTypes
  BY DEF NetSound, DataSound
<1>2. nt.epoll \cup {f} \in SUBSET Fds \/ f \notin Fds
  BY <1>1 DEF NetTypes
<1>3. nt.epoll \ {f} \in SUBSET Fds
  BY <1>1 DEF NetTypes
<1>4. NetSound(NetAdd(nt, lb, f), client, live, lost, cached)
  BY <1>2, EpollSound DEF NetAdd, CanAdd
<1>5. NetSound(NetDel(nt, lb, s, f), client, live, lost, cached)
  BY <1>3, EpollSound DEF NetDel
<1>6. /\ NetDel(nt, lb, s, f).inq = nt.inq /\ NetDel(nt, lb, s, f).owner = nt.owner
      /\ NetDel(nt, lb, s, f).reqs = nt.reqs
  BY <1>1 DEF NetDel, NetTypes
<1>7. NetAdd(nt, lb, f).inq = nt.inq /\ NetAdd(nt, lb, f).reqs = nt.reqs
  BY <1>1 DEF NetAdd, NetTypes
<1> QED BY <1>4, <1>5, <1>6, <1>7

PeerStates == {"up", "syn", "late", "gone"}

\* A new socket on a free descriptor, and what it leaves alone.
LEMMA OpenIs ==
  ASSUME NEW nt \in NetTypes, NEW f \in Fds, NEW who \in Sessions \cup Backends,
         NEW state \in PeerStates
  PROVE  /\ OpenFd(nt, f, who, state) \in NetTypes
         /\ OpenFd(nt, f, who, state).owner = [nt.owner EXCEPT ![f] = who]
         /\ OpenFd(nt, f, who, state).peer = [nt.peer EXCEPT ![f] = state]
         /\ OpenFd(nt, f, who, state).inq = nt.inq
         /\ OpenFd(nt, f, who, state).reqs = nt.reqs
<1>1. [nt.owner EXCEPT ![f] = who] \in [Fds -> Sessions \cup Backends \cup {Nil}]
  BY DEF NetTypes
<1>2. [nt.peer EXCEPT ![f] = state] \in [Fds -> {"up", "syn", "late", "gone"}]
  BY DEF NetTypes, PeerStates
<1> QED BY <1>1, <1>2 DEF OpenFd, NetTypes

LEMMA CloseIs ==
  ASSUME NEW nt \in NetTypes, NEW f \in Fds
  PROVE  /\ CloseFd(nt, f) \in NetTypes
         /\ CloseFd(nt, f).owner = [nt.owner EXCEPT ![f] = Nil]
         /\ CloseFd(nt, f).peer = [nt.peer EXCEPT ![f] = "gone"]
         /\ CloseFd(nt, f).inq = [nt.inq EXCEPT ![f] = <<>>]
         /\ CloseFd(nt, f).reqs = [nt.reqs EXCEPT ![f] = <<>>]
<1>1. /\ [nt.owner EXCEPT ![f] = Nil] \in [Fds -> Sessions \cup Backends \cup {Nil}]
      /\ [nt.peer EXCEPT ![f] = "gone"] \in [Fds -> {"up", "syn", "late", "gone"}]
  BY DEF NetTypes
<1>2. /\ [nt.inq EXCEPT ![f] = <<>>] \in [Fds -> Seq(Pieces)]
      /\ [nt.reqs EXCEPT ![f] = <<>>] \in [Fds -> Seq(Tokens)]
  BY DEF NetTypes
<1>3. nt.epoll \ {f} \in SUBSET Fds
  BY DEF NetTypes
<1> QED BY <1>1, <1>2, <1>3 DEF CloseFd, NetTypes

LEMMA FreeIs ==
  ASSUME NEW nt, NEW f
  PROVE  f \in FreeFds(nt) <=> f \in Fds /\ nt.owner[f] = Nil
BY DEF FreeFds, Opened

LEMMA NilIsNobody == Nil \notin Sessions /\ Nil \notin Fds /\ Nil \notin Backends
BY IoDispatchAssumption

\* accept gives a client that has no session a socket.
LEMMA OpenClient ==
  ASSUME NEW nt, NEW client, NEW lost, NEW live \in SUBSET Sessions, NEW cached, NetSound(nt, client, live, lost, cached),
         NEW s \in Sessions, s \notin live, NEW f \in FreeFds(nt),
         NEW client2, client2[s] = f, \A t \in live : client2[t] = client[t]
  PROVE  /\ NetSound(OpenFd(nt, f, s, "up"), client2, live \cup {s}, lost, cached)
         /\ NetSound(OpenFd(nt, f, s, "up"), client, live, lost \cup {s}, cached)
<1> DEFINE new == OpenFd(nt, f, s, "up")
<1>1. f \in Fds /\ nt.owner[f] = Nil
  BY FreeIs
<1>2. nt \in NetTypes
  BY DEF NetSound, DataSound
<1>3. /\ new \in NetTypes /\ new.owner = [nt.owner EXCEPT ![f] = s]
      /\ new.peer = [nt.peer EXCEPT ![f] = "up"]
      /\ new.inq = nt.inq /\ new.reqs = nt.reqs
  <2>1. f \in Fds /\ s \in Sessions \cup Backends /\ "up" \in PeerStates
    BY <1>1 DEF PeerStates
  <2>2. /\ OpenFd(nt, f, s, "up") \in NetTypes
        /\ OpenFd(nt, f, s, "up").owner = [nt.owner EXCEPT ![f] = s]
        /\ OpenFd(nt, f, s, "up").peer = [nt.peer EXCEPT ![f] = "up"]
        /\ OpenFd(nt, f, s, "up").inq = nt.inq
        /\ OpenFd(nt, f, s, "up").reqs = nt.reqs
    BY ONLY <1>2, <2>1, OpenIs
  <2> QED BY <2>2
<1>4. nt.owner \in [Fds -> Sessions \cup Backends \cup {Nil}] /\ nt.peer \in [Fds -> {"up", "syn", "late", "gone"}]
  BY <1>2 DEF NetTypes
<1> HIDE DEF new
<1>5. /\ new.owner[f] = s /\ new.peer[f] = "up"
      /\ \A g \in Fds \ {f} : new.owner[g] = nt.owner[g] /\ new.peer[g] = nt.peer[g]
  BY <1>1, <1>3, <1>4
<1>6. s \notin Backends /\ s # Nil
  BY IoDispatchAssumption
<1>7. DataSound(new)
  <2>1. <<>> \in Seq(Requests)
    OBVIOUS
  <2>2. ASSUME NEW g \in Fds
        PROVE  /\ new.owner[g] \in Sessions => new.inq[g] \in Seq(Requests)
               /\ new.owner[g] = Nil => new.inq[g] = <<>> /\ new.reqs[g] = <<>>
    <3>1. CASE g = f
      <4>1. nt.inq[f] = <<>> /\ nt.reqs[f] = <<>>
        BY <1>1 DEF NetSound, DataSound
      <4> QED BY <1>3, <1>5, <1>6, <2>1, <3>1, <4>1
    <3>2. CASE g # f
      BY <1>3, <1>5, <3>2 DEF NetSound, DataSound
    <3> QED BY <3>1, <3>2
  <2> QED BY <1>3, <2>2 DEF DataSound
<1>8. /\ ClientsOwn(new, client2, live \cup {s}, lost)
      /\ ClientsOwn(new, client, live, lost \cup {s})
  BY <1>1, <1>5, <1>6, NilIsNobody DEF NetSound, ClientsOwn
<1>9. CachedSound(new, cached)
  BY <1>1, <1>5, <1>6, NilIsNobody DEF NetSound, CachedSound, Entries
<1> QED BY <1>7, <1>8, <1>9 DEF NetSound, new

\* GC closes the socket of the session's client and no other.
LEMMA CloseClient ==
  ASSUME NEW nt, NEW client, NEW lost, NEW live \in SUBSET Sessions, NEW cached,
         NetSound(nt, client, live, lost, cached), NEW s \in live
  PROVE  NetSound(CloseFd(nt, client[s]), client, live \ {s}, lost, cached)
<1> DEFINE f == client[s]
           new == CloseFd(nt, f)
<1>1. f \in Fds /\ nt.owner[f] = s
  BY DEF NetSound, ClientsOwn
<1>2. nt \in NetTypes
  BY DEF NetSound, DataSound
<1>3. /\ new \in NetTypes /\ new.owner = [nt.owner EXCEPT ![f] = Nil]
      /\ new.peer = [nt.peer EXCEPT ![f] = "gone"]
      /\ new.inq = [nt.inq EXCEPT ![f] = <<>>] /\ new.reqs = [nt.reqs EXCEPT ![f] = <<>>]
  BY <1>1, <1>2, CloseIs
<1>4. /\ nt.owner \in [Fds -> Sessions \cup Backends \cup {Nil}]
      /\ nt.peer \in [Fds -> {"up", "syn", "late", "gone"}]
      /\ nt.inq \in [Fds -> Seq(Pieces)] /\ nt.reqs \in [Fds -> Seq(Tokens)]
  BY <1>2 DEF NetTypes
<1> HIDE DEF new
<1>5. /\ new.owner[f] = Nil /\ new.peer[f] = "gone" /\ new.inq[f] = <<>> /\ new.reqs[f] = <<>>
      /\ \A g \in Fds \ {f} : /\ new.owner[g] = nt.owner[g] /\ new.peer[g] = nt.peer[g]
                              /\ new.inq[g] = nt.inq[g] /\ new.reqs[g] = nt.reqs[g]
  BY <1>1, <1>3, <1>4
<1>6. s \in Sessions /\ s \notin Backends /\ s # Nil
  BY IoDispatchAssumption
<1>7. DataSound(new)
  BY <1>1, <1>3, <1>5, NilIsNobody DEF NetSound, DataSound
<1>8. ClientsOwn(new, client, live \ {s}, lost)
  BY <1>1, <1>5, <1>6, NilIsNobody DEF NetSound, ClientsOwn
<1>9. CachedSound(new, cached)
  BY <1>1, <1>5, <1>6, NilIsNobody DEF NetSound, CachedSound, Entries
<1> QED BY <1>7, <1>8, <1>9 DEF NetSound, new

\* get_io closes a cached connection that is no longer established, and
\* forgets it.
LEMMA CloseCached ==
  ASSUME NEW nt, NEW client, NEW lost, NEW live \in SUBSET Sessions, NEW cached, NetSound(nt, client, live, lost, cached),
         NEW e \in cached, ~ Established(nt, e.sd)
  PROVE  NetSound(CloseFd(nt, e.sd), client, live, lost, cached \ {e})
<1> DEFINE f == e.sd
           b == e.of
           new == CloseFd(nt, f)
<1>1. b \in Backends /\ f \in Fds /\ nt.owner[f] = b
  BY DEF NetSound, CachedSound, Entries
<1>2. nt \in NetTypes
  BY DEF NetSound, DataSound
<1>3. /\ new \in NetTypes /\ new.owner = [nt.owner EXCEPT ![f] = Nil]
      /\ new.peer = [nt.peer EXCEPT ![f] = "gone"]
      /\ new.inq = [nt.inq EXCEPT ![f] = <<>>] /\ new.reqs = [nt.reqs EXCEPT ![f] = <<>>]
  BY <1>1, <1>2, CloseIs
<1>4. /\ nt.owner \in [Fds -> Sessions \cup Backends \cup {Nil}]
      /\ nt.peer \in [Fds -> {"up", "syn", "late", "gone"}]
      /\ nt.inq \in [Fds -> Seq(Pieces)] /\ nt.reqs \in [Fds -> Seq(Tokens)]
  BY <1>2 DEF NetTypes
<1> HIDE DEF new
<1>5. /\ new.owner[f] = Nil /\ new.peer[f] = "gone" /\ new.inq[f] = <<>> /\ new.reqs[f] = <<>>
      /\ \A g \in Fds \ {f} : /\ new.owner[g] = nt.owner[g] /\ new.peer[g] = nt.peer[g]
                              /\ new.inq[g] = nt.inq[g] /\ new.reqs[g] = nt.reqs[g]
  BY <1>1, <1>3, <1>4
<1>6. b \notin Sessions /\ b # Nil
  BY <1>1, IoDispatchAssumption
<1>7. DataSound(new)
  BY <1>1, <1>3, <1>5, NilIsNobody DEF NetSound, DataSound
<1>8. ClientsOwn(new, client, live, lost)
  BY <1>1, <1>5, <1>6, NilIsNobody DEF NetSound, ClientsOwn
<1>9. CachedSound(new, cached \ {e})
  <2>1. \A d \in cached \ {e} : d.sd \in Fds \ {f}
    BY DEF NetSound, CachedSound, Entries
  <2> QED BY <1>1, <1>5, <2>1, NilIsNobody DEF NetSound, CachedSound
<1> QED BY <1>7, <1>8, <1>9 DEF NetSound, new

\* Of backends that are alike another backend is alike as well.
LEMMA HitsAlike ==
  ASSUME Ordered, NEW cached \in SUBSET Entries, NEW b \in Backends,
         \A d, e \in cached : <<d.of, e.of>> \in Alike => d = e
  PROVE  /\ \A e \in Hits(cached, b) : Hits(cached \ {e}, b) = {}
         /\ \A f : Hits(cached, b) = {} =>
              LET new == [of |-> b, sd |-> f] IN
              \A d, e \in cached \cup {new} : <<d.of, e.of>> \in Alike => d = e
<1>1. \A e \in cached : e.of \in Backends
  BY DEF Entries
<1>2. ASSUME NEW e \in Hits(cached, b), NEW d \in Hits(cached \ {e}, b)
      PROVE  FALSE
  <2>1. /\ e \in cached /\ d \in cached /\ d # e
        /\ <<e.of, b>> \in Alike /\ <<d.of, b>> \in Alike
    BY DEF Hits
  <2>2. <<d.of, e.of>> \in Alike
    BY <1>1, <2>1, AlikeAssumption
  <2> QED BY <2>1, <2>2
<1>3. ASSUME NEW f, Hits(cached, b) = {},
             NEW d \in cached \cup {[of |-> b, sd |-> f]},
             NEW e \in cached \cup {[of |-> b, sd |-> f]}, <<d.of, e.of>> \in Alike
      PROVE  d = e
  <2> DEFINE new == [of |-> b, sd |-> f]
  <2>1. \A g \in cached : <<g.of, b>> \notin Alike /\ <<b, g.of>> \notin Alike
    BY <1>1, <1>3, AlikeAssumption DEF Hits
  <2>2. new.of = b
    OBVIOUS
  <2> HIDE DEF new
  <2>3. (d \in cached \/ d = new) /\ (e \in cached \/ e = new)
    BY <1>3 DEF new
  <2> QED BY <1>3, <2>1, <2>2, <2>3
<1> QED BY <1>2, <1>3

\* A new connection to a backend, which is cached if it is established in time.
LEMMA OpenBackend ==
  ASSUME NEW nt, NEW client, NEW lost, NEW live \in SUBSET Sessions, NEW cached, NetSound(nt, client, live, lost, cached),
         NEW b \in Backends, Ordered => Hits(cached, b) = {}, NEW f \in FreeFds(nt),
         NEW state \in {"up", "syn", "gone"},
         NEW cached2 \in IF state = "up" THEN Insert(cached, b, f) ELSE {cached}
  PROVE  NetSound(OpenFd(nt, f, b, state), client, live, lost, cached2)
<1> DEFINE new == OpenFd(nt, f, b, state)
<1>1. f \in Fds /\ nt.owner[f] = Nil
  BY FreeIs
<1>2. nt \in NetTypes /\ state \in PeerStates
  BY DEF NetSound, DataSound, PeerStates
<1>3. /\ new \in NetTypes /\ new.owner = [nt.owner EXCEPT ![f] = b]
      /\ new.peer = [nt.peer EXCEPT ![f] = state]
      /\ new.inq = nt.inq /\ new.reqs = nt.reqs
  <2>1. f \in Fds /\ b \in Sessions \cup Backends /\ state \in PeerStates
    BY <1>1 DEF PeerStates
  <2>2. /\ OpenFd(nt, f, b, state) \in NetTypes
        /\ OpenFd(nt, f, b, state).owner = [nt.owner EXCEPT ![f] = b]
        /\ OpenFd(nt, f, b, state).peer = [nt.peer EXCEPT ![f] = state]
        /\ OpenFd(nt, f, b, state).inq = nt.inq
        /\ OpenFd(nt, f, b, state).reqs = nt.reqs
    BY ONLY <1>2, <2>1, OpenIs
  <2> QED BY <2>2
<1>4. nt.owner \in [Fds -> Sessions \cup Backends \cup {Nil}] /\ nt.peer \in [Fds -> {"up", "syn", "late", "gone"}]
  BY <1>2 DEF NetTypes
<1> HIDE DEF new
<1>5. /\ new.owner[f] = b /\ new.peer[f] = state
      /\ \A g \in Fds \ {f} : new.owner[g] = nt.owner[g] /\ new.peer[g] = nt.peer[g]
  BY <1>1, <1>3, <1>4
<1>6. b \notin Sessions /\ b # Nil /\ f # Nil
  BY <1>1, IoDispatchAssumption
<1>7. DataSound(new)
  BY <1>1, <1>3, <1>5, <1>6 DEF NetSound, DataSound
<1>8. ClientsOwn(new, client, live, lost)
  BY <1>1, <1>5, <1>6, NilIsNobody DEF NetSound, ClientsOwn
<1>9. CachedSound(new, cached2)
  <2> DEFINE entry == [of |-> b, sd |-> f]
  <2>1. CachedSound(nt, cached) /\ \A e \in cached : e.sd \in Fds \ {f}
    BY <1>1, NilIsNobody DEF NetSound, CachedSound, Entries
  <2>2. entry \in Entries /\ entry.of = b /\ entry.sd = f
    BY <1>1 DEF Entries
  <2>3. Ordered => \A d, e \in cached \cup {entry} : <<d.of, e.of>> \in Alike => d = e
    BY <2>1, HitsAlike DEF CachedSound
  <2> HIDE DEF entry
  <2>4. CASE cached2 = cached /\ (Ordered => state # "up")
    BY <1>5, <2>1, <2>4 DEF CachedSound
  <2>5. CASE cached2 = cached \cup {entry}
    <3>1. \A e \in cached2 : e \in cached \/ e = entry
      BY <2>5
    <3>2. cached2 \subseteq Entries
      BY <2>1, <2>2, <2>5 DEF CachedSound
    <3>3. ASSUME NEW e \in cached2
          PROVE  new.owner[e.sd] = e.of /\ \A d \in cached2 : d.sd = e.sd => d = e
      BY <1>5, <2>1, <2>2, <3>1 DEF CachedSound
    <3>4. ASSUME NEW g \in Fds, new.owner[g] \in Backends, new.peer[g] = "up", Ordered
          PROVE  \E e \in cached2 : e.sd = g
      BY <1>5, <2>1, <2>2, <2>5, <3>4 DEF CachedSound
    <3> QED BY <2>3, <2>5, <3>2, <3>3, <3>4 DEF CachedSound
  <2>6. \/ cached2 = cached /\ (Ordered => state # "up")
        \/ cached2 = cached \cup {entry}
    BY DEF Insert, entry
  <2> QED BY <2>4, <2>5, <2>6
<1> QED BY <1>7, <1>8, <1>9 DEF NetSound, new

\* What a socket holds stays with it, or is dropped when the socket is closed.
Kept(new, old) ==
  \A f \in Fds : /\ new.inq[f] = old.inq[f] \/ new.inq[f] = <<>>
                 /\ new.reqs[f] = old.reqs[f] \/ new.reqs[f] = <<>>

LEMMA CloseKept ==
  ASSUME NEW nt \in NetTypes, NEW f \in Fds PROVE Kept(CloseFd(nt, f), nt)
<1>1. nt.inq \in [Fds -> Seq(Pieces)] /\ nt.reqs \in [Fds -> Seq(Tokens)]
  BY DEF NetTypes
<1>2. /\ CloseFd(nt, f).inq = [nt.inq EXCEPT ![f] = <<>>]
      /\ CloseFd(nt, f).reqs = [nt.reqs EXCEPT ![f] = <<>>]
  BY CloseIs
<1> QED BY <1>1, <1>2 DEF Kept

\* The results of a new connection.
LEMMA NewIoIs ==
  ASSUME NEW nt \in NetTypes, NEW b \in Backends, NEW cached, NEW io \in NewIo(nt, b, cached)
  PROVE  \/ io.nt = nt /\ io.sd = Nil /\ io.cache = cached
         \/ \E f \in FreeFds(nt), state \in {"up", "syn", "gone"} :
              /\ io.nt = OpenFd(nt, f, b, state)
              /\ io.sd = IF state = "up" THEN f ELSE Nil
              /\ io.cache \in IF state = "up" THEN Insert(cached, b, f) ELSE {cached}
<1> DEFINE Result(c) ==
      IF Established(c.nt, c.f)
      THEN {[sd |-> c.f, nt |-> c.nt, cache |-> d] : d \in Insert(cached, b, c.f)}
      ELSE {[sd |-> Nil, nt |-> c.nt, cache |-> cached]}
<1>1. CASE io = [sd |-> Nil, nt |-> nt, cache |-> cached]
  BY <1>1
<1>2. CASE \E c \in InitConnectFd(nt, b) : io \in Result(c)
  <2>1. PICK f \in FreeFds(nt), state \in {"up", "syn", "gone"} :
          io \in Result([f |-> f, nt |-> OpenFd(nt, f, b, state)])
    <3> HIDE DEF Result
    <3> QED BY <1>2 DEF InitConnectFd
  <2>2. Established(OpenFd(nt, f, b, state), f) <=> state = "up"
    <3>1. /\ f \in Fds /\ b \in Sessions \cup Backends
          /\ nt \in NetTypes /\ state \in PeerStates
      BY FreeIs DEF PeerStates
    <3>2. /\ OpenFd(nt, f, b, state) \in NetTypes
          /\ OpenFd(nt, f, b, state).owner = [nt.owner EXCEPT ![f] = b]
          /\ OpenFd(nt, f, b, state).peer = [nt.peer EXCEPT ![f] = state]
          /\ OpenFd(nt, f, b, state).inq = nt.inq
          /\ OpenFd(nt, f, b, state).reqs = nt.reqs
      BY ONLY <3>1, OpenIs
    <3>3. nt.peer \in [Fds -> {"up", "syn", "late", "gone"}]
      BY DEF NetTypes
    <3> QED BY <3>1, <3>2, <3>3 DEF Established
  <2>3. /\ io.nt = OpenFd(nt, f, b, state)
        /\ io.sd = IF state = "up" THEN f ELSE Nil
        /\ io.cache \in IF state = "up" THEN Insert(cached, b, f) ELSE {cached}
    BY <2>1, <2>2
  <2> QED BY <2>3
<1>3. \/ io = [sd |-> Nil, nt |-> nt, cache |-> cached]
      \/ \E c \in InitConnectFd(nt, b) : io \in Result(c)
  BY DEF NewIo
<1> QED BY <1>1, <1>2, <1>3

LEMMA NewIoSound ==
  ASSUME NEW nt, NEW client, NEW lost, NEW live \in SUBSET Sessions, NEW cached,
         NetSound(nt, client, live, lost, cached),
         NEW b \in Backends, Ordered => Hits(cached, b) = {}, NEW io \in NewIo(nt, b, cached)
  PROVE  /\ NetSound(io.nt, client, live, lost, io.cache)
         /\ io.sd \in Fds \cup {Nil}
         /\ io.sd # Nil => io.nt.owner[io.sd] \in Backends
         /\ Kept(io.nt, nt)
<1>1. nt \in NetTypes
  BY DEF NetSound, DataSound
<1>2. CASE io.nt = nt /\ io.sd = Nil /\ io.cache = cached
  BY <1>2 DEF Kept
<1>3. CASE \E f \in FreeFds(nt), state \in {"up", "syn", "gone"} :
             /\ io.nt = OpenFd(nt, f, b, state)
             /\ io.sd = IF state = "up" THEN f ELSE Nil
             /\ io.cache \in IF state = "up" THEN Insert(cached, b, f) ELSE {cached}
  <2>1. PICK f \in FreeFds(nt), state \in {"up", "syn", "gone"} :
             /\ io.nt = OpenFd(nt, f, b, state)
             /\ io.sd = IF state = "up" THEN f ELSE Nil
             /\ io.cache \in IF state = "up" THEN Insert(cached, b, f) ELSE {cached}
    BY <1>3
  <2>2. /\ f \in Fds /\ b \in Sessions \cup Backends
        /\ nt \in NetTypes /\ state \in PeerStates
    BY <1>1, FreeIs DEF PeerStates
  <2>3. NetSound(io.nt, client, live, lost, io.cache)
    <3>1. NetSound(OpenFd(nt, f, b, state), client, live, lost, io.cache)
      BY <2>1, OpenBackend
    <3> QED BY <2>1, <3>1
  <2>4. /\ io.nt.owner = [nt.owner EXCEPT ![f] = b]
        /\ io.nt.inq = nt.inq /\ io.nt.reqs = nt.reqs
    <3>1. /\ OpenFd(nt, f, b, state) \in NetTypes
          /\ OpenFd(nt, f, b, state).owner = [nt.owner EXCEPT ![f] = b]
          /\ OpenFd(nt, f, b, state).peer = [nt.peer EXCEPT ![f] = state]
          /\ OpenFd(nt, f, b, state).inq = nt.inq
          /\ OpenFd(nt, f, b, state).reqs = nt.reqs
      BY ONLY <2>2, OpenIs
    <3> QED BY <2>1, <3>1
  <2>5. nt.owner \in [Fds -> Sessions \cup Backends \cup {Nil}]
    BY <1>1 DEF NetTypes
  <2>6. io.sd \in Fds \cup {Nil} /\ (io.sd # Nil => io.sd = f)
    BY <2>1, <2>2
  <2> QED BY <2>2, <2>3, <2>4, <2>5, <2>6 DEF Kept
<1> QED BY <1>1, <1>2, <1>3, NewIoIs

\* get_io keeps the cache right and hands out a connection to a backend.
LEMMA GetIoSound ==
  ASSUME NEW nt, NEW client, NEW lost, NEW live \in SUBSET Sessions,
         NetSound(nt, client, live, lost, cache),
         NEW b \in Backends, NEW io \in GetIo(nt, b)
  PROVE  /\ NetSound(io.nt, client, live, lost, io.cache)
         /\ io.sd \in Fds \cup {Nil}
         /\ io.sd # Nil => io.nt.owner[io.sd] \in Backends
         /\ Kept(io.nt, nt)
<1>1. nt \in NetTypes /\ CachedSound(nt, cache)
  BY DEF NetSound, DataSound
<1>2. Hits(cache, b) \subseteq cache
  BY DEF Hits
<1>3. CASE Misses(cache, b) /\ io \in NewIo(nt, b, cache)
  <2>1. Ordered => Hits(cache, b) = {}
    BY <1>3 DEF Misses
  <2>2. io \in NewIo(nt, b, cache)
    BY <1>3
  <2> QED BY <2>1, <2>2, NewIoSound
<1>4. ASSUME NEW e \in Hits(cache, b), Established(nt, e.sd),
             io = [sd |-> e.sd, nt |-> nt, cache |-> cache]
      PROVE  /\ NetSound(io.nt, client, live, lost, io.cache)
             /\ io.sd \in Fds \cup {Nil}
             /\ io.sd # Nil => io.nt.owner[io.sd] \in Backends
             /\ Kept(io.nt, nt)
  <2>1. io.sd = e.sd /\ io.nt = nt /\ io.cache = cache
    BY <1>4
  <2>2. e.sd \in Fds /\ nt.owner[e.sd] \in Backends
    BY <1>1, <1>2 DEF CachedSound, Entries
  <2> QED BY <2>1, <2>2 DEF Kept
<1>5. ASSUME NEW e \in Hits(cache, b), ~ Established(nt, e.sd),
             io \in NewIo(CloseFd(nt, e.sd), b, cache \ {e})
      PROVE  /\ NetSound(io.nt, client, live, lost, io.cache)
             /\ io.sd \in Fds \cup {Nil}
             /\ io.sd # Nil => io.nt.owner[io.sd] \in Backends
             /\ Kept(io.nt, nt)
  <2> DEFINE closed == CloseFd(nt, e.sd)
             without == cache \ {e}
  <2>1. e.sd \in Fds
    BY <1>1, <1>2 DEF CachedSound, Entries
  <2>2. Kept(closed, nt)
    BY <1>1, <2>1, CloseKept
  <2>3. NetSound(closed, client, live, lost, without)
    BY <1>2, <1>5, CloseCached
  <2>4. Ordered => Hits(without, b) = {}
    BY <1>1, HitsAlike DEF CachedSound
  <2>5. io \in NewIo(closed, b, without)
    BY <1>5
  <2> HIDE DEF closed, without
  <2>6. /\ NetSound(io.nt, client, live, lost, io.cache)
        /\ io.sd \in Fds \cup {Nil}
        /\ io.sd # Nil => io.nt.owner[io.sd] \in Backends
        /\ Kept(io.nt, closed)
    BY <2>3, <2>4, <2>5, NewIoSound
  <2>7. Kept(io.nt, nt)
    BY <2>2, <2>6 DEF Kept
  <2> QED BY <2>6, <2>7
<1>6. \/ Misses(cache, b) /\ io \in NewIo(nt, b, cache)
      \/ \E e \in Hits(cache, b) :
           \/ /\ Established(nt, e.sd)
              /\ io = [sd |-> e.sd, nt |-> nt, cache |-> cache]
           \/ /\ ~ Established(nt, e.sd)
              /\ io \in NewIo(CloseFd(nt, e.sd), b, cache \ {e})
  BY DEF GetIo
<1> QED BY <1>3, <1>4, <1>5, <1>6

\* recv takes all there is on a descriptor.
LEMMA RecvSound ==
  ASSUME NEW nt, NEW client, NEW lost, NEW live, NEW cached, NetSound(nt, client, live, lost, cached),
         NEW f \in Fds
  PROVE  NetSound(ProcessRecvEvent(nt, f), client, live, lost, cached)
<1> DEFINE new == ProcessRecvEvent(nt, f)
<1>1. nt \in NetTypes
  BY DEF NetSound, DataSound
<1>2. nt.inq \in [Fds -> Seq(Pieces)] /\ [nt.inq EXCEPT ![f] = <<>>] \in [Fds -> Seq(Pieces)]
  BY <1>1 DEF NetTypes
<1>3. /\ new \in NetTypes /\ new.inq = [nt.inq EXCEPT ![f] = <<>>]
      /\ new.owner = nt.owner /\ new.peer = nt.peer /\ new.reqs = nt.reqs
  BY <1>1, <1>2 DEF NetTypes, ProcessRecvEvent
<1> HIDE DEF new
<1>4. <<>> \in Seq(Requests)
  OBVIOUS
<1>5. DataSound(new)
  BY <1>2, <1>3, <1>4 DEF NetSound, DataSound
<1>6. ClientsOwn(new, client, live, lost) /\ CachedSound(new, cached)
  BY <1>3 DEF NetSound, ClientsOwn, CachedSound
<1> QED BY <1>5, <1>6 DEF NetSound, new

LEMMA RequestTokens == Seq(Requests) \subseteq Seq(Tokens) /\ Seq(Requests) \subseteq Seq(Pieces)
<1>1. Requests \subseteq Tokens /\ Requests \subseteq Pieces
  BY IoDispatchAssumption DEF Requests, Tokens
<1> QED BY <1>1

\* What is sent to a backend are requests.
LEMMA SendSound ==
  ASSUME NEW nt, NEW client, NEW lost, NEW live, NEW cached, NetSound(nt, client, live, lost, cached),
         NEW f \in Fds, nt.owner[f] \in Backends, NEW data \in Seq(Requests)
  PROVE  NetSound(Send2Peer(nt, f, data), client, live, lost, cached)
<1> DEFINE new == Send2Peer(nt, f, data)
           q == nt.reqs[f] \o data
<1>1. nt \in NetTypes
  BY DEF NetSound, DataSound
<1>2. q \in Seq(Tokens)
  <2>1. nt.reqs[f] \in Seq(Tokens) /\ data \in Seq(Tokens)
    BY <1>1, RequestTokens DEF NetTypes
  <2> QED BY <2>1
<1>3. new = [nt EXCEPT !.reqs = [nt.reqs EXCEPT ![f] = q]]
  BY <1>1 DEF Send2Peer, NetTypes
<1> HIDE DEF q
<1>4. nt.reqs \in [Fds -> Seq(Tokens)] /\ [nt.reqs EXCEPT ![f] = q] \in [Fds -> Seq(Tokens)]
  BY <1>1, <1>2 DEF NetTypes
<1> HIDE DEF new
<1>5. /\ new \in NetTypes /\ new.reqs = [nt.reqs EXCEPT ![f] = q]
      /\ new.owner = nt.owner /\ new.peer = nt.peer /\ new.inq = nt.inq
  BY <1>1, <1>3, <1>4 DEF NetTypes
<1>6. nt.owner[f] # Nil
  BY IoDispatchAssumption
<1>7. DataSound(new)
  BY <1>4, <1>5, <1>6 DEF NetSound, DataSound
<1>8. ClientsOwn(new, client, live, lost) /\ CachedSound(new, cached)
  BY <1>5 DEF NetSound, ClientsOwn, CachedSound
<1> QED BY <1>7, <1>8 DEF NetSound, new
-----------------------------------------------------------------------------
(* The invariant at the start, and what it promises. *)

LEMMA RunningPromises == Running => Promises
<1> SUFFICES ASSUME Running PROVE Promises
  OBVIOUS
<1>1. lib \in LibTypes /\ net \in NetTypes /\ SessionTypes
  BY DEF Running, EventsSound, NetSound, DataSound
<1>2. TypeOK
  <2>1. Seq(Tokens) \subseteq Seq(Pieces) /\ Seq(Requests) \subseteq Seq(Pieces)
    <3>1. Tokens \subseteq Pieces
      BY DEF Tokens
    <3> QED BY <3>1, RequestTokens
  <2>2. net \in [owner : [Fds -> Sessions \cup Backends \cup {Nil}],
                 peer  : [Fds -> {"up", "syn", "late", "gone"}],
                 inq   : [Fds -> Seq(Pieces)],
                 reqs  : [Fds -> Seq(Pieces)],
                 epoll : SUBSET Fds]
    BY <1>1, <2>1 DEF NetTypes
  <2>3. lib \in [inserted : SUBSET Sessions,
                 timers   : Seq(Sessions),
                 evread   : [Fds -> Sessions \cup {Nil}],
                 active   : Seq([s : Sessions, res : {"read", "timeout"}])]
    BY <1>1 DEF LibTypes, Events
  <2>4. upBuf \in [Sessions -> Seq(Pieces)]
    BY <1>1, <2>1 DEF SessionTypes
  <2>5. asked \in [Sessions -> Numbers \cup {0}]
    <3>1. ASSUME NEW s \in Sessions PROVE asked[s] \in Numbers \cup {0}
      <4>1. asked[s] \in Nat /\ asked[s] <= MaxReqs[s] /\ MaxReqs[s] \in Nat
        BY <1>1, IoDispatchAssumption DEF SessionTypes
      <4>2. asked[s] # 0 => asked[s] \in 1..MaxReqs[s]
        BY <4>1
      <4> QED BY <4>2 DEF Numbers
    <3> QED BY <1>1, <3>1 DEF SessionTypes
  <2> QED BY <1>1, <2>2, <2>3, <2>4, <2>5 DEF TypeOK, SessionTypes, Entries
<1>3. EventsSound(lib, EventFds, LiveSessions)
  BY DEF Running
<1>4. NoDanglingEvent
  <2>1. ASSUME NEW f \in Fds, lib.evread[f] # Nil
        PROVE  lib.evread[f] \in lib.inserted /\ EvFd(lib.evread[f]) = f
    BY <1>3, <2>1 DEF EventsSound, LibTypes, EventFds
  <2>2. ASSUME NEW s \in Sessions,
               s \in lib.inserted \cup Range(lib.timers) \/ IsActive(lib, s)
        PROVE  Live(s)
    BY <1>3, <2>2 DEF EventsSound, LiveSessions, IsActive
  <2> QED BY <2>1, <2>2 DEF NoDanglingEvent
<1>5. RegisteredHasTimer
  BY <1>3 DEF EventsSound, RegisteredHasTimer
<1>6. NetSound(net, clientFd, LiveSessions, LostSessions, cache)
  BY DEF Running
<1>7. ClientSocketOwned
  BY <1>6, NilIsNobody DEF NetSound, ClientsOwn, ClientSocketOwned, LiveSessions, LostSessions
<1>8. CacheSound
  <2>1. ~ ended
    BY <1>1 DEF SessionTypes
  <2>2. CachedSound(net, cache)
    BY <1>6 DEF NetSound
  <2>3. ASSUME Ordered, NEW e \in cache PROVE Hits(cache, e.of) = {e}
    <3>1. e.of \in Backends
      BY <2>2 DEF CachedSound, Entries
    <3> QED BY <2>2, <2>3, <3>1, AlikeAssumption DEF CachedSound, Hits
  <2> QED BY <2>1, <2>2, <2>3 DEF CachedSound, CacheSound
<1> QED BY <1>2, <1>4, <1>5, <1>7, <1>8 DEF Promises

LEMMA InitRunning == Init => Running
<1> SUFFICES ASSUME Init PROVE Running
  OBVIOUS
<1>1. SessionTypes
  <2>1. <<>> \in Seq(Requests) /\ <<>> \in Seq(Pieces)
    OBVIOUS
  <2>2. \A s \in Sessions : 0 <= MaxReqs[s]
    BY IoDispatchAssumption
  <2> QED BY <2>1, <2>2 DEF Init, SessionTypes
<1>2. LiveSessions = {}
  BY DEF Init, LiveSessions, Live
<1>3. EventsSound(lib, EventFds, LiveSessions)
  <2>1. lib \in LibTypes
    BY DEF Init, LibTypes
  <2>2. lib.timers = <<>> /\ lib.active = <<>> /\ lib.inserted = {} /\ \A f \in Fds : lib.evread[f] = Nil
    BY DEF Init
  <2> QED BY <2>1, <2>2 DEF EventsSound, Range, IsInjective
<1>4. NetSound(net, clientFd, LiveSessions, LostSessions, cache)
  <2>1. net \in NetTypes
    BY DEF Init, NetTypes
  <2>2. \A f \in Fds : net.owner[f] = Nil /\ net.inq[f] = <<>> /\ net.reqs[f] = <<>>
    BY DEF Init
  <2> QED BY <1>2, <2>1, <2>2, NilIsNobody DEF Init, NetSound, DataSound, ClientsOwn, CachedSound
<1> QED BY <1>1, <1>3, <1>4 DEF Running

-----------------------------------------------------------------------------
(* libevent's own steps. *)

LEMMA LoopType == ASSUME LoopOn PROVE phase' \in {"poll", "process"}
BY DEF LoopOn

LEMMA PollRunning ==
  ASSUME Running, NEW f \in Fds, Poll(f)
  PROVE  Running'
<1> DEFINE s == lib.evread[f]
<1>1. EventsSound(lib, EventFds, LiveSessions)
  BY DEF Running
<1>2. s # Nil /\ s \in Sessions /\ s \in LiveSessions /\ EventFds[s] = f /\ ~ IsActive(lib, s)
  BY <1>1 DEF Poll, EventsSound, LibTypes
<1>3. lib' = [lib EXCEPT !.active = Append(@, [s |-> s, res |-> "read"])]
  BY DEF Poll
<1>4. UNCHANGED <<net, phase, sessVars, cache, asked, got, ended, crashed>>
  BY DEF Poll
<1> HIDE DEF s
<1>5. EventsSound(lib', EventFds, LiveSessions)
  BY <1>1, <1>2, <1>3, ActiveSound
<1>6. EventFds' = EventFds /\ LiveSessions' = LiveSessions /\ LostSessions' = LostSessions
  BY <1>4 DEF sessVars, EventFds, LiveSessions, LostSessions, EvFd, Live
<1> QED BY <1>4, <1>5, <1>6 DEF Running, SessionTypes, sessVars

LEMMA ExpireRunning ==
  ASSUME Running, Expire
  PROVE  Running'
<1> DEFINE s == Head(lib.timers)
           lb == LibDel(lib, s, EvFd(s))
<1>1. EventsSound(lib, EventFds, LiveSessions)
  BY DEF Running
<1>2. s \in Sessions /\ s \in LiveSessions /\ EventFds[s] = EvFd(s)
  <2>1. lib.timers # <<>> /\ lib.timers \in Seq(Sessions)
    BY <1>1 DEF Expire, EventsSound, LibTypes
  <2>2. s = lib.timers[1] /\ 1 \in DOMAIN lib.timers
    BY <2>1
  <2> QED BY <1>1, <2>2 DEF EventsSound, LibTypes, Range, EventFds, LiveSessions
<1>3. /\ net' = NetDel(net, lib, s, EvFd(s))
      /\ lib' = [lb EXCEPT !.active = Append(@, [s |-> s, res |-> "timeout"])]
  BY DEF Expire
<1>4. UNCHANGED <<phase, sessVars, cache, asked, got, ended, crashed>>
  BY DEF Expire
<1> HIDE DEF s
<1>5. EventsSound(lb, EventFds, LiveSessions) /\ Absent(lb, s)
  BY <1>1, <1>2, DelSound
<1> HIDE DEF lb
<1>6. EventsSound(lib', EventFds, LiveSessions)
  BY <1>2, <1>3, <1>5, ActiveSound DEF Absent, IsActive
<1>7. EventFds' = EventFds /\ LiveSessions' = LiveSessions /\ LostSessions' = LostSessions
  BY <1>4 DEF sessVars, EventFds, LiveSessions, LostSessions, EvFd, Live
<1>8. NetSound(net', clientFd, LiveSessions, LostSessions, cache)
  BY <1>3, AddDelSound DEF Running
<1> QED BY <1>4, <1>6, <1>7, <1>8 DEF Running, SessionTypes, sessVars

-----------------------------------------------------------------------------
(* The callbacks. *)

\* The event of a callback has been deleted, and its session is live.
LEMMA Fired ==
  ASSUME Running, NEW s \in Sessions, NEW res, Fires(s, res)
  PROVE  /\ s \in LiveSessions
         /\ EventsSound(FiredLib(s), EventFds, LiveSessions) /\ Absent(FiredLib(s), s)
         /\ NetSound(FiredNet(s), clientFd, LiveSessions, LostSessions, cache)
         /\ FiredNet(s).inq = net.inq /\ FiredNet(s).owner = net.owner
         /\ res = "read" => EvFd(s) \in Fds
<1>1. EventsSound(lib, EventFds, LiveSessions) /\ NetSound(net, clientFd, LiveSessions, LostSessions, cache)
  BY DEF Running
<1>2. lib.active \in Seq(Events) /\ lib.active # <<>>
  BY <1>1 DEF Fires, EventsSound, LibTypes
<1>3. 1 \in DOMAIN lib.active /\ lib.active[1].s = s /\ lib.active[1].res = res
  BY <1>2 DEF Fires
<1>4. s \in LiveSessions /\ (res = "read" => EvFd(s) \in Fds)
  BY <1>1, <1>3 DEF EventsSound, EventFds
<1>5. EventFds[s] = EvFd(s)
  BY DEF EventFds
<1>6. EventsSound(FiredLib(s), EventFds, LiveSessions) /\ Absent(FiredLib(s), s)
  BY <1>1, <1>5, DelSound DEF FiredLib
<1>7. /\ NetSound(FiredNet(s), clientFd, LiveSessions, LostSessions, cache)
      /\ FiredNet(s).inq = net.inq /\ FiredNet(s).owner = net.owner
  BY <1>1, AddDelSound DEF FiredNet
<1> QED BY <1>4, <1>6, <1>7

\* A session of which libevent holds nothing waits anew, or is deleted.
LEMMA WaitsAnew ==
  ASSUME NEW lb, NEW s \in Sessions,
         EventsSound(lb, EventFds, LiveSessions), Absent(lb, s),
         \A t \in Sessions \ {s} : /\ waits'[t] = waits[t]
                                   /\ clientFd'[t] = clientFd[t] /\ downFd'[t] = downFd[t]
  PROVE  /\ EventsSound(lb, EventFds', LiveSessions')
         /\ \A nt : Live(s)' =>
              EventsSound(LibAdd(nt, lb, s, EvFd(s)'), EventFds', LiveSessions')
<1>1. /\ LiveSessions \ {s} \subseteq LiveSessions'
      /\ \A t \in LiveSessions \ {s} : EventFds'[t] = EventFds[t]
  BY DEF LiveSessions, EventFds, EvFd, Live
<1>2. EventsSound(lb, EventFds', LiveSessions')
  BY <1>1, AbsentSound
<1>3. ASSUME NEW nt, Live(s)'
      PROVE  EventsSound(LibAdd(nt, lb, s, EvFd(s)'), EventFds', LiveSessions')
  <2>1. s \in LiveSessions' /\ EventFds'[s] = EvFd(s)' /\ s \notin lb.inserted
    BY <1>3 DEF LiveSessions, EventFds, Absent
  <2> QED BY <1>2, <2>1, AddSound
<1> QED BY <1>2, <1>3

LEMMA AcceptRunning ==
  ASSUME Running, NEW s \in Sessions, Accept(s)
  PROVE  Running'
<1>1. waits[s] = "none" /\ waits \in [Sessions -> {"none", "up", "down", "freed", "lost"}]
      /\ clientFd \in [Sessions -> Fds \cup {Nil}] /\ unset \in [Sessions -> SUBSET {"up", "down"}]
  BY DEF Running, SessionTypes, Accept, GetDispatchInfo
<1>2. PICK f \in FreeFds(net) :
        /\ clientFd' = [clientFd EXCEPT ![s] = f]
        /\ RegAddEvent(OpenFd(net, f, s, "up"), lib, s, f)
  BY DEF Accept
<1>3. f \in Fds /\ f # Nil
  BY FreeIs, NilIsNobody
<1>4. /\ waits' = [waits EXCEPT ![s] = "up"] /\ unset' = [unset EXCEPT ![s] = {"up", "down"}]
      /\ UNCHANGED <<phase, downFd, upBuf, cache, asked, got, ended, crashed>>
  BY DEF Accept, GetDispatchInfo
<1>5. s \notin LiveSessions /\ LiveSessions \in SUBSET Sessions
  BY <1>1 DEF LiveSessions, Live
<1>6. EventsSound(lib, EventFds, LiveSessions) /\ NetSound(net, clientFd, LiveSessions, LostSessions, cache)
  BY DEF Running
<1>7. Absent(lib, s)
  BY <1>5, <1>6 DEF Absent, EventsSound
<1>8. Live(s)' /\ EvFd(s)' = f /\ clientFd'[s] = f
  BY <1>1, <1>2, <1>4 DEF Live, EvFd
<1>9. \A t \in Sessions \ {s} : /\ waits'[t] = waits[t]
                                /\ clientFd'[t] = clientFd[t] /\ downFd'[t] = downFd[t]
  BY <1>1, <1>2, <1>4
<1>10. EventsSound(lib', EventFds', LiveSessions')
  <2>1. lib' = LibAdd(OpenFd(net, f, s, "up"), lib, s, EvFd(s)')
    BY <1>2, <1>8 DEF RegAddEvent
  <2> QED BY <1>6, <1>7, <1>8, <1>9, <2>1, WaitsAnew
<1>11. LiveSessions' = LiveSessions \cup {s} /\ LostSessions' = LostSessions
  BY <1>1, <1>4, <1>8, <1>9 DEF LiveSessions, LostSessions, Live
<1>12. NetSound(net', clientFd', LiveSessions', LostSessions', cache')
  <2> DEFINE opened == OpenFd(net, f, s, "up")
  <2>1. \A t \in LiveSessions : clientFd'[t] = clientFd[t]
    BY <1>5, <1>9
  <2>2. NetSound(opened, clientFd', LiveSessions \cup {s}, LostSessions, cache)
    BY <1>5, <1>6, <1>8, <2>1, OpenClient
  <2> HIDE DEF opened
  <2>3. net' = NetAdd(opened, lib, f)
    BY <1>2 DEF RegAddEvent, opened
  <2> QED BY <1>4, <1>11, <2>2, <2>3, AddDelSound
<1>13. SessionTypes'
  BY <1>1, <1>2, <1>3, <1>4 DEF Running, SessionTypes
<1> QED BY <1>10, <1>12, <1>13 DEF Running

\* A client that is accepted and gets no session.
LEMMA AcceptLosesRunning ==
  ASSUME Running, NEW s \in Sessions, AcceptLoses(s)
  PROVE  Running'
<1>1. waits[s] = "none" /\ waits \in [Sessions -> {"none", "up", "down", "freed", "lost"}]
  BY DEF Running, SessionTypes, AcceptLoses
<1>2. PICK f \in FreeFds(net) : net' = OpenFd(net, f, s, "up")
  BY DEF AcceptLoses
<1>3. /\ waits' = [waits EXCEPT ![s] = "lost"]
      /\ UNCHANGED <<lib, phase, clientFd, downFd, upBuf, unset, cache, asked, got, ended, crashed>>
  BY DEF AcceptLoses
<1>4. s \notin LiveSessions /\ LiveSessions \in SUBSET Sessions
  BY <1>1 DEF LiveSessions, Live
<1>5. /\ LiveSessions' = LiveSessions /\ LostSessions' = LostSessions \cup {s}
      /\ \A t \in LiveSessions : EventFds'[t] = EventFds[t]
  BY <1>1, <1>3 DEF LiveSessions, LostSessions, Live, EventFds, EvFd
<1>6. EventsSound(lib, EventFds, LiveSessions) /\ Absent(lib, s)
  BY <1>4 DEF Running, EventsSound, Absent
<1>7. EventsSound(lib', EventFds', LiveSessions')
  BY <1>3, <1>5, <1>6, AbsentSound
<1>8. NetSound(net', clientFd', LiveSessions', LostSessions', cache')
  <2>1. NetSound(net, clientFd, LiveSessions, LostSessions, cache)
    BY DEF Running
  <2>2. clientFd \in [Sessions -> Fds \cup {Nil}]
    BY DEF Running, SessionTypes
  <2>3. [clientFd EXCEPT ![s] = f][s] = f
        /\ \A t \in LiveSessions : [clientFd EXCEPT ![s] = f][t] = clientFd[t]
    BY <1>4, <2>2
  <2>4. NetSound(OpenFd(net, f, s, "up"), clientFd, LiveSessions, LostSessions \cup {s}, cache)
    BY <1>4, <2>1, <2>3, OpenClient
  <2> QED BY <1>2, <1>3, <1>5, <2>4
<1>9. SessionTypes'
  BY <1>1, <1>3 DEF Running, SessionTypes
<1> QED BY <1>7, <1>8, <1>9 DEF Running

\* GC after the event has fired.
LEMMA CollectRunning ==
  ASSUME Running, NEW s \in Sessions, NEW res, Fires(s, res),
         Collect(s, FiredNet(s), FiredLib(s)), LoopOn, UNCHANGED <<asked, ended, crashed>>
  PROVE  Running'
<1>1. /\ s \in LiveSessions
      /\ EventsSound(FiredLib(s), EventFds, LiveSessions) /\ Absent(FiredLib(s), s)
      /\ NetSound(FiredNet(s), clientFd, LiveSessions, LostSessions, cache)
  BY Fired
<1>2. /\ net' = CloseFd(FiredNet(s), clientFd[s]) /\ lib' = FiredLib(s)
      /\ waits' = [waits EXCEPT ![s] = "freed"]
      /\ UNCHANGED <<clientFd, downFd, upBuf, unset, cache, got>>
  BY DEF Collect, PutDispatchInfo
<1>3. waits \in [Sessions -> {"none", "up", "down", "freed", "lost"}] /\ waits[s] \notin {"none", "lost"}
  BY <1>1 DEF Running, SessionTypes, LiveSessions, Live
<1>4. \A t \in Sessions \ {s} : /\ waits'[t] = waits[t]
                                /\ clientFd'[t] = clientFd[t] /\ downFd'[t] = downFd[t]
  BY <1>2, <1>3
<1>5. EventsSound(lib', EventFds', LiveSessions')
  BY <1>1, <1>2, <1>4, WaitsAnew
<1>6. /\ LiveSessions' = LiveSessions \ {s} /\ LiveSessions \in SUBSET Sessions
      /\ LostSessions' = LostSessions
  BY <1>1, <1>2, <1>3, <1>4 DEF LiveSessions, LostSessions, Live
<1>7. NetSound(net', clientFd', LiveSessions', LostSessions', cache')
  <2>1. NetSound(net', clientFd, LiveSessions \ {s}, LostSessions, cache)
    BY <1>1, <1>2, <1>6, CloseClient
  <2> QED BY <1>2, <1>6, <2>1
<1>8. SessionTypes'
  BY <1>2, <1>3, LoopType DEF Running, SessionTypes
<1> QED BY <1>5, <1>7, <1>8 DEF Running

\* The answer goes from the backend's socket to the client.
LEMMA DownRecvRunning ==
  ASSUME Running, NEW s \in Sessions, DownRecv(s)
  PROVE  Running'
<1> DEFINE read == ProcessRecvEvent(FiredNet(s), downFd[s])
<1>1. /\ s \in LiveSessions
      /\ EventsSound(FiredLib(s), EventFds, LiveSessions) /\ Absent(FiredLib(s), s)
      /\ NetSound(FiredNet(s), clientFd, LiveSessions, LostSessions, cache)
      /\ EvFd(s) \in Fds
  BY Fired DEF DownRecv
<1>2. waits[s] = "down" /\ downFd[s] \in Fds
  BY <1>1 DEF DownRecv, EvFd
<1>3. /\ RegAddEvent(read, FiredLib(s), s, clientFd[s])
      /\ got'   = [got EXCEPT ![s] =
                     IF net.peer[clientFd[s]] = "up" THEN got[s] \o net.inq[downFd[s]]
                     ELSE got[s]]
      /\ unset' = [unset EXCEPT ![s] = unset[s] \ {"down"}]
      /\ waits' = [waits EXCEPT ![s] = "up"]
      /\ LoopOn
      /\ UNCHANGED <<clientFd, downFd, upBuf, cache, asked, ended, crashed>>
  BY DEF DownRecv
<1>4. /\ waits \in [Sessions -> {"none", "up", "down", "freed", "lost"}]
      /\ unset \in [Sessions -> SUBSET {"up", "down"}]
      /\ got \in [Sessions -> Seq(Pieces)]
  BY DEF Running, SessionTypes
<1>5. \A t \in Sessions \ {s} : /\ waits'[t] = waits[t]
                                /\ clientFd'[t] = clientFd[t] /\ downFd'[t] = downFd[t]
  BY <1>3, <1>4
<1>6. Live(s)' /\ EvFd(s)' = clientFd[s]
  BY <1>3, <1>4 DEF Live, EvFd
<1> HIDE DEF read
<1>7. EventsSound(lib', EventFds', LiveSessions')
  <2>1. lib' = LibAdd(read, FiredLib(s), s, EvFd(s)')
    BY <1>3, <1>6 DEF RegAddEvent
  <2> QED BY <1>1, <1>5, <1>6, <2>1, WaitsAnew
<1>8. LiveSessions' = LiveSessions /\ LostSessions' = LostSessions
  BY <1>1, <1>5, <1>6 DEF LiveSessions, LostSessions, Live
<1>9. NetSound(net', clientFd', LiveSessions', LostSessions', cache')
  <2>1. NetSound(read, clientFd, LiveSessions, LostSessions, cache)
    BY <1>1, <1>2, RecvSound DEF read
  <2>2. net' = NetAdd(read, FiredLib(s), clientFd[s])
    BY <1>3 DEF RegAddEvent
  <2> QED BY <1>3, <1>8, <2>1, <2>2, AddDelSound
<1>10. got' \in [Sessions -> Seq(Pieces)]
  <2>1. net.inq[downFd[s]] \in Seq(Pieces) /\ got[s] \in Seq(Pieces)
    BY <1>2, <1>4 DEF Running, NetSound, DataSound, NetTypes
  <2>2. got[s] \o net.inq[downFd[s]] \in Seq(Pieces)
    BY <2>1
  <2> QED BY <1>3, <1>4, <2>1, <2>2
<1>11. SessionTypes'
  <2>1. waits' \in [Sessions -> {"none", "up", "down", "freed", "lost"}] /\ waits[s] = "down" /\ waits'[s] = "up"
    BY <1>2, <1>3, <1>4
  <2>2. unset' \in [Sessions -> SUBSET {"up", "down"}]
    BY <1>3, <1>4
  <2>3. \A t \in Sessions : clientFd'[t] = Nil <=> waits'[t] \in {"none", "lost"}
    BY <1>3, <1>4, <1>5, <2>1 DEF Running, SessionTypes
  <2> QED BY <1>3, <1>10, <2>1, <2>2, <2>3, LoopType DEF Running, SessionTypes
<1> QED BY <1>7, <1>9, <1>11 DEF Running

\* The request goes from the client to the backend; without a connection it
\* stays in the buffer.
LEMMA UpRecvRunning ==
  ASSUME Running, NEW s \in Sessions, UpRecv(s)
  PROVE  Running'
<1> DEFINE data == upBuf[s] \o net.inq[clientFd[s]]
           read == ProcessRecvEvent(FiredNet(s), clientFd[s])
<1>1. /\ s \in LiveSessions
      /\ EventsSound(FiredLib(s), EventFds, LiveSessions) /\ Absent(FiredLib(s), s)
      /\ NetSound(FiredNet(s), clientFd, LiveSessions, LostSessions, cache)
      /\ EvFd(s) \in Fds
  BY Fired DEF UpRecv
<1>2. waits[s] = "up" /\ clientFd[s] \in Fds
  BY <1>1 DEF UpRecv, EvFd
<1>3. PICK b \in Backends : \E io \in GetIo(read, b) :
        /\ cache' = io.cache
        /\ IF io.sd # Nil
           THEN /\ downFd' = [downFd EXCEPT ![s] = io.sd]
                /\ upBuf'  = [upBuf EXCEPT ![s] = <<>>]
                /\ unset'  = [unset EXCEPT ![s] = unset[s] \ {"up"}]
                /\ RegAddEvent(Send2Peer(io.nt, io.sd, data), FiredLib(s), s, io.sd)
           ELSE /\ upBuf' = [upBuf EXCEPT ![s] = data]
                /\ RegAddEvent(io.nt, FiredLib(s), s, downFd[s])
                /\ UNCHANGED <<downFd, unset>>
  BY DEF UpRecv
<1>4. PICK io \in GetIo(read, b) :
        /\ cache' = io.cache
        /\ IF io.sd # Nil
           THEN /\ downFd' = [downFd EXCEPT ![s] = io.sd]
                /\ upBuf'  = [upBuf EXCEPT ![s] = <<>>]
                /\ unset'  = [unset EXCEPT ![s] = unset[s] \ {"up"}]
                /\ RegAddEvent(Send2Peer(io.nt, io.sd, data), FiredLib(s), s, io.sd)
           ELSE /\ upBuf' = [upBuf EXCEPT ![s] = data]
                /\ RegAddEvent(io.nt, FiredLib(s), s, downFd[s])
                /\ UNCHANGED <<downFd, unset>>
  BY <1>3
<1>5. /\ waits' = [waits EXCEPT ![s] = "down"]
      /\ LoopOn
      /\ UNCHANGED <<clientFd, asked, got, ended, crashed>>
  BY DEF UpRecv
<1>6. /\ waits \in [Sessions -> {"none", "up", "down", "freed", "lost"}]
      /\ unset \in [Sessions -> SUBSET {"up", "down"}]
      /\ downFd \in [Sessions -> Fds \cup {Nil}]
      /\ upBuf \in [Sessions -> Seq(Requests)]
  BY DEF Running, SessionTypes
<1>7. data \in Seq(Requests)
  <2>1. upBuf[s] \in Seq(Requests)
    BY <1>6
  <2>2. net.inq[clientFd[s]] \in Seq(Requests)
    BY <1>1, <1>2 DEF Running, NetSound, DataSound, ClientsOwn
  <2> QED BY <2>1, <2>2
<1>8. NetSound(read, clientFd, LiveSessions, LostSessions, cache)
  BY <1>1, <1>2, RecvSound
<1> HIDE DEF data, read
<1>9. LiveSessions \in SUBSET Sessions
  BY DEF LiveSessions
<1>10. /\ NetSound(io.nt, clientFd, LiveSessions, LostSessions, cache')
       /\ io.sd \in Fds \cup {Nil}
       /\ io.sd # Nil => io.nt.owner[io.sd] \in Backends
  <2>1. /\ NetSound(io.nt, clientFd, LiveSessions, LostSessions, io.cache)
        /\ io.sd \in Fds \cup {Nil}
        /\ io.sd # Nil => io.nt.owner[io.sd] \in Backends
        /\ Kept(io.nt, read)
    <3>1. /\ LiveSessions \in SUBSET Sessions
          /\ NetSound(read, clientFd, LiveSessions, LostSessions, cache)
          /\ b \in Backends /\ io \in GetIo(read, b)
      BY <1>8, <1>9
    <3> QED BY ONLY <3>1, GetIoSound
  <2> QED BY <1>4, <2>1
<1>11. Live(s)' /\ EvFd(s)' = downFd'[s]
  BY <1>5, <1>6 DEF Live, EvFd
<1>12. LiveSessions' = LiveSessions /\ LostSessions' = LostSessions
  BY <1>1, <1>5, <1>6, <1>11 DEF LiveSessions, LostSessions, Live
<1>13. /\ waits' \in [Sessions -> {"none", "up", "down", "freed", "lost"}]
       /\ cache' \in SUBSET Entries
       /\ \A t \in Sessions : clientFd'[t] = Nil <=> waits'[t] \in {"none", "lost"}
  <2>1. \A t \in Sessions : waits'[t] \in {"none", "lost"} <=> waits[t] \in {"none", "lost"}
    BY <1>2, <1>5, <1>6
  <2>2. cache' \in SUBSET Entries
    BY <1>10 DEF NetSound, CachedSound
  <2> QED BY <1>5, <1>6, <2>1, <2>2 DEF Running, SessionTypes
<1>14. CASE io.sd # Nil
  <2>1. /\ downFd' = [downFd EXCEPT ![s] = io.sd]
        /\ upBuf'  = [upBuf EXCEPT ![s] = <<>>]
        /\ unset'  = [unset EXCEPT ![s] = unset[s] \ {"up"}]
        /\ RegAddEvent(Send2Peer(io.nt, io.sd, data), FiredLib(s), s, io.sd)
    BY <1>4, <1>14
  <2>2. \A t \in Sessions \ {s} : /\ waits'[t] = waits[t]
                                  /\ clientFd'[t] = clientFd[t] /\ downFd'[t] = downFd[t]
    BY <1>5, <1>6, <2>1
  <2>3. EvFd(s)' = io.sd
    BY <1>6, <1>11, <2>1
  <2>4. EventsSound(lib', EventFds', LiveSessions')
    <3>1. lib' = LibAdd(Send2Peer(io.nt, io.sd, data), FiredLib(s), s, EvFd(s)')
      BY <2>1, <2>3 DEF RegAddEvent
    <3> QED BY <1>1, <1>11, <2>2, <3>1, WaitsAnew
  <2>5. NetSound(net', clientFd', LiveSessions', LostSessions', cache')
    <3>1. io.sd \in Fds /\ io.nt.owner[io.sd] \in Backends
      BY <1>10, <1>14
    <3>2. NetSound(Send2Peer(io.nt, io.sd, data), clientFd, LiveSessions, LostSessions, cache')
      BY <1>7, <1>10, <3>1, SendSound
    <3>3. net' = NetAdd(Send2Peer(io.nt, io.sd, data), FiredLib(s), io.sd)
      BY <2>1 DEF RegAddEvent
    <3> QED BY <1>5, <1>12, <3>2, <3>3, AddDelSound
  <2>6. /\ downFd' \in [Sessions -> Fds \cup {Nil}]
        /\ unset' \in [Sessions -> SUBSET {"up", "down"}]
    BY <1>6, <1>10, <2>1
  <2>7. upBuf' \in [Sessions -> Seq(Requests)]
    <3>1. <<>> \in Seq(Requests)
      OBVIOUS
    <3> QED BY <1>6, <2>1, <3>1
  <2>8. SessionTypes'
    BY <1>5, <1>13, <2>6, <2>7, LoopType DEF Running, SessionTypes
  <2> QED BY <2>4, <2>5, <2>8 DEF Running
<1>15. CASE io.sd = Nil
  <2>1. /\ upBuf' = [upBuf EXCEPT ![s] = data]
        /\ RegAddEvent(io.nt, FiredLib(s), s, downFd[s])
        /\ UNCHANGED <<downFd, unset>>
    BY <1>4, <1>15
  <2>2. \A t \in Sessions \ {s} : /\ waits'[t] = waits[t]
                                  /\ clientFd'[t] = clientFd[t] /\ downFd'[t] = downFd[t]
    BY <1>5, <1>6, <2>1
  <2>3. EventsSound(lib', EventFds', LiveSessions')
    <3>1. lib' = LibAdd(io.nt, FiredLib(s), s, EvFd(s)')
      BY <1>11, <2>1 DEF RegAddEvent
    <3> QED BY <1>1, <1>11, <2>2, <3>1, WaitsAnew
  <2>4. NetSound(net', clientFd', LiveSessions', LostSessions', cache')
    <3>1. net' = NetAdd(io.nt, FiredLib(s), downFd[s])
      BY <2>1 DEF RegAddEvent
    <3> QED BY <1>5, <1>10, <1>12, <3>1, AddDelSound
  <2>5. upBuf' \in [Sessions -> Seq(Requests)]
    BY <1>6, <1>7, <2>1
  <2>6. SessionTypes'
    BY <1>5, <1>13, <2>1, <2>5, LoopType DEF Running, SessionTypes
  <2> QED BY <2>3, <2>4, <2>6 DEF Running
<1> QED BY <1>14, <1>15

LEMMA CallbackRunning ==
  ASSUME Running, NEW s \in Sessions, Callback(s)
  PROVE  Running'
<1>1. CASE UpRecv(s)
  BY <1>1, UpRecvRunning
<1>2. CASE DownRecv(s)
  BY <1>2, DownRecvRunning
<1>3. CASE RecvNothing(s)
  BY <1>3, CollectRunning DEF RecvNothing
<1>4. CASE RecvTimeout(s)
  BY <1>4, CollectRunning DEF RecvTimeout
<1>5. CASE RecvUnset(s)
  <2>1. CASE Collect(s, FiredNet(s), FiredLib(s)) /\ LoopOn /\ UNCHANGED crashed
    BY <1>5, <2>1, CollectRunning DEF RecvUnset
  <2>2. CASE crashed' = TRUE /\ UNCHANGED <<net, lib, phase, sessVars, cache, got>>
    <3>1. UNCHANGED <<net, lib, phase, waits, clientFd, downFd, upBuf, unset, cache, got, asked, ended>>
      BY <1>5, <2>2 DEF RecvUnset, sessVars
    <3>2. EventFds' = EventFds /\ LiveSessions' = LiveSessions /\ LostSessions' = LostSessions
      BY <3>1 DEF EventFds, LiveSessions, LostSessions, EvFd, Live
    <3> QED BY <2>2, <3>1, <3>2 DEF Running, SessionTypes
  <2> QED BY <1>5, <2>1, <2>2 DEF RecvUnset
<1> QED BY <1>1, <1>2, <1>3, <1>4, <1>5 DEF Callback

-----------------------------------------------------------------------------
(* The other ends. *)

\* A step of a client or a backend touches only what sockets hold, and peers.
LEMMA OutsideRunning ==
  ASSUME Running, UNCHANGED <<lib, phase, sessVars, cache, got, ended, crashed>>,
         DataSound(net'), net'.owner = net.owner,
         \A f \in Fds : net'.peer[f] = "up" => net.peer[f] = "up",
         asked' \in [Sessions -> Nat], \A s \in Sessions : asked'[s] <= MaxReqs[s]
  PROVE  Running'
<1>1. EventFds' = EventFds /\ LiveSessions' = LiveSessions /\ LostSessions' = LostSessions
  BY DEF sessVars, EventFds, LiveSessions, LostSessions, EvFd, Live
<1>2. ClientsOwn(net', clientFd, LiveSessions, LostSessions) /\ CachedSound(net', cache)
  BY DEF Running, NetSound, ClientsOwn, CachedSound
<1>3. SessionTypes'
  BY DEF Running, SessionTypes, sessVars
<1> QED BY <1>1, <1>2, <1>3 DEF Running, NetSound, sessVars

LEMMA ClientSendsRunning ==
  ASSUME Running, NEW s \in Sessions, ClientSends(s)
  PROVE  Running'
<1> DEFINE f == clientFd[s]
           p == Request(s, asked[s] + 1)
           q == Append(net.inq[f], p)
<1>1. f \in Fds /\ net.owner[f] = s /\ net \in NetTypes /\ DataSound(net)
      /\ asked \in [Sessions -> Nat]
  BY DEF Running, NetSound, ClientsOwn, DataSound, LiveSessions, ClientSends, SessionTypes
<1>2. asked[s] \in Nat /\ asked[s] + 1 \in 1..MaxReqs[s] /\ MaxReqs[s] \in Nat
  BY <1>1, IoDispatchAssumption DEF ClientSends
<1>3. asked[s] + 1 \in Numbers
  BY <1>2 DEF Numbers
<1>4. p \in Requests
  BY <1>3, IoDispatchAssumption DEF Request, Requests, Pieces
<1>5. net.inq[f] \in Seq(Requests)
  BY <1>1 DEF DataSound
<1> HIDE DEF p
<1>6. q \in Seq(Requests) /\ q \in Seq(Pieces)
  <2>1. q \in Seq(Requests)
    BY <1>4, <1>5
  <2> QED BY <2>1, RequestTokens
<1>7. net' = [net EXCEPT !.inq = [net.inq EXCEPT ![f] = q]]
  BY <1>1 DEF ClientSends, NetTypes, p
<1> HIDE DEF q
<1>8. /\ net' \in NetTypes /\ net'.inq = [net.inq EXCEPT ![f] = q]
      /\ net'.owner = net.owner /\ net'.peer = net.peer /\ net'.reqs = net.reqs
      /\ net.inq \in [Fds -> Seq(Pieces)]
  <2>1. net.inq \in [Fds -> Seq(Pieces)] /\ [net.inq EXCEPT ![f] = q] \in [Fds -> Seq(Pieces)]
    BY <1>1, <1>6 DEF NetTypes
  <2> QED BY <1>1, <1>7, <2>1 DEF NetTypes
<1>9. DataSound(net')
  <2>1. net.owner[f] # Nil
    BY <1>1, NilIsNobody
  <2> QED BY <1>1, <1>6, <1>8, <2>1 DEF DataSound
<1>10. asked' = [asked EXCEPT ![s] = asked[s] + 1]
       /\ UNCHANGED <<lib, phase, sessVars, cache, got, ended, crashed>>
  BY DEF ClientSends
<1>11. asked' \in [Sessions -> Nat] /\ \A t \in Sessions : asked'[t] <= MaxReqs[t]
  <2>1. \A t \in Sessions : asked[t] <= MaxReqs[t]
    BY DEF Running, SessionTypes
  <2> QED BY <1>1, <1>2, <1>10, <2>1
<1> QED BY <1>8, <1>9, <1>10, <1>11, OutsideRunning

LEMMA ClosesRunning ==
  ASSUME Running, NEW f \in Fds, net.owner[f] # Nil, NEW q \in Seq(Tokens),
         q = net.reqs[f] \/ net.owner[f] \in Backends,
         net' = [net EXCEPT !.peer = [net.peer EXCEPT ![f] = "gone"],
                            !.reqs = [net.reqs EXCEPT ![f] = q]],
         UNCHANGED <<lib, phase, sessVars, cache, asked, got, ended, crashed>>
  PROVE  Running'
<1>1. net \in NetTypes /\ DataSound(net)
      /\ asked \in [Sessions -> Nat] /\ \A s \in Sessions : asked[s] <= MaxReqs[s]
  BY DEF Running, NetSound, DataSound, SessionTypes
<1>2. net.peer \in [Fds -> {"up", "syn", "late", "gone"}] /\ net.reqs \in [Fds -> Seq(Tokens)]
  BY <1>1 DEF NetTypes
<1>3. /\ [net.peer EXCEPT ![f] = "gone"] \in [Fds -> {"up", "syn", "late", "gone"}]
      /\ [net.reqs EXCEPT ![f] = q] \in [Fds -> Seq(Tokens)]
  BY <1>2
<1>4. /\ net' \in NetTypes /\ net'.owner = net.owner /\ net'.inq = net.inq
      /\ net'.peer = [net.peer EXCEPT ![f] = "gone"] /\ net'.reqs = [net.reqs EXCEPT ![f] = q]
  BY <1>1, <1>3 DEF NetTypes
<1>5. DataSound(net')
  BY <1>1, <1>2, <1>4 DEF DataSound
<1>6. \A g \in Fds : net'.peer[g] = "up" => net.peer[g] = "up"
  BY <1>2, <1>4
<1> QED BY <1>1, <1>4, <1>5, <1>6, OutsideRunning

LEMMA BackendAnswersRunning ==
  ASSUME Running, NEW f \in Fds, BackendAnswers(f)
  PROVE  Running'
<1> DEFINE h == Head(net.reqs[f])
           piece == [h EXCEPT !.seg = h.seg + 1]
           q == Append(net.inq[f], piece)
           r == IF piece.seg = Segments THEN Tail(net.reqs[f])
                ELSE <<piece>> \o Tail(net.reqs[f])
<1>1. net \in NetTypes /\ DataSound(net)
      /\ asked \in [Sessions -> Nat] /\ \A s \in Sessions : asked[s] <= MaxReqs[s]
  BY DEF Running, NetSound, DataSound, SessionTypes
<1>2. /\ net.inq \in [Fds -> Seq(Pieces)] /\ net.reqs \in [Fds -> Seq(Tokens)]
      /\ net.reqs[f] # <<>> /\ net.owner[f] \in Backends
  BY <1>1 DEF NetTypes, BackendAnswers
<1>3. h \in Tokens /\ Tail(net.reqs[f]) \in Seq(Tokens)
  BY <1>2
<1> HIDE DEF h
<1>4. piece \in Pieces /\ (piece.seg # Segments => piece \in Tokens)
  <2>1. h \in Pieces /\ h.seg \in 0..Segments /\ h.seg < Segments /\ Segments \in Nat
    BY <1>3, IoDispatchAssumption DEF Tokens, Pieces
  <2>2. h.seg + 1 \in 0..Segments /\ (h.seg + 1 # Segments => h.seg + 1 < Segments)
    BY <2>1
  <2>3. piece \in Pieces /\ piece.seg = h.seg + 1
    BY <2>1, <2>2 DEF Pieces
  <2> QED BY <2>2, <2>3 DEF Tokens
<1> HIDE DEF piece
<1>5. q \in Seq(Pieces) /\ r \in Seq(Tokens)
  BY <1>2, <1>3, <1>4
<1>6. net' = [net EXCEPT !.inq = [net.inq EXCEPT ![f] = q], !.reqs = [net.reqs EXCEPT ![f] = r]]
      /\ UNCHANGED <<lib, phase, sessVars, cache, asked, got, ended, crashed>>
  BY <1>1 DEF BackendAnswers, NetTypes, h, piece
<1> HIDE DEF q, r
<1>7. /\ [net.inq EXCEPT ![f] = q] \in [Fds -> Seq(Pieces)]
      /\ [net.reqs EXCEPT ![f] = r] \in [Fds -> Seq(Tokens)]
  BY <1>2, <1>5
<1>8. /\ net' \in NetTypes /\ net'.owner = net.owner /\ net'.peer = net.peer
      /\ net'.inq = [net.inq EXCEPT ![f] = q] /\ net'.reqs = [net.reqs EXCEPT ![f] = r]
  BY <1>1, <1>6, <1>7 DEF NetTypes
<1>9. net.owner[f] \notin Sessions /\ net.owner[f] # Nil
  BY <1>2, IoDispatchAssumption
<1>10. DataSound(net')
  BY <1>1, <1>2, <1>8, <1>9 DEF DataSound
<1> QED BY <1>1, <1>6, <1>8, <1>10, OutsideRunning

LEMMA OutsideKeeps ==
  ASSUME Running, Outside
  PROVE  Running'
<1>1. net \in NetTypes /\ net.reqs \in [Fds -> Seq(Tokens)] /\ net.peer \in [Fds -> {"up", "syn", "late", "gone"}]
  BY DEF Running, NetSound, DataSound, NetTypes
<1>2. ASSUME NEW s \in Sessions, ClientCloses(s) PROVE Running'
  <2>1. clientFd[s] \in Fds /\ net.owner[clientFd[s]] # Nil
    BY <1>2, NilIsNobody DEF Running, NetSound, ClientsOwn, LiveSessions, ClientCloses
  <2>2. net.reqs[clientFd[s]] \in Seq(Tokens)
    BY <1>1, <2>1
  <2>3. net' = [net EXCEPT !.peer = [net.peer EXCEPT ![clientFd[s]] = "gone"],
                           !.reqs = [net.reqs EXCEPT ![clientFd[s]] = net.reqs[clientFd[s]]]]
    <3>1. [net.reqs EXCEPT ![clientFd[s]] = net.reqs[clientFd[s]]] = net.reqs
      BY <1>1
    <3>2. net' = [net EXCEPT !.peer = [net.peer EXCEPT ![clientFd[s]] = "gone"]]
      BY <1>1, <1>2 DEF ClientCloses, NetTypes
    <3> QED BY <1>1, <3>1, <3>2 DEF NetTypes
  <2> QED BY <1>2, <2>1, <2>2, <2>3, ClosesRunning DEF ClientCloses
<1>3. ASSUME NEW f \in Fds, BackendCloses(f) PROVE Running'
  <2>1. net.owner[f] \in Backends /\ net.owner[f] # Nil
    BY <1>3, NilIsNobody DEF BackendCloses
  <2>2. net' = [net EXCEPT !.peer = [net.peer EXCEPT ![f] = "gone"],
                           !.reqs = [net.reqs EXCEPT ![f] = <<>>]]
    BY <1>1, <1>3 DEF BackendCloses, NetTypes
  <2>3. <<>> \in Seq(Tokens)
    OBVIOUS
  <2> QED BY <1>3, <2>1, <2>2, <2>3, ClosesRunning DEF BackendCloses
<1>4. ASSUME NEW f \in Fds, HandshakeEnds(f) PROVE Running'
  <2>1. net' = [net EXCEPT !.peer = [net.peer EXCEPT ![f] = "late"]]
        /\ UNCHANGED <<lib, phase, sessVars, cache, asked, got, ended, crashed>>
    BY <1>1, <1>4 DEF HandshakeEnds, NetTypes
  <2>2. [net.peer EXCEPT ![f] = "late"] \in [Fds -> {"up", "syn", "late", "gone"}]
    BY <1>1
  <2>3. /\ net' \in NetTypes /\ net'.owner = net.owner /\ net'.inq = net.inq
        /\ net'.reqs = net.reqs /\ net'.peer = [net.peer EXCEPT ![f] = "late"]
    BY <1>1, <2>1, <2>2 DEF NetTypes
  <2>4. DataSound(net')
    BY <2>3 DEF Running, NetSound, DataSound
  <2>5. \A g \in Fds : net'.peer[g] = "up" => net.peer[g] = "up"
    BY <1>1, <2>3
  <2>6. asked' \in [Sessions -> Nat] /\ \A s \in Sessions : asked'[s] <= MaxReqs[s]
    BY <2>1 DEF Running, SessionTypes
  <2> QED BY <2>1, <2>3, <2>4, <2>5, <2>6, OutsideRunning
<1> QED BY <1>2, <1>3, <1>4, ClientSendsRunning, BackendAnswersRunning DEF Outside

\* When the thread ends, its cached connections are closed and libevent holds
\* nothing; the sessions that are left stay as they are.
LEMMA EndKeepsPromises ==
  ASSUME Running, ThreadEnds
  PROVE  Promises'
<1> DEFINE cached == {e.sd : e \in cache}
<1>1. Promises
  BY RunningPromises
<1>2. /\ ended' = TRUE
      /\ lib' = [inserted |-> {}, timers |-> <<>>, active |-> <<>>, evread |-> [f \in Fds |-> Nil]]
      /\ net' = [net EXCEPT !.owner = [f \in Fds |-> IF f \in cached THEN Nil ELSE net.owner[f]],
                            !.epoll = {}]
      /\ UNCHANGED <<phase, sessVars, cache, asked, got, crashed>>
  BY DEF ThreadEnds
<1>3. net \in NetTypes
  BY DEF Running, NetSound, DataSound
<1>4. [f \in Fds |-> IF f \in cached THEN Nil ELSE net.owner[f]]
        \in [Fds -> Sessions \cup Backends \cup {Nil}]
  BY <1>3 DEF NetTypes
<1>5. /\ net' \in NetTypes /\ net'.peer = net.peer
      /\ \A f \in Fds : net'.owner[f] = IF f \in cached THEN Nil ELSE net.owner[f]
  BY <1>2, <1>3, <1>4 DEF NetTypes
<1>6. TypeOK'
  <2>1. Tokens \subseteq Pieces
    BY DEF Tokens
  <2>2. net' \in [owner : [Fds -> Sessions \cup Backends \cup {Nil}],
                  peer  : [Fds -> {"up", "syn", "late", "gone"}],
                  inq   : [Fds -> Seq(Pieces)],
                  reqs  : [Fds -> Seq(Pieces)],
                  epoll : SUBSET Fds]
    <3>1. Seq(Tokens) \subseteq Seq(Pieces)
      BY <2>1
    <3> QED BY <1>5, <3>1 DEF NetTypes
  <2>3. lib' \in [inserted : SUBSET Sessions,
                  timers   : Seq(Sessions),
                  evread   : [Fds -> Sessions \cup {Nil}],
                  active   : Seq([s : Sessions, res : {"read", "timeout"}])]
    BY <1>2
  <2> QED BY <1>1, <1>2, <2>2, <2>3 DEF Promises, TypeOK, sessVars
<1>7. NoDanglingEvent' /\ RegisteredHasTimer'
  <2>1. lib'.inserted = {} /\ lib'.timers = <<>> /\ lib'.active = <<>> /\ \A f \in Fds : lib'.evread[f] = Nil
    BY <1>2
  <2> QED BY <2>1 DEF NoDanglingEvent, RegisteredHasTimer, IsActive, Range, IsInjective
<1>8. \A s \in Sessions : Live(s)' <=> Live(s)
  BY <1>2 DEF Live, sessVars
<1>9. CachedSound(net, cache)
  BY DEF Running, NetSound
<1>10. \A f \in Fds : net.owner[f] \in Sessions => f \notin cached
  BY <1>9, IoDispatchAssumption DEF CachedSound, Entries
<1>11. ClientSocketOwned'
  <2>1. clientFd' = clientFd
    BY <1>2 DEF sessVars
  <2>2. ClientSocketOwned
    BY <1>1 DEF Promises
  <2>3. ClientsOwn(net, clientFd, LiveSessions, LostSessions)
    BY DEF Running, NetSound
  <2>4. ASSUME NEW s \in Sessions, Live(s)
        PROVE  clientFd[s] # Nil /\ net'.owner[clientFd[s]] = s
    BY <1>5, <1>10, <2>3, <2>4, NilIsNobody DEF ClientsOwn, LiveSessions
  <2>5. ASSUME NEW f \in Fds, net'.owner[f] \in Sessions
        PROVE  net.owner[f] = net'.owner[f]
    BY <1>5, <2>5, NilIsNobody
  <2>6. waits' = waits
    BY <1>2 DEF sessVars
  <2> QED BY <1>8, <2>1, <2>2, <2>4, <2>5, <2>6 DEF ClientSocketOwned
<1>12. CacheSound'
  <2>1. ASSUME NEW f \in Fds, net'.owner[f] \in Backends, net'.peer[f] = "up", Ordered PROVE FALSE
    <3>1. net.owner[f] = net'.owner[f] /\ f \notin cached
      BY <1>5, <2>1, NilIsNobody
    <3>2. net.peer[f] = "up" /\ net.owner[f] \in Backends
      BY <1>5, <2>1, <3>1
    <3>3. \E e \in cache : e.sd = f
      BY <1>9, <2>1, <3>2 DEF CachedSound
    <3> QED BY <3>1, <3>3
  <2>2. CacheSound
    BY <1>1 DEF Promises
  <2>3. cache' = cache /\ ended'
    BY <1>2
  <2> QED BY <2>1, <2>2, <2>3 DEF CacheSound
<1> QED BY <1>6, <1>7, <1>11, <1>12 DEF Promises

LEMMA DispatchStep ==
  ASSUME DispatchInv, [Next]_vars
  PROVE  DispatchInv'
<1>1. ASSUME Next PROVE DispatchInv'
  <2>1. Running
    BY <1>1 DEF DispatchInv, Next
  <2>2. CASE ThreadEnds
    BY <2>1, <2>2, EndKeepsPromises DEF DispatchInv, ThreadEnds
  <2>3. Running' => DispatchInv'
    <3>1. Running' => Promises'
      BY RunningPromises, PTL
    <3> QED BY <3>1 DEF DispatchInv
  <2>4. ASSUME NEW f \in Fds, Poll(f) PROVE Running'
    BY <2>1, <2>4, PollRunning
  <2>5. ASSUME NEW s \in Sessions, Accept(s) \/ AcceptLoses(s) \/ Callback(s) PROVE Running'
    BY <2>1, <2>5, AcceptRunning, AcceptLosesRunning, CallbackRunning
  <2> QED BY <1>1, <2>1, <2>2, <2>3, <2>4, <2>5, ExpireRunning, OutsideKeeps DEF Next
<1>2. CASE UNCHANGED vars
  <2>1. EventFds' = EventFds /\ LiveSessions' = LiveSessions /\ LostSessions' = LostSessions
    BY <1>2 DEF vars, sessVars, EventFds, LiveSessions, LostSessions, EvFd, Live
  <2>2. Running => Running'
    BY <1>2, <2>1 DEF vars, sessVars, Running, SessionTypes
  <2>3. Promises'
    BY <1>2 DEF DispatchInv, Promises, vars, sessVars, TypeOK, NoDanglingEvent, Live, EvFd,
                IsActive, RegisteredHasTimer, ClientSocketOwned, CacheSound
  <2> QED BY <1>2, <2>2, <2>3 DEF DispatchInv, vars
<1> QED BY <1>1, <1>2

LEMMA DispatchInvariant == Spec => []DispatchInv
<1>1. Init => DispatchInv
  BY InitRunning, RunningPromises DEF DispatchInv
<1>2. DispatchInv /\ [Next]_vars => DispatchInv'
  BY DispatchStep
<1> QED BY <1>1, <1>2, PTL DEF Spec

-----------------------------------------------------------------------------
(* The theorems. *)

\* The state of the event loop (io_dispatch.cpp, io_manager.cpp) keeps to its
\* type, and a session has its client's descriptor from accept on.
THEOREM DispatchTypeCorrect == Spec => []TypeOK
<1>1. DispatchInv => TypeOK
  BY DEF DispatchInv, Promises
<1> QED BY <1>1, DispatchInvariant, PTL

\* Closing, deleting and using descriptors again in any order, libevent never
\* holds the event of a session that io_dispatch_gc has deleted.
THEOREM NoDanglingEventCorrect == Spec => []NoDanglingEvent
<1>1. DispatchInv => NoDanglingEvent
  BY DEF DispatchInv, Promises
<1> QED BY <1>1, DispatchInvariant, PTL

\* What reg_add_event has registered has exactly one timeout, so the wait of a
\* registered session ends.  One whose event_add failed has neither.
THEOREM RegisteredHasTimerCorrect == Spec => []RegisteredHasTimer
<1>1. DispatchInv => RegisteredHasTimer
  BY DEF DispatchInv, Promises
<1> QED BY <1>1, DispatchInvariant, PTL

\* The socket of a client belongs to its session from accept to GC: get_io,
\* the sessions of other clients and the end of the thread never close it.
\* The socket of a client that got no session stays open.
THEOREM ClientSocketOwnedCorrect == Spec => []ClientSocketOwned
<1>1. DispatchInv => ClientSocketOwned
  BY DEF DispatchInv, Promises
<1> QED BY <1>1, DispatchInvariant, PTL

\* What Io_Manager hands out is a connection to a backend that Io_Comp does
\* not tell from the one asked for, and where Io_Comp is an order it never
\* forgets one that was established in time.
THEOREM CacheSoundCorrect == Spec => []CacheSound
<1>1. DispatchInv => CacheSound
  BY DEF DispatchInv, Promises
<1> QED BY <1>1, DispatchInvariant, PTL
-----------------------------------------------------------------------------
(***************************************************************************)
(* What the sessions relay: no request is forwarded twice and no piece of  *)
(* an answer is relayed twice.                                             *)
(*                                                                         *)
(* The pieces are looked at by the spot where they are: a place, which is  *)
(* what a socket or a buffer holds, and a position in it.  A callback      *)
(* moves what one place holds to the end of another.                       *)
(***************************************************************************)
Places == ({"inq", "reqs"} \X Fds) \cup ({"up", "got"} \X Sessions)

\* All places, when the kernel, the buffers and the clients are as given.
Held(nt, up, gt) ==
  [l \in Places |->
     IF l[1] = "inq" THEN nt.inq[l[2]]
     ELSE IF l[1] = "reqs" THEN nt.reqs[l[2]]
     ELSE IF l[1] = "up" THEN up[l[2]]
     ELSE gt[l[2]]]

Spots(at) == {x \in Places \X Nat : x[2] \in DOMAIN at[x[1]]}
At(at, x) == at[x[1]][x[2]]

\* A backend has a request that it has not answered in full at the spot; in
\* other places a piece is data on its way.
Pending(x) == x[1][1] = "reqs"

SameRequest(p, q) == p.of = q.of /\ p.n = q.n

\* Pieces p at x and q at y of one request: only one of them is pending, data
\* that follows from it is a piece of the answer that it has given, and data is
\* never twice the same, nor with the request itself.
Apart(x, p, y, q) ==
  /\ Pending(x) => ~ Pending(y) /\ 1 <= q.seg /\ q.seg <= p.seg
  /\ ~ Pending(x) /\ ~ Pending(y) => p.seg # q.seg /\ p.seg > 0

Distinct(at) ==
  \A x, y \in Spots(at) :
    x # y /\ SameRequest(At(at, x), At(at, y)) =>
      Apart(x, At(at, x), y, At(at, y)) /\ Apart(y, At(at, y), x, At(at, x))

\* There are only requests that their client has sent.
AskedFor(at, sent) == \A x \in Spots(at) : At(at, x).n <= sent[At(at, x).of]

Sequences(at) == at \in [Places -> Seq(Pieces)]

-----------------------------------------------------------------------------
(* Moving pieces. *)

\* Pieces that were apart stay apart when each moves to a spot of its own, new
\* ones are apart from all, and no answer is made a request.
LEMMA Relocated ==
  ASSUME NEW at, Sequences(at), Distinct(at), NEW at2, Sequences(at2),
         NEW new \in SUBSET Spots(at2),
         NEW src \in [Spots(at2) \ new -> Spots(at)],
         \A x, y \in Spots(at2) \ new : src[x] = src[y] => x = y,
         \A x \in Spots(at2) \ new :
           /\ At(at2, x) = At(at, src[x])
           /\ (Pending(x) <=> Pending(src[x])) \/ (Pending(x) /\ At(at2, x).seg = 0),
         \A x \in new, y \in Spots(at2) :
           x # y /\ SameRequest(At(at2, x), At(at2, y)) =>
             Apart(x, At(at2, x), y, At(at2, y)) /\ Apart(y, At(at2, y), x, At(at2, x))
  PROVE  Distinct(at2)
<1> SUFFICES ASSUME NEW x \in Spots(at2), NEW y \in Spots(at2), x # y,
                    SameRequest(At(at2, x), At(at2, y))
             PROVE  Apart(x, At(at2, x), y, At(at2, y)) /\ Apart(y, At(at2, y), x, At(at2, x))
  BY DEF Distinct
<1>1. CASE x \in new
  BY <1>1
<1>2. CASE y \in new
  BY <1>2 DEF SameRequest
<1>3. CASE x \notin new /\ y \notin new
  <2> DEFINE p == At(at2, x)
             q == At(at2, y)
  <2>1. /\ p = At(at, src[x]) /\ q = At(at, src[y]) /\ src[x] # src[y]
        /\ src[x] \in Spots(at) /\ src[y] \in Spots(at)
        /\ (Pending(x) <=> Pending(src[x])) \/ (Pending(x) /\ p.seg = 0)
        /\ (Pending(y) <=> Pending(src[y])) \/ (Pending(y) /\ q.seg = 0)
    BY <1>3
  <2>2. p \in Pieces /\ q \in Pieces
    BY DEF Spots, At, Sequences
  <2>3. p.seg \in Int /\ q.seg \in Int
    BY <2>2, IoDispatchAssumption DEF Pieces
  <2>4. Pending(x) \in BOOLEAN /\ Pending(y) \in BOOLEAN
        /\ Pending(src[x]) \in BOOLEAN /\ Pending(src[y]) \in BOOLEAN
    BY DEF Pending
  <2>5. SameRequest(p, q)
    OBVIOUS
  <2> HIDE DEF p, q
  <2>6. Apart(src[x], p, src[y], q) /\ Apart(src[y], q, src[x], p)
    BY <2>1, <2>5 DEF Distinct
  <2>7. Apart(x, p, y, q) /\ Apart(y, q, x, p)
    BY <2>1, <2>3, <2>4, <2>6 DEF Apart
  <2> QED BY <2>7 DEF p, q
<1> QED BY <1>1, <1>2, <1>3

\* The elements of a concatenation.
LEMMA Concatenated ==
  ASSUME NEW S, NEW p \in Seq(S), NEW q \in Seq(S)
  PROVE  /\ p \o q \in Seq(S) /\ Len(p) \in Nat /\ Len(q) \in Nat
         /\ DOMAIN p = 1..Len(p) /\ DOMAIN q = 1..Len(q)
         /\ DOMAIN (p \o q) = 1..Len(p) + Len(q)
         /\ \A i \in 1..Len(p) + Len(q) :
              (p \o q)[i] = IF i <= Len(p) THEN p[i] ELSE q[i - Len(p)]
OBVIOUS

LEMMA SpotPiece ==
  ASSUME NEW at, Sequences(at), NEW x \in Spots(at)
  PROVE  At(at, x) \in Pieces
BY DEF Spots, At, Sequences

\* Places may be emptied.
LEMMA Dropped ==
  ASSUME NEW at, Sequences(at), Distinct(at), NEW at2, Sequences(at2),
         \A l \in Places : at2[l] = at[l] \/ at2[l] = <<>>
  PROVE  /\ Distinct(at2)
         /\ \A sent : AskedFor(at, sent) => AskedFor(at2, sent)
<1>1. ASSUME NEW x \in Spots(at2) PROVE x \in Spots(at) /\ At(at2, x) = At(at, x)
  <2>1. at2[x[1]] = at[x[1]] \/ at2[x[1]] = <<>>
    BY DEF Spots
  <2>2. DOMAIN (<<>>) = {}
    OBVIOUS
  <2> QED BY <2>1, <2>2 DEF Spots, At
<1>2. Distinct(at2)
  BY <1>1 DEF Distinct
<1> QED BY <1>1, <1>2 DEF AskedFor

\* What one place holds may go to the end of another; requests may so become
\* pending.
LEMMA Moved ==
  ASSUME NEW at, Sequences(at), Distinct(at), NEW at2, Sequences(at2),
         NEW a \in Places, NEW b \in Places, a # b,
         at2[a] = <<>>, at2[b] = at[b] \o at[a],
         \A l \in Places \ {a, b} : at2[l] = at[l],
         a[1] # "reqs",
         b[1] = "reqs" => \A i \in DOMAIN at[a] : at[a][i].seg = 0
  PROVE  /\ Distinct(at2)
         /\ \A sent : AskedFor(at, sent) => AskedFor(at2, sent)
<1> DEFINE n == Len(at[b])
           src == [x \in Spots(at2) |-> IF x[1] = b /\ x[2] > n THEN <<a, x[2] - n>> ELSE x]
<1>1. at[a] \in Seq(Pieces) /\ at[b] \in Seq(Pieces) /\ n \in Nat /\ Len(at[a]) \in Nat
      /\ DOMAIN at[a] = 1..Len(at[a]) /\ DOMAIN at[b] = 1..n
  BY DEF Sequences
<1>2. /\ DOMAIN at2[b] = 1..n + Len(at[a])
      /\ \A i \in 1..n + Len(at[a]) : at2[b][i] = IF i <= n THEN at[b][i] ELSE at[a][i - n]
  <2> DEFINE p == at[b]
             q == at[a]
  <2>1. p \in Seq(Pieces) /\ q \in Seq(Pieces) /\ at2[b] = p \o q /\ n = Len(p)
    BY <1>1
  <2> HIDE DEF p, q, n
  <2>2. /\ DOMAIN (p \o q) = 1..Len(p) + Len(q)
        /\ \A i \in 1..Len(p) + Len(q) :
             (p \o q)[i] = IF i <= Len(p) THEN p[i] ELSE q[i - Len(p)]
    BY ONLY <2>1, Concatenated
  <2>3. /\ DOMAIN at2[b] = 1..n + Len(q)
        /\ \A i \in 1..n + Len(q) : at2[b][i] = IF i <= n THEN p[i] ELSE q[i - n]
    BY ONLY <2>1, <2>2
  <2> QED BY <2>3 DEF p, q
<1> HIDE DEF n
<1>3. ASSUME NEW x \in Spots(at2), x[1] = b, x[2] > n
      PROVE  /\ src[x] = <<a, x[2] - n>> /\ src[x] \in Spots(at) /\ At(at2, x) = At(at, src[x])
             /\ x[2] \in Int
  <2>0. x[2] \in DOMAIN at2[b] /\ x \in Places \X Nat
    BY <1>3 DEF Spots
  <2>1. x[2] \in 1..n + Len(at[a]) /\ x[2] \in Int
    BY <1>2, <2>0
  <2>2. x[2] - n \in DOMAIN at[a] /\ x[2] - n \in Nat
    BY <1>1, <1>3, <2>1
  <2>3. src[x] = <<a, x[2] - n>>
    BY <1>3
  <2>4. <<a, x[2] - n>> \in Spots(at)
    BY <2>2 DEF Spots
  <2>5. at2[b][x[2]] = at[a][x[2] - n]
    <3>1. ~ (x[2] <= n)
      BY <1>1, <1>3, <2>1
    <3> QED BY <1>2, <2>1, <3>1
  <2> QED BY <1>3, <2>1, <2>3, <2>4, <2>5 DEF At
<1>4. ASSUME NEW x \in Spots(at2), ~ (x[1] = b /\ x[2] > n)
      PROVE  /\ src[x] = x /\ x \in Spots(at) /\ At(at2, x) = At(at, src[x]) /\ x[1] # a
             /\ x[2] \in Int
  <2>1. x[1] \in Places /\ x[2] \in Nat /\ x[2] \in DOMAIN at2[x[1]] /\ x \in Places \X Nat
    BY DEF Spots
  <2>2. x[1] # a
    BY <2>1
  <2>3. src[x] = x
    BY <1>4
  <2>4. CASE x[1] = b
    <3>0. x[2] \in DOMAIN at2[b] /\ ~ (x[2] > n)
      BY <1>4, <2>1, <2>4
    <3>1. x[2] \in 1..n + Len(at[a]) /\ x[2] <= n
      BY <1>1, <1>2, <3>0
    <3>2. x[2] \in DOMAIN at[b] /\ at2[b][x[2]] = at[b][x[2]]
      <4>1. x[2] \in 1..n
        BY <1>1, <3>1
      <4> QED BY <1>1, <1>2, <3>1, <4>1
    <3> QED BY <2>1, <2>2, <2>3, <2>4, <3>2 DEF Spots, At
  <2>5. CASE x[1] # b
    BY <2>1, <2>2, <2>3, <2>5 DEF Spots, At
  <2> QED BY <2>4, <2>5
<1> HIDE DEF src
<1>5. ASSUME NEW x \in Spots(at2)
      PROVE  /\ src[x] \in Spots(at) /\ At(at2, x) = At(at, src[x])
             /\ (Pending(x) <=> Pending(src[x])) \/ (Pending(x) /\ At(at2, x).seg = 0)
  <2>1. CASE x[1] = b /\ x[2] > n
    <3>1. src[x] = <<a, x[2] - n>> /\ src[x] \in Spots(at) /\ At(at2, x) = At(at, src[x])
      BY <1>3, <2>1
    <3>2. x[2] - n \in DOMAIN at[a] /\ At(at2, x) = at[a][x[2] - n]
      BY <3>1 DEF Spots, At
    <3>3. ~ Pending(src[x])
      BY <3>1 DEF Pending
    <3>4. Pending(x) => At(at2, x).seg = 0
      BY <2>1, <3>2 DEF Pending
    <3>5. (Pending(x) <=> Pending(src[x])) \/ (Pending(x) /\ At(at2, x).seg = 0)
      <4>1. CASE Pending(x)
        BY <3>4, <4>1
      <4>2. CASE ~ Pending(x)
        BY <3>3, <4>2
      <4> QED BY <4>1, <4>2
    <3> QED BY <3>1, <3>5
  <2>2. CASE ~ (x[1] = b /\ x[2] > n)
    <3>1. src[x] = x /\ x \in Spots(at) /\ At(at2, x) = At(at, src[x])
      BY <1>4, <2>2
    <3> QED BY <3>1
  <2> QED BY <2>1, <2>2
<1>6. ASSUME NEW x \in Spots(at2), NEW y \in Spots(at2), src[x] = src[y] PROVE x = y
  <2>0. x = <<x[1], x[2]>> /\ y = <<y[1], y[2]>>
    BY DEF Spots
  <2>1. CASE (x[1] = b /\ x[2] > n) /\ (y[1] = b /\ y[2] > n)
    <3>1. src[x] = <<a, x[2] - n>> /\ src[y] = <<a, y[2] - n>> /\ x[2] \in Int /\ y[2] \in Int
      BY <1>3, <2>1
    <3>2. x[2] - n = y[2] - n
      <4>1. src[x][2] = x[2] - n /\ src[y][2] = y[2] - n
        BY <3>1
      <4> QED BY <1>6, <4>1
    <3>3. x[2] = y[2]
      BY <1>1, <3>1, <3>2
    <3> QED BY <2>0, <2>1, <3>3
  <2>2. CASE (x[1] = b /\ x[2] > n) /\ ~ (y[1] = b /\ y[2] > n)
    <3>1. src[x][1] = a /\ src[y] = y /\ y[1] # a
      BY <1>3, <1>4, <2>2
    <3> QED BY <1>6, <3>1
  <2>3. CASE ~ (x[1] = b /\ x[2] > n) /\ (y[1] = b /\ y[2] > n)
    <3>1. src[y][1] = a /\ src[x] = x /\ x[1] # a
      BY <1>3, <1>4, <2>3
    <3> QED BY <1>6, <3>1
  <2>4. CASE ~ (x[1] = b /\ x[2] > n) /\ ~ (y[1] = b /\ y[2] > n)
    BY <1>4, <1>6, <2>4
  <2> QED BY <2>1, <2>2, <2>3, <2>4
<1>7. src \in [Spots(at2) -> Spots(at)]
  BY <1>5 DEF src
<1>8. Distinct(at2)
  <2> DEFINE new == {}
  <2>1. Spots(at2) \ new = Spots(at2) /\ new \in SUBSET Spots(at2) /\ \A x \in new : FALSE
    OBVIOUS
  <2> HIDE DEF new
  <2>2. /\ new \in SUBSET Spots(at2)
        /\ src \in [Spots(at2) \ new -> Spots(at)]
        /\ \A x, y \in Spots(at2) \ new : src[x] = src[y] => x = y
        /\ \A x \in Spots(at2) \ new :
             /\ At(at2, x) = At(at, src[x])
             /\ (Pending(x) <=> Pending(src[x])) \/ (Pending(x) /\ At(at2, x).seg = 0)
        /\ \A x \in new, y \in Spots(at2) :
             x # y /\ SameRequest(At(at2, x), At(at2, y)) =>
               Apart(x, At(at2, x), y, At(at2, y)) /\ Apart(y, At(at2, y), x, At(at2, x))
    BY <1>5, <1>6, <1>7, <2>1
  <2>3. Sequences(at) /\ Distinct(at) /\ Sequences(at2)
    OBVIOUS
  <2> QED BY ONLY <2>2, <2>3, Relocated
<1> QED BY <1>5, <1>8 DEF AskedFor

\* A request that is not there yet may be added.
LEMMA Added ==
  ASSUME NEW at, Sequences(at), Distinct(at), NEW at2, Sequences(at2),
         NEW b \in Places, NEW p \in Pieces, at2[b] = Append(at[b], p),
         \A l \in Places \ {b} : at2[l] = at[l],
         \A x \in Spots(at) : ~ SameRequest(At(at, x), p)
  PROVE  /\ Distinct(at2)
         /\ \A x \in Spots(at2) :
              (x \in Spots(at) /\ At(at2, x) = At(at, x)) \/ At(at2, x) = p
<1> DEFINE n == Len(at[b])
           z == <<b, n + 1>>
<1>1. /\ n \in Nat /\ DOMAIN at[b] = 1..n /\ DOMAIN at2[b] = 1..n + 1
      /\ at2[b][n + 1] = p /\ \A i \in 1..n : at2[b][i] = at[b][i]
  BY DEF Sequences
<1> HIDE DEF n
<1>2. z \in Spots(at2) /\ At(at2, z) = p
  BY <1>1 DEF Spots, At
<1>3. ASSUME NEW x \in Spots(at2), x # z PROVE x \in Spots(at) /\ At(at2, x) = At(at, x)
  <2>1. x \in Places \X Nat /\ x[1] \in Places /\ x[2] \in DOMAIN at2[x[1]] /\ x = <<x[1], x[2]>>
    BY DEF Spots
  <2>2. CASE x[1] = b
    <3>1. x[2] \in 1..n + 1 /\ x[2] # n + 1
      BY <1>1, <1>3, <2>1, <2>2
    <3>2. x[2] \in 1..n
      BY <1>1, <3>1
    <3> QED BY <1>1, <2>1, <2>2, <3>2 DEF Spots, At
  <2>3. CASE x[1] # b
    BY <2>1, <2>3 DEF Spots, At
  <2> QED BY <2>2, <2>3
<1> HIDE DEF z
<1>4. Distinct(at2)
  <2> SUFFICES ASSUME NEW x \in Spots(at2), NEW y \in Spots(at2), x # y,
                      SameRequest(At(at2, x), At(at2, y))
               PROVE  Apart(x, At(at2, x), y, At(at2, y)) /\ Apart(y, At(at2, y), x, At(at2, x))
    BY DEF Distinct
  <2>1. CASE x = z
    <3>1. y \in Spots(at) /\ At(at2, y) = At(at, y)
      BY <1>3, <2>1
    <3> QED BY <1>2, <2>1, <3>1 DEF SameRequest
  <2>2. CASE y = z
    <3>1. x \in Spots(at) /\ At(at2, x) = At(at, x)
      BY <1>3, <2>2
    <3> QED BY <1>2, <2>2, <3>1
  <2>3. CASE x # z /\ y # z
    BY <1>3, <2>3 DEF Distinct
  <2> QED BY <2>1, <2>2, <2>3
<1> QED BY <1>2, <1>3, <1>4

\* A backend answers the first of its requests with one more piece; after the
\* last piece it has it no longer.
LEMMA Answered ==
  ASSUME NEW at, Sequences(at), Distinct(at), NEW at2, Sequences(at2),
         NEW a \in Places, NEW b \in Places, a[1] = "reqs", b[1] # "reqs",
         at[a] # <<>>, NEW piece \in Pieces,
         SameRequest(piece, at[a][1]), piece.seg = at[a][1].seg + 1,
         at2[b] = Append(at[b], piece),
         NEW removed \in BOOLEAN,
         at2[a] = IF removed THEN Tail(at[a]) ELSE <<piece>> \o Tail(at[a]),
         \A l \in Places \ {a, b} : at2[l] = at[l]
  PROVE  /\ Distinct(at2)
         /\ \A sent : AskedFor(at, sent) => AskedFor(at2, sent)
<1> DEFINE n == Len(at[b])
           m == Len(at[a])
           h == at[a][1]
           first == <<a, 1>>
           z == <<b, n + 1>>
           new == {z} \cup IF removed THEN {} ELSE {first}
           src == [x \in Spots(at2) \ new |-> IF x[1] = a /\ removed THEN <<a, x[2] + 1>> ELSE x]
<1>1. /\ n \in Nat /\ DOMAIN at[b] = 1..n /\ DOMAIN at2[b] = 1..n + 1
      /\ at2[b][n + 1] = piece /\ \A i \in 1..n : at2[b][i] = at[b][i]
  BY DEF Sequences
<1>2. /\ m \in Nat /\ m >= 1 /\ DOMAIN at[a] = 1..m
      /\ removed => DOMAIN at2[a] = 1..m - 1 /\ \A i \in 1..m - 1 : at2[a][i] = at[a][i + 1]
      /\ ~ removed => /\ DOMAIN at2[a] = 1..m /\ at2[a][1] = piece
                      /\ \A i \in 2..m : at2[a][i] = at[a][i]
  <2> DEFINE q == at[a]
             t == Tail(q)
  <2>1. q \in Seq(Pieces) /\ q # <<>>
    BY DEF Sequences
  <2>2. /\ m \in Nat /\ m >= 1 /\ DOMAIN q = 1..m /\ m = Len(q)
        /\ t \in Seq(Pieces) /\ Len(t) = m - 1
        /\ \A i \in 1..m - 1 : t[i] = q[i + 1]
    BY <2>1
  <2> HIDE DEF m, t
  <2>3. /\ <<piece>> \o t \in Seq(Pieces) /\ Len(<<piece>> \o t) = m
        /\ (<<piece>> \o t)[1] = piece
        /\ \A i \in 2..m : (<<piece>> \o t)[i] = t[i - 1]
    BY <2>2
  <2>4. \A i \in 2..m : (<<piece>> \o t)[i] = q[i]
    <3> SUFFICES ASSUME NEW i \in 2..m PROVE (<<piece>> \o t)[i] = q[i]
      OBVIOUS
    <3>1. i - 1 \in 1..m - 1 /\ (i - 1) + 1 = i
      BY <2>2
    <3>2. t[i - 1] = q[(i - 1) + 1]
      BY <2>2, <3>1
    <3> QED BY <2>3, <3>1, <3>2
  <2>5. DOMAIN t = 1..m - 1 /\ DOMAIN (<<piece>> \o t) = 1..m
    BY <2>2, <2>3
  <2>6. at2[a] = IF removed THEN t ELSE <<piece>> \o t
    BY DEF t
  <2> QED BY <2>2, <2>3, <2>4, <2>5, <2>6
<1>3. a # b /\ h \in Pieces /\ h.seg \in Int /\ piece.seg = h.seg + 1
  <2>1. h \in Pieces
    BY <1>2 DEF Sequences
  <2> QED BY <2>1, IoDispatchAssumption DEF Pieces
<1> HIDE DEF n, m, h
<1>4. first \in Spots(at) /\ At(at, first) = h /\ Pending(first)
  BY <1>2 DEF Spots, At, Pending, h
<1>5. /\ z \in Spots(at2) /\ At(at2, z) = piece /\ ~ Pending(z)
      /\ ~ removed => first \in Spots(at2) /\ At(at2, first) = piece
  <2>1. z \in Spots(at2) /\ At(at2, z) = piece /\ ~ Pending(z)
    BY <1>1 DEF Spots, At, Pending
  <2>2. ASSUME ~ removed PROVE first \in Spots(at2) /\ At(at2, first) = piece
    <3>1. 1 \in DOMAIN at2[a] /\ at2[a][1] = piece
      BY <1>2, <2>2
    <3> QED BY <3>1 DEF Spots, At
  <2> QED BY <2>1, <2>2
<1>6. ASSUME NEW x \in Spots(at2) \ new
      PROVE  /\ src[x] \in Spots(at) /\ At(at2, x) = At(at, src[x]) /\ src[x] # first
             /\ (Pending(x) <=> Pending(src[x]))
             /\ src[x] = IF x[1] = a /\ removed THEN <<a, x[2] + 1>> ELSE x
             /\ x = <<x[1], x[2]>> /\ x[2] \in Int
  <2>1. /\ x \in Places \X Nat /\ x[1] \in Places /\ x[2] \in DOMAIN at2[x[1]]
        /\ x = <<x[1], x[2]>> /\ x[2] \in Nat
    BY DEF Spots
  <2>2. src[x] = IF x[1] = a /\ removed THEN <<a, x[2] + 1>> ELSE x
    OBVIOUS
  <2>3. x # z /\ (~ removed => x # first)
    BY <1>6
  <2> HIDE DEF src, new
  <2>4. CASE x[1] = a /\ removed
    <3>0. x[2] \in DOMAIN at2[a]
      BY <2>1, <2>4
    <3>1. x[2] \in 1..m - 1 /\ x[2] + 1 \in 1..m /\ x[2] + 1 # 1 /\ x[2] + 1 \in Nat
      BY <1>2, <2>4, <3>0
    <3>2. at2[a][x[2]] = at[a][x[2] + 1]
      BY <1>2, <2>4, <3>1
    <3>3. src[x] = <<a, x[2] + 1>>
      BY <2>2, <2>4
    <3>4. src[x] \in Spots(at) /\ At(at, src[x]) = at[a][x[2] + 1] /\ Pending(src[x])
      BY <1>2, <3>1, <3>3 DEF Spots, At, Pending
    <3>5. At(at2, x) = at2[a][x[2]] /\ Pending(x)
      BY <2>1, <2>4 DEF At, Pending
    <3>6. src[x] # first
      <4>1. src[x][2] = x[2] + 1 /\ first[2] = 1
        BY <3>3
      <4> QED BY <3>1, <4>1
    <3> QED BY <2>1, <2>2, <3>2, <3>4, <3>5, <3>6
  <2>5. CASE x[1] = a /\ ~ removed
    <3>1. x[2] # 1 /\ x[2] \in 1..m
      BY <1>2, <2>1, <2>3, <2>5
    <3>2. x[2] \in 2..m
      BY <1>2, <3>1
    <3>3. at2[a][x[2]] = at[a][x[2]] /\ x[2] \in DOMAIN at[a]
      BY <1>2, <2>5, <3>1, <3>2
    <3>4. src[x] = x
      BY <2>2, <2>5
    <3> QED BY <2>1, <2>2, <2>3, <2>5, <3>3, <3>4 DEF Spots, At
  <2>6. CASE x[1] = b
    <3>1. x[2] \in 1..n + 1 /\ x[2] # n + 1
      BY <1>1, <2>1, <2>3, <2>6
    <3>2. x[2] \in 1..n
      BY <1>1, <3>1
    <3>3. src[x] = x /\ x[1] # a
      BY <1>3, <2>2, <2>6
    <3> QED BY <1>1, <2>1, <2>2, <2>6, <3>2, <3>3 DEF Spots, At
  <2>7. CASE x[1] # a /\ x[1] # b
    <3>1. src[x] = x
      BY <2>2, <2>7
    <3> QED BY <2>1, <2>2, <2>7, <3>1 DEF Spots, At
  <2> QED BY <2>4, <2>5, <2>6, <2>7
<1>7. src \in [Spots(at2) \ new -> Spots(at)]
  BY <1>6
<1>8. new \in SUBSET Spots(at2)
  BY <1>5
<1>9. \A x \in new : At(at2, x) = piece /\ (x = z \/ (x = first /\ ~ removed))
  BY <1>5
<1> HIDE DEF z, first, new, src
<1>10. ASSUME NEW x \in Spots(at2) \ new, NEW y \in Spots(at2) \ new, src[x] = src[y]
       PROVE  x = y
  <2>1. CASE removed
    <3>1. CASE x[1] = a /\ y[1] = a
      <4>1. src[x] = <<a, x[2] + 1>> /\ src[y] = <<a, y[2] + 1>> /\ x[2] \in Int /\ y[2] \in Int
        BY <1>6, <2>1, <3>1
      <4>2. src[x][2] = x[2] + 1 /\ src[y][2] = y[2] + 1
        BY <4>1
      <4>3. x[2] + 1 = y[2] + 1
        BY <1>10, <4>2
      <4>4. x[2] = y[2]
        BY <4>1, <4>3
      <4>5. x = <<x[1], x[2]>> /\ y = <<y[1], y[2]>> /\ x[1] = y[1]
        BY <1>6, <3>1
      <4> QED BY <4>4, <4>5
    <3>2. CASE x[1] = a /\ y[1] # a
      <4>1. src[x] = <<a, x[2] + 1>> /\ src[y] = y
        BY <1>6, <2>1, <3>2
      <4>2. src[x][1] = a
        BY <4>1
      <4> QED BY <1>10, <3>2, <4>1, <4>2
    <3>3. CASE x[1] # a /\ y[1] = a
      <4>1. src[y] = <<a, y[2] + 1>> /\ src[x] = x
        BY <1>6, <2>1, <3>3
      <4>2. src[y][1] = a
        BY <4>1
      <4> QED BY <1>10, <3>3, <4>1, <4>2
    <3>4. CASE x[1] # a /\ y[1] # a
      BY <1>6, <1>10, <3>4
    <3> QED BY <3>1, <3>2, <3>3, <3>4
  <2>2. CASE ~ removed
    BY <1>6, <1>10, <2>2
  <2> QED BY <2>1, <2>2
<1>11. ASSUME NEW x \in new, NEW y \in Spots(at2), x # y, SameRequest(At(at2, x), At(at2, y))
       PROVE  Apart(x, At(at2, x), y, At(at2, y)) /\ Apart(y, At(at2, y), x, At(at2, x))
  <2> DEFINE q == At(at2, y)
  <2>1. At(at2, x) = piece
    BY <1>9
  <2>2. CASE y \in new
    <3>1. q = piece /\ (Pending(x) => ~ Pending(y)) /\ (Pending(y) => ~ Pending(x))
          /\ (Pending(x) \/ Pending(y))
      BY <1>4, <1>5, <1>9, <1>11, <2>2
    <3>2. piece.seg \in Int /\ piece.seg >= 1
      <4>1. h.seg >= 0
        BY <1>3, IoDispatchAssumption DEF Pieces
      <4> QED BY <1>3, <4>1
    <3> HIDE DEF q
    <3>3. Apart(x, piece, y, q) /\ Apart(y, q, x, piece)
      BY <3>1, <3>2 DEF Apart
    <3> QED BY <2>1, <3>3 DEF q
  <2>3. CASE y \notin new
    <3>1. /\ src[y] \in Spots(at) /\ q = At(at, src[y]) /\ src[y] # first
          /\ (Pending(y) <=> Pending(src[y]))
      BY <1>6, <2>3
    <3>2. SameRequest(h, q)
      BY <1>11, <2>1 DEF SameRequest, h
    <3> HIDE DEF q
    <3>3. Apart(first, h, src[y], q)
      BY <1>4, <3>1, <3>2 DEF Distinct
    <3>4. ~ Pending(y) /\ 1 <= q.seg /\ q.seg <= h.seg /\ q.seg \in Int
      <4>1. q \in Pieces
        BY <3>1, SpotPiece
      <4>2. q.seg \in Int
        BY <4>1, IoDispatchAssumption DEF Pieces
      <4> QED BY <1>4, <3>1, <3>3, <4>2 DEF Apart
    <3>5. Apart(x, piece, y, q) /\ Apart(y, q, x, piece)
      BY <1>3, <3>4 DEF Apart
    <3> QED BY <2>1, <3>5 DEF q
  <2> QED BY <2>2, <2>3
<1>12. Distinct(at2)
  <2>1. /\ new \in SUBSET Spots(at2)
        /\ src \in [Spots(at2) \ new -> Spots(at)]
        /\ \A x, y \in Spots(at2) \ new : src[x] = src[y] => x = y
        /\ \A x \in Spots(at2) \ new :
             /\ At(at2, x) = At(at, src[x])
             /\ (Pending(x) <=> Pending(src[x])) \/ (Pending(x) /\ At(at2, x).seg = 0)
        /\ \A x \in new, y \in Spots(at2) :
             x # y /\ SameRequest(At(at2, x), At(at2, y)) =>
               Apart(x, At(at2, x), y, At(at2, y)) /\ Apart(y, At(at2, y), x, At(at2, x))
    BY <1>6, <1>7, <1>8, <1>10, <1>11
  <2>2. Sequences(at) /\ Distinct(at) /\ Sequences(at2)
    OBVIOUS
  <2> QED BY ONLY <2>1, <2>2, Relocated
<1>13. ASSUME NEW sent, AskedFor(at, sent), NEW x \in Spots(at2)
       PROVE  At(at2, x).n <= sent[At(at2, x).of]
  <2>1. CASE x \in new
    <3>1. At(at2, x).n = h.n /\ At(at2, x).of = h.of
      BY <1>9, <2>1 DEF SameRequest, h
    <3>2. h.n <= sent[h.of]
      BY <1>4, <1>13 DEF AskedFor
    <3> QED BY <3>1, <3>2
  <2>2. CASE x \notin new
    BY <1>6, <1>13, <2>2 DEF AskedFor
  <2> QED BY <2>1, <2>2
<1> QED BY <1>12, <1>13 DEF AskedFor

-----------------------------------------------------------------------------
(* The sockets, the buffers and the clients. *)

Stock == Held(net, upBuf, got)

\* A buffer holds requests, also when the thread has ended.
TrafficInv ==
  /\ DispatchInv
  /\ Distinct(Stock)
  /\ AskedFor(Stock, asked)
  /\ upBuf \in [Sessions -> Seq(Requests)]

\* What the places hold.
LEMMA HeldIs ==
  ASSUME NEW nt, NEW up, NEW gt
  PROVE  /\ \A f \in Fds : /\ <<"inq", f>> \in Places /\ <<"reqs", f>> \in Places
                           /\ Held(nt, up, gt)[<<"inq", f>>] = nt.inq[f]
                           /\ Held(nt, up, gt)[<<"reqs", f>>] = nt.reqs[f]
         /\ \A s \in Sessions : /\ <<"up", s>> \in Places /\ <<"got", s>> \in Places
                                /\ Held(nt, up, gt)[<<"up", s>>] = up[s]
                                /\ Held(nt, up, gt)[<<"got", s>>] = gt[s]
<1>1. ASSUME NEW f \in Fds
      PROVE  /\ <<"inq", f>> \in Places /\ <<"reqs", f>> \in Places
             /\ <<"inq", f>>[1] = "inq" /\ <<"reqs", f>>[1] = "reqs"
             /\ <<"inq", f>>[2] = f /\ <<"reqs", f>>[2] = f
  BY DEF Places
<1>2. ASSUME NEW s \in Sessions
      PROVE  /\ <<"up", s>> \in Places /\ <<"got", s>> \in Places
             /\ <<"up", s>>[1] = "up" /\ <<"got", s>>[1] = "got"
             /\ <<"up", s>>[2] = s /\ <<"got", s>>[2] = s
  BY DEF Places
<1> QED BY <1>1, <1>2 DEF Held

LEMMA PlaceIs ==
  ASSUME NEW l \in Places
  PROVE  \/ \E f \in Fds : l = <<"inq", f>> \/ l = <<"reqs", f>>
         \/ \E s \in Sessions : l = <<"up", s>> \/ l = <<"got", s>>
BY DEF Places

\* The places are told apart by their names.
LEMMA HeldSame ==
  ASSUME NEW nt, NEW up, NEW gt, NEW nt2, nt2.inq = nt.inq, nt2.reqs = nt.reqs
  PROVE  Held(nt2, up, gt) = Held(nt, up, gt)
BY DEF Held

LEMMA HeldTypes ==
  ASSUME NEW nt, NEW up, NEW gt,
         nt.inq \in [Fds -> Seq(Pieces)], nt.reqs \in [Fds -> Seq(Pieces)],
         up \in [Sessions -> Seq(Pieces)], gt \in [Sessions -> Seq(Pieces)]
  PROVE  Sequences(Held(nt, up, gt))
<1> DEFINE h == Held(nt, up, gt)
<1>0. /\ \A f \in Fds : h[<<"inq", f>>] = nt.inq[f] /\ h[<<"reqs", f>>] = nt.reqs[f]
      /\ \A s \in Sessions : h[<<"up", s>>] = up[s] /\ h[<<"got", s>>] = gt[s]
  BY HeldIs
<1>1. ASSUME NEW l \in Places PROVE h[l] \in Seq(Pieces)
  <2> HIDE DEF h
  <2>1. CASE \E f \in Fds : l = <<"inq", f>> \/ l = <<"reqs", f>>
    <3>1. PICK f \in Fds : l = <<"inq", f>> \/ l = <<"reqs", f>>
      BY <2>1
    <3>2. h[l] = nt.inq[f] \/ h[l] = nt.reqs[f]
      BY <1>0, <3>1
    <3> QED BY <3>2
  <2>2. CASE \E s \in Sessions : l = <<"up", s>> \/ l = <<"got", s>>
    <3>1. PICK s \in Sessions : l = <<"up", s>> \/ l = <<"got", s>>
      BY <2>2
    <3>2. h[l] = up[s] \/ h[l] = gt[s]
      BY <1>0, <3>1
    <3> QED BY <3>2
  <2> QED BY <2>1, <2>2, PlaceIs
<1>2. h = [l \in Places |-> h[l]]
  BY DEF Held
<1> HIDE DEF h
<1> QED BY <1>1, <1>2 DEF Sequences, h

\* The kernel of a callback's intermediate state.
LEMMA NetTypesHeld ==
  ASSUME NEW nt \in NetTypes
  PROVE  nt.inq \in [Fds -> Seq(Pieces)] /\ nt.reqs \in [Fds -> Seq(Pieces)]
<1>1. Tokens \subseteq Pieces
  BY DEF Tokens
<1>2. Seq(Tokens) \subseteq Seq(Pieces)
  BY <1>1
<1> QED BY <1>2 DEF NetTypes

LEMMA StockTypes ==
  /\ TypeOK => Sequences(Stock)
  /\ Running => /\ net.inq \in [Fds -> Seq(Pieces)] /\ net.reqs \in [Fds -> Seq(Pieces)]
                /\ upBuf \in [Sessions -> Seq(Pieces)] /\ got \in [Sessions -> Seq(Pieces)]
                /\ net \in NetTypes /\ Sequences(Stock)
<1>1. TypeOK => /\ net.inq \in [Fds -> Seq(Pieces)] /\ net.reqs \in [Fds -> Seq(Pieces)]
                /\ upBuf \in [Sessions -> Seq(Pieces)] /\ got \in [Sessions -> Seq(Pieces)]
  BY DEF TypeOK
<1>2. TypeOK => Sequences(Stock)
  BY <1>1, HeldTypes DEF Stock
<1>3. Running => TypeOK
  BY RunningPromises DEF Promises
<1>4. Running => net \in NetTypes
  BY DEF Running, NetSound, DataSound
<1> QED BY <1>1, <1>2, <1>3, <1>4

\* Sockets that are closed drop what they hold, and nothing else changes.
LEMMA KeptDrops ==
  ASSUME NEW nt, NEW up, NEW gt, NEW nt2, Kept(nt2, nt)
  PROVE  \A l \in Places : \/ Held(nt2, up, gt)[l] = Held(nt, up, gt)[l]
                           \/ Held(nt2, up, gt)[l] = <<>>
<1> DEFINE old == Held(nt, up, gt)
           new == Held(nt2, up, gt)
<1>1. /\ \A f \in Fds : old[<<"inq", f>>] = nt.inq[f] /\ old[<<"reqs", f>>] = nt.reqs[f]
      /\ \A s \in Sessions : old[<<"up", s>>] = up[s] /\ old[<<"got", s>>] = gt[s]
  BY HeldIs
<1>2. /\ \A f \in Fds : new[<<"inq", f>>] = nt2.inq[f] /\ new[<<"reqs", f>>] = nt2.reqs[f]
      /\ \A s \in Sessions : new[<<"up", s>>] = up[s] /\ new[<<"got", s>>] = gt[s]
  BY HeldIs
<1> HIDE DEF old, new
<1>3. ASSUME NEW l \in Places PROVE new[l] = old[l] \/ new[l] = <<>>
  <2>1. ASSUME NEW f \in Fds, l = <<"inq", f>> \/ l = <<"reqs", f>>
        PROVE  new[l] = old[l] \/ new[l] = <<>>
    <3>1. /\ nt2.inq[f] = nt.inq[f] \/ nt2.inq[f] = <<>>
          /\ nt2.reqs[f] = nt.reqs[f] \/ nt2.reqs[f] = <<>>
      BY DEF Kept
    <3>2. CASE l = <<"inq", f>>
      <4>1. old[l] = nt.inq[f] /\ new[l] = nt2.inq[f]
        BY <1>1, <1>2, <3>2
      <4> QED BY <3>1, <4>1
    <3>3. CASE l = <<"reqs", f>>
      <4>1. old[l] = nt.reqs[f] /\ new[l] = nt2.reqs[f]
        BY <1>1, <1>2, <3>3
      <4> QED BY <3>1, <4>1
    <3> QED BY <2>1, <3>2, <3>3
  <2>2. ASSUME NEW s \in Sessions, l = <<"up", s>> \/ l = <<"got", s>>
        PROVE  new[l] = old[l]
    BY <1>1, <1>2, <2>2
  <2> QED BY <2>1, <2>2, PlaceIs
<1> QED BY <1>3 DEF old, new

\* A step in which sockets only keep or drop what they hold.
LEMMA KeptStep ==
  ASSUME Running, Distinct(Stock), AskedFor(Stock, asked), TypeOK',
         Kept(net', net), UNCHANGED <<upBuf, got, asked>>
  PROVE  Distinct(Stock') /\ AskedFor(Stock', asked')
<1>1. Sequences(Stock)
  BY StockTypes
<1>2. Sequences(Stock)'
  BY StockTypes, PTL
<1>3. Stock' = Held(net', upBuf, got)
  BY DEF Stock
<1>4. \A l \in Places : Stock'[l] = Stock[l] \/ Stock'[l] = <<>>
  BY <1>3, KeptDrops DEF Stock
<1> DEFINE at == Stock
           at2 == Stock'
<1>5. Sequences(at) /\ Distinct(at) /\ Sequences(at2) /\ AskedFor(at, asked)
      /\ \A l \in Places : at2[l] = at[l] \/ at2[l] = <<>>
  BY <1>1, <1>2, <1>4
<1> HIDE DEF at, at2
<1>6. Distinct(at2) /\ AskedFor(at2, asked)
  BY ONLY <1>5, Dropped
<1> QED BY <1>6 DEF at2

\* What sockets hold after GC.
LEMMA CollectKept ==
  ASSUME Running, NEW s \in Sessions, NEW res, Fires(s, res),
         Collect(s, FiredNet(s), FiredLib(s))
  PROVE  Kept(net', net) /\ UNCHANGED <<upBuf, got>>
<1>1. s \in LiveSessions /\ NetSound(FiredNet(s), clientFd, LiveSessions, LostSessions, cache)
  BY Fired
<1>2. clientFd[s] \in Fds /\ FiredNet(s) \in NetTypes
  BY <1>1 DEF NetSound, ClientsOwn, DataSound
<1>3. FiredNet(s).inq = net.inq /\ FiredNet(s).reqs = net.reqs
  BY AddDelSound DEF FiredNet, Running
<1>4. net' = CloseFd(FiredNet(s), clientFd[s]) /\ UNCHANGED <<upBuf, got>>
  BY DEF Collect
<1>5. Kept(net', FiredNet(s))
  BY <1>2, <1>4, CloseKept
<1> QED BY <1>3, <1>4, <1>5 DEF Kept

LEMMA LibeventTraffic ==
  ASSUME Running, Distinct(Stock), AskedFor(Stock, asked), TypeOK',
         \/ (\E f \in Fds : Poll(f)) \/ Expire \/ ThreadEnds
         \/ (\E s \in Sessions : Accept(s) \/ AcceptLoses(s))
  PROVE  Distinct(Stock') /\ AskedFor(Stock', asked')
<1>1. net \in NetTypes
  BY StockTypes
<1>2. CASE \E f \in Fds : Poll(f)
  <2>1. Kept(net', net) /\ UNCHANGED <<upBuf, got, asked>>
    BY <1>2 DEF Poll, Kept, sessVars
  <2> QED BY <2>1, KeptStep
<1>3. CASE Expire
  <2>1. UNCHANGED <<upBuf, got, asked>>
    BY <1>3 DEF Expire, sessVars
  <2>2. net' = NetDel(net, lib, Head(lib.timers), EvFd(Head(lib.timers)))
    BY <1>3 DEF Expire
  <2>3. net'.inq = net.inq /\ net'.reqs = net.reqs
    BY <2>2, AddDelSound DEF Running
  <2> QED BY <2>1, <2>3, KeptStep DEF Kept
<1>4. ASSUME NEW s \in Sessions, Accept(s) \/ AcceptLoses(s)
      PROVE  Kept(net', net) /\ UNCHANGED <<upBuf, got, asked>>
  <2>1. PICK f \in FreeFds(net) : \/ net' = NetAdd(OpenFd(net, f, s, "up"), lib, f)
                                 \/ net' = OpenFd(net, f, s, "up")
    BY <1>4 DEF Accept, AcceptLoses, RegAddEvent
  <2>2. f \in Fds /\ "up" \in PeerStates
    BY FreeIs DEF PeerStates
  <2> DEFINE opened == OpenFd(net, f, s, "up")
  <2>3. opened \in NetTypes /\ opened.inq = net.inq /\ opened.reqs = net.reqs
    <3>1. net \in NetTypes /\ f \in Fds /\ s \in Sessions \cup Backends /\ "up" \in PeerStates
      BY <1>1, <2>2
    <3>2. /\ OpenFd(net, f, s, "up") \in NetTypes
          /\ OpenFd(net, f, s, "up").owner = [net.owner EXCEPT ![f] = s]
          /\ OpenFd(net, f, s, "up").peer = [net.peer EXCEPT ![f] = "up"]
          /\ OpenFd(net, f, s, "up").inq = net.inq
          /\ OpenFd(net, f, s, "up").reqs = net.reqs
      BY ONLY <3>1, OpenIs
    <3> QED BY <3>2
  <2> HIDE DEF opened
  <2>4. net'.inq = opened.inq /\ net'.reqs = opened.reqs
    BY <2>1, <2>3 DEF NetAdd, NetTypes, opened
  <2> QED BY <1>4, <2>3, <2>4 DEF Accept, AcceptLoses, Kept
<1>5. CASE ThreadEnds
  <2>1. net'.inq = net.inq /\ net'.reqs = net.reqs /\ UNCHANGED <<upBuf, got, asked>>
    BY <1>1, <1>5 DEF ThreadEnds, NetTypes, sessVars
  <2> QED BY <2>1, KeptStep DEF Kept
<1>6. CASE \E s \in Sessions : Accept(s) \/ AcceptLoses(s)
  <2>1. Kept(net', net) /\ UNCHANGED <<upBuf, got, asked>>
    BY <1>4, <1>6
  <2> QED BY <2>1, KeptStep
<1> QED BY <1>2, <1>3, <1>5, <1>6

LEMMA GCTraffic ==
  ASSUME Running, Distinct(Stock), AskedFor(Stock, asked), TypeOK',
         NEW s \in Sessions, RecvNothing(s) \/ RecvTimeout(s) \/ RecvUnset(s)
  PROVE  Distinct(Stock') /\ AskedFor(Stock', asked')
<1>1. Kept(net', net) /\ UNCHANGED <<upBuf, got, asked>>
  <2>1. CASE RecvNothing(s)
    BY <2>1, CollectKept DEF RecvNothing
  <2>2. CASE RecvTimeout(s)
    BY <2>2, CollectKept DEF RecvTimeout
  <2>3. CASE RecvUnset(s)
    <3>1. CASE Collect(s, FiredNet(s), FiredLib(s))
      BY <2>3, <3>1, CollectKept DEF RecvUnset
    <3>2. CASE UNCHANGED <<net, lib, phase, sessVars, cache, got>>
      BY <2>3, <3>2 DEF RecvUnset, sessVars, Kept
    <3> QED BY <2>3, <3>1, <3>2 DEF RecvUnset
  <2> QED BY <2>1, <2>2, <2>3
<1> QED BY <1>1, KeptStep

LEMMA ClosesTraffic ==
  ASSUME Running, Distinct(Stock), AskedFor(Stock, asked), TypeOK',
         \/ (\E s \in Sessions : ClientCloses(s))
         \/ (\E f \in Fds : BackendCloses(f) \/ HandshakeEnds(f))
  PROVE  Distinct(Stock') /\ AskedFor(Stock', asked')
<1>1. net \in NetTypes
  BY StockTypes
<1>2. ASSUME NEW s \in Sessions, ClientCloses(s)
      PROVE  Kept(net', net) /\ UNCHANGED <<upBuf, got, asked>>
  <2>1. net'.inq = net.inq /\ net'.reqs = net.reqs
    BY <1>1, <1>2 DEF ClientCloses, NetTypes
  <2> QED BY <1>2, <2>1 DEF ClientCloses, Kept, sessVars
<1>3. ASSUME NEW f \in Fds, BackendCloses(f)
      PROVE  Kept(net', net) /\ UNCHANGED <<upBuf, got, asked>>
  <2>1. net.reqs \in [Fds -> Seq(Tokens)]
    BY <1>1 DEF NetTypes
  <2>2. net'.inq = net.inq /\ net'.reqs = [net.reqs EXCEPT ![f] = <<>>]
    BY <1>1, <1>3 DEF BackendCloses, NetTypes
  <2>3. \A g \in Fds : net'.reqs[g] = net.reqs[g] \/ net'.reqs[g] = <<>>
    BY <2>1, <2>2
  <2>4. UNCHANGED <<upBuf, got, asked>>
    BY <1>3 DEF BackendCloses, sessVars
  <2> QED BY <2>2, <2>3, <2>4 DEF Kept
<1>4. ASSUME NEW f \in Fds, HandshakeEnds(f)
      PROVE  Kept(net', net) /\ UNCHANGED <<upBuf, got, asked>>
  <2>1. net'.inq = net.inq /\ net'.reqs = net.reqs
    BY <1>1, <1>4 DEF HandshakeEnds, NetTypes
  <2> QED BY <1>4, <2>1 DEF HandshakeEnds, Kept, sessVars
<1>5. Kept(net', net) /\ UNCHANGED <<upBuf, got, asked>>
  BY <1>2, <1>3, <1>4
<1> QED BY <1>5, KeptStep

\* Places other than those a step is about.
LEMMA HeldElsewhere ==
  ASSUME NEW nt, NEW up, NEW gt, NEW nt2, NEW up2, NEW gt2, NEW a, NEW b,
         \A f \in Fds : /\ <<"inq", f>> \notin {a, b} => nt2.inq[f] = nt.inq[f]
                        /\ <<"reqs", f>> \notin {a, b} => nt2.reqs[f] = nt.reqs[f],
         \A s \in Sessions : /\ <<"up", s>> \notin {a, b} => up2[s] = up[s]
                             /\ <<"got", s>> \notin {a, b} => gt2[s] = gt[s]
  PROVE  \A l \in Places \ {a, b} : Held(nt2, up2, gt2)[l] = Held(nt, up, gt)[l]
<1> DEFINE old == Held(nt, up, gt)
           new == Held(nt2, up2, gt2)
<1>1. /\ \A f \in Fds : old[<<"inq", f>>] = nt.inq[f] /\ old[<<"reqs", f>>] = nt.reqs[f]
      /\ \A s \in Sessions : old[<<"up", s>>] = up[s] /\ old[<<"got", s>>] = gt[s]
  BY HeldIs
<1>2. /\ \A f \in Fds : new[<<"inq", f>>] = nt2.inq[f] /\ new[<<"reqs", f>>] = nt2.reqs[f]
      /\ \A s \in Sessions : new[<<"up", s>>] = up2[s] /\ new[<<"got", s>>] = gt2[s]
  BY HeldIs
<1> HIDE DEF old, new
<1>3. ASSUME NEW l \in Places \ {a, b} PROVE new[l] = old[l]
  <2>1. ASSUME NEW f \in Fds, l = <<"inq", f>> PROVE new[l] = old[l]
    BY <1>1, <1>2, <2>1
  <2>2. ASSUME NEW f \in Fds, l = <<"reqs", f>> PROVE new[l] = old[l]
    BY <1>1, <1>2, <2>2
  <2>3. ASSUME NEW s \in Sessions, l = <<"up", s>> PROVE new[l] = old[l]
    BY <1>1, <1>2, <2>3
  <2>4. ASSUME NEW s \in Sessions, l = <<"got", s>> PROVE new[l] = old[l]
    BY <1>1, <1>2, <2>4
  <2> QED BY <2>1, <2>2, <2>3, <2>4, PlaceIs
<1> QED BY <1>3 DEF old, new

LEMMA StockIs ==
  /\ \A f \in Fds : /\ <<"inq", f>> \in Places /\ <<"reqs", f>> \in Places
                    /\ Stock[<<"inq", f>>] = net.inq[f] /\ Stock'[<<"inq", f>>] = net'.inq[f]
                    /\ Stock[<<"reqs", f>>] = net.reqs[f] /\ Stock'[<<"reqs", f>>] = net'.reqs[f]
  /\ \A s \in Sessions : /\ <<"up", s>> \in Places /\ <<"got", s>> \in Places
                         /\ Stock[<<"up", s>>] = upBuf[s] /\ Stock'[<<"up", s>>] = upBuf'[s]
                         /\ Stock[<<"got", s>>] = got[s] /\ Stock'[<<"got", s>>] = got'[s]
BY HeldIs DEF Stock

\* A client's next request is in no place yet.
LEMMA ClientSendsTraffic ==
  ASSUME Running, Distinct(Stock), AskedFor(Stock, asked), TypeOK',
         NEW s \in Sessions, ClientSends(s)
  PROVE  Distinct(Stock') /\ AskedFor(Stock', asked')
<1> DEFINE f == clientFd[s]
           p == Request(s, asked[s] + 1)
           b == <<"inq", f>>
           at == Stock
           at2 == Stock'
<1>1. f \in Fds /\ net \in NetTypes
  BY StockTypes DEF Running, NetSound, ClientsOwn, LiveSessions, ClientSends
<1>2. /\ net' = [net EXCEPT !.inq = [net.inq EXCEPT ![f] = Append(net.inq[f], p)]]
      /\ asked' = [asked EXCEPT ![s] = asked[s] + 1]
      /\ UNCHANGED <<upBuf, got>>
  BY <1>1 DEF ClientSends, NetTypes, sessVars
<1>3. /\ asked \in [Sessions -> Nat] /\ asked[s] \in Nat /\ MaxReqs[s] \in Nat
      /\ asked[s] + 1 \in 1..MaxReqs[s]
  <2>1. asked \in [Sessions -> Nat] /\ asked[s] \in Nat /\ asked[s] < MaxReqs[s]
    BY DEF Running, SessionTypes, ClientSends
  <2>2. MaxReqs[s] \in Nat
    BY IoDispatchAssumption
  <2> QED BY <2>1, <2>2
<1>4. p \in Pieces /\ p.of = s /\ p.n = asked[s] + 1
  <2>1. asked[s] + 1 \in Numbers
    BY <1>3 DEF Numbers
  <2> QED BY <2>1, IoDispatchAssumption DEF Request, Pieces
<1> HIDE DEF p
<1>5. /\ net'.inq = [net.inq EXCEPT ![f] = Append(net.inq[f], p)] /\ net'.reqs = net.reqs
      /\ net.inq \in [Fds -> Seq(Pieces)]
  BY <1>1, <1>2 DEF NetTypes
<1> HIDE DEF f
<1>6. Sequences(Stock) /\ Sequences(Stock)'
  BY StockTypes, PTL
<1>7. \A l \in Places \ {b, b} : at2[l] = at[l]
  <2>1. \A g \in Fds : /\ <<"inq", g>> \notin {b, b} => net'.inq[g] = net.inq[g]
                       /\ <<"reqs", g>> \notin {b, b} => net'.reqs[g] = net.reqs[g]
    BY <1>1, <1>5
  <2>2. \A t \in Sessions : /\ <<"up", t>> \notin {b, b} => upBuf'[t] = upBuf[t]
                            /\ <<"got", t>> \notin {b, b} => got'[t] = got[t]
    BY <1>2
  <2>3. \A l \in Places \ {b, b} : Held(net', upBuf', got')[l] = Held(net, upBuf, got)[l]
    <3> HIDE DEF b
    <3> QED BY ONLY <2>1, <2>2, HeldElsewhere
  <2> QED BY <2>3 DEF Stock
<1>8. b \in Places /\ at[b] = net.inq[f] /\ at2[b] = net'.inq[f]
  BY <1>1, StockIs
<1>9. at2[b] = Append(at[b], p)
  BY <1>1, <1>5, <1>8
<1>10. ASSUME NEW x \in Spots(at) PROVE ~ SameRequest(At(at, x), p)
  <2>1. At(at, x).n <= asked[At(at, x).of]
    BY DEF AskedFor
  <2>2. At(at, x) \in Pieces
    BY <1>6, SpotPiece
  <2>3. At(at, x).n \in Int
    BY <2>2, IoDispatchAssumption DEF Pieces, Numbers
  <2> QED BY <1>3, <1>4, <2>1, <2>3 DEF SameRequest
<1> HIDE DEF b, at, at2
<1>11. /\ Distinct(at2)
       /\ \A x \in Spots(at2) :
            (x \in Spots(at) /\ At(at2, x) = At(at, x)) \/ At(at2, x) = p
  <2>1. Sequences(at) /\ Distinct(at) /\ Sequences(at2) /\ b \in Places /\ p \in Pieces
        /\ at2[b] = Append(at[b], p)
        /\ (\A l \in Places \ {b} : at2[l] = at[l])
        /\ \A x \in Spots(at) : ~ SameRequest(At(at, x), p)
    BY <1>4, <1>6, <1>7, <1>8, <1>9, <1>10 DEF at, at2
  <2> QED BY ONLY <2>1, Added
<1>12. ASSUME NEW x \in Spots(at2) PROVE At(at2, x).n <= asked'[At(at2, x).of]
  <2>1. CASE At(at2, x) = p
    BY <1>2, <1>3, <1>4, <2>1
  <2>2. CASE x \in Spots(at) /\ At(at2, x) = At(at, x)
    <3> DEFINE q == At(at, x)
    <3>1. q \in Pieces
      BY <1>6, <2>2, SpotPiece DEF at
    <3>2. q.n <= asked[q.of]
      BY <2>2 DEF AskedFor, at
    <3> HIDE DEF q
    <3>3. q.n \in Int /\ q.of \in Sessions
      BY <3>1, IoDispatchAssumption DEF Pieces, Numbers
    <3>4. q.n <= asked'[q.of]
      BY <1>2, <1>3, <3>2, <3>3
    <3> QED BY <2>2, <3>4 DEF q
  <2> QED BY <1>11, <2>1, <2>2
<1> QED BY <1>11, <1>12 DEF AskedFor, at2

\* A piece of an answer is new, and follows from a request that is pending.
LEMMA BackendAnswersTraffic ==
  ASSUME Running, Distinct(Stock), AskedFor(Stock, asked), TypeOK',
         NEW f \in Fds, BackendAnswers(f)
  PROVE  Distinct(Stock') /\ AskedFor(Stock', asked')
<1> DEFINE a == <<"reqs", f>>
           b == <<"inq", f>>
           h == Head(net.reqs[f])
           piece == [h EXCEPT !.seg = h.seg + 1]
           removed == (piece.seg = Segments)
           r == IF removed THEN Tail(net.reqs[f]) ELSE <<piece>> \o Tail(net.reqs[f])
           at == Stock
           at2 == Stock'
<1>1. net \in NetTypes /\ net.reqs \in [Fds -> Seq(Tokens)] /\ net.inq \in [Fds -> Seq(Pieces)]
      /\ net.reqs[f] # <<>>
  BY StockTypes DEF NetTypes, BackendAnswers
<1>2. h \in Tokens /\ h = net.reqs[f][1]
  BY <1>1
<1> HIDE DEF h
<1>3. piece \in Pieces /\ SameRequest(piece, h) /\ piece.seg = h.seg + 1
  <2>1. h \in Pieces /\ h.seg \in 0..Segments /\ h.seg < Segments /\ Segments \in Nat
    BY <1>2, IoDispatchAssumption DEF Tokens, Pieces
  <2>2. h.seg + 1 \in 0..Segments
    BY <2>1
  <2> QED BY <2>1, <2>2 DEF Pieces, SameRequest
<1> HIDE DEF piece
<1>4. net' = [net EXCEPT !.inq = [net.inq EXCEPT ![f] = Append(net.inq[f], piece)],
                         !.reqs = [net.reqs EXCEPT ![f] = r]]
      /\ UNCHANGED <<upBuf, got, asked>>
  BY <1>1 DEF BackendAnswers, NetTypes, sessVars, h, piece
<1>5. removed \in BOOLEAN
  OBVIOUS
<1> HIDE DEF removed, r
<1>6. /\ net'.inq = [net.inq EXCEPT ![f] = Append(net.inq[f], piece)]
      /\ net'.reqs = [net.reqs EXCEPT ![f] = r]
  BY <1>1, <1>4 DEF NetTypes
<1>7. Sequences(Stock) /\ Sequences(Stock)'
  BY StockTypes, PTL
<1>8. \A l \in Places \ {a, b} : at2[l] = at[l]
  <2>1. \A g \in Fds : /\ <<"inq", g>> \notin {a, b} => net'.inq[g] = net.inq[g]
                       /\ <<"reqs", g>> \notin {a, b} => net'.reqs[g] = net.reqs[g]
    BY <1>1, <1>6
  <2>2. \A t \in Sessions : /\ <<"up", t>> \notin {a, b} => upBuf'[t] = upBuf[t]
                            /\ <<"got", t>> \notin {a, b} => got'[t] = got[t]
    BY <1>4
  <2>3. \A l \in Places \ {a, b} : Held(net', upBuf', got')[l] = Held(net, upBuf, got)[l]
    <3> HIDE DEF a, b
    <3> QED BY ONLY <2>1, <2>2, HeldElsewhere
  <2> QED BY <2>3 DEF Stock
<1>9. /\ a \in Places /\ b \in Places /\ a[1] = "reqs" /\ b[1] # "reqs"
      /\ at[a] = net.reqs[f] /\ at2[a] = net'.reqs[f]
      /\ at[b] = net.inq[f] /\ at2[b] = net'.inq[f]
  BY StockIs
<1>10. at2[b] = Append(at[b], piece) /\ at2[a] = r /\ at[a] # <<>>
  BY <1>1, <1>6, <1>9
<1> HIDE DEF a, b, at, at2
<1>11. Distinct(at2) /\ \A sent : AskedFor(at, sent) => AskedFor(at2, sent)
  <2>1. Sequences(at) /\ Distinct(at) /\ Sequences(at2) /\ a \in Places /\ b \in Places
        /\ a[1] = "reqs" /\ b[1] # "reqs" /\ at[a] # <<>> /\ piece \in Pieces
    BY <1>3, <1>7, <1>9, <1>10 DEF at, at2
  <2>2. /\ SameRequest(piece, at[a][1]) /\ piece.seg = at[a][1].seg + 1
        /\ at2[b] = Append(at[b], piece) /\ removed \in BOOLEAN
        /\ at2[a] = IF removed THEN Tail(at[a]) ELSE <<piece>> \o Tail(at[a])
        /\ \A l \in Places \ {a, b} : at2[l] = at[l]
    BY <1>2, <1>3, <1>5, <1>8, <1>9, <1>10 DEF r
  <2> QED BY ONLY <2>1, <2>2, Answered
<1> QED BY <1>4, <1>11 DEF at, at2

\* The answer goes from the backend's socket to the client, if it is there.
LEMMA DownRecvTraffic ==
  ASSUME Running, Distinct(Stock), AskedFor(Stock, asked), TypeOK',
         NEW s \in Sessions, DownRecv(s)
  PROVE  Distinct(Stock') /\ AskedFor(Stock', asked')
<1> DEFINE d == downFd[s]
           a == <<"inq", d>>
           b == <<"got", s>>
           read == ProcessRecvEvent(FiredNet(s), d)
           at == Stock
           at2 == Stock'
<1>1. /\ d \in Fds /\ net \in NetTypes /\ FiredNet(s) \in NetTypes
      /\ FiredNet(s).inq = net.inq /\ FiredNet(s).reqs = net.reqs
  <2>1. NetSound(FiredNet(s), clientFd, LiveSessions, LostSessions, cache) /\ EvFd(s) \in Fds
    BY Fired DEF DownRecv
  <2>2. FiredNet(s).inq = net.inq /\ FiredNet(s).reqs = net.reqs
    BY AddDelSound DEF FiredNet, Running
  <2> QED BY <2>1, <2>2, StockTypes DEF DownRecv, EvFd, NetSound, DataSound
<1>2. net.inq \in [Fds -> Seq(Pieces)] /\ net.reqs \in [Fds -> Seq(Tokens)]
      /\ got \in [Sessions -> Seq(Pieces)]
  BY <1>1, StockTypes DEF NetTypes
<1>3. read.inq = [net.inq EXCEPT ![d] = <<>>] /\ read.reqs = net.reqs
  BY <1>1 DEF ProcessRecvEvent, NetTypes
<1>4. net'.inq = [net.inq EXCEPT ![d] = <<>>] /\ net'.reqs = net.reqs
  <2>1. net' = NetAdd(read, FiredLib(s), clientFd[s])
    BY DEF DownRecv, RegAddEvent
  <2>2. read \in NetTypes
    <3>1. [net.inq EXCEPT ![d] = <<>>] \in [Fds -> Seq(Pieces)]
      <4>1. <<>> \in Seq(Pieces)
        OBVIOUS
      <4> QED BY <1>2, <4>1
    <3> QED BY <1>1, <3>1 DEF ProcessRecvEvent, NetTypes
  <2> HIDE DEF read
  <2>3. net'.inq = read.inq /\ net'.reqs = read.reqs
    BY <2>1, <2>2 DEF NetAdd, NetTypes
  <2> QED BY <1>3, <2>3
<1>5. /\ got' = [got EXCEPT ![s] = IF net.peer[clientFd[s]] = "up"
                                   THEN got[s] \o net.inq[d] ELSE got[s]]
      /\ UNCHANGED <<upBuf, asked>>
  BY DEF DownRecv
<1>6. Sequences(Stock) /\ Sequences(Stock)'
  BY StockTypes, PTL
<1> HIDE DEF d
<1>7. CASE net.peer[clientFd[s]] = "up"
  <2>1. \A l \in Places \ {a, b} : at2[l] = at[l]
    <3>1. \A g \in Fds : /\ <<"inq", g>> \notin {a, b} => net'.inq[g] = net.inq[g]
                         /\ <<"reqs", g>> \notin {a, b} => net'.reqs[g] = net.reqs[g]
      BY <1>1, <1>2, <1>4
    <3>2. \A t \in Sessions : /\ <<"up", t>> \notin {a, b} => upBuf'[t] = upBuf[t]
                              /\ <<"got", t>> \notin {a, b} => got'[t] = got[t]
      BY <1>2, <1>5
    <3>3. \A l \in Places \ {a, b} : Held(net', upBuf', got')[l] = Held(net, upBuf, got)[l]
      <4> HIDE DEF a, b
      <4> QED BY ONLY <3>1, <3>2, HeldElsewhere
    <3> QED BY <3>3 DEF Stock
  <2>2. /\ a \in Places /\ b \in Places /\ a[1] = "inq" /\ b[1] = "got" /\ a # b
        /\ at[a] = net.inq[d] /\ at2[a] = net'.inq[d]
        /\ at[b] = got[s] /\ at2[b] = got'[s]
    BY <1>1, StockIs
  <2>3. at2[a] = <<>> /\ at2[b] = at[b] \o at[a]
    BY <1>1, <1>2, <1>4, <1>5, <1>7, <2>2
  <2> HIDE DEF a, b, at, at2
  <2>4. Distinct(at2) /\ \A sent : AskedFor(at, sent) => AskedFor(at2, sent)
    <3>1. Sequences(at) /\ Distinct(at) /\ Sequences(at2) /\ a \in Places /\ b \in Places /\ a # b
          /\ at2[a] = <<>> /\ at2[b] = at[b] \o at[a]
          /\ a[1] # "reqs" /\ b[1] # "reqs"
          /\ \A l \in Places \ {a, b} : at2[l] = at[l]
      BY <1>6, <2>1, <2>2, <2>3 DEF at, at2
    <3> QED BY ONLY <3>1, Moved
  <2> QED BY <1>5, <2>4 DEF at, at2
<1>8. CASE net.peer[clientFd[s]] # "up"
  <2>1. got' = got
    BY <1>2, <1>5, <1>8
  <2>2. Kept(net', net)
    BY <1>1, <1>2, <1>4 DEF Kept
  <2> QED BY <1>5, <2>1, <2>2, KeptStep
<1> QED BY <1>7, <1>8

\* The client's requests go to the buffer, what closed connections held is
\* dropped, and the buffer goes to the backend if there is a connection.
LEMMA UpRecvTraffic ==
  ASSUME Running, Distinct(Stock), AskedFor(Stock, asked), TypeOK',
         NEW s \in Sessions, UpRecv(s)
  PROVE  Distinct(Stock') /\ AskedFor(Stock', asked')
<1> DEFINE c == clientFd[s]
           data == upBuf[s] \o net.inq[c]
           read == ProcessRecvEvent(FiredNet(s), c)
           up1 == [upBuf EXCEPT ![s] = data]
           at == Stock
           at1 == Held(read, up1, got)
<1>1. /\ c \in Fds /\ net \in NetTypes /\ FiredNet(s) \in NetTypes
      /\ FiredNet(s).inq = net.inq /\ FiredNet(s).reqs = net.reqs
      /\ net.inq[c] \in Seq(Requests)
      /\ NetSound(FiredNet(s), clientFd, LiveSessions, LostSessions, cache)
  <2>1. /\ NetSound(FiredNet(s), clientFd, LiveSessions, LostSessions, cache) /\ EvFd(s) \in Fds
        /\ s \in LiveSessions
    BY Fired DEF UpRecv
  <2>2. FiredNet(s).inq = net.inq /\ FiredNet(s).reqs = net.reqs
    BY AddDelSound DEF FiredNet, Running
  <2>3. c \in Fds
    BY <2>1 DEF UpRecv, EvFd
  <2>4. net.inq[c] \in Seq(Requests)
    BY <2>1, <2>3 DEF Running, NetSound, DataSound, ClientsOwn
  <2> QED BY <2>1, <2>2, <2>3, <2>4, StockTypes DEF NetSound, DataSound
<1>2. /\ net.inq \in [Fds -> Seq(Pieces)] /\ net.reqs \in [Fds -> Seq(Tokens)]
      /\ upBuf \in [Sessions -> Seq(Requests)] /\ upBuf \in [Sessions -> Seq(Pieces)]
      /\ got \in [Sessions -> Seq(Pieces)]
  BY <1>1, StockTypes DEF NetTypes, Running, SessionTypes
<1>3. data \in Seq(Requests) /\ data \in Seq(Pieces)
  <2>1. data \in Seq(Requests)
    BY <1>1, <1>2
  <2> QED BY <2>1, RequestTokens
<1>4. PICK bk \in Backends : \E io \in GetIo(read, bk) :
        IF io.sd # Nil
        THEN /\ upBuf'  = [upBuf EXCEPT ![s] = <<>>]
             /\ RegAddEvent(Send2Peer(io.nt, io.sd, data), FiredLib(s), s, io.sd)
        ELSE /\ upBuf' = [upBuf EXCEPT ![s] = data]
             /\ RegAddEvent(io.nt, FiredLib(s), s, downFd[s])
  BY DEF UpRecv
<1>5. PICK io \in GetIo(read, bk) :
        IF io.sd # Nil
        THEN /\ upBuf'  = [upBuf EXCEPT ![s] = <<>>]
             /\ RegAddEvent(Send2Peer(io.nt, io.sd, data), FiredLib(s), s, io.sd)
        ELSE /\ upBuf' = [upBuf EXCEPT ![s] = data]
             /\ RegAddEvent(io.nt, FiredLib(s), s, downFd[s])
  BY <1>4
<1>6. UNCHANGED <<got, asked>>
  BY DEF UpRecv
<1>7. /\ read.inq = [net.inq EXCEPT ![c] = <<>>] /\ read.reqs = net.reqs
      /\ NetSound(read, clientFd, LiveSessions, LostSessions, cache) /\ read \in NetTypes
  <2>1. NetSound(read, clientFd, LiveSessions, LostSessions, cache)
    BY <1>1, RecvSound
  <2>2. read.inq = [net.inq EXCEPT ![c] = <<>>] /\ read.reqs = net.reqs
    BY <1>1 DEF ProcessRecvEvent, NetTypes
  <2> QED BY <2>1, <2>2 DEF NetSound, DataSound
<1> HIDE DEF read
<1>8. io.nt \in NetTypes /\ io.sd \in Fds \cup {Nil} /\ Kept(io.nt, read)
  <2>1. /\ LiveSessions \in SUBSET Sessions
        /\ NetSound(read, clientFd, LiveSessions, LostSessions, cache)
        /\ bk \in Backends /\ io \in GetIo(read, bk)
    BY <1>7 DEF LiveSessions
  <2>2. /\ NetSound(io.nt, clientFd, LiveSessions, LostSessions, io.cache)
        /\ io.sd \in Fds \cup {Nil}
        /\ io.sd # Nil => io.nt.owner[io.sd] \in Backends
        /\ Kept(io.nt, read)
    BY ONLY <2>1, GetIoSound
  <2> QED BY <2>2 DEF NetSound, DataSound
<1>9. up1 \in [Sessions -> Seq(Pieces)] /\ up1[s] = data
      /\ \A t \in Sessions \ {s} : up1[t] = upBuf[t]
  BY <1>2, <1>3
<1> HIDE DEF c, data, up1
<1>10. Sequences(at) /\ Sequences(at1) /\ Sequences(Held(io.nt, up1, got)) /\ Sequences(Stock)'
  <2>1. Sequences(at)
    BY StockTypes
  <2>2. Sequences(Stock)'
    BY StockTypes, PTL
  <2>3. \A nt \in NetTypes :
          nt.inq \in [Fds -> Seq(Pieces)] /\ nt.reqs \in [Fds -> Seq(Pieces)]
    BY NetTypesHeld
  <2>4. Sequences(at1)
    BY <1>2, <1>7, <1>9, <2>3, HeldTypes
  <2>5. Sequences(Held(io.nt, up1, got))
    BY <1>2, <1>8, <1>9, <2>3, HeldTypes
  <2> QED BY <2>1, <2>2, <2>4, <2>5
<1>11. Distinct(at1) /\ AskedFor(at1, asked)
  <2> DEFINE a == <<"inq", c>>
             b == <<"up", s>>
  <2>1. \A l \in Places \ {a, b} : at1[l] = at[l]
    <3>1. \A g \in Fds : /\ <<"inq", g>> \notin {a, b} => read.inq[g] = net.inq[g]
                         /\ <<"reqs", g>> \notin {a, b} => read.reqs[g] = net.reqs[g]
      BY <1>1, <1>2, <1>7
    <3>2. \A t \in Sessions : /\ <<"up", t>> \notin {a, b} => up1[t] = upBuf[t]
                              /\ <<"got", t>> \notin {a, b} => got[t] = got[t]
      BY <1>9
    <3>3. \A l \in Places \ {a, b} : Held(read, up1, got)[l] = Held(net, upBuf, got)[l]
      <4> HIDE DEF a, b
      <4> QED BY ONLY <3>1, <3>2, HeldElsewhere
    <3> QED BY <3>3 DEF Stock
  <2>2. /\ a \in Places /\ b \in Places /\ a[1] = "inq" /\ b[1] = "up" /\ a # b
        /\ at[a] = net.inq[c] /\ at[b] = upBuf[s]
    BY <1>1, StockIs
  <2>3. at1[a] = read.inq[c] /\ at1[b] = up1[s]
    <3>1. /\ \A f \in Fds : at1[<<"inq", f>>] = read.inq[f] /\ at1[<<"reqs", f>>] = read.reqs[f]
          /\ \A t \in Sessions : at1[<<"up", t>>] = up1[t] /\ at1[<<"got", t>>] = got[t]
      BY HeldIs
    <3> HIDE DEF at1
    <3> QED BY <1>1, <3>1
  <2>4. at1[a] = <<>> /\ at1[b] = at[b] \o at[a]
    BY <1>1, <1>2, <1>7, <1>9, <2>2, <2>3 DEF data
  <2> HIDE DEF a, b, at, at1
  <2>5. Distinct(at1) /\ \A sent : AskedFor(at, sent) => AskedFor(at1, sent)
    <3>1. Sequences(at) /\ Distinct(at) /\ Sequences(at1) /\ a \in Places /\ b \in Places /\ a # b
          /\ at1[a] = <<>> /\ at1[b] = at[b] \o at[a]
          /\ a[1] # "reqs" /\ b[1] # "reqs"
          /\ \A l \in Places \ {a, b} : at1[l] = at[l]
      BY <1>10, <2>1, <2>2, <2>4 DEF at
    <3> QED BY ONLY <3>1, Moved
  <2> QED BY <2>5 DEF at
<1> DEFINE at2 == Held(io.nt, up1, got)
<1>12. Distinct(at2) /\ AskedFor(at2, asked)
  <2>1. \A l \in Places : at2[l] = at1[l] \/ at2[l] = <<>>
    BY <1>8, KeptDrops
  <2> HIDE DEF at1, at2
  <2>2. Sequences(at1) /\ Distinct(at1) /\ Sequences(at2) /\ AskedFor(at1, asked)
        /\ \A l \in Places : at2[l] = at1[l] \/ at2[l] = <<>>
    BY <1>10, <1>11, <2>1 DEF at2
  <2> QED BY ONLY <2>2, Dropped
<1>13. CASE io.sd = Nil
  <2>1. upBuf' = up1 /\ net' = NetAdd(io.nt, FiredLib(s), downFd[s])
    BY <1>5, <1>13 DEF RegAddEvent, up1
  <2>2. net'.inq = io.nt.inq /\ net'.reqs = io.nt.reqs
    BY <1>8, <2>1 DEF NetAdd, NetTypes
  <2>3. Stock' = at2
    BY <1>6, <2>1, <2>2, HeldSame DEF Stock
  <2> QED BY <1>6, <1>12, <2>3
<1>14. CASE io.sd # Nil
  <2> DEFINE a == <<"up", s>>
             b == <<"reqs", io.sd>>
             sent == Send2Peer(io.nt, io.sd, data)
             at3 == Stock'
  <2>0. io.sd \in Fds
    BY <1>8, <1>14
  <2>1. upBuf' = [upBuf EXCEPT ![s] = <<>>] /\ net' = NetAdd(sent, FiredLib(s), io.sd)
    BY <1>5, <1>14 DEF RegAddEvent
  <2>2. /\ sent.inq = io.nt.inq
        /\ sent.reqs = [io.nt.reqs EXCEPT ![io.sd] = io.nt.reqs[io.sd] \o data]
        /\ net'.inq = sent.inq /\ net'.reqs = sent.reqs
        /\ io.nt.reqs \in [Fds -> Seq(Tokens)]
    <3>1. io.nt.reqs \in [Fds -> Seq(Tokens)]
      BY <1>8 DEF NetTypes
    <3>2. data \in Seq(Tokens) /\ io.nt.reqs[io.sd] \in Seq(Tokens)
      BY <1>3, <2>0, <3>1, RequestTokens
    <3>3. io.nt.reqs[io.sd] \o data \in Seq(Tokens)
      BY <3>2
    <3> DEFINE q == io.nt.reqs[io.sd] \o data
               reqs2 == [io.nt.reqs EXCEPT ![io.sd] = q]
    <3>4. reqs2 \in [Fds -> Seq(Tokens)]
      BY <3>1, <3>3
    <3>5. sent = [io.nt EXCEPT !.reqs = reqs2]
      BY <1>8 DEF Send2Peer, NetTypes
    <3> HIDE DEF sent, reqs2
    <3>6. sent \in NetTypes /\ sent.inq = io.nt.inq /\ sent.reqs = reqs2
      BY <1>8, <3>4, <3>5 DEF NetTypes
    <3>7. net'.inq = sent.inq /\ net'.reqs = sent.reqs
      BY <2>1, <3>6 DEF NetAdd, NetTypes
    <3> QED BY <3>1, <3>6, <3>7 DEF reqs2
  <2> HIDE DEF sent
  <2>3. \A l \in Places \ {a, b} : at3[l] = at2[l]
    <3>1. \A g \in Fds : /\ <<"inq", g>> \notin {a, b} => net'.inq[g] = io.nt.inq[g]
                         /\ <<"reqs", g>> \notin {a, b} => net'.reqs[g] = io.nt.reqs[g]
      BY <2>0, <2>2
    <3>2. \A t \in Sessions : /\ <<"up", t>> \notin {a, b} => upBuf'[t] = up1[t]
                              /\ <<"got", t>> \notin {a, b} => got'[t] = got[t]
      BY <1>2, <1>6, <1>9, <2>1
    <3>3. \A l \in Places \ {a, b} : Held(net', upBuf', got')[l] = Held(io.nt, up1, got)[l]
      <4> HIDE DEF a, b
      <4> QED BY ONLY <3>1, <3>2, HeldElsewhere
    <3> QED BY <3>3 DEF Stock
  <2>4. /\ a \in Places /\ b \in Places /\ a[1] = "up" /\ b[1] = "reqs" /\ a # b
        /\ at3[a] = upBuf'[s] /\ at3[b] = net'.reqs[io.sd]
    BY <2>0, StockIs
  <2>5. at2[a] = data /\ at2[b] = io.nt.reqs[io.sd]
    <3>1. /\ \A f \in Fds : at2[<<"inq", f>>] = io.nt.inq[f] /\ at2[<<"reqs", f>>] = io.nt.reqs[f]
          /\ \A t \in Sessions : at2[<<"up", t>>] = up1[t] /\ at2[<<"got", t>>] = got[t]
      BY HeldIs
    <3> HIDE DEF at2
    <3> QED BY <1>9, <2>0, <3>1
  <2>6. at3[a] = <<>> /\ at3[b] = at2[b] \o at2[a]
    BY <1>2, <2>0, <2>1, <2>2, <2>4, <2>5
  <2>7. \A i \in DOMAIN data : data[i].seg = 0
    BY <1>3 DEF Requests
  <2> HIDE DEF a, b, at2, at3
  <2>8. Distinct(at3) /\ \A x : AskedFor(at2, x) => AskedFor(at3, x)
    <3>1. Sequences(at2) /\ Distinct(at2) /\ Sequences(at3) /\ a \in Places /\ b \in Places /\ a # b
          /\ at3[a] = <<>> /\ at3[b] = at2[b] \o at2[a]
          /\ a[1] # "reqs" /\ (b[1] = "reqs" => \A i \in DOMAIN at2[a] : at2[a][i].seg = 0)
          /\ \A l \in Places \ {a, b} : at3[l] = at2[l]
      BY <1>10, <1>12, <2>3, <2>4, <2>5, <2>6, <2>7 DEF at2, at3
    <3> QED BY ONLY <3>1, Moved
  <2> QED BY <1>6, <1>12, <2>8 DEF at3
<1> QED BY <1>13, <1>14

LEMMA TrafficStep ==
  ASSUME TrafficInv, [Next]_vars
  PROVE  TrafficInv'
<1>1. DispatchInv'
  BY DispatchStep DEF TrafficInv
<1>2. TypeOK'
  BY <1>1 DEF DispatchInv, Promises
<1>3. Running /\ ~ ended' => upBuf' \in [Sessions -> Seq(Requests)]
  BY <1>1 DEF DispatchInv, Running, SessionTypes
<1>4. ASSUME Next PROVE TrafficInv'
  <2>1. Running /\ Distinct(Stock) /\ AskedFor(Stock, asked)
    BY <1>4 DEF TrafficInv, DispatchInv, Next
  <2>2. upBuf' \in [Sessions -> Seq(Requests)]
    <3>1. CASE ~ ended'
      BY <1>3, <2>1, <3>1
    <3>2. CASE ThreadEnds
      BY <2>1, <3>2 DEF ThreadEnds, sessVars, Running, SessionTypes
    <3>3. ended = FALSE
      BY <2>1 DEF Running, SessionTypes
    <3>4. ~ ThreadEnds => ~ ended'
      <4> SUFFICES ASSUME ~ ThreadEnds PROVE ended' = ended
        BY <3>3
      <4>1. ASSUME NEW s \in Sessions, Callback(s) PROVE ended' = ended
        BY <4>1 DEF Callback, UpRecv, DownRecv, RecvNothing, RecvTimeout, RecvUnset
      <4>2. Outside => ended' = ended
        BY DEF Outside, ClientSends, ClientCloses, BackendAnswers, BackendCloses, HandshakeEnds
      <4> QED BY <1>4, <4>1, <4>2 DEF Next, Poll, Expire, Accept, AcceptLoses
    <3> QED BY <3>1, <3>2, <3>4
  <2>3. Distinct(Stock') /\ AskedFor(Stock', asked')
    <3>1. ASSUME NEW s \in Sessions, Callback(s) PROVE Distinct(Stock') /\ AskedFor(Stock', asked')
      BY <1>2, <2>1, <3>1, UpRecvTraffic, DownRecvTraffic, GCTraffic DEF Callback
    <3>2. Outside => Distinct(Stock') /\ AskedFor(Stock', asked')
      BY <1>2, <2>1, ClosesTraffic, ClientSendsTraffic, BackendAnswersTraffic DEF Outside
    <3>3. CASE \/ (\E f \in Fds : Poll(f)) \/ Expire \/ ThreadEnds
               \/ (\E s \in Sessions : Accept(s) \/ AcceptLoses(s))
      BY <1>2, <2>1, <3>3, LibeventTraffic
    <3> QED BY <1>4, <3>1, <3>2, <3>3 DEF Next
  <2> QED BY <1>1, <2>2, <2>3 DEF TrafficInv
<1>5. CASE UNCHANGED vars
  <2>1. net' = net /\ upBuf' = upBuf /\ got' = got /\ asked' = asked
    BY <1>5 DEF vars, sessVars
  <2>2. Stock' = Stock
    BY <2>1 DEF Stock
  <2> QED BY <1>1, <2>1, <2>2 DEF TrafficInv
<1> QED BY <1>4, <1>5

LEMMA TrafficInvariant == Spec => []TrafficInv
<1>1. Init => TrafficInv
  <2> SUFFICES ASSUME Init PROVE TrafficInv
    OBVIOUS
  <2>1. Running /\ DispatchInv
    BY InitRunning, RunningPromises DEF DispatchInv
  <2>2. ASSUME NEW l \in Places PROVE Stock[l] = <<>>
    <3>1. /\ \A f \in Fds : net.inq[f] = <<>> /\ net.reqs[f] = <<>>
          /\ \A s \in Sessions : upBuf[s] = <<>> /\ got[s] = <<>>
      BY DEF Init
    <3>2. ASSUME NEW f \in Fds, l = <<"inq", f>> \/ l = <<"reqs", f>> PROVE Stock[l] = <<>>
      BY <3>1, <3>2, StockIs
    <3>3. ASSUME NEW s \in Sessions, l = <<"up", s>> \/ l = <<"got", s>> PROVE Stock[l] = <<>>
      BY <3>1, <3>3, StockIs
    <3> QED BY <3>2, <3>3, PlaceIs
  <2>3. Spots(Stock) = {}
    <3>1. DOMAIN (<<>>) = {}
      OBVIOUS
    <3> QED BY <2>2, <3>1 DEF Spots
  <2> QED BY <2>1, <2>3 DEF TrafficInv, Distinct, AskedFor, Running, SessionTypes
<1>2. TrafficInv /\ [Next]_vars => TrafficInv'
  BY TrafficStep
<1> QED BY <1>1, <1>2, PTL DEF Spec

-----------------------------------------------------------------------------
(* Counting. *)

\* A set of at most one element.
LEMMA AtMostOne ==
  ASSUME NEW S, \A x, y \in S : x = y
  PROVE  IsFiniteSet(S) /\ Cardinality(S) \in {0, 1} /\ (S = {} <=> Cardinality(S) = 0)
<1>1. CASE S = {}
  BY <1>1, FS_EmptySet
<1>2. CASE S # {}
  <2>1. PICK x \in S : S = {x}
    BY <1>2
  <2>2. IsFiniteSet({x}) /\ Cardinality({x}) = 1
    BY FS_Singleton
  <2> QED BY <1>2, <2>1, <2>2
<1> QED BY <1>1, <1>2

LEMMA OccurrencesCount ==
  ASSUME NEW q \in Seq(Pieces), NEW p
  PROVE  /\ Occurrences(q, p) > 0 => \E i \in DOMAIN q : q[i] = p
         /\ (\A i, j \in DOMAIN q : q[i] = p /\ q[j] = p => i = j) => Occurrences(q, p) <= 1
<1> DEFINE S == {i \in DOMAIN q : q[i] = p}
<1>1. S = {} => Cardinality(S) = 0
  BY FS_EmptySet
<1>2. (\A i, j \in S : i = j) => Cardinality(S) \in {0, 1}
  BY AtMostOne
<1>3. Occurrences(q, p) = Cardinality(S)
  BY DEF Occurrences
<1> QED BY <1>1, <1>2, <1>3

\* The same data is at one spot only, if nobody has yet to answer it.
LEMMA OneSpot ==
  ASSUME TrafficInv, NEW x \in Spots(Stock), NEW y \in Spots(Stock),
         SameRequest(At(Stock, x), At(Stock, y)),
         \/ ~ Pending(x) /\ ~ Pending(y) /\ At(Stock, x).seg = At(Stock, y).seg
         \/ At(Stock, x).seg = 0 /\ At(Stock, y).seg = 0
  PROVE  x = y
<1> DEFINE p == At(Stock, x)
           q == At(Stock, y)
<1>1. x # y => Apart(x, p, y, q) /\ Apart(y, q, x, p)
  BY DEF TrafficInv, Distinct
<1> HIDE DEF p, q
<1>2. \/ ~ Pending(x) /\ ~ Pending(y) /\ p.seg = q.seg
      \/ p.seg = 0 /\ q.seg = 0
  BY DEF p, q
<1> QED BY <1>1, <1>2 DEF Apart

-----------------------------------------------------------------------------
(* The theorems. *)

\* What ProcessDownStream_Recv relays, no piece of an answer reaches two
\* clients, or one client twice, or is left on a connection once relayed:
\* whatever connections the cache hands to several sessions at once.
THEOREM AnswerOnceCorrect == Spec => []AnswerOnce
<1>1. ASSUME TrafficInv PROVE AnswerOnce
  <2> SUFFICES ASSUME NEW p \in Pieces
               PROVE  LET received == {s \in Sessions : Occurrences(got[s], p) > 0}
                          waiting  == {f \in Fds : Occurrences(net.inq[f], p) > 0}
                      IN  /\ Cardinality(received) + Cardinality(waiting) <= 1
                          /\ \A s \in Sessions : Occurrences(got[s], p) <= 1
    BY DEF AnswerOnce
  <2> DEFINE received == {s \in Sessions : Occurrences(got[s], p) > 0}
             waiting  == {f \in Fds : Occurrences(net.inq[f], p) > 0}
  <2>1. /\ got \in [Sessions -> Seq(Pieces)] /\ net.inq \in [Fds -> Seq(Pieces)]
    BY <1>1 DEF TrafficInv, DispatchInv, Promises, TypeOK
  <2>2. ASSUME NEW s \in Sessions, NEW i \in DOMAIN got[s], got[s][i] = p
        PROVE  <<<<"got", s>>, i>> \in Spots(Stock) /\ At(Stock, <<<<"got", s>>, i>>) = p
               /\ ~ Pending(<<<<"got", s>>, i>>)
    <3>1. i \in Nat
      BY <2>1
    <3>2. <<"got", s>> \in Places /\ Stock[<<"got", s>>] = got[s]
      BY StockIs
    <3> QED BY <2>2, <3>1, <3>2 DEF Spots, At, Pending
  <2>3. ASSUME NEW f \in Fds, NEW i \in DOMAIN net.inq[f], net.inq[f][i] = p
        PROVE  <<<<"inq", f>>, i>> \in Spots(Stock) /\ At(Stock, <<<<"inq", f>>, i>>) = p
               /\ ~ Pending(<<<<"inq", f>>, i>>)
    <3>1. i \in Nat
      BY <2>1
    <3>2. <<"inq", f>> \in Places /\ Stock[<<"inq", f>>] = net.inq[f]
      BY StockIs
    <3> QED BY <2>3, <3>1, <3>2 DEF Spots, At, Pending
  <2>4. ASSUME NEW x \in Spots(Stock), NEW y \in Spots(Stock), At(Stock, x) = p, At(Stock, y) = p,
               ~ Pending(x), ~ Pending(y)
        PROVE  x = y
    BY <1>1, <2>4, OneSpot DEF SameRequest
  <2>5. ASSUME NEW s \in Sessions PROVE Occurrences(got[s], p) <= 1
    <3>1. ASSUME NEW i \in DOMAIN got[s], NEW j \in DOMAIN got[s], got[s][i] = p, got[s][j] = p
          PROVE  i = j
      <4>1. <<<<"got", s>>, i>> = <<<<"got", s>>, j>>
        BY <2>2, <2>4, <3>1
      <4> QED BY <4>1
    <3>2. got[s] \in Seq(Pieces)
      BY <2>1
    <3> QED BY <3>1, <3>2, OccurrencesCount
  <2>6. ASSUME NEW s \in received, NEW t \in received PROVE s = t
    <3>1. got[s] \in Seq(Pieces) /\ got[t] \in Seq(Pieces) /\ s \in Sessions /\ t \in Sessions
      BY <2>1
    <3>2. (\E i \in DOMAIN got[s] : got[s][i] = p) /\ (\E j \in DOMAIN got[t] : got[t][j] = p)
      BY <3>1, OccurrencesCount
    <3>3. PICK i \in DOMAIN got[s], j \in DOMAIN got[t] : got[s][i] = p /\ got[t][j] = p
      BY <3>2
    <3>4. <<<<"got", s>>, i>> = <<<<"got", t>>, j>>
      BY <2>2, <2>4, <3>1, <3>3
    <3> QED BY <3>4
  <2>7. ASSUME NEW f \in waiting, NEW g \in waiting PROVE f = g
    <3>1. net.inq[f] \in Seq(Pieces) /\ net.inq[g] \in Seq(Pieces) /\ f \in Fds /\ g \in Fds
      BY <2>1
    <3>2. (\E i \in DOMAIN net.inq[f] : net.inq[f][i] = p) /\ (\E j \in DOMAIN net.inq[g] : net.inq[g][j] = p)
      BY <3>1, OccurrencesCount
    <3>3. PICK i \in DOMAIN net.inq[f], j \in DOMAIN net.inq[g] : net.inq[f][i] = p /\ net.inq[g][j] = p
      BY <3>2
    <3>4. <<<<"inq", f>>, i>> = <<<<"inq", g>>, j>>
      BY <2>3, <2>4, <3>1, <3>3
    <3> QED BY <3>4
  <2>8. ASSUME NEW s \in received, NEW f \in waiting PROVE FALSE
    <3>1. got[s] \in Seq(Pieces) /\ net.inq[f] \in Seq(Pieces) /\ s \in Sessions /\ f \in Fds
      BY <2>1
    <3>2. (\E i \in DOMAIN got[s] : got[s][i] = p) /\ (\E j \in DOMAIN net.inq[f] : net.inq[f][j] = p)
      BY <3>1, OccurrencesCount
    <3>3. PICK i \in DOMAIN got[s], j \in DOMAIN net.inq[f] : got[s][i] = p /\ net.inq[f][j] = p
      BY <3>2
    <3>4. <<<<"got", s>>, i>> = <<<<"inq", f>>, j>>
      BY <2>2, <2>3, <2>4, <3>1, <3>3
    <3> QED BY <3>4
  <2> HIDE DEF received, waiting
  <2>9. /\ Cardinality(received) \in {0, 1} /\ (received = {} <=> Cardinality(received) = 0)
        /\ Cardinality(waiting) \in {0, 1} /\ (waiting = {} <=> Cardinality(waiting) = 0)
    BY <2>6, <2>7, AtMostOne
  <2>10. received = {} \/ waiting = {}
    BY <2>8
  <2>11. Cardinality(received) + Cardinality(waiting) <= 1
    BY <2>9, <2>10
  <2> QED BY <2>5, <2>11 DEF received, waiting
<1> QED BY <1>1, TrafficInvariant, PTL

\* What ProcessUpStream_Recv forwards, a request is with its client's socket,
\* in its session's buffer or with one backend: it is sent once, also when
\* get_io fails and the buffer goes with the next request.
THEOREM RequestOnceCorrect == Spec => []RequestOnce
<1>1. ASSUME TrafficInv, NEW s \in Sessions, NEW n \in Numbers
      PROVE  LET Is(p)        == p.of = s /\ p.n = n
                 At2(f, q)    == {<<f, i>> : i \in {j \in DOMAIN q : Is(q[j]) /\ q[j].seg = 0}}
                 read    == {i \in DOMAIN upBuf[s] : Is(upBuf[s][i])}
                 arrived == UNION {At2(f, net.inq[f]) : f \in Fds}
                 sent    == UNION {At2(f, net.reqs[f]) : f \in Fds}
             IN  Cardinality(read) + Cardinality(arrived) + Cardinality(sent) <= 1
  <2> DEFINE Is(p)     == p.of = s /\ p.n = n
             At2(f, q) == {<<f, i>> : i \in {j \in DOMAIN q : Is(q[j]) /\ q[j].seg = 0}}
             read      == {i \in DOMAIN upBuf[s] : Is(upBuf[s][i])}
             arrived   == UNION {At2(f, net.inq[f]) : f \in Fds}
             sent      == UNION {At2(f, net.reqs[f]) : f \in Fds}
             mine      == {x \in Spots(Stock) : Is(At(Stock, x)) /\ At(Stock, x).seg = 0}
  <2>1. /\ net.inq \in [Fds -> Seq(Pieces)] /\ net.reqs \in [Fds -> Seq(Pieces)]
        /\ upBuf \in [Sessions -> Seq(Requests)]
    BY <1>1 DEF TrafficInv, DispatchInv, Promises, TypeOK
  <2>2. ASSUME NEW x \in mine, NEW y \in mine PROVE x = y
    BY <1>1, OneSpot DEF SameRequest
  <2>3. ASSUME NEW i \in read PROVE <<<<"up", s>>, i>> \in mine
    <3>0. upBuf[s] \in Seq(Requests) /\ i \in DOMAIN upBuf[s] /\ Is(upBuf[s][i])
      BY <2>1
    <3>1. i \in Nat /\ i \in DOMAIN upBuf[s] /\ Is(upBuf[s][i]) /\ upBuf[s][i].seg = 0
      <4> HIDE DEF Is
      <4>1. upBuf[s][i] \in Requests /\ i \in Nat
        BY <3>0
      <4> QED BY <3>0, <4>1 DEF Requests
    <3>2. <<"up", s>> \in Places /\ Stock[<<"up", s>>] = upBuf[s]
      BY StockIs
    <3> QED BY <3>1, <3>2 DEF Spots, At
  <2>4. ASSUME NEW x \in arrived PROVE <<<<"inq", x[1]>>, x[2]>> \in mine /\ x = <<x[1], x[2]>>
    <3>1. PICK f \in Fds : x \in At2(f, net.inq[f])
      OBVIOUS
    <3>2. PICK i \in DOMAIN net.inq[f] : x = <<f, i>> /\ Is(net.inq[f][i]) /\ net.inq[f][i].seg = 0
      BY <3>1
    <3>3. i \in Nat
      BY <2>1
    <3>4. <<"inq", f>> \in Places /\ Stock[<<"inq", f>>] = net.inq[f]
      BY StockIs
    <3> QED BY <3>2, <3>3, <3>4 DEF Spots, At
  <2>5. ASSUME NEW x \in sent PROVE <<<<"reqs", x[1]>>, x[2]>> \in mine /\ x = <<x[1], x[2]>>
    <3>1. PICK f \in Fds : x \in At2(f, net.reqs[f])
      OBVIOUS
    <3>2. PICK i \in DOMAIN net.reqs[f] : x = <<f, i>> /\ Is(net.reqs[f][i]) /\ net.reqs[f][i].seg = 0
      BY <3>1
    <3>3. i \in Nat
      BY <2>1
    <3>4. <<"reqs", f>> \in Places /\ Stock[<<"reqs", f>>] = net.reqs[f]
      BY StockIs
    <3> QED BY <3>2, <3>3, <3>4 DEF Spots, At
  <2> HIDE DEF Is, At2, read, arrived, sent, mine
  <2>6. \A i, j \in read : i = j
    BY <2>2, <2>3
  <2>7. \A x, y \in arrived : x = y
    <3> SUFFICES ASSUME NEW x \in arrived, NEW y \in arrived PROVE x = y
      OBVIOUS
    <3>1. <<<<"inq", x[1]>>, x[2]>> = <<<<"inq", y[1]>>, y[2]>>
      BY <2>2, <2>4
    <3>2. x[1] = y[1] /\ x[2] = y[2]
      BY <3>1
    <3> QED BY <2>4, <3>2
  <2>8. \A x, y \in sent : x = y
    <3> SUFFICES ASSUME NEW x \in sent, NEW y \in sent PROVE x = y
      OBVIOUS
    <3>1. <<<<"reqs", x[1]>>, x[2]>> = <<<<"reqs", y[1]>>, y[2]>>
      BY <2>2, <2>5
    <3>2. x[1] = y[1] /\ x[2] = y[2]
      BY <3>1
    <3> QED BY <2>5, <3>2
  <2>9. /\ ~ (read # {} /\ arrived # {})
        /\ ~ (read # {} /\ sent # {})
        /\ ~ (arrived # {} /\ sent # {})
    <3>1. ASSUME NEW i \in read, NEW x \in arrived PROVE FALSE
      <4>1. <<<<"up", s>>, i>> = <<<<"inq", x[1]>>, x[2]>>
        BY <2>2, <2>3, <2>4
      <4> QED BY <4>1
    <3>2. ASSUME NEW i \in read, NEW x \in sent PROVE FALSE
      <4>1. <<<<"up", s>>, i>> = <<<<"reqs", x[1]>>, x[2]>>
        BY <2>2, <2>3, <2>5
      <4> QED BY <4>1
    <3>3. ASSUME NEW y \in arrived, NEW x \in sent PROVE FALSE
      <4>1. <<<<"inq", y[1]>>, y[2]>> = <<<<"reqs", x[1]>>, x[2]>>
        BY <2>2, <2>4, <2>5
      <4> QED BY <4>1
    <3> QED BY <3>1, <3>2, <3>3
  <2>10. /\ Cardinality(read) \in {0, 1} /\ (read = {} <=> Cardinality(read) = 0)
         /\ Cardinality(arrived) \in {0, 1} /\ (arrived = {} <=> Cardinality(arrived) = 0)
         /\ Cardinality(sent) \in {0, 1} /\ (sent = {} <=> Cardinality(sent) = 0)
    <3>1. Cardinality(read) \in {0, 1} /\ (read = {} <=> Cardinality(read) = 0)
      BY ONLY <2>6, AtMostOne
    <3>2. Cardinality(arrived) \in {0, 1} /\ (arrived = {} <=> Cardinality(arrived) = 0)
      BY ONLY <2>7, AtMostOne
    <3>3. Cardinality(sent) \in {0, 1} /\ (sent = {} <=> Cardinality(sent) = 0)
      BY ONLY <2>8, AtMostOne
    <3> QED BY <3>1, <3>2, <3>3
  <2>11. Cardinality(read) + Cardinality(arrived) + Cardinality(sent) <= 1
    BY <2>9, <2>10
  <2> QED BY <2>11 DEF read, arrived, sent, At2, Is
<1>2. TrafficInv => RequestOnce
  BY <1>1 DEF RequestOnce
<1> QED BY <1>2, TrafficInvariant, PTL
=============================================================================
