----------------------------- MODULE IoDispatch -----------------------------
(***************************************************************************)
(* One I/O thread at work (io_dispatch.cpp, io_manager.cpp,                *)
(* io_storage.cpp).  Each client connection has a session                  *)
(* (io_dispatch_info) that waits for a request of the client, forwards it  *)
(* to a backend, waits for the answer and relays it, and so on, until the  *)
(* client closes or something takes longer than the receive timeout.       *)
(* Connections to backends are cached by the thread (Io_Manager) and are   *)
(* shared by all its sessions.                                             *)
(*                                                                         *)
(* The thread is a libevent loop, so the callbacks of this module are      *)
(* atomic, but the kernel, the clients and the backends move between them. *)
(* libevent 1.4 on epoll remembers ONE reading event per descriptor, and   *)
(* descriptor numbers are used again: the order of registrations, removals *)
(* and closes matters, and is modelled in full.                            *)
(*                                                                         *)
(* A session waits with one event at a time, the one of its client or the  *)
(* one of its backend, so an event is named by its session.                *)
(***************************************************************************)
EXTENDS Integers, Sequences, FiniteSets, SequencesExt

CONSTANTS
  Sessions,   \* the io_dispatch_info objects, one per client connection
  Fds,        \* descriptor numbers left to the thread (the process limit)
  Backends,   \* addresses that Select_Path can return
  Alike,      \* pairs of them of which neither is less for Io_Comp
  Ordered,    \* Io_Comp is a strict weak order on them
  MaxReqs,    \* bounds the requests of each client
  Segments,   \* how many pieces the answer of a backend arrives in
  Nil         \* no session, no socket, and the descriptor -1

ASSUME IoDispatchAssumption ==
  /\ MaxReqs \in [Sessions -> Nat] /\ Segments \in Nat \ {0}
  /\ Nil \notin Sessions \cup Fds \cup Backends
  /\ Sessions \cap Backends = {}

\* Io_Comp looks at the common beginning of two addresses only, so that two of
\* the same port are alike when one begins like the other, and three may make
\* it no order at all (IoKey, and Texts on which addresses do).
ASSUME AlikeAssumption ==
  /\ Alike \subseteq Backends \X Backends
  /\ \A b \in Backends : <<b, b>> \in Alike
  /\ \A b, c \in Backends : <<b, c>> \in Alike => <<c, b>> \in Alike
  /\ Ordered \in BOOLEAN
  /\ Ordered =>
       \A b, c, d \in Backends :
         <<b, c>> \in Alike /\ <<c, d>> \in Alike => <<b, d>> \in Alike

VARIABLES
  net,       \* kernel: the sockets behind the descriptors and the epoll set
  lib,       \* libevent: registered events, timers and the active queue
  phase,     \* "poll": collecting events, "process": running callbacks
  waits,     \* which event each session last registered
  clientFd,  \* p_upstream->io_sd
  downFd,    \* p_downstream->io_sd
  upBuf,     \* p_upstream's buffer: requests read and not yet sent
  unset,     \* storages whose _now_recv_len was never assigned
  cache,     \* _io_dict of the thread's Io_Manager, a set of entries
  asked,     \* client: requests sent so far
  got,       \* client: what it received
  ended,     \* the thread deleted its io_dispatch_thread_info
  crashed    \* the process died

sessVars == <<waits, clientFd, downFd, upBuf, unset>>
vars == <<net, lib, phase, sessVars, cache, asked, got, ended, crashed>>

\* The numbers of the requests, of all clients.
Numbers == UNION {1..MaxReqs[s] : s \in Sessions}

\* A piece of data on its way: request n of a client, or a piece of its answer.
Pieces == [of : Sessions, n : Numbers, seg : 0..Segments]
Request(s, n) == [of |-> s, n |-> n, seg |-> 0]

\* "lost": the client was accepted and got no session, as fcntl failed.
Live(s) == waits[s] \in {"up", "down"}
EvFd(s) == IF waits[s] = "up" THEN clientFd[s] ELSE downFd[s]

TypeOK ==
  /\ net \in [owner : [Fds -> Sessions \cup Backends \cup {Nil}],
              peer  : [Fds -> {"up", "syn", "late", "gone"}],
              inq   : [Fds -> Seq(Pieces)],
              reqs  : [Fds -> Seq(Pieces)],
              epoll : SUBSET Fds]
  /\ lib \in [inserted : SUBSET Sessions,
              timers   : Seq(Sessions),
              evread   : [Fds -> Sessions \cup {Nil}],
              active   : Seq([s : Sessions, res : {"read", "timeout"}])]
  /\ phase    \in {"poll", "process"}
  /\ waits    \in [Sessions -> {"none", "up", "down", "freed", "lost"}]
  /\ clientFd \in [Sessions -> Fds \cup {Nil}]
  /\ downFd   \in [Sessions -> Fds \cup {Nil}]
  /\ upBuf    \in [Sessions -> Seq(Pieces)]
  /\ unset    \in [Sessions -> SUBSET {"up", "down"}]
  /\ cache    \in SUBSET [of : Backends, sd : Fds]
  /\ asked    \in [Sessions -> Numbers \cup {0}]
  /\ got      \in [Sessions -> Seq(Pieces)]
  /\ ended \in BOOLEAN /\ crashed \in BOOLEAN
  /\ \A s \in Sessions : clientFd[s] = Nil <=> waits[s] \in {"none", "lost"}

Init ==
  /\ net = [owner |-> [f \in Fds |-> Nil], peer |-> [f \in Fds |-> "gone"],
            inq |-> [f \in Fds |-> <<>>], reqs |-> [f \in Fds |-> <<>>],
            epoll |-> {}]
  /\ lib = [inserted |-> {}, timers |-> <<>>, active |-> <<>>,
            evread |-> [f \in Fds |-> Nil]]
  /\ phase    = "poll"
  /\ waits    = [s \in Sessions |-> "none"]
  /\ clientFd = [s \in Sessions |-> Nil]
  /\ downFd   = [s \in Sessions |-> Nil]
  /\ upBuf    = [s \in Sessions |-> <<>>]
  /\ unset    = [s \in Sessions |-> {}]
  /\ cache    = {}
  /\ asked    = [s \in Sessions |-> 0]
  /\ got      = [s \in Sessions |-> <<>>]
  /\ ended = FALSE /\ crashed = FALSE
-----------------------------------------------------------------------------
(***************************************************************************)
(* The kernel.                                                             *)
(***************************************************************************)
Opened(nt, f) == nt.owner[f] # Nil
FreeFds(nt)   == {f \in Fds : ~ Opened(nt, f)}

OpenFd(nt, f, who, state) ==
  [nt EXCEPT !.owner[f] = who, !.peer[f] = state]

\* A closed descriptor also leaves the epoll set of the kernel.
CloseFd(nt, f) ==
  [nt EXCEPT !.owner[f] = Nil, !.peer[f] = "gone", !.inq[f] = <<>>,
             !.reqs[f] = <<>>, !.epoll = @ \ {f}]

Readable(nt, f) == Opened(nt, f) /\ (nt.inq[f] # <<>> \/ nt.peer[f] = "gone")

(***************************************************************************)
(* libevent.                                                               *)
(***************************************************************************)
IsActive(lb, s) == \E i \in DOMAIN lb.active : lb.active[i].s = s

\* event_add with a timeout.  epoll_add modifies the entry of the descriptor
\* when it remembers an event for it and adds one when it does not; when the
\* kernel refuses, event_add returns -1 and does not arm the timeout either.
CanAdd(nt, lb, f) ==
  /\ f \in Fds
  /\ IF lb.evread[f] # Nil THEN f \in nt.epoll
     ELSE Opened(nt, f) /\ f \notin nt.epoll

LibAdd(nt, lb, s, f) ==
  IF CanAdd(nt, lb, f)
  THEN [lb EXCEPT !.evread[f] = s, !.inserted = @ \cup {s},
                  !.timers = Append(@, s)]
  ELSE lb

NetAdd(nt, lb, f) ==
  IF CanAdd(nt, lb, f) THEN [nt EXCEPT !.epoll = @ \cup {f}] ELSE nt

\* An event is at most once in each list of libevent, which its flags tell,
\* and is taken out from where it stands.
TakeOut(q, at) == IF at = {} THEN q ELSE RemoveAt(q, CHOOSE i \in at : TRUE)

\* event_del: epoll_del forgets the event of the descriptor, whosever it is.
LibDel(lb, s, f) ==
  [lb EXCEPT
     !.evread   = IF s \in lb.inserted THEN [@ EXCEPT ![f] = Nil] ELSE @,
     !.inserted = @ \ {s},
     !.timers   = TakeOut(@, {i \in DOMAIN @ : @[i] = s}),
     !.active   = TakeOut(@, {i \in DOMAIN @ : @[i].s = s})]

NetDel(nt, lb, s, f) ==
  IF s \in lb.inserted THEN [nt EXCEPT !.epoll = @ \ {f}] ELSE nt

\* epoll_wait reports the descriptor: its event joins the active queue.
Poll(f) ==
  /\ phase = "poll"
  /\ \A i \in DOMAIN lib.active : lib.active[i].res = "read"
  /\ f \in net.epoll /\ Readable(net, f)
  /\ lib.evread[f] # Nil /\ ~ IsActive(lib, lib.evread[f])
  /\ lib' = [lib EXCEPT !.active =
               Append(@, [s |-> lib.evread[f], res |-> "read"])]
  /\ UNCHANGED <<net, phase, sessVars, cache, asked, got, ended, crashed>>

\* timeout_process: all timeouts are the same, so they expire in the order
\* they were armed, and an expired event is not reported as readable.
Expire ==
  /\ phase = "poll" /\ lib.timers # <<>>
  /\ LET s == Head(lib.timers) IN
       /\ net' = NetDel(net, lib, s, EvFd(s))
       /\ lib' = LET lb == LibDel(lib, s, EvFd(s)) IN
                 [lb EXCEPT !.active = Append(@, [s |-> s, res |-> "timeout"])]
  /\ UNCHANGED <<phase, sessVars, cache, asked, got, ended, crashed>>

\* event_process_active takes the first event and deletes it before calling.
Fires(s, res) == lib.active # <<>> /\ Head(lib.active) = [s |-> s, res |-> res]

FiredLib(s) == LibDel(lib, s, EvFd(s))
FiredNet(s) == NetDel(net, lib, s, EvFd(s))
LoopOn == phase' = IF lib'.active = <<>> THEN "poll" ELSE "process"
-----------------------------------------------------------------------------
(***************************************************************************)
(* The callbacks.                                                          *)
(***************************************************************************)
\* Mutant: no timeout is passed to event_add.
RegAddNoTime(nt, lb, s, f) ==
  /\ net' = NetAdd(nt, lb, f)
  /\ lib' = [LibAdd(nt, lb, s, f) EXCEPT !.timers = lb.timers]

\* reg_add_event: the result of event_add is not looked at.
RegAddEvent(nt, lb, s, f) ==
  net' = NetAdd(nt, lb, f) /\ lib' = LibAdd(nt, lb, s, f)

\* Mutant: the session is not given its client's descriptor.
AcceptNoSetSd(s) ==
  /\ waits[s] = "none"
  /\ \E f \in FreeFds(net) :
       RegAddEvent(OpenFd(net, f, s, "up"), lib, s, f)
  /\ waits' = [waits EXCEPT ![s] = "up"]
  /\ unset' = [unset EXCEPT ![s] = {"up", "down"}]
  /\ UNCHANGED <<phase, clientFd, downFd, upBuf, cache, asked, got, ended,
                 crashed>>

\* get_io_dispatch_info: a session that no client has had; its two
\* _now_recv_len are not set.
GetDispatchInfo(s) ==
  /\ waits[s] = "none"
  /\ unset' = [unset EXCEPT ![s] = {"up", "down"}]

\* ProcessListenEvent accepts a client and makes its session.
Accept(s) ==
  /\ GetDispatchInfo(s)
  /\ \E f \in FreeFds(net) :
       /\ clientFd' = [clientFd EXCEPT ![s] = f]
       /\ RegAddEvent(OpenFd(net, f, s, "up"), lib, s, f)
  /\ waits' = [waits EXCEPT ![s] = "up"]
  /\ UNCHANGED <<phase, downFd, upBuf, cache, asked, got, ended, crashed>>

\* It accepts one and returns, as fcntl failed or the thread was retired: the
\* descriptor stays open and no session knows it.
AcceptLoses(s) ==
  /\ waits[s] = "none"
  /\ \E f \in FreeFds(net) : net' = OpenFd(net, f, s, "up")
  /\ waits' = [waits EXCEPT ![s] = "lost"]
  /\ UNCHANGED <<lib, phase, clientFd, downFd, upBuf, unset, cache, asked, got,
                 ended, crashed>>

\* put_io_dispatch_info: the session is deleted, its buffers with it.
PutDispatchInfo(s) == waits' = [waits EXCEPT ![s] = "freed"]

\* Mutant: the session is deleted and the socket left open.
CollectNoClose(s, nt, lb) ==
  /\ net'   = nt
  /\ lib'   = lb
  /\ waits' = [waits EXCEPT ![s] = "freed"]
  /\ UNCHANGED <<clientFd, downFd, upBuf, unset, cache, got>>

\* GC: the client's socket is closed and the session deleted.
Collect(s, nt, lb) ==
  /\ net'   = CloseFd(nt, clientFd[s])
  /\ lib'   = lb
  /\ PutDispatchInfo(s)
  /\ UNCHANGED <<clientFd, downFd, upBuf, unset, cache, got>>

\* get_sock_tcp_status: the connection is established in both directions.
Established(nt, f) == nt.peer[f] \in {"up", "late"}

\* init_connet_fd and the wait: a new socket, and what has become of its
\* handshake when select returns or the time is over.  No descriptor may be
\* left.
InitConnectFd(nt, b) ==
  {[f |-> f, nt |-> OpenFd(nt, f, b, state)]
     : f \in FreeFds(nt), state \in {"up", "syn", "gone"}}

\* _io_dict.find: an entry with a key that is alike.  Where Io_Comp is no order
\* the search may pass by the entry, and which of several it meets depends on
\* the shape of the tree.
Hits(dict, b)   == {e \in dict : <<e.of, b>> \in Alike}
Misses(dict, b) == Hits(dict, b) = {} \/ ~ Ordered

\* _io_dict.insert, whose result nobody looks at: a key that is alike may keep
\* the new connection out.
Insert(dict, b, f) ==
  {dict \cup {[of |-> b, sd |-> f]}}
  \cup (IF Hits(dict, b) = {} THEN {} ELSE {dict})

\* A new connection, to be cached if wait_3handshake says it is established.
\* If it is not, its socket stays open, and the handshake may still come to
\* its end.  The first result is a failing socket().
NewIo(nt, b, dict) ==
  {[sd |-> Nil, nt |-> nt, cache |-> dict]}
  \cup UNION {IF Established(c.nt, c.f)
              THEN {[sd |-> c.f, nt |-> c.nt, cache |-> d] : d \in Insert(dict, b, c.f)}
              ELSE {[sd |-> Nil, nt |-> c.nt, cache |-> dict]}
                : c \in InitConnectFd(nt, b)}

\* Mutant: the closed connection is not erased from the cache.
GetIoNoErase(nt, b) ==
  (IF Misses(cache, b) THEN NewIo(nt, b, cache) ELSE {})
  \cup UNION {IF Established(nt, e.sd)
              THEN {[sd |-> e.sd, nt |-> nt, cache |-> cache]}
              ELSE NewIo(CloseFd(nt, e.sd), b, cache)
                : e \in Hits(cache, b)}

\* Io_Manager::get_io on the kernel state nt.  The results: the descriptor to
\* use (Nil for an error), the kernel and the cache afterwards.
GetIo(nt, b) ==
  (IF Misses(cache, b) THEN NewIo(nt, b, cache) ELSE {})
  \cup UNION {IF Established(nt, e.sd)
              THEN {[sd |-> e.sd, nt |-> nt, cache |-> cache]}
              ELSE NewIo(CloseFd(nt, e.sd), b, cache \ {e})
                : e \in Hits(cache, b)}

\* process_recv_event takes all there is; send_2_peer sends all that was read.
ProcessRecvEvent(nt, f) == [nt EXCEPT !.inq[f] = <<>>]
Send2Peer(nt, sd, data) == [nt EXCEPT !.reqs[sd] = @ \o data]

\* Mutant: the buffer is not reset when it has been sent.
UpRecvNoReset(s) ==
  /\ Fires(s, "read") /\ waits[s] = "up"
  /\ net.inq[clientFd[s]] # <<>>
  /\ LET data == upBuf[s] \o net.inq[clientFd[s]]
         read == ProcessRecvEvent(FiredNet(s), clientFd[s])
     IN  \E b \in Backends : \E io \in GetIo(read, b) :
           /\ io.sd # Nil
           /\ cache'  = io.cache
           /\ downFd' = [downFd EXCEPT ![s] = io.sd]
           /\ upBuf'  = [upBuf EXCEPT ![s] = data]
           /\ unset'  = [unset EXCEPT ![s] = @ \ {"up"}]
           /\ RegAddEvent(Send2Peer(io.nt, io.sd, data), FiredLib(s), s,
                          io.sd)
  /\ waits' = [waits EXCEPT ![s] = "down"]
  /\ LoopOn
  /\ UNCHANGED <<clientFd, asked, got, ended, crashed>>

\* ProcessUpStream_Recv with a request: choose a backend, get a connection,
\* send what the buffer holds, and wait for the answer on p_downstream->io_sd
\* even when there was no connection.
UpRecv(s) ==
  /\ Fires(s, "read") /\ waits[s] = "up"
  /\ net.inq[clientFd[s]] # <<>>
  /\ LET data == upBuf[s] \o net.inq[clientFd[s]]
         read == ProcessRecvEvent(FiredNet(s), clientFd[s])
     IN  \E b \in Backends : \E io \in GetIo(read, b) :
           /\ cache' = io.cache
           /\ IF io.sd # Nil
              THEN /\ downFd' = [downFd EXCEPT ![s] = io.sd]
                   /\ upBuf'  = [upBuf EXCEPT ![s] = <<>>]
                   /\ unset'  = [unset EXCEPT ![s] = @ \ {"up"}]
                   /\ RegAddEvent(Send2Peer(io.nt, io.sd, data),
                                  FiredLib(s), s, io.sd)
              ELSE /\ upBuf' = [upBuf EXCEPT ![s] = data]
                   /\ RegAddEvent(io.nt, FiredLib(s), s, downFd[s])
                   /\ UNCHANGED <<downFd, unset>>
  /\ waits' = [waits EXCEPT ![s] = "down"]
  /\ LoopOn
  /\ UNCHANGED <<clientFd, asked, got, ended, crashed>>

\* Mutant: the answer stays where it is and is relayed again.
DownRecvAgain(s) ==
  /\ Fires(s, "read") /\ waits[s] = "down"
  /\ net.inq[downFd[s]] # <<>>
  /\ RegAddEvent(FiredNet(s), FiredLib(s), s, clientFd[s])
  /\ got'   = [got EXCEPT ![s] =
                 IF net.peer[clientFd[s]] = "up" THEN @ \o net.inq[downFd[s]]
                 ELSE @]
  /\ unset' = [unset EXCEPT ![s] = @ \ {"down"}]
  /\ waits' = [waits EXCEPT ![s] = "up"]
  /\ LoopOn
  /\ UNCHANGED <<clientFd, downFd, upBuf, cache, asked, ended, crashed>>

\* Mutant: after registering, the callback goes on into its GC part.
DownRecvFallsThrough(s) ==
  /\ Fires(s, "read") /\ waits[s] = "down"
  /\ net.inq[downFd[s]] # <<>>
  /\ LET read == ProcessRecvEvent(FiredNet(s), downFd[s]) IN
       Collect(s, NetAdd(read, FiredLib(s), clientFd[s]),
               LibAdd(read, FiredLib(s), s, clientFd[s]))
  /\ LoopOn
  /\ UNCHANGED <<asked, ended, crashed>>

\* ProcessDownStream_Recv with an answer: relay it to the client.
DownRecv(s) ==
  /\ Fires(s, "read") /\ waits[s] = "down"
  /\ net.inq[downFd[s]] # <<>>
  /\ RegAddEvent(ProcessRecvEvent(FiredNet(s), downFd[s]), FiredLib(s), s,
                 clientFd[s])
  /\ got'   = [got EXCEPT ![s] =
                 IF net.peer[clientFd[s]] = "up" THEN @ \o net.inq[downFd[s]]
                 ELSE @]
  /\ unset' = [unset EXCEPT ![s] = @ \ {"down"}]
  /\ waits' = [waits EXCEPT ![s] = "up"]
  /\ LoopOn
  /\ UNCHANGED <<clientFd, downFd, upBuf, cache, asked, ended, crashed>>

\* Either callback when nothing can be read: closed, failed, or reset.
RecvNothing(s) ==
  /\ Fires(s, "read")
  /\ net.inq[EvFd(s)] = <<>>
  /\ Collect(s, FiredNet(s), FiredLib(s))
  /\ LoopOn
  /\ UNCHANGED <<asked, ended, crashed>>

\* Either callback on a timeout.
RecvTimeout(s) ==
  /\ Fires(s, "timeout")
  /\ Collect(s, FiredNet(s), FiredLib(s))
  /\ LoopOn
  /\ UNCHANGED <<asked, ended, crashed>>

\* Either callback, when recv is given an offset into the buffer that was
\* never assigned: it fails, or writes where it must not.
RecvUnset(s) ==
  /\ Fires(s, "read")
  /\ waits[s] \in unset[s]
  /\ \/ /\ Collect(s, FiredNet(s), FiredLib(s))
        /\ LoopOn
        /\ UNCHANGED crashed
     \/ /\ crashed' = TRUE
        /\ UNCHANGED <<net, lib, phase, sessVars, cache, got>>
  /\ UNCHANGED <<asked, ended>>

Callback(s) ==
  UpRecv(s) \/ DownRecv(s) \/ RecvNothing(s) \/ RecvTimeout(s) \/ RecvUnset(s)

\* The last ProcessTimer: event_base_free takes every event out, and the
\* destructor of Io_Manager closes the cached connections.
ThreadEnds ==
  /\ ended' = TRUE
  /\ lib'   = [inserted |-> {}, timers |-> <<>>, active |-> <<>>,
               evread |-> [f \in Fds |-> Nil]]
  /\ LET cached == {e.sd : e \in cache} IN
       net' = [net EXCEPT
                 !.owner = [f \in Fds |-> IF f \in cached THEN Nil ELSE @[f]],
                 !.epoll = {}]
  /\ UNCHANGED <<phase, sessVars, cache, asked, got, crashed>>
-----------------------------------------------------------------------------
(***************************************************************************)
(* The other ends of the connections.                                      *)
(***************************************************************************)
ClientSends(s) ==
  /\ Live(s) /\ net.peer[clientFd[s]] = "up"
  /\ asked[s] < MaxReqs[s]
  /\ asked' = [asked EXCEPT ![s] = @ + 1]
  /\ net'   = [net EXCEPT !.inq[clientFd[s]] =
                 Append(@, Request(s, asked[s] + 1))]
  /\ UNCHANGED <<lib, phase, sessVars, cache, got, ended, crashed>>

ClientCloses(s) ==
  /\ Live(s) /\ net.peer[clientFd[s]] = "up"
  /\ net' = [net EXCEPT !.peer[clientFd[s]] = "gone"]
  /\ UNCHANGED <<lib, phase, sessVars, cache, asked, got, ended, crashed>>

\* A backend answers the requests of a connection in order, piece by piece.
BackendAnswers(f) ==
  /\ net.owner[f] \in Backends /\ net.reqs[f] # <<>>
  /\ LET piece == [Head(net.reqs[f]) EXCEPT !.seg = @ + 1] IN
       net' = [net EXCEPT
                 !.inq[f]  = Append(@, piece),
                 !.reqs[f] = IF piece.seg = Segments THEN Tail(@)
                             ELSE <<piece>> \o Tail(@)]
  /\ UNCHANGED <<lib, phase, sessVars, cache, asked, got, ended, crashed>>

BackendCloses(f) ==
  /\ net.owner[f] \in Backends /\ net.peer[f] # "gone"
  /\ net' = [net EXCEPT !.peer[f] = "gone", !.reqs[f] = <<>>]
  /\ UNCHANGED <<lib, phase, sessVars, cache, asked, got, ended, crashed>>

\* A handshake that was not over when select returned is over now.
HandshakeEnds(f) ==
  /\ net.owner[f] \in Backends /\ net.peer[f] = "syn"
  /\ net' = [net EXCEPT !.peer[f] = "late"]
  /\ UNCHANGED <<lib, phase, sessVars, cache, asked, got, ended, crashed>>

Outside ==
  \/ \E s \in Sessions : ClientSends(s) \/ ClientCloses(s)
  \/ \E f \in Fds : BackendAnswers(f) \/ BackendCloses(f) \/ HandshakeEnds(f)

Next ==
  /\ ~ ended /\ ~ crashed
  /\ \/ \E f \in Fds : Poll(f)
     \/ Expire
     \/ \E s \in Sessions : Accept(s) \/ AcceptLoses(s) \/ Callback(s)
     \/ ThreadEnds
     \/ Outside

Spec == Init /\ [][Next]_vars

(***************************************************************************)
(* The thread is scheduled, so it runs the next callback of its queue, and *)
(* time passes, so the timer at the head of the heap expires.  Clients and *)
(* backends need not do anything.                                          *)
(***************************************************************************)
FairSpec ==
  /\ Spec
  /\ WF_vars(~ ended /\ ~ crashed /\ Expire)
  /\ WF_vars(~ ended /\ ~ crashed /\ \E s \in Sessions : Callback(s))
-----------------------------------------------------------------------------
(***************************************************************************)
(* Properties.                                                             *)
(***************************************************************************)
\* libevent never holds a pointer to the event of a deleted session: not in
\* its table of descriptors, not in its lists, whatever was closed, displaced
\* or used again in between.  The table is right about the descriptor.
NoDanglingEvent ==
  /\ \A f \in Fds : lib.evread[f] # Nil =>
       LET s == lib.evread[f] IN
       s \in lib.inserted /\ EvFd(s) = f
  /\ \A s \in Sessions :
       s \in lib.inserted \cup Range(lib.timers) \/ IsActive(lib, s) => Live(s)

\* A registered event has exactly one timeout armed, also when another
\* session took its place in the table of descriptors.
RegisteredHasTimer ==
  /\ Range(lib.timers) = lib.inserted
  /\ IsInjective(lib.timers)

\* The client socket of a session is its own until the session closes it: it
\* is never closed by somebody else, closed twice, or left open behind, but for
\* one that got no session at all, which nobody closes either.
ClientSocketOwned ==
  /\ \A s \in Sessions : Live(s) =>
       clientFd[s] # Nil /\ net.owner[clientFd[s]] = s
  /\ \A f \in Fds : net.owner[f] \in Sessions =>
       LET s == net.owner[f] IN
       \/ Live(s) /\ clientFd[s] = f
       \/ waits[s] = "lost"

\* A cached descriptor is in one entry of the cache, is open, and is connected
\* to the backend it is cached for, whatever other sessions' get_io closed and
\* the process opened under the same number: so get_io hands out a connection
\* to a backend that is alike for Io_Comp, never a client's socket.  And where
\* Io_Comp is an order, two entries are never alike, and a connection that was
\* established in time is in the cache, so the thread finds it again and the
\* destructor closes it.  Not so one whose handshake ended after the wait: it
\* stays open in no cache ("late").
CacheSound ==
  /\ \A e \in cache :
       /\ ended \/ net.owner[e.sd] = e.of
       /\ \A d \in cache \ {e} : d.sd # e.sd
  /\ Ordered =>
       /\ \A e \in cache : Hits(cache, e.of) = {e}
       /\ \A f \in Fds : net.owner[f] \in Backends /\ net.peer[f] = "up" =>
            ~ ended /\ \E e \in cache : e.sd = f

Occurrences(seq, p) == Cardinality({i \in DOMAIN seq : seq[i] = p})

\* Every piece of an answer goes to at most one client, once.
AnswerOnce ==
  \A p \in Pieces :
    LET received == {s \in Sessions : Occurrences(got[s], p) > 0}
        waiting  == {f \in Fds : Occurrences(net.inq[f], p) > 0}
    IN  /\ Cardinality(received) + Cardinality(waiting) <= 1
        /\ \A s \in Sessions : Occurrences(got[s], p) <= 1

\* A request is in one place only, on its client's connection, in its
\* session's buffer or with a backend: it is forwarded at most once, also when
\* a failed get_io leaves it in the buffer to be sent with the next request.
RequestOnce ==
  \A s \in Sessions, n \in Numbers :
    LET Is(p)        == p.of = s /\ p.n = n
        Places(f, q) == {<<f, i>> : i \in {j \in DOMAIN q : Is(q[j]) /\ q[j].seg = 0}}
        read    == {i \in DOMAIN upBuf[s] : Is(upBuf[s][i])}
        arrived == UNION {Places(f, net.inq[f]) : f \in Fds}
        sent    == UNION {Places(f, net.reqs[f]) : f \in Fds}
    IN  Cardinality(read) + Cardinality(arrived) + Cardinality(sent) <= 1

\* A session that waits gets its callback: by data, by its timeout, also when
\* its event was displaced, unless the thread or the process ends first.
WaitEnds ==
  \A s \in Sessions :
    s \in lib.inserted ~> s \notin lib.inserted \/ ended \/ crashed

\* "add recv event for downstream" (io_dispatch.cpp:218): what a session
\* registers there is a connection to a backend, not the socket of a client.
DownEventOnBackend ==
  [][\A s \in Sessions :
       UpRecv(s) /\ s \in lib'.inserted => net'.owner[downFd'[s]] \in Backends]_vars
=============================================================================
