----------------------------- MODULE IoThreads -----------------------------
(***************************************************************************)
(* The threads of comio and the objects they share.  The command thread    *)
(* (main.cpp, one UpdateProcessThread) executes commands: each launches    *)
(* some I/O threads on a listening port and then retires some              *)
(* (policy_interface.cpp get_out_json, io_launch_one_thread,               *)
(* io_retrieve_one_thread).  An I/O thread (IoLoopThread) runs a libevent  *)
(* loop with two events: the shared listening socket (ProcessListenEvent)  *)
(* and its own timer (ProcessTimer), which is how it finds out that it has *)
(* been retired and takes itself apart.                                    *)
(*                                                                         *)
(* Everything the threads do outside a mutex is a step of its own.         *)
(* thread_status is written by the command thread and read by the I/O      *)
(* thread with no lock in common.                                          *)
(***************************************************************************)
EXTENDS PathManager

CONSTANTS
  Conns,       \* client connections (bounds how many arrive)
  MaxPerCmd    \* largest open_thread_num and close_thread_num of a command

ASSUME CommandAssumption == MaxPerCmd \in Nat

VARIABLES
  adminPc,     \* where the command thread is in get_out_json
  adminKey,    \* in_path of the command it executes
  toOpen,      \* launches the command still has to do
  toClose,     \* retirements the command still has to do
  adminPtr,    \* io_thread_p: the thread it is launching or retiring
  pc,          \* where each I/O thread is
  status,      \* thread_status
  key,         \* path_k
  sd,          \* path_k_sd and p_path_k_lock
  heap,        \* which of a thread's two heap objects are allocated
  inHand,      \* accept_fd: the connection accepted and not yet dispatched
  conn,        \* kernel or session state of each client connection
  connAt,      \* the listening socket it came in on
  crashed      \* the process died

adminVars  == <<adminPc, adminKey, toOpen, toClose, adminPtr>>
threadVars == <<pc, status, key, sd, heap, inHand>>
connVars   == <<conn, connAt>>
vars == <<acceptVars, pathPtr, adminVars, threadVars, connVars, crashed>>

(***************************************************************************)
(* "created"   allocated by io_launch_one_thread, pthread_create not done  *)
(* "starting"  the pthread exists, its loop is not set up yet              *)
(* "loop"      inside event_base_dispatch, between callbacks               *)
(* "locking" "accepting" "accepted"   inside ProcessListenEvent            *)
(* "freed" "deleted"   inside or just after the last ProcessTimer          *)
(* "exited"    IoLoopThread has returned                                   *)
(* "discarded" pthread_create failed                                       *)
(***************************************************************************)
Listening == {"locking", "accepting", "accepted"}
Dispatch  == {"loop", "freed", "deleted"} \cup Listening
Users     == {"created", "starting", "loop", "freed"} \cup Listening
Pcs       == {"none", "exited", "discarded"} \cup Dispatch \cup Users

(***************************************************************************)
(* "pending"   in the queue of the listening socket                        *)
(* "accepted"  taken by a thread that has not dispatched it yet            *)
(* "served"    a session, whose event and timeout are registered           *)
(* "stranded"  left open by a thread that found itself retired             *)
(* "orphaned"  left open because fcntl failed on it                        *)
(* "aborted"   accept took it off the queue only to report its error       *)
(* "refused"   gone with the listening socket                              *)
(***************************************************************************)
ConnStates == {"none", "pending", "accepted", "served", "stranded", "orphaned",
               "aborted", "refused"}

TypeOK ==
  /\ PathTypeOK
  /\ adminPc  \in {"idle", "run", "create", "add", "mark"}
  /\ adminKey \in Keys \cup {Nil}
  /\ toOpen   \in 0..MaxPerCmd
  /\ toClose  \in 0..MaxPerCmd
  /\ adminPtr \in Threads \cup {Nil}
  /\ pc       \in [Threads -> Pcs]
  /\ status   \in [Threads -> {"use", "closing", "close"}]
  /\ key      \in [Threads -> Keys \cup {Nil}]
  /\ sd       \in [Threads -> Threads \cup {Nil}]
  /\ heap     \in [Threads -> SUBSET {"info", "base"}]
  /\ inHand   \in [Threads -> Conns \cup {Nil}]
  /\ conn     \in [Conns -> ConnStates]
  /\ connAt   \in [Conns -> Threads \cup {Nil}]
  /\ crashed  \in BOOLEAN

Init ==
  /\ PathInit
  /\ adminPc = "idle" /\ adminKey = Nil /\ toOpen = 0 /\ toClose = 0
  /\ adminPtr = Nil
  /\ pc     = [t \in Threads |-> "none"]
  /\ status = [t \in Threads |-> "use"]
  /\ key    = [t \in Threads |-> Nil]
  /\ sd     = [t \in Threads |-> Nil]
  /\ heap   = [t \in Threads |-> {}]
  /\ inHand = [t \in Threads |-> Nil]
  /\ conn   = [c \in Conns |-> "none"]
  /\ connAt = [c \in Conns |-> Nil]
  /\ crashed = FALSE

Unlaunched == {t \in Threads : pc[t] = "none"}
-----------------------------------------------------------------------------
(***************************************************************************)
(* The command thread.                                                     *)
(***************************************************************************)
\* A command has been validated and its backends stored: get_out_json goes on
\* to its two loops.  The guard on Unlaunched bounds the launches.
Command(k, n, m) ==
  /\ adminPc = "idle"
  /\ n <= Cardinality(Unlaunched)
  /\ n + m > 0
  /\ adminPc' = "run" /\ adminKey' = k /\ toOpen' = n /\ toClose' = m
  /\ UNCHANGED <<acceptVars, pathPtr, adminPtr, threadVars, connVars, crashed>>

\* io_launch_one_thread up to pthread_create.
LaunchGet(t) ==
  /\ adminPc = "run" /\ toOpen > 0
  /\ pc[t] = "none"
  /\ GetPathListenSock(adminKey, t)
  /\ sd'     = [sd EXCEPT ![t] = acceptSd'[adminKey]]
  /\ heap'   = [heap EXCEPT ![t] = {"info"}]
  /\ status' = [status EXCEPT ![t] = "use"]
  /\ key'    = [key EXCEPT ![t] = adminKey]
  /\ pc'     = [pc EXCEPT ![t] = "created"]
  /\ adminPtr' = t
  /\ adminPc'  = "create"
  /\ UNCHANGED <<pathPtr, adminKey, toOpen, toClose, inHand, connVars, crashed>>

LaunchCreated ==
  /\ adminPc = "create"
  /\ pc' = [pc EXCEPT ![adminPtr] = "starting"]
  /\ adminPc' = "add"
  /\ UNCHANGED <<acceptVars, pathPtr, adminKey, toOpen, toClose, adminPtr,
                 status, key, sd, heap, inHand, connVars, crashed>>

\* Connections nobody accepted die with the listening socket.
Refuse ==
  /\ conn' = [c \in Conns |->
                IF conn[c] = "pending" /\ sock'[connAt[c]] = "closed"
                THEN "refused" ELSE conn[c]]
  /\ UNCHANGED connAt

\* Mutant: the failed launch does not give the entry back.
LaunchFailedKeeps ==
  /\ adminPc = "create"
  /\ heap' = [heap EXCEPT ![adminPtr] = {}]
  /\ pc'   = [pc EXCEPT ![adminPtr] = "discarded"]
  /\ toOpen'   = toOpen - 1
  /\ adminPtr' = Nil
  /\ adminPc'  = "run"
  /\ UNCHANGED <<acceptVars, pathPtr, adminKey, toClose, status, key, sd,
                 inHand, connVars, crashed>>

LaunchFailed ==
  /\ adminPc = "create"
  /\ PutPathListenSock(key[adminPtr])
  /\ Refuse
  /\ heap' = [heap EXCEPT ![adminPtr] = {}]
  /\ pc'   = [pc EXCEPT ![adminPtr] = "discarded"]
  /\ toOpen'   = toOpen - 1
  /\ adminPtr' = Nil
  /\ adminPc'  = "run"
  /\ UNCHANGED <<pathPtr, adminKey, toClose, status, key, sd, inHand, crashed>>

\* Mutant: the launched thread is not registered.
LaunchForget ==
  /\ adminPc = "add"
  /\ toOpen'   = toOpen - 1
  /\ adminPtr' = Nil
  /\ adminPc'  = "run"
  /\ UNCHANGED <<acceptVars, pathPtr, adminKey, toClose, threadVars, connVars,
                 crashed>>

LaunchAdd ==
  /\ adminPc = "add"
  /\ AddPathPtr(adminKey, adminPtr)
  /\ toOpen'   = toOpen - 1
  /\ adminPtr' = Nil
  /\ adminPc'  = "run"
  /\ UNCHANGED <<acceptVars, adminKey, toClose, threadVars, connVars, crashed>>

\* Mutant: the retirement loop runs once more than the command says.
RetrieveOneMore ==
  /\ adminPc = "run" /\ toOpen = 0 /\ toClose >= 0
  /\ DelPathPtr(adminKey)
  /\ adminPtr' = NewestPtr(adminKey)
  /\ IF NewestPtr(adminKey) = Nil
     THEN toClose' = toClose - 1 /\ adminPc' = "run"
     ELSE adminPc' = "mark" /\ UNCHANGED toClose
  /\ UNCHANGED <<acceptVars, adminKey, toOpen, threadVars, connVars, crashed>>

\* io_retrieve_one_thread; with no thread left to retire it returns -1.
RetrieveDel ==
  /\ adminPc = "run" /\ toOpen = 0 /\ toClose > 0
  /\ DelPathPtr(adminKey)
  /\ adminPtr' = NewestPtr(adminKey)
  /\ IF NewestPtr(adminKey) = Nil
     THEN toClose' = toClose - 1 /\ adminPc' = "run"
     ELSE adminPc' = "mark" /\ UNCHANGED toClose
  /\ UNCHANGED <<acceptVars, adminKey, toOpen, threadVars, connVars, crashed>>

RetrieveMark ==
  /\ adminPc = "mark"
  /\ status' = [status EXCEPT ![adminPtr] = "closing"]
  /\ toClose'  = toClose - 1
  /\ adminPtr' = Nil
  /\ adminPc'  = "run"
  /\ UNCHANGED <<acceptVars, pathPtr, adminKey, toOpen,
                 pc, key, sd, heap, inHand, connVars, crashed>>

CommandDone ==
  /\ adminPc = "run" /\ toOpen = 0 /\ toClose = 0
  /\ adminPc' = "idle"
  /\ UNCHANGED <<acceptVars, pathPtr, adminKey, toOpen, toClose, adminPtr,
                 threadVars, connVars, crashed>>

AdminStep ==
  \/ \E t \in Threads : LaunchGet(t)
  \/ LaunchCreated \/ LaunchFailed \/ LaunchAdd
  \/ RetrieveDel \/ RetrieveMark \/ CommandDone
-----------------------------------------------------------------------------
(***************************************************************************)
(* An I/O thread.                                                          *)
(***************************************************************************)
\* event_init and the two registrations.
StartLoop(t) ==
  /\ pc[t] = "starting"
  /\ pc'   = [pc EXCEPT ![t] = "loop"]
  /\ heap' = [heap EXCEPT ![t] = @ \cup {"base"}]
  /\ UNCHANGED <<acceptVars, pathPtr, adminVars, status, key, sd, inHand,
                 connVars, crashed>>

Pending(s) == {c \in Conns : conn[c] = "pending" /\ connAt[c] = s}

\* epoll reports the listening socket: every thread that shares it may wake.
ListenReady(t) ==
  /\ pc[t] = "loop"
  /\ sock[sd[t]] \in {"open", "stray"}
  /\ Pending(sd[t]) # {}
  /\ pc' = [pc EXCEPT ![t] = "locking"]
  /\ UNCHANGED <<acceptVars, pathPtr, adminVars, status, key, sd, heap, inHand,
                 connVars, crashed>>

\* Mutant: the mutex is taken without waiting for it.
AcceptNoLock(t) ==
  /\ pc[t] = "locking"
  /\ lock' = [lock EXCEPT ![sd[t]] = t]
  /\ pc'   = [pc EXCEPT ![t] = "accepting"]
  /\ UNCHANGED <<acceptSd, useNum, sock, pathPtr, adminVars, status, key, sd,
                 heap, inHand, connVars, crashed>>

AcceptLock(t) ==
  /\ pc[t] = "locking"
  /\ lock[sd[t]] = Free
  /\ lock' = [lock EXCEPT ![sd[t]] = t]
  /\ pc'   = [pc EXCEPT ![t] = "accepting"]
  /\ UNCHANGED <<acceptSd, useNum, sock, pathPtr, adminVars, status, key, sd,
                 heap, inHand, connVars, crashed>>

\* Mutant: the mutex is given back only when accept succeeds.
AcceptKeepsLock(t) ==
  /\ pc[t] = "accepting"
  /\ \/ \E c \in Pending(sd[t]) :
          /\ inHand' = [inHand EXCEPT ![t] = c]
          /\ conn'   = [conn EXCEPT ![c] = "accepted"]
          /\ lock'   = [lock EXCEPT ![sd[t]] = Free]
     \/ UNCHANGED <<inHand, conn, lock>>
  /\ pc'   = [pc EXCEPT ![t] = "accepted"]
  /\ UNCHANGED <<acceptSd, useNum, sock, pathPtr, adminVars, status, key, sd,
                 heap, connAt, crashed>>

\* The non-blocking accept takes a connection if one is still there, takes a
\* broken one off the queue and fails (ECONNABORTED), or fails without touching
\* the queue: nothing is left on it, or no descriptor is (EMFILE, ENFILE,
\* ENOBUFS).  The mutex is given back whatever it returned.
Accept(t) ==
  /\ pc[t] = "accepting"
  /\ \/ \E c \in Pending(sd[t]) :
          \/ /\ inHand' = [inHand EXCEPT ![t] = c]
             /\ conn'   = [conn EXCEPT ![c] = "accepted"]
          \/ /\ conn'   = [conn EXCEPT ![c] = "aborted"]
             /\ UNCHANGED inHand
     \/ UNCHANGED <<inHand, conn>>
  /\ lock' = [lock EXCEPT ![sd[t]] = Free]
  /\ pc'   = [pc EXCEPT ![t] = "accepted"]
  /\ UNCHANGED <<acceptSd, useNum, sock, pathPtr, adminVars, status, key, sd,
                 heap, connAt, crashed>>

\* Mutant: the test is for the wrong status.
HandleUnlessClose(t) ==
  /\ pc[t] = "accepted"
  /\ \E end \in IF status[t] = "close" THEN {"served", "orphaned"}
                                       ELSE {"stranded"} :
       conn' = [c \in Conns |-> IF c = inHand[t] THEN end ELSE conn[c]]
  /\ inHand' = [inHand EXCEPT ![t] = Nil]
  /\ pc'     = [pc EXCEPT ![t] = "loop"]
  /\ UNCHANGED <<acceptVars, pathPtr, adminVars, status, key, sd, heap, connAt,
                 crashed>>

\* A thread in use makes a session of the connection, or returns when fcntl
\* fails on it; one that has been retired meanwhile returns at once.  Neither
\* return closes the accepted descriptor.
HandleAccepted(t) ==
  /\ pc[t] = "accepted"
  /\ \E end \in IF status[t] = "use" THEN {"served", "orphaned"}
                                     ELSE {"stranded"} :
       conn' = [c \in Conns |-> IF c = inHand[t] THEN end ELSE conn[c]]
  /\ inHand' = [inHand EXCEPT ![t] = Nil]
  /\ pc'     = [pc EXCEPT ![t] = "loop"]
  /\ UNCHANGED <<acceptVars, pathPtr, adminVars, status, key, sd, heap, connAt,
                 crashed>>

\* ProcessTimer.  In use, the timer is armed again and nothing changes.
TimerClosing(t) ==
  /\ pc[t] = "loop" /\ status[t] = "closing"
  /\ status' = [status EXCEPT ![t] = "close"]
  /\ UNCHANGED <<acceptVars, pathPtr, adminVars, pc, key, sd, heap, inHand,
                 connVars, crashed>>

TimerFreeBase(t) ==
  /\ pc[t] = "loop" /\ status[t] = "close"
  /\ heap' = [heap EXCEPT ![t] = @ \ {"base"}]
  /\ pc'   = [pc EXCEPT ![t] = "freed"]
  /\ UNCHANGED <<acceptVars, pathPtr, adminVars, status, key, sd, inHand,
                 connVars, crashed>>

TimerPutSock(t) ==
  /\ pc[t] = "freed"
  /\ PutPathListenSock(key[t])
  /\ Refuse
  /\ heap' = [heap EXCEPT ![t] = @ \ {"info"}]
  /\ pc'   = [pc EXCEPT ![t] = "deleted"]
  /\ UNCHANGED <<pathPtr, adminVars, status, key, sd, inHand, crashed>>

\* The callback returns into event_process_active, which goes on to read the
\* event_base the callback freed: the loop may end, or the process may die.
LoopReturn(t) ==
  /\ pc[t] = "deleted"
  /\ \/ /\ pc' = [pc EXCEPT ![t] = "exited"]
        /\ UNCHANGED crashed
     \/ /\ crashed' = TRUE
        /\ UNCHANGED pc
  /\ UNCHANGED <<acceptVars, pathPtr, adminVars, status, key, sd, heap, inHand,
                 connVars>>

ListenStep(t) ==
  ListenReady(t) \/ AcceptLock(t) \/ Accept(t) \/ HandleAccepted(t)

TimerStep(t) ==
  TimerClosing(t) \/ TimerFreeBase(t) \/ TimerPutSock(t) \/ LoopReturn(t)
-----------------------------------------------------------------------------
\* A client connects to a port; the kernel queues it on the port's socket.
Connect(c, k) ==
  /\ conn[c] = "none"
  /\ acceptSd[k] # Nil
  /\ sock[acceptSd[k]] = "open"
  /\ conn'   = [conn EXCEPT ![c] = "pending"]
  /\ connAt' = [connAt EXCEPT ![c] = acceptSd[k]]
  /\ UNCHANGED <<acceptVars, pathPtr, adminVars, threadVars, crashed>>

Next ==
  /\ ~ crashed
  /\ \/ \E k \in Keys, n \in 0..MaxPerCmd, m \in 0..MaxPerCmd : Command(k, n, m)
     \/ AdminStep
     \/ \E t \in Threads : StartLoop(t) \/ ListenStep(t) \/ TimerStep(t)
     \/ \E c \in Conns, k \in Keys : Connect(c, k)

Spec == Init /\ [][Next]_vars

(***************************************************************************)
(* The scheduler runs every thread, so a thread that can take a step takes *)
(* it; a ready socket and an expired timer are both served by the next     *)
(* turn of the loop.  Nobody has to send a command or to connect, and      *)
(* nothing is assumed of what accept and fcntl return: a property that     *)
(* needs accept to work again says so (AcceptRecovers).                    *)
(***************************************************************************)
Fairness ==
  /\ WF_vars(~ crashed /\ AdminStep)
  /\ \A t \in Threads :
       /\ WF_vars(~ crashed /\ StartLoop(t))
       /\ WF_vars(~ crashed /\ ListenStep(t))
       /\ WF_vars(~ crashed /\ TimerStep(t))

FairSpec == Spec /\ Fairness
-----------------------------------------------------------------------------
(***************************************************************************)
(* Properties.                                                             *)
(***************************************************************************)
UsersOf(k) == {t \in Threads : key[t] = k /\ pc[t] \in Users}

\* use_num counts the threads of the port that can still touch its listening
\* socket, through launches, failed launches and retirements in any order,
\* and the entry is there exactly as long as one of them is.
RefCountExact ==
  \A k \in Keys :
    /\ useNum[k] = Cardinality(UsersOf(k))
    /\ acceptSd[k] = Nil <=> UsersOf(k) = {}

\* As long as a thread can lock the accept mutex or accept on the listening
\* socket, both exist: no retirement of another thread took them away, and no
\* later launch on the port replaced them (ProcessListenEvent uses the copies
\* made at launch without looking at _accept_dict again).
SharedSocketAlive ==
  \A t \in Threads : pc[t] \in Users =>
    /\ sd[t] = acceptSd[key[t]]
    /\ sock[sd[t]] \in {"open", "stray", "failed"}
    /\ lock[sd[t]] # Nil

\* The accept mutex is held by the thread inside the accept call and nobody
\* else; it is never destroyed while it is held.
AcceptExclusive ==
  \A t, s \in Threads : lock[s] = t <=> pc[t] = "accepting" /\ sd[t] = s

\* The registry, and the pointer a retirement has taken from it, point to
\* threads that are still allocated and have not been told to close, each
\* once: writing thread_status through them is safe.
RegistryLive ==
  /\ \A k \in Keys : \A i \in DOMAIN pathPtr[k] :
       LET t == pathPtr[k][i] IN
       /\ "info" \in heap[t] /\ status[t] = "use" /\ key[t] = k
       /\ \A j \in DOMAIN pathPtr[k] : pathPtr[k][j] = t => i = j
       /\ adminPtr # t
  /\ adminPc = "mark" => "info" \in heap[adminPtr] /\ status[adminPtr] = "use"

\* A running thread is never lost: until it is told to close, the registry or
\* the command thread has its pointer, so a later command can retire it.
NoThreadLost ==
  \A t \in Threads : pc[t] \in Users /\ status[t] = "use" =>
    adminPtr = t \/ \E i \in DOMAIN pathPtr[key[t]] : pathPtr[key[t]][i] = t

\* accept returns with an error and leaves a waiting connection where it is.
AcceptFails ==
  \E t \in Threads :
    /\ Pending(sd[t]) # {}
    /\ Accept(t) /\ UNCHANGED conn

\* The process does not stay out of descriptors: accept does not fail for ever
\* with connections waiting.  While it does, the threads of the port go round
\* from epoll to accept and back, and neither a client nor a thread that waits
\* for the mutex is promised anything.
AcceptRecovers == <>[][~ AcceptFails]_vars

\* A thread that has been retired ends, unless the process dies first or accept
\* keeps failing: its timer is armed at every turn until the last, and the
\* accept mutex is always given back.
RetiredThreadExits ==
  AcceptRecovers =>
    \A t \in Threads : status[t] = "closing" ~> pc[t] = "exited" \/ crashed

\* A client that connected gets a session as long as accept does not fail for
\* ever, unless accept reported its connection broken, fcntl failed on it (it
\* then stays open with nobody to answer or to close it), a thread of its
\* socket was retired meanwhile (it may take the connection and drop it, or be
\* the last one and close the socket), the only launch on the socket failed
\* and closed it, or the process died.
ServedUnlessRetired ==
  AcceptRecovers =>
    \A c \in Conns :
      conn[c] = "pending" ~>
        \/ conn[c] \in {"served", "aborted", "orphaned"} \/ crashed
        \/ \E t \in Threads : sd[t] = connAt[c]
                                /\ (status[t] # "use" \/ pc[t] = "discarded")

\* When every thread of a port has been told to close and no launch is under
\* way, the port is given back to the system, or launched on again, as long as
\* accept does not fail for ever.
PortReleased ==
  AcceptRecovers =>
    \A k \in Keys :
      (adminPc = "idle" /\ acceptSd[k] # Nil
          /\ \A t \in UsersOf(k) : status[t] # "use")
        ~> acceptSd[k] = Nil \/ crashed \/ (adminPc # "idle" /\ adminKey = k)

=============================================================================
