-------------------------- MODULE IoThreadsProofs --------------------------
(***************************************************************************)
(* Proofs about IoThreads, for any sets of ports, threads and connections, *)
(* and that it implements SharedPort.                                      *)
(***************************************************************************)
EXTENDS IoThreadsPort, FiniteSetTheorems, SequenceTheorems, TLAPS

\* Where the command thread is decides which of its variables mean something;
\* a launched thread has a port.
AdminOK ==
  /\ adminPc # "idle" => adminKey \in Keys
  /\ adminPc \in {"create", "add"} => toOpen > 0
  /\ adminPc = "mark" => toClose > 0
  /\ adminPc \in {"create", "add", "mark"} => adminPtr \in Threads
  /\ adminPc \in {"idle", "run"} => adminPtr = Nil
  /\ adminPc = "create" => pc[adminPtr] = "created"
  /\ \A t \in Threads : pc[t] \in Users => key[t] \in Keys

TypeInv == TypeOK /\ AdminOK

\* Appending to a sequence keeps its type (push_back on a path_ptr stack).
LEMMA AppendType ==
  ASSUME NEW S, NEW q \in Seq(S), NEW e \in S
  PROVE  Append(q, e) \in Seq(S)
  OBVIOUS

\* Taking the last element off a sequence that has one (pop_back).
LEMMA FrontType ==
  ASSUME NEW S, NEW q \in Seq(S), q # <<>>
  PROVE  /\ SubSeq(q, 1, Len(q) - 1) \in Seq(S)
         /\ q[Len(q)] \in S
         /\ Len(q) \in DOMAIN q
         /\ Len(SubSeq(q, 1, Len(q) - 1)) = Len(q) - 1
         /\ \A i \in 1..(Len(q) - 1) : SubSeq(q, 1, Len(q) - 1)[i] = q[i]
<1>1. Len(q) \in Nat \ {0} /\ DOMAIN q = 1..Len(q)
  BY EmptySeq, LenProperties
<1>2. \A i \in 1..Len(q) : q[i] \in S
  BY ElementOfSeq
<1>3. \A i \in 1..(Len(q) - 1) : q[i] \in S
  BY <1>1, <1>2
<1> QED
  BY <1>1, <1>2, <1>3, SubSeqProperties

\* The program starts with the command thread idle and no I/O thread.
LEMMA InitTypeInv == Init => TypeInv
<1> SUFFICES ASSUME Init PROVE TypeInv
  OBVIOUS
<1>1. pathPtr \in [Keys -> Seq(Threads)]
  BY EmptySeq DEF Init, PathInit
<1>2. PathTypeOK
  BY <1>1 DEF Init, PathInit, PathTypeOK, SockStates
<1>3. toOpen \in 0..MaxPerCmd /\ toClose \in 0..MaxPerCmd
  BY CommandAssumption DEF Init
<1>4. TypeOK
  BY <1>2, <1>3 DEF Init, TypeOK, Pcs, ConnStates
<1> QED
  BY <1>4 DEF Init, TypeInv, AdminOK, Users, Listening

\* Get_Path_Listen_Sock keeps the types of the shared objects.
LEMMA GetType ==
  ASSUME PathTypeOK, NEW k \in Keys, NEW t \in Threads, GetPathListenSock(k, t)
  PROVE  /\ acceptSd' \in [Keys -> Threads \cup {Nil}]
         /\ useNum'   \in [Keys -> Int]
         /\ sock'     \in [Threads -> SockStates]
         /\ lock'     \in [Threads -> Threads \cup {Nil, Free}]
<1>1. CASE useNum' = [useNum EXCEPT ![k] = @ + 1]
           /\ UNCHANGED <<acceptSd, sock, lock>>
  BY <1>1 DEF PathTypeOK
<1>2. CASE /\ InitListenSocket(t)
           /\ lock'     = [lock EXCEPT ![t] = Free]
           /\ acceptSd' = [acceptSd EXCEPT ![k] = t]
           /\ useNum'   = [useNum EXCEPT ![k] = 1]
  BY <1>2 DEF PathTypeOK, InitListenSocket, SockStates
<1> QED
  BY <1>1, <1>2 DEF GetPathListenSock

\* So does Put_Path_Listen_Sock.
LEMMA PutType ==
  ASSUME PathTypeOK, NEW k \in Keys, PutPathListenSock(k)
  PROVE  /\ acceptSd' \in [Keys -> Threads \cup {Nil}]
         /\ useNum'   \in [Keys -> Int]
         /\ sock'     \in [Threads -> SockStates]
         /\ lock'     \in [Threads -> Threads \cup {Nil, Free}]
<1>1. CASE UNCHANGED acceptVars
  BY <1>1 DEF PathTypeOK, acceptVars
<1>2. CASE useNum' = [useNum EXCEPT ![k] = @ - 1]
           /\ UNCHANGED <<acceptSd, sock, lock>>
  BY <1>2 DEF PathTypeOK
<1>3. CASE /\ sock'     = [sock EXCEPT ![acceptSd[k]] =
                             IF @ = "failed" THEN @ ELSE "closed"]
           /\ lock'     = [lock EXCEPT ![acceptSd[k]] = Nil]
           /\ acceptSd' = [acceptSd EXCEPT ![k] = Nil]
           /\ useNum'   = [useNum EXCEPT ![k] = 0]
  <2>1. sock' = [s \in Threads |-> IF s = acceptSd[k] /\ sock[s] # "failed"
                                   THEN "closed" ELSE sock[s]]
    BY <1>3 DEF PathTypeOK
  <2>2. sock' \in [Threads -> SockStates]
    BY <2>1 DEF PathTypeOK, SockStates
  <2> QED
    BY <1>3, <2>2 DEF PathTypeOK
<1> QED
  BY <1>1, <1>2, <1>3 DEF PutPathListenSock

\* Every step of the program keeps the types and AdminOK.
LEMMA NextTypeInv == TypeInv /\ [Next]_vars => TypeInv'
<1> SUFFICES ASSUME TypeInv, [Next]_vars PROVE TypeInv'
  OBVIOUS
<1> USE DEF TypeInv
<1>cmd. ASSUME NEW k \in Keys, NEW n \in 0..MaxPerCmd, NEW m \in 0..MaxPerCmd,
               Command(k, n, m)
        PROVE  TypeInv'
  BY <1>cmd DEF Command, TypeOK, PathTypeOK, AdminOK, acceptVars, threadVars,
     connVars
<1>get. ASSUME NEW t \in Threads, LaunchGet(t) PROVE TypeInv'
  <2>1. adminKey \in Keys
    BY <1>get DEF LaunchGet, AdminOK
  <2>2. GetPathListenSock(adminKey, t) /\ acceptSd'[adminKey] \in Threads
    <3>1. GetPathListenSock(adminKey, t)
      BY <1>get DEF LaunchGet
    <3> QED
      BY <2>1, <3>1 DEF GetPathListenSock, TypeOK, PathTypeOK
  <2>3. PathTypeOK'
    BY <1>get, <2>1, <2>2, GetType DEF LaunchGet, TypeOK, PathTypeOK
  <2> QED
    BY <1>get, <2>2, <2>3 DEF LaunchGet, TypeOK, AdminOK, connVars, Pcs, Users
<1>created. ASSUME LaunchCreated PROVE TypeInv'
  BY <1>created DEF LaunchCreated, TypeOK, PathTypeOK, AdminOK, acceptVars,
     connVars, Pcs, Users
<1>failed. ASSUME LaunchFailed PROVE TypeInv'
  <2>1. adminPtr \in Threads /\ toOpen > 0
    BY <1>failed DEF LaunchFailed, AdminOK
  <2>2. toOpen - 1 \in 0..MaxPerCmd
    BY <2>1, CommandAssumption DEF TypeOK
  <2>3. PathTypeOK'
    <3>1. key[adminPtr] \in Keys
      BY <1>failed, <2>1 DEF LaunchFailed, AdminOK, Users
    <3> QED
      BY <1>failed, <3>1, PutType DEF LaunchFailed, TypeOK, PathTypeOK
  <2> QED
    BY <1>failed, <2>1, <2>2, <2>3
    DEF LaunchFailed, Refuse, TypeOK, AdminOK, Pcs, Users, ConnStates
<1>add. ASSUME LaunchAdd PROVE TypeInv'
  <2>1. adminPtr \in Threads /\ adminKey \in Keys /\ toOpen > 0
    BY <1>add DEF LaunchAdd, AdminOK
  <2>2. toOpen - 1 \in 0..MaxPerCmd
    BY <2>1, CommandAssumption DEF TypeOK
  <2>3. pathPtr' \in [Keys -> Seq(Threads)]
    BY <1>add, <2>1, AppendType DEF LaunchAdd, AddPathPtr, TypeOK, PathTypeOK
  <2> QED
    BY <1>add, <2>2, <2>3
    DEF LaunchAdd, TypeOK, PathTypeOK, AdminOK, acceptVars, threadVars, connVars
<1>del. ASSUME RetrieveDel PROVE TypeInv'
  <2>1. adminKey \in Keys /\ toClose - 1 \in 0..MaxPerCmd
    BY <1>del, CommandAssumption DEF RetrieveDel, TypeOK, AdminOK
  <2>2. pathPtr[adminKey] \in Seq(Threads)
    BY <2>1 DEF TypeOK, PathTypeOK
  <2>3. pathPtr' \in [Keys -> Seq(Threads)] /\ NewestPtr(adminKey) \in Threads \cup {Nil}
    BY <1>del, <2>1, <2>2, FrontType
    DEF RetrieveDel, DelPathPtr, NewestPtr, TypeOK, PathTypeOK
  <2> QED
    BY <1>del, <2>1, <2>3
    DEF RetrieveDel, TypeOK, PathTypeOK, AdminOK, acceptVars, threadVars, connVars
<1>mark. ASSUME RetrieveMark PROVE TypeInv'
  <2>1. toClose - 1 \in 0..MaxPerCmd
    BY <1>mark, CommandAssumption DEF RetrieveMark, TypeOK, AdminOK
  <2> QED
    BY <1>mark, <2>1 DEF RetrieveMark, TypeOK, PathTypeOK, AdminOK, acceptVars, connVars
<1>done. ASSUME CommandDone PROVE TypeInv'
  BY <1>done DEF CommandDone, TypeOK, PathTypeOK, AdminOK, acceptVars, threadVars, connVars
<1>start. ASSUME NEW t \in Threads, StartLoop(t) PROVE TypeInv'
  BY <1>start DEF StartLoop, TypeOK, PathTypeOK, AdminOK, acceptVars, adminVars,
     connVars, Pcs, Users
<1>ready. ASSUME NEW t \in Threads, ListenReady(t) PROVE TypeInv'
  BY <1>ready DEF ListenReady, TypeOK, PathTypeOK, AdminOK, acceptVars, adminVars,
     connVars, Pcs, Users, Listening
<1>lock. ASSUME NEW t \in Threads, AcceptLock(t) PROVE TypeInv'
  BY <1>lock DEF AcceptLock, TypeOK, PathTypeOK, AdminOK, adminVars, connVars,
     Pcs, Users, Listening
<1>accept. ASSUME NEW t \in Threads, Accept(t) PROVE TypeInv'
  <2>1. inHand' \in [Threads -> Conns \cup {Nil}] /\ conn' \in [Conns -> ConnStates]
    BY <1>accept DEF Accept, Pending, TypeOK, ConnStates
  <2>2. lock' \in [Threads -> Threads \cup {Nil, Free}]
    BY <1>accept DEF Accept, TypeOK, PathTypeOK
  <2> QED
    BY <1>accept, <2>1, <2>2 DEF Accept, TypeOK, PathTypeOK, AdminOK, adminVars,
       Pcs, Users, Listening
<1>handle. ASSUME NEW t \in Threads, HandleAccepted(t) PROVE TypeInv'
  <2>1. conn' \in [Conns -> ConnStates]
    BY <1>handle DEF HandleAccepted, TypeOK, ConnStates
  <2> QED
    BY <1>handle, <2>1 DEF HandleAccepted, TypeOK, PathTypeOK, AdminOK,
       acceptVars, adminVars, Pcs, Users, Listening
<1>closing. ASSUME NEW t \in Threads, TimerClosing(t) PROVE TypeInv'
  BY <1>closing DEF TimerClosing, TypeOK, PathTypeOK, AdminOK, acceptVars,
     adminVars, connVars
<1>free. ASSUME NEW t \in Threads, TimerFreeBase(t) PROVE TypeInv'
  BY <1>free DEF TimerFreeBase, TypeOK, PathTypeOK, AdminOK, acceptVars,
     adminVars, connVars, Pcs, Users
<1>put. ASSUME NEW t \in Threads, TimerPutSock(t) PROVE TypeInv'
  <2>1. PathTypeOK'
    <3>1. key[t] \in Keys
      BY <1>put DEF TimerPutSock, AdminOK, Users
    <3> QED
      BY <1>put, <3>1, PutType DEF TimerPutSock, TypeOK, PathTypeOK
  <2>2. conn' \in [Conns -> ConnStates]
    BY <1>put DEF TimerPutSock, Refuse, TypeOK, ConnStates
  <2>3. /\ pc' \in [Threads -> Pcs]
        /\ \A u \in Threads : u # t => pc'[u] = pc[u]
        /\ pc'[t] = "deleted" /\ pc[t] = "freed"
    BY <1>put DEF TimerPutSock, TypeOK, Pcs, Dispatch
  <2>4. TypeOK'
    BY <1>put, <2>1, <2>2, <2>3 DEF TimerPutSock, Refuse, TypeOK, adminVars
  <2>5. AdminOK'
    BY <1>put, <2>3 DEF TimerPutSock, AdminOK, adminVars, Users, Listening
  <2> QED
    BY <2>4, <2>5
<1>return. ASSUME NEW t \in Threads, LoopReturn(t) PROVE TypeInv'
  <2>1. /\ pc' \in [Threads -> Pcs]
        /\ \A u \in Threads : u # t => pc'[u] = pc[u]
        /\ pc'[t] \in {"deleted", "exited"} /\ pc[t] = "deleted"
    BY <1>return DEF LoopReturn, TypeOK, Pcs
  <2>2. TypeOK'
    BY <1>return, <2>1 DEF LoopReturn, TypeOK, PathTypeOK, acceptVars, adminVars, connVars
  <2>3. AdminOK'
    BY <1>return, <2>1 DEF LoopReturn, AdminOK, adminVars, Users, Listening
  <2> QED
    BY <2>2, <2>3
<1>connect. ASSUME NEW c \in Conns, NEW k \in Keys, Connect(c, k) PROVE TypeInv'
  BY <1>connect DEF Connect, TypeOK, PathTypeOK, AdminOK, acceptVars, adminVars,
     threadVars, ConnStates
<1>stutter. ASSUME UNCHANGED vars PROVE TypeInv'
  BY <1>stutter DEF vars, TypeOK, PathTypeOK, AdminOK, acceptVars, adminVars,
     threadVars, connVars
<1> QED
  BY <1>cmd, <1>get, <1>created, <1>failed, <1>add, <1>del, <1>mark, <1>done,
     <1>start, <1>ready, <1>lock, <1>accept, <1>handle, <1>closing, <1>free,
     <1>put, <1>return, <1>connect, <1>stutter
  DEF Next, AdminStep, ListenStep, TimerStep

\* Every variable of the threads, their registry and the shared sockets keeps
\* to its type, for any numbers of ports, threads and connections.
THEOREM TypeCorrect == Spec => []TypeOK
<1>1. TypeInv => TypeOK
  BY DEF TypeInv
<1> QED
  BY <1>1, InitTypeInv, NextTypeInv, PTL DEF Spec

-----------------------------------------------------------------------------
(***************************************************************************)
(* The registry of threads of IoThreads holds live threads only and loses  *)
(* none, for any sets of ports, threads and connections.  RegInv is the    *)
(* inductive invariant: the two properties, what is known of the thread a  *)
(* launch is working on, and that a thread frees its information only      *)
(* after the command thread has let go of it.                              *)
(***************************************************************************)

AdminThread ==
  adminPc \in {"create", "add"} =>
    /\ "info" \in heap[adminPtr]
    /\ status[adminPtr] = "use"
    /\ key[adminPtr] = adminKey

Stages ==
  \A t \in Threads :
    /\ pc[t] = "none"  => heap[t] = {}
    /\ pc[t] = "freed" => status[t] = "close"

RegInv == TypeInv /\ RegistryLive /\ NoThreadLost /\ AdminThread /\ Stages

\* The registry holds threads.
LEMMA EntryType ==
  ASSUME TypeInv, NEW k \in Keys, NEW i \in DOMAIN pathPtr[k]
  PROVE  pathPtr[k][i] \in Threads
<1>1. pathPtr[k] \in Seq(Threads)
  BY DEF TypeInv, TypeOK, PathTypeOK
<1>2. DOMAIN pathPtr[k] = 1..Len(pathPtr[k])
  BY <1>1, LenProperties
<1> QED
  BY <1>1, <1>2, ElementOfSeq

\* The registry is empty at the start and no thread runs.
LEMMA InitRegInv == Init => RegInv
<1> SUFFICES ASSUME Init PROVE RegInv
  OBVIOUS
<1>1. TypeInv
  BY InitTypeInv
<1>2. \A k \in Keys : DOMAIN pathPtr[k] = {}
  BY DEF Init, PathInit
<1>3. RegistryLive
  BY <1>2 DEF RegistryLive, Init
<1>4. NoThreadLost /\ Stages /\ AdminThread
  BY DEF NoThreadLost, Stages, AdminThread, Init, Users, Listening
<1> QED
  BY <1>1, <1>3, <1>4 DEF RegInv

\* A step that leaves the registry and the ports of the threads alone, takes
\* nothing from a thread in use and puts no thread in use, keeps the invariant.
LEMMA RegFrame ==
  ASSUME RegInv, TypeInv', UNCHANGED <<pathPtr, adminPtr, key>>,
         adminPc' \in {"create", "add"} =>
           adminPc \in {"create", "add"} /\ adminKey' = adminKey,
         adminPc' = "mark" => adminPc = "mark",
         \A u \in Threads :
           /\ "info" \in heap[u] /\ status[u] = "use" =>
                "info" \in heap'[u] /\ status'[u] = "use"
           /\ pc'[u] \in Users /\ status'[u] = "use" =>
                pc[u] \in Users /\ status[u] = "use"
           /\ pc'[u] = "none"  => heap'[u] = {}
           /\ pc'[u] = "freed" => status'[u] = "close"
  PROVE  RegInv'
<1> USE DEF RegInv
<1>1. adminPc \in {"create", "add", "mark"} => adminPtr \in Threads
  BY DEF TypeInv, AdminOK
<1>2. RegistryLive'
  <2>1. ASSUME NEW k \in Keys, NEW i \in DOMAIN pathPtr[k]
        PROVE  LET t == pathPtr[k][i] IN
               /\ "info" \in heap'[t] /\ status'[t] = "use" /\ key[t] = k
               /\ \A j \in DOMAIN pathPtr[k] : pathPtr[k][j] = t => i = j
               /\ adminPtr # t
    <3>1. pathPtr[k][i] \in Threads
      BY EntryType
    <3> QED
      BY <3>1 DEF RegistryLive
  <2>2. adminPc' = "mark" => "info" \in heap'[adminPtr] /\ status'[adminPtr] = "use"
    BY <1>1 DEF RegistryLive
  <2> QED
    BY <2>1, <2>2 DEF RegistryLive
<1>3. NoThreadLost'
  BY DEF NoThreadLost
<1>4. AdminThread'
  BY <1>1 DEF AdminThread
<1>5. Stages'
  BY DEF Stages
<1> QED
  BY <1>2, <1>3, <1>4, <1>5

\* A launched thread is in the hand of the command thread.
LEMMA RegLaunch ==
  ASSUME RegInv, TypeInv', NEW t \in Threads, LaunchGet(t)
  PROVE  RegInv'
<1> USE DEF RegInv
<1>1. /\ adminPc = "run" /\ adminPtr = Nil /\ adminKey \in Keys /\ pc[t] = "none"
      /\ adminPtr' = t /\ adminPc' = "create" /\ adminKey' = adminKey
      /\ UNCHANGED pathPtr
  BY DEF LaunchGet, TypeInv, AdminOK
<1>2. /\ pc'[t] = "created" /\ heap'[t] = {"info"} /\ status'[t] = "use"
      /\ key'[t] = adminKey
      /\ \A u \in Threads : u # t => /\ pc'[u] = pc[u] /\ heap'[u] = heap[u]
                                     /\ status'[u] = status[u] /\ key'[u] = key[u]
  BY DEF LaunchGet, TypeInv, TypeOK
<1>3. RegistryLive'
  <2>1. ASSUME NEW k \in Keys, NEW i \in DOMAIN pathPtr[k]
        PROVE  LET u == pathPtr[k][i] IN
               /\ "info" \in heap'[u] /\ status'[u] = "use" /\ key'[u] = k
               /\ \A j \in DOMAIN pathPtr[k] : pathPtr[k][j] = u => i = j
               /\ t # u
    <3>1. pathPtr[k][i] \in Threads
      BY EntryType
    <3>2. pathPtr[k][i] # t
      BY <3>1, <1>1 DEF RegistryLive, Stages
    <3> QED
      BY <3>1, <3>2, <1>2 DEF RegistryLive
  <2> QED
    BY <2>1, <1>1 DEF RegistryLive
<1>4. NoThreadLost'
  <2> SUFFICES ASSUME NEW u \in Threads, pc'[u] \in Users, status'[u] = "use"
               PROVE  adminPtr' = u \/ \E i \in DOMAIN pathPtr'[key'[u]] : pathPtr'[key'[u]][i] = u
    BY DEF NoThreadLost
  <2>1. CASE u # t
    <3>1. adminPtr # u
      BY <1>1, NamesAssumption
    <3> QED
      BY <2>1, <3>1, <1>1, <1>2 DEF NoThreadLost
  <2> QED
    BY <2>1, <1>1
<1>5. AdminThread' /\ Stages'
  BY <1>1, <1>2 DEF AdminThread, Stages
<1> QED
  BY <1>3, <1>4, <1>5

\* A failed launch takes apart a thread the registry never held.
LEMMA RegFail == ASSUME RegInv, TypeInv', LaunchFailed PROVE RegInv'
<1> USE DEF RegInv
<1>1. /\ adminPtr \in Threads /\ adminPtr' = Nil /\ adminPc' = "run"
      /\ UNCHANGED <<pathPtr, key, status>>
  BY DEF LaunchFailed, TypeInv, AdminOK
<1>2. /\ pc'[adminPtr] = "discarded" /\ heap'[adminPtr] = {}
      /\ \A u \in Threads : u # adminPtr => pc'[u] = pc[u] /\ heap'[u] = heap[u]
  BY <1>1 DEF LaunchFailed, TypeInv, TypeOK
<1>3. RegistryLive'
  <2>1. ASSUME NEW k \in Keys, NEW i \in DOMAIN pathPtr[k]
        PROVE  LET u == pathPtr[k][i] IN
               /\ "info" \in heap'[u] /\ status[u] = "use" /\ key[u] = k
               /\ \A j \in DOMAIN pathPtr[k] : pathPtr[k][j] = u => i = j
               /\ Nil # u
    <3>1. pathPtr[k][i] \in Threads
      BY EntryType
    <3> QED
      BY <3>1, <1>2, NamesAssumption DEF RegistryLive
  <2> QED
    BY <2>1, <1>1 DEF RegistryLive
<1>4. NoThreadLost'
  BY <1>1, <1>2 DEF NoThreadLost, Users, Listening
<1>5. AdminThread' /\ Stages'
  BY <1>1, <1>2 DEF AdminThread, Stages
<1> QED
  BY <1>3, <1>4, <1>5

\* Registering the launched thread.
LEMMA RegAdd == ASSUME RegInv, TypeInv', LaunchAdd PROVE RegInv'
<1> USE DEF RegInv
<1>1. /\ adminPc = "add" /\ adminPtr \in Threads /\ adminKey \in Keys
      /\ adminPtr' = Nil /\ adminPc' = "run"
      /\ UNCHANGED <<pc, status, key, heap>>
  BY DEF LaunchAdd, TypeInv, AdminOK, threadVars
<1> DEFINE q == pathPtr[adminKey]
<1>2. q \in Seq(Threads) /\ Len(q) \in Nat /\ DOMAIN q = 1..Len(q)
  BY <1>1, LenProperties DEF TypeInv, TypeOK, PathTypeOK
<1>3. \A k \in Keys : pathPtr'[k] = IF k = adminKey THEN Append(q, adminPtr) ELSE pathPtr[k]
  BY <1>1 DEF LaunchAdd, AddPathPtr, TypeInv, TypeOK, PathTypeOK
<1>4. /\ DOMAIN Append(q, adminPtr) = 1..(Len(q) + 1)
      /\ Append(q, adminPtr)[Len(q) + 1] = adminPtr
      /\ \A i \in 1..Len(q) : Append(q, adminPtr)[i] = q[i]
  BY <1>1, <1>2, AppendProperties
<1>5. /\ "info" \in heap[adminPtr] /\ status[adminPtr] = "use" /\ key[adminPtr] = adminKey
  BY <1>1 DEF AdminThread
<1>6. RegistryLive'
  <2>1. ASSUME NEW k \in Keys, NEW i \in DOMAIN pathPtr'[k]
        PROVE  LET u == pathPtr'[k][i] IN
               /\ "info" \in heap[u] /\ status[u] = "use" /\ key[u] = k
               /\ \A j \in DOMAIN pathPtr'[k] : pathPtr'[k][j] = u => i = j
               /\ Nil # u
    <3>1. CASE k # adminKey
      <4>1. pathPtr'[k] = pathPtr[k]
        BY <1>3, <3>1
      <4>2. pathPtr[k][i] \in Threads
        BY <4>1, EntryType
      <4> QED
        BY <4>1, <4>2, NamesAssumption DEF RegistryLive
    <3>2. CASE k = adminKey
      <4>1. pathPtr'[k] = Append(q, adminPtr)
        BY <1>3, <3>2
      <4>2. \A j \in DOMAIN q : /\ q[j] \in Threads /\ "info" \in heap[q[j]]
                                /\ status[q[j]] = "use" /\ key[q[j]] = k
                                /\ adminPtr # q[j]
                                /\ \A l \in DOMAIN q : q[l] = q[j] => j = l
        BY <1>1, <3>2, EntryType DEF RegistryLive
      <4>3. CASE i = Len(q) + 1
        <5>1. pathPtr'[k][i] = adminPtr
          BY <4>1, <4>3, <1>4
        <5>2. \A j \in DOMAIN pathPtr'[k] : pathPtr'[k][j] = adminPtr => i = j
          BY <4>1, <4>2, <4>3, <1>2, <1>4
        <5> QED
          BY <5>1, <5>2, <1>1, <1>5, <3>2, NamesAssumption
      <4>4. CASE i \in 1..Len(q)
        <5>1. pathPtr'[k][i] = q[i] /\ i \in DOMAIN q
          BY <4>1, <4>4, <1>4, <1>2
        <5>2. \A j \in DOMAIN pathPtr'[k] : pathPtr'[k][j] = q[i] => i = j
          BY <4>1, <4>2, <5>1, <1>2, <1>4
        <5> QED
          BY <5>1, <5>2, <4>2, NamesAssumption
      <4> QED
        BY <4>1, <4>3, <4>4, <1>2, <1>4
    <3> QED
      BY <3>1, <3>2
  <2> QED
    BY <2>1, <1>1 DEF RegistryLive
<1>7. NoThreadLost'
  <2> SUFFICES ASSUME NEW u \in Threads, pc[u] \in Users, status[u] = "use"
               PROVE  \E i \in DOMAIN pathPtr'[key[u]] : pathPtr'[key[u]][i] = u
    BY <1>1 DEF NoThreadLost
  <2>k. key[u] \in Keys
    BY DEF TypeInv, AdminOK
  <2>1. CASE u = adminPtr
    <3>1. pathPtr'[key[u]] = Append(q, u)
      BY <2>1, <2>k, <1>3, <1>5
    <3>2. Append(q, u)[Len(q) + 1] = u /\ Len(q) + 1 \in DOMAIN Append(q, u)
      BY <2>1, <1>2, <1>4
    <3> QED
      BY <3>1, <3>2
  <2>2. CASE u # adminPtr
    <3>1. PICK i \in DOMAIN pathPtr[key[u]] : pathPtr[key[u]][i] = u
      BY <2>2 DEF NoThreadLost
    <3>2. CASE key[u] # adminKey
      BY <2>k, <3>1, <3>2, <1>3
    <3>3. CASE key[u] = adminKey
      <4>1. pathPtr'[key[u]] = Append(q, adminPtr)
        BY <2>k, <3>3, <1>3
      <4>2. i \in 1..Len(q) /\ q[i] = u
        BY <3>1, <3>3, <1>2
      <4>3. Append(q, adminPtr)[i] = u /\ i \in DOMAIN Append(q, adminPtr)
        BY <4>2, <1>2, <1>4
      <4> QED
        BY <4>1, <4>3
    <3> QED
      BY <3>2, <3>3
  <2> QED
    BY <2>1, <2>2
<1>8. AdminThread' /\ Stages'
  BY <1>1 DEF AdminThread, Stages
<1> QED
  BY <1>6, <1>7, <1>8

\* A retirement takes the newest thread out of the registry.
LEMMA RegDel == ASSUME RegInv, TypeInv', RetrieveDel PROVE RegInv'
<1> USE DEF RegInv
<1>1. /\ adminPc = "run" /\ adminPtr = Nil /\ adminKey \in Keys
      /\ adminPtr' = NewestPtr(adminKey) /\ DelPathPtr(adminKey)
      /\ adminPc' = IF NewestPtr(adminKey) = Nil THEN "run" ELSE "mark"
      /\ UNCHANGED <<pc, status, key, heap>>
  BY DEF RetrieveDel, TypeInv, AdminOK, threadVars
<1> DEFINE q == pathPtr[adminKey]
           r == SubSeq(q, 1, Len(q) - 1)
<1>2. q \in Seq(Threads)
  BY <1>1 DEF TypeInv, TypeOK, PathTypeOK
<1>5. AdminThread' /\ Stages'
  BY <1>1 DEF AdminThread, Stages
<1>6. CASE q = <<>>
  <2>1. adminPtr' = Nil /\ adminPc' = "run"
    BY <1>1, <1>6 DEF NewestPtr
  <2>2. pathPtr' = pathPtr
    BY <1>1, <1>6 DEF DelPathPtr, TypeInv, TypeOK, PathTypeOK
  <2> QED
    BY <1>1, <1>5, <2>1, <2>2 DEF RegistryLive, NoThreadLost
<1>7. CASE q # <<>>
  <2>1. /\ Len(q) \in Nat \ {0} /\ DOMAIN q = 1..Len(q) /\ Len(q) \in DOMAIN q
        /\ DOMAIN r = 1..(Len(q) - 1)
        /\ \A i \in 1..(Len(q) - 1) : r[i] = q[i]
    <3>1. Len(q) \in Nat \ {0} /\ DOMAIN q = 1..Len(q)
      BY <1>2, <1>7, EmptySeq, LenProperties
    <3>2. /\ r \in Seq(Threads) /\ Len(r) = Len(q) - 1
          /\ Len(q) \in DOMAIN q
          /\ \A i \in 1..(Len(q) - 1) : r[i] = q[i]
      BY <1>2, <1>7, FrontType
    <3>3. DOMAIN r = 1..Len(r)
      BY <3>2, LenProperties
    <3> QED
      BY <3>1, <3>2, <3>3
  <2>2. \A k \in Keys : pathPtr'[k] = IF k = adminKey THEN r ELSE pathPtr[k]
    BY <1>1, <1>7 DEF DelPathPtr, TypeInv, TypeOK, PathTypeOK
  <2>3. PICK t \in Threads : t = q[Len(q)]
    BY <1>2, <2>1, ElementOfSeq
  <2>4. adminPtr' = t /\ t # Nil /\ adminPc' = "mark"
    BY <1>1, <1>7, <2>3, NamesAssumption DEF NewestPtr
  <2>5. /\ "info" \in heap[t] /\ status[t] = "use" /\ key[t] = adminKey
        /\ \A j \in DOMAIN q : q[j] = t => j = Len(q)
    BY <1>1, <2>1, <2>3 DEF RegistryLive
  <2>6. RegistryLive'
    <3>1. ASSUME NEW k \in Keys, NEW i \in DOMAIN pathPtr'[k]
          PROVE  LET u == pathPtr'[k][i] IN
                 /\ "info" \in heap[u] /\ status[u] = "use" /\ key[u] = k
                 /\ \A j \in DOMAIN pathPtr'[k] : pathPtr'[k][j] = u => i = j
                 /\ t # u
      <4>1. CASE k # adminKey
        <5>1. pathPtr'[k] = pathPtr[k]
          BY <2>2, <4>1
        <5> QED
          BY <5>1, <2>5, <4>1 DEF RegistryLive
      <4>2. CASE k = adminKey
        <5>1. pathPtr'[k] = r
          BY <2>2, <4>2
        <5>2. i \in 1..(Len(q) - 1) /\ r[i] = q[i] /\ i \in DOMAIN q /\ i # Len(q)
          BY <2>1, <5>1
        <5>3. /\ "info" \in heap[q[i]] /\ status[q[i]] = "use" /\ key[q[i]] = k
              /\ \A j \in DOMAIN q : q[j] = q[i] => i = j
          BY <4>2, <5>2 DEF RegistryLive
        <5>4. \A j \in DOMAIN r : r[j] = q[i] => i = j
          BY <2>1, <5>3
        <5> QED
          BY <5>1, <5>2, <5>3, <5>4, <2>5
      <4> QED
        BY <4>1, <4>2
    <3>2. "info" \in heap'[adminPtr'] /\ status'[adminPtr'] = "use"
      BY <1>1, <2>4, <2>5
    <3> QED
      BY <3>1, <3>2, <1>1, <2>4 DEF RegistryLive
  <2>7. NoThreadLost'
    <3> SUFFICES ASSUME NEW u \in Threads, pc[u] \in Users, status[u] = "use", u # t
                 PROVE  \E i \in DOMAIN pathPtr'[key[u]] : pathPtr'[key[u]][i] = u
      BY <1>1, <2>4 DEF NoThreadLost
    <3>1. PICK i \in DOMAIN pathPtr[key[u]] : pathPtr[key[u]][i] = u
      BY <1>1, NamesAssumption DEF NoThreadLost
    <3>k. key[u] \in Keys
      BY DEF TypeInv, AdminOK
    <3>2. CASE key[u] # adminKey
      BY <3>k, <3>1, <3>2, <2>2
    <3>3. CASE key[u] = adminKey
      <4>1. pathPtr'[key[u]] = r
        BY <3>k, <3>3, <2>2
      <4>2. i \in DOMAIN q /\ q[i] = u /\ i # Len(q)
        BY <3>1, <3>3, <2>3
      <4>3. i \in DOMAIN r /\ r[i] = u
        BY <4>2, <2>1
      <4> QED
        BY <4>1, <4>3
    <3> QED
      BY <3>2, <3>3
  <2> QED
    BY <1>5, <2>6, <2>7
<1> QED
  BY <1>6, <1>7

\* Telling the retired thread to close, which the registry has forgotten.
LEMMA RegMark == ASSUME RegInv, TypeInv', RetrieveMark PROVE RegInv'
<1> USE DEF RegInv
<1>1. /\ adminPc = "mark" /\ adminPtr \in Threads
      /\ adminPtr' = Nil /\ adminPc' = "run"
      /\ UNCHANGED <<pathPtr, pc, key, heap>>
  BY DEF RetrieveMark, TypeInv, AdminOK
<1>2. /\ status'[adminPtr] = "closing" /\ status[adminPtr] = "use"
      /\ \A u \in Threads : u # adminPtr => status'[u] = status[u]
  BY <1>1 DEF RetrieveMark, TypeInv, TypeOK, RegistryLive
<1>3. RegistryLive'
  <2>1. ASSUME NEW k \in Keys, NEW i \in DOMAIN pathPtr[k]
        PROVE  LET u == pathPtr[k][i] IN
               /\ "info" \in heap[u] /\ status'[u] = "use" /\ key[u] = k
               /\ \A j \in DOMAIN pathPtr[k] : pathPtr[k][j] = u => i = j
               /\ Nil # u
    <3>1. pathPtr[k][i] \in Threads
      BY EntryType
    <3> QED
      BY <3>1, <1>2, NamesAssumption DEF RegistryLive
  <2> QED
    BY <2>1, <1>1 DEF RegistryLive
<1>4. NoThreadLost'
  BY <1>1, <1>2 DEF NoThreadLost
<1>5. AdminThread' /\ Stages'
  BY <1>1, <1>2 DEF AdminThread, Stages
<1> QED
  BY <1>3, <1>4, <1>5

\* Every step of the program keeps the invariant.
LEMMA NextRegInv == RegInv /\ [Next]_vars => RegInv'
<1> SUFFICES ASSUME RegInv, [Next]_vars PROVE RegInv'
  OBVIOUS
<1>t. TypeInv' /\ TypeOK /\ AdminOK /\ Stages
  BY NextTypeInv DEF RegInv, TypeInv
<1>cmd. ASSUME NEW k \in Keys, NEW n \in 0..MaxPerCmd, NEW m \in 0..MaxPerCmd,
               Command(k, n, m)
        PROVE  RegInv'
  BY <1>cmd, <1>t, RegFrame DEF Command, threadVars, Stages
<1>get. ASSUME NEW t \in Threads, LaunchGet(t) PROVE RegInv'
  BY <1>get, <1>t, RegLaunch
<1>created. ASSUME LaunchCreated PROVE RegInv'
  BY <1>created, <1>t, RegFrame
  DEF LaunchCreated, TypeOK, AdminOK, Stages, Users, Listening
<1>failed. ASSUME LaunchFailed PROVE RegInv'
  BY <1>failed, <1>t, RegFail
<1>add. ASSUME LaunchAdd PROVE RegInv'
  BY <1>add, <1>t, RegAdd
<1>del. ASSUME RetrieveDel PROVE RegInv'
  BY <1>del, <1>t, RegDel
<1>mark. ASSUME RetrieveMark PROVE RegInv'
  BY <1>mark, <1>t, RegMark
<1>done. ASSUME CommandDone PROVE RegInv'
  BY <1>done, <1>t, RegFrame DEF CommandDone, threadVars, Stages
<1>start. ASSUME NEW t \in Threads, StartLoop(t) PROVE RegInv'
  BY <1>start, <1>t, RegFrame
  DEF StartLoop, TypeOK, Stages, Users, Listening, adminVars
<1>ready. ASSUME NEW t \in Threads, ListenReady(t) PROVE RegInv'
  BY <1>ready, <1>t, RegFrame
  DEF ListenReady, TypeOK, Stages, Users, Listening, adminVars
<1>lock. ASSUME NEW t \in Threads, AcceptLock(t) PROVE RegInv'
  BY <1>lock, <1>t, RegFrame
  DEF AcceptLock, TypeOK, Stages, Users, Listening, adminVars
<1>accept. ASSUME NEW t \in Threads, Accept(t) PROVE RegInv'
  BY <1>accept, <1>t, RegFrame
  DEF Accept, TypeOK, Stages, Users, Listening, adminVars
<1>handle. ASSUME NEW t \in Threads, HandleAccepted(t) PROVE RegInv'
  BY <1>handle, <1>t, RegFrame
  DEF HandleAccepted, TypeOK, Stages, Users, Listening, adminVars
<1>closing. ASSUME NEW t \in Threads, TimerClosing(t) PROVE RegInv'
  BY <1>closing, <1>t, RegFrame
  DEF TimerClosing, TypeOK, Stages, Users, Listening, adminVars
<1>free. ASSUME NEW t \in Threads, TimerFreeBase(t) PROVE RegInv'
  BY <1>free, <1>t, RegFrame
  DEF TimerFreeBase, TypeOK, Stages, Users, Listening, adminVars
<1>put. ASSUME NEW t \in Threads, TimerPutSock(t) PROVE RegInv'
  BY <1>put, <1>t, RegFrame
  DEF TimerPutSock, TypeOK, Stages, Users, Listening, adminVars
<1>return. ASSUME NEW t \in Threads, LoopReturn(t) PROVE RegInv'
  <2>1. /\ pc[t] = "deleted" /\ pc'[t] \in {"deleted", "exited"}
        /\ \A u \in Threads : u # t => pc'[u] = pc[u]
        /\ UNCHANGED <<pathPtr, adminVars, key, heap, status>>
    BY <1>return, <1>t DEF LoopReturn, TypeOK
  <2> QED
    BY <2>1, <1>t, RegFrame DEF Stages, Users, Listening, adminVars
<1>connect. ASSUME NEW c \in Conns, NEW k \in Keys, Connect(c, k) PROVE RegInv'
  BY <1>connect, <1>t, RegFrame DEF Connect, threadVars, adminVars, Stages
<1>stutter. ASSUME UNCHANGED vars PROVE RegInv'
  BY <1>stutter, <1>t, RegFrame DEF vars, threadVars, adminVars, Stages
<1> QED
  BY <1>cmd, <1>get, <1>created, <1>failed, <1>add, <1>del, <1>mark, <1>done,
     <1>start, <1>ready, <1>lock, <1>accept, <1>handle, <1>closing, <1>free,
     <1>put, <1>return, <1>connect, <1>stutter
  DEF Next, AdminStep, ListenStep, TimerStep

\* Writing thread_status through a registered pointer, or through the one a
\* retirement has taken, never touches freed memory nor a retired thread.
THEOREM RegistryCorrect == Spec => []RegistryLive
<1>1. RegInv => RegistryLive
  BY DEF RegInv
<1> QED
  BY <1>1, InitRegInv, NextRegInv, PTL DEF Spec

\* A thread that runs and has not been told to close can always still be
\* retired: the registry or the command thread has its pointer.
THEOREM NoThreadLostCorrect == Spec => []NoThreadLost
<1>1. RegInv => NoThreadLost
  BY DEF RegInv
<1> QED
  BY <1>1, InitRegInv, NextRegInv, PTL DEF Spec

-----------------------------------------------------------------------------
(***************************************************************************)
(* The shared listening sockets of IoThreads are counted exactly, outlive  *)
(* their users and are accepted on by one thread at a time, for any sets   *)
(* of ports, threads and connections.  SockInv is the inductive invariant: *)
(* the three properties, and that the entries of two ports never share a   *)
(* socket nor hold one that an unlaunched thread has still to create.      *)
(***************************************************************************)

EntriesDistinct ==
  \A k \in Keys : acceptSd[k] # Nil =>
    /\ pc[acceptSd[k]] # "none"
    /\ \A j \in Keys : acceptSd[j] = acceptSd[k] => j = k

SockInv ==
  TypeInv /\ RefCountExact /\ SharedSocketAlive /\ AcceptExclusive
    /\ EntriesDistinct

\* The users of a port are finitely many, so they can be counted.
LEMMA UsersFinite ==
  ASSUME NEW k PROVE IsFiniteSet(UsersOf(k)) /\ Cardinality(UsersOf(k)) \in Nat
<1>1. UsersOf(k) \subseteq Threads
  BY DEF UsersOf
<1> QED
  BY <1>1, NamesAssumption, FS_Subset, FS_CardinalityType

\* A user that finds at most one user is that one.
LEMMA LastUser ==
  ASSUME NEW k, NEW t \in UsersOf(k)
  PROVE  /\ Cardinality(UsersOf(k) \ {t}) = Cardinality(UsersOf(k)) - 1
         /\ Cardinality(UsersOf(k)) >= 1
         /\ Cardinality(UsersOf(k)) <= 1 => UsersOf(k) \ {t} = {}
         /\ Cardinality(UsersOf(k)) > 1 => UsersOf(k) \ {t} # {}
<1>1. IsFiniteSet(UsersOf(k)) /\ Cardinality(UsersOf(k)) \in Nat
  BY UsersFinite
<1>2. /\ IsFiniteSet(UsersOf(k) \ {t})
      /\ Cardinality(UsersOf(k) \ {t}) = Cardinality(UsersOf(k)) - 1
  BY <1>1, FS_RemoveElement
<1>3. Cardinality(UsersOf(k) \ {t}) \in Nat
  BY <1>2, FS_CardinalityType
<1>4. Cardinality(UsersOf(k) \ {t}) = 0 <=> UsersOf(k) \ {t} = {}
  BY <1>2, FS_EmptySet
<1> QED
  BY <1>1, <1>2, <1>3, <1>4

\* No step of the program is taken in Init: nothing is shared yet.
LEMMA InitSockInv == Init => SockInv
<1> SUFFICES ASSUME Init PROVE SockInv
  OBVIOUS
<1>1. TypeInv
  BY InitTypeInv
<1>2. \A k \in Keys : UsersOf(k) = {}
  BY DEF Init, UsersOf, Users, Listening
<1>3. RefCountExact
  BY <1>2, FS_EmptySet DEF RefCountExact, Init, PathInit
<1>4. SharedSocketAlive
  BY DEF SharedSocketAlive, Init, Users, Listening
<1>5. AcceptExclusive
  BY NamesAssumption DEF AcceptExclusive, Init, PathInit
<1>6. EntriesDistinct
  BY DEF EntriesDistinct, Init, PathInit
<1> QED
  BY <1>1, <1>3, <1>4, <1>5, <1>6 DEF SockInv

\* A step that leaves the shared objects alone, and no thread begins or stops
\* using them or accepting, keeps the invariant.
LEMMA SockFrame ==
  ASSUME SockInv, TypeInv', UNCHANGED <<acceptVars, key, sd>>,
         \A u \in Threads : /\ pc'[u] \in Users <=> pc[u] \in Users
                            /\ pc'[u] = "accepting" <=> pc[u] = "accepting"
                            /\ pc'[u] = "none" => pc[u] = "none"
  PROVE  SockInv'
<1> USE DEF acceptVars
<1>1. \A k \in Keys : UsersOf(k)' = UsersOf(k)
  BY DEF UsersOf
<1>2. RefCountExact'
  BY <1>1 DEF RefCountExact, SockInv
<1>3. SharedSocketAlive'
  BY DEF SharedSocketAlive, SockInv
<1>4. AcceptExclusive'
  BY DEF AcceptExclusive, SockInv
<1>5. EntriesDistinct'
  BY DEF EntriesDistinct, SockInv, TypeInv, TypeOK, PathTypeOK
<1> QED
  BY <1>2, <1>3, <1>4, <1>5 DEF SockInv

\* Giving the entry of a port back by a thread that stops using it.
LEMMA SockLeave ==
  ASSUME SockInv, TypeInv', NEW t \in Threads, pc[t] \in Users,
         pc[t] # "accepting",
         PutPathListenSock(key[t]), UNCHANGED <<key, sd>>,
         pc'[t] \notin Users, pc'[t] # "none",
         \A u \in Threads : u # t => pc'[u] = pc[u]
  PROVE  SockInv'
<1> USE DEF SockInv
<1>p. PICK k \in Keys : k = key[t]
  BY DEF TypeInv, AdminOK
<1>k. k \in Keys /\ k = key[t] /\ t \in UsersOf(k)
  BY <1>p DEF UsersOf
<1>u. /\ UsersOf(k)' = UsersOf(k) \ {t}
      /\ \A j \in Keys \ {k} : UsersOf(j)' = UsersOf(j)
  BY <1>k DEF UsersOf
<1>c. useNum[k] = Cardinality(UsersOf(k)) /\ acceptSd[k] # Nil
  BY <1>k DEF RefCountExact
<1>e. acceptSd[k] \in Threads
  BY <1>k, <1>c DEF TypeInv, TypeOK, PathTypeOK
<1>listening. "accepting" \in Users /\ "accepting" # "none"
  BY DEF Users, Listening
<1>1. CASE IsLastUse(k)
  <2>1. /\ sock'     = [sock EXCEPT ![acceptSd[k]] = IF @ = "failed" THEN @ ELSE "closed"]
        /\ lock'     = [lock EXCEPT ![acceptSd[k]] = Nil]
        /\ acceptSd' = [acceptSd EXCEPT ![k] = Nil]
        /\ useNum'   = [useNum EXCEPT ![k] = 0]
    BY <1>1, <1>c, <1>k DEF PutPathListenSock
  <2>2. UsersOf(k)' = {} /\ Cardinality(UsersOf(k)') = 0
    <3>1. Cardinality(UsersOf(k)) \in Nat
      BY UsersFinite
    <3>2. Cardinality(UsersOf(k)) <= 1
      BY <1>1, <1>c, <3>1 DEF IsLastUse
    <3> QED
      BY <1>k, <1>u, <3>2, LastUser, FS_EmptySet
  <2>3. RefCountExact'
    <3> SUFFICES ASSUME NEW j \in Keys
                 PROVE  /\ useNum'[j] = Cardinality(UsersOf(j)')
                        /\ acceptSd'[j] = Nil <=> UsersOf(j)' = {}
      BY DEF RefCountExact
    <3>1. CASE j = k
      BY <2>1, <2>2, <3>1, <1>k, <1>c DEF TypeInv, TypeOK, PathTypeOK
    <3>2. CASE j # k
      BY <2>1, <1>u, <1>k, <3>2 DEF RefCountExact, TypeInv, TypeOK, PathTypeOK
    <3> QED
      BY <3>1, <3>2
  <2>4. \A u \in Threads : pc'[u] \in Users =>
           u # t /\ key[u] # k /\ key[u] \in Keys /\ pc[u] \in Users
    BY <2>2, <1>k DEF UsersOf, TypeInv, AdminOK
  <2>5. \A u \in Threads : pc'[u] \in Users =>
           /\ sd[u] = acceptSd[key[u]] /\ acceptSd'[key[u]] = sd[u]
           /\ sd[u] # acceptSd[k]
    BY <2>1, <2>4, <1>k, <1>c DEF SharedSocketAlive, EntriesDistinct, TypeInv, TypeOK, PathTypeOK
  <2>6. SharedSocketAlive'
    <3> SUFFICES ASSUME NEW u \in Threads, pc'[u] \in Users
                 PROVE  /\ sd[u] = acceptSd'[key[u]]
                        /\ sock'[sd[u]] \in {"open", "stray", "failed"}
                        /\ lock'[sd[u]] # Nil
      BY DEF SharedSocketAlive
    <3>1. sd[u] # acceptSd[k] /\ sd[u] = acceptSd'[key[u]]
      BY <2>5
    <3>2. sock[sd[u]] \in {"open", "stray", "failed"} /\ lock[sd[u]] # Nil
      BY <2>4 DEF SharedSocketAlive
    <3>3. sd[u] \in Threads
      BY <2>4, <2>5, <3>2, <2>1, <1>e DEF TypeInv, TypeOK, PathTypeOK, SharedSocketAlive, RefCountExact, UsersOf
    <3> QED
      BY <2>1, <3>1, <3>2, <3>3, <1>e DEF TypeInv, TypeOK, PathTypeOK
  <2>7. AcceptExclusive'
    <3> SUFFICES ASSUME NEW u \in Threads, NEW s \in Threads
                 PROVE  lock'[s] = u <=> pc'[u] = "accepting" /\ sd[u] = s
      BY DEF AcceptExclusive
    <3>1. pc'[u] = "accepting" <=> pc[u] = "accepting"
      BY <1>listening
    <3>2. CASE s = acceptSd[k]
      <4>1. lock'[s] # u
        BY <2>1, <3>2, NamesAssumption DEF TypeInv, TypeOK, PathTypeOK
      <4>2. ~ (pc'[u] = "accepting" /\ sd[u] = s)
        BY <2>5, <3>2, <1>listening
      <4> QED
        BY <4>1, <4>2
    <3>3. CASE s # acceptSd[k]
      BY <2>1, <3>1, <3>3 DEF AcceptExclusive, TypeInv, TypeOK, PathTypeOK
    <3> QED
      BY <3>2, <3>3
  <2>8. EntriesDistinct'
    BY <2>1, <1>k DEF EntriesDistinct, TypeInv, TypeOK, PathTypeOK
  <2> QED
    BY <2>3, <2>6, <2>7, <2>8
<1>2. CASE ~ IsLastUse(k)
  <2>1. useNum' = [useNum EXCEPT ![k] = @ - 1] /\ UNCHANGED <<acceptSd, sock, lock>>
    BY <1>2, <1>c, <1>k DEF PutPathListenSock
  <2>2. UsersOf(k)' # {} /\ Cardinality(UsersOf(k)') = useNum[k] - 1
    <3>1. Cardinality(UsersOf(k)) \in Nat
      BY UsersFinite
    <3>2. Cardinality(UsersOf(k)) > 1
      BY <1>2, <1>c, <3>1 DEF IsLastUse
    <3> QED
      BY <1>k, <1>u, <1>c, <3>2, LastUser
  <2>3. RefCountExact'
    <3> SUFFICES ASSUME NEW j \in Keys
                 PROVE  /\ useNum'[j] = Cardinality(UsersOf(j)')
                        /\ acceptSd'[j] = Nil <=> UsersOf(j)' = {}
      BY DEF RefCountExact
    <3>1. CASE j = k
      BY <2>1, <2>2, <3>1, <1>k, <1>c DEF TypeInv, TypeOK, PathTypeOK
    <3>2. CASE j # k
      BY <2>1, <1>u, <1>k, <3>2 DEF RefCountExact, TypeInv, TypeOK, PathTypeOK
    <3> QED
      BY <3>1, <3>2
  <2>4. SharedSocketAlive'
    BY <2>1 DEF SharedSocketAlive
  <2>5. AcceptExclusive'
    BY <2>1, <1>listening DEF AcceptExclusive
  <2>6. EntriesDistinct'
    BY <2>1 DEF EntriesDistinct, TypeInv, TypeOK, PathTypeOK
  <2> QED
    BY <2>3, <2>4, <2>5, <2>6
<1> QED
  BY <1>1, <1>2

\* A launch takes the entry of its port, or makes one with its own objects.
LEMMA SockJoin ==
  ASSUME SockInv, TypeInv', NEW t \in Threads, LaunchGet(t)
  PROVE  SockInv'
<1> USE DEF SockInv
<1>p. PICK k \in Keys : k = adminKey
  BY DEF LaunchGet, TypeInv, AdminOK
<1>1. /\ pc[t] = "none" /\ pc' = [pc EXCEPT ![t] = "created"]
      /\ key' = [key EXCEPT ![t] = k]
      /\ sd' = [sd EXCEPT ![t] = acceptSd'[k]]
      /\ GetPathListenSock(k, t)
  BY <1>p DEF LaunchGet
<1>2. "created" \in Users /\ "none" \notin Users /\ "accepting" \in Users
  BY DEF Users, Listening
<1>3. /\ pc'[t] = "created" /\ key'[t] = k /\ sd'[t] = acceptSd'[k]
      /\ \A u \in Threads \ {t} : pc'[u] = pc[u] /\ key'[u] = key[u] /\ sd'[u] = sd[u]
  BY <1>1 DEF TypeInv, TypeOK
<1>u. /\ t \notin UsersOf(k) /\ UsersOf(k)' = UsersOf(k) \cup {t}
      /\ \A j \in Keys \ {k} : UsersOf(j)' = UsersOf(j)
  BY <1>1, <1>2, <1>3 DEF UsersOf
<1>c. Cardinality(UsersOf(k)') = Cardinality(UsersOf(k)) + 1
  BY <1>u, UsersFinite, FS_AddElement
<1>4. CASE acceptSd[k] # Nil
  <2>1. useNum' = [useNum EXCEPT ![k] = @ + 1] /\ UNCHANGED <<acceptSd, sock, lock>>
    BY <1>1, <1>4 DEF GetPathListenSock
  <2>2. RefCountExact'
    <3> SUFFICES ASSUME NEW j \in Keys
                 PROVE  /\ useNum'[j] = Cardinality(UsersOf(j)')
                        /\ acceptSd'[j] = Nil <=> UsersOf(j)' = {}
      BY DEF RefCountExact
    <3>1. CASE j = k
      BY <2>1, <1>u, <1>c, <1>4, <3>1 DEF RefCountExact, TypeInv, TypeOK, PathTypeOK
    <3>2. CASE j # k
      BY <2>1, <1>u, <3>2 DEF RefCountExact, TypeInv, TypeOK, PathTypeOK
    <3> QED
      BY <3>1, <3>2
  <2>3. PICK v \in UsersOf(k) : TRUE
    BY <1>4 DEF RefCountExact
  <2>4. /\ sock[acceptSd[k]] \in {"open", "stray", "failed"}
        /\ lock[acceptSd[k]] # Nil
    BY <2>3 DEF SharedSocketAlive, UsersOf
  <2>5. SharedSocketAlive'
    BY <2>1, <2>4, <1>3 DEF SharedSocketAlive
  <2>6. AcceptExclusive'
    BY <2>1, <1>1, <1>3 DEF AcceptExclusive
  <2>7. EntriesDistinct'
    BY <2>1, <1>3 DEF EntriesDistinct, TypeInv, TypeOK, PathTypeOK
  <2> QED
    BY <2>2, <2>5, <2>6, <2>7
<1>5. CASE acceptSd[k] = Nil
  <2>1. /\ \E r \in {"open", "stray", "failed"} : sock' = [sock EXCEPT ![t] = r]
        /\ lock'     = [lock EXCEPT ![t] = Free]
        /\ acceptSd' = [acceptSd EXCEPT ![k] = t]
        /\ useNum'   = [useNum EXCEPT ![k] = 1]
    BY <1>1, <1>5 DEF GetPathListenSock, InitListenSocket
  <2>2. UsersOf(k) = {} /\ Cardinality(UsersOf(k)) = 0
    BY <1>5, FS_EmptySet DEF RefCountExact
  <2>n. t # Nil /\ Free # Nil /\ \A u \in Threads : u # Free
    BY NamesAssumption
  <2>3. RefCountExact'
    <3> SUFFICES ASSUME NEW j \in Keys
                 PROVE  /\ useNum'[j] = Cardinality(UsersOf(j)')
                        /\ acceptSd'[j] = Nil <=> UsersOf(j)' = {}
      BY DEF RefCountExact
    <3>1. CASE j = k
      <4>1. useNum'[k] = 1 /\ acceptSd'[k] # Nil
        BY <2>1, <2>n DEF TypeInv, TypeOK, PathTypeOK
      <4>2. Cardinality(UsersOf(k)') = 1
        BY <2>2, <1>c
      <4>3. UsersOf(k)' # {}
        BY <1>u
      <4> QED
        BY <4>1, <4>2, <4>3, <3>1
    <3>2. CASE j # k
      <4>1. useNum'[j] = useNum[j] /\ acceptSd'[j] = acceptSd[j]
        BY <2>1, <3>2 DEF TypeInv, TypeOK, PathTypeOK
      <4>2. UsersOf(j)' = UsersOf(j)
        BY <1>u, <3>2
      <4> QED
        BY <4>1, <4>2 DEF RefCountExact
    <3> QED
      BY <3>1, <3>2
  <2>4. \A u \in Threads \ {t} : pc[u] \in Users =>
           /\ key[u] \in Keys /\ key[u] # k
           /\ sd[u] = acceptSd[key[u]] /\ acceptSd[key[u]] # t
    <3> SUFFICES ASSUME NEW u \in Threads, u # t, pc[u] \in Users
                 PROVE  /\ key[u] \in Keys /\ key[u] # k
                        /\ sd[u] = acceptSd[key[u]] /\ acceptSd[key[u]] # t
      OBVIOUS
    <3>1. key[u] \in Keys /\ u \in UsersOf(key[u])
      BY DEF TypeInv, AdminOK, UsersOf
    <3>2. key[u] # k /\ acceptSd[key[u]] # Nil
      BY <3>1, <2>2 DEF RefCountExact
    <3> QED
      BY <3>1, <3>2, <1>1 DEF SharedSocketAlive, EntriesDistinct
  <2>5. SharedSocketAlive'
    <3> SUFFICES ASSUME NEW u \in Threads, pc'[u] \in Users
                 PROVE  /\ sd'[u] = acceptSd'[key'[u]]
                        /\ sock'[sd'[u]] \in {"open", "stray", "failed"}
                        /\ lock'[sd'[u]] # Nil
      BY DEF SharedSocketAlive
    <3>1. CASE u = t
      BY <2>1, <2>n, <1>3, <3>1 DEF TypeInv, TypeOK, PathTypeOK
    <3>2. CASE u # t
      <4>1. /\ sd'[u] = sd[u] /\ key'[u] = key[u] /\ pc[u] \in Users
        BY <1>3, <3>2
      <4>2. sd[u] = acceptSd'[key[u]] /\ sd[u] # t
        BY <2>1, <2>4, <3>2, <4>1 DEF TypeInv, TypeOK, PathTypeOK
      <4>3. sock[sd[u]] \in {"open", "stray", "failed"} /\ lock[sd[u]] # Nil
        BY <4>1 DEF SharedSocketAlive
      <4>4. sock'[sd[u]] = sock[sd[u]] /\ lock'[sd[u]] = lock[sd[u]]
        BY <2>1, <4>2, <2>4, <3>2, <4>1, <1>1 DEF TypeInv, TypeOK, PathTypeOK
      <4> QED
        BY <4>1, <4>2, <4>3, <4>4
    <3> QED
      BY <3>1, <3>2
  <2>6. AcceptExclusive'
    <3> SUFFICES ASSUME NEW u \in Threads, NEW s \in Threads
                 PROVE  lock'[s] = u <=> pc'[u] = "accepting" /\ sd'[u] = s
      BY DEF AcceptExclusive
    <3>1. CASE s = t
      <4>1. lock'[s] # u
        BY <2>1, <2>n, <3>1 DEF TypeInv, TypeOK, PathTypeOK
      <4>2. ~ (pc'[u] = "accepting" /\ sd'[u] = s)
        BY <2>4, <3>1, <1>2, <1>3
      <4> QED
        BY <4>1, <4>2
    <3>2. CASE s # t
      <4>1. lock'[s] = lock[s]
        BY <2>1, <3>2 DEF TypeInv, TypeOK, PathTypeOK
      <4>2. lock[s] = u <=> pc[u] = "accepting" /\ sd[u] = s
        BY DEF AcceptExclusive
      <4> QED
        BY <4>1, <4>2, <1>1, <1>3
    <3> QED
      BY <3>1, <3>2
  <2>7. EntriesDistinct'
    <3> SUFFICES ASSUME NEW j \in Keys, acceptSd'[j] # Nil
                 PROVE  /\ pc'[acceptSd'[j]] # "none"
                        /\ \A i \in Keys : acceptSd'[i] = acceptSd'[j] => i = j
      BY DEF EntriesDistinct
    <3>1. \A i \in Keys : acceptSd'[i] = IF i = k THEN t ELSE acceptSd[i]
      BY <2>1 DEF TypeInv, TypeOK, PathTypeOK
    <3>2. \A i \in Keys : acceptSd[i] # t
      BY <1>1, <2>n DEF EntriesDistinct
    <3>3. acceptSd'[j] \in Threads
      BY <3>1 DEF TypeInv, TypeOK, PathTypeOK
    <3> QED
      BY <3>1, <3>2, <3>3, <1>3, <1>1 DEF EntriesDistinct
  <2> QED
    BY <2>3, <2>5, <2>6, <2>7
<1> QED
  BY <1>4, <1>5

\* Every step of the program keeps the invariant.
LEMMA NextSockInv == SockInv /\ [Next]_vars => SockInv'
<1> SUFFICES ASSUME SockInv, [Next]_vars PROVE SockInv'
  OBVIOUS
<1> USE DEF SockInv
<1>t. TypeInv'
  BY NextTypeInv
<1>pcs. TypeOK /\ AdminOK
  BY DEF TypeInv
<1>cmd. ASSUME NEW k \in Keys, NEW n \in 0..MaxPerCmd, NEW m \in 0..MaxPerCmd,
               Command(k, n, m)
        PROVE  SockInv'
  BY <1>cmd, <1>t, SockFrame DEF Command, threadVars
<1>get. ASSUME NEW t \in Threads, LaunchGet(t) PROVE SockInv'
  BY <1>get, <1>t, SockJoin
<1>created. ASSUME LaunchCreated PROVE SockInv'
  BY <1>created, <1>t, <1>pcs, SockFrame
  DEF LaunchCreated, TypeOK, AdminOK, Users, Listening
<1>failed. ASSUME LaunchFailed PROVE SockInv'
  <2>1. adminPtr \in Threads /\ pc[adminPtr] = "created"
    BY <1>failed, <1>pcs DEF LaunchFailed, AdminOK
  <2>2. PICK t \in Threads : t = adminPtr
    BY <2>1
  <2>3. /\ pc'[t] = "discarded" /\ \A u \in Threads : u # t => pc'[u] = pc[u]
        /\ PutPathListenSock(key[t]) /\ UNCHANGED <<key, sd>>
    BY <1>failed, <1>pcs, <2>2 DEF LaunchFailed, TypeOK
  <2> QED
    BY <2>1, <2>2, <2>3, <1>t, SockLeave DEF Users, Listening
<1>add. ASSUME LaunchAdd PROVE SockInv'
  BY <1>add, <1>t, SockFrame DEF LaunchAdd, threadVars
<1>del. ASSUME RetrieveDel PROVE SockInv'
  BY <1>del, <1>t, SockFrame DEF RetrieveDel, threadVars
<1>mark. ASSUME RetrieveMark PROVE SockInv'
  BY <1>mark, <1>t, SockFrame DEF RetrieveMark
<1>done. ASSUME CommandDone PROVE SockInv'
  BY <1>done, <1>t, SockFrame DEF CommandDone, threadVars
<1>start. ASSUME NEW t \in Threads, StartLoop(t) PROVE SockInv'
  BY <1>start, <1>t, <1>pcs, SockFrame DEF StartLoop, TypeOK, Users, Listening
<1>ready. ASSUME NEW t \in Threads, ListenReady(t) PROVE SockInv'
  BY <1>ready, <1>t, <1>pcs, SockFrame DEF ListenReady, TypeOK, Users, Listening
<1>lock. ASSUME NEW t \in Threads, AcceptLock(t) PROVE SockInv'
  <2>1. /\ pc[t] = "locking" /\ lock[sd[t]] = Free
        /\ lock' = [lock EXCEPT ![sd[t]] = t]
        /\ pc' = [pc EXCEPT ![t] = "accepting"]
        /\ UNCHANGED <<acceptSd, useNum, sock, key, sd>>
    BY <1>lock DEF AcceptLock
  <2>2. pc'[t] = "accepting" /\ \A u \in Threads : u # t => pc'[u] = pc[u]
    BY <2>1, <1>pcs DEF TypeOK
  <2>3. \A u \in Threads : pc'[u] \in Users <=> pc[u] \in Users
    BY <2>1, <2>2 DEF Users, Listening
  <2>4. sd[t] \in Threads
    <3>1. key[t] \in Keys /\ t \in UsersOf(key[t]) /\ sd[t] = acceptSd[key[t]]
      BY <2>1, <1>pcs DEF AdminOK, UsersOf, Users, Listening, SharedSocketAlive
    <3> QED
      BY <3>1, <1>pcs DEF RefCountExact, TypeOK, PathTypeOK
  <2>5. \A s \in Threads : lock'[s] = IF s = sd[t] THEN t ELSE lock[s]
    BY <2>1, <1>pcs DEF TypeOK, PathTypeOK
  <2>6. RefCountExact'
    <3>1. \A k \in Keys : UsersOf(k)' = UsersOf(k)
      BY <2>1, <2>3 DEF UsersOf
    <3> QED
      BY <2>1, <3>1 DEF RefCountExact
  <2>7. SharedSocketAlive'
    <3> SUFFICES ASSUME NEW u \in Threads, pc'[u] \in Users
                 PROVE  /\ sd'[u] = acceptSd'[key'[u]]
                        /\ sock'[sd'[u]] \in {"open", "stray", "failed"}
                        /\ lock'[sd'[u]] # Nil
      BY DEF SharedSocketAlive
    <3>1. pc[u] \in Users /\ sd[u] = acceptSd[key[u]] /\ lock[sd[u]] # Nil
          /\ sock[sd[u]] \in {"open", "stray", "failed"}
      BY <2>3 DEF SharedSocketAlive
    <3>2. key[u] \in Keys /\ u \in UsersOf(key[u])
      BY <3>1, <1>pcs DEF AdminOK, UsersOf
    <3>3. sd[u] \in Threads
      BY <3>1, <3>2, <1>pcs DEF RefCountExact, TypeOK, PathTypeOK
    <3> QED
      BY <2>1, <2>5, <3>1, <3>3, NamesAssumption
  <2>8. AcceptExclusive'
    BY <2>1, <2>2, <2>5, NamesAssumption DEF AcceptExclusive
  <2>9. EntriesDistinct'
    BY <2>1, <2>2, <1>pcs DEF EntriesDistinct, TypeOK, PathTypeOK
  <2> QED
    BY <1>t, <2>6, <2>7, <2>8, <2>9
<1>accept. ASSUME NEW t \in Threads, Accept(t) PROVE SockInv'
  <2>1. /\ pc[t] = "accepting"
        /\ lock' = [lock EXCEPT ![sd[t]] = Free]
        /\ pc' = [pc EXCEPT ![t] = "accepted"]
        /\ UNCHANGED <<acceptSd, useNum, sock, key, sd>>
    BY <1>accept DEF Accept
  <2>2. pc'[t] = "accepted" /\ \A u \in Threads : u # t => pc'[u] = pc[u]
    BY <2>1, <1>pcs DEF TypeOK
  <2>3. \A u \in Threads : pc'[u] \in Users <=> pc[u] \in Users
    BY <2>1, <2>2 DEF Users, Listening
  <2>4. \A s \in Threads : lock'[s] = IF s = sd[t] THEN Free ELSE lock[s]
    BY <2>1, <1>pcs DEF TypeOK, PathTypeOK
  <2>5. RefCountExact'
    <3>1. \A k \in Keys : UsersOf(k)' = UsersOf(k)
      BY <2>1, <2>3 DEF UsersOf
    <3> QED
      BY <2>1, <3>1 DEF RefCountExact
  <2>6. SharedSocketAlive'
    <3> SUFFICES ASSUME NEW u \in Threads, pc'[u] \in Users
                 PROVE  /\ sd'[u] = acceptSd'[key'[u]]
                        /\ sock'[sd'[u]] \in {"open", "stray", "failed"}
                        /\ lock'[sd'[u]] # Nil
      BY DEF SharedSocketAlive
    <3>1. pc[u] \in Users /\ sd[u] = acceptSd[key[u]] /\ lock[sd[u]] # Nil
          /\ sock[sd[u]] \in {"open", "stray", "failed"}
      BY <2>3 DEF SharedSocketAlive
    <3>2. key[u] \in Keys /\ u \in UsersOf(key[u])
      BY <3>1, <1>pcs DEF AdminOK, UsersOf
    <3>3. sd[u] \in Threads
      BY <3>1, <3>2, <1>pcs DEF RefCountExact, TypeOK, PathTypeOK
    <3> QED
      BY <2>1, <2>4, <3>1, <3>3, NamesAssumption
  <2>7. AcceptExclusive'
    BY <2>1, <2>2, <2>4, NamesAssumption DEF AcceptExclusive
  <2>8. EntriesDistinct'
    BY <2>1, <2>2, <1>pcs DEF EntriesDistinct, TypeOK, PathTypeOK
  <2> QED
    BY <1>t, <2>5, <2>6, <2>7, <2>8
<1>handle. ASSUME NEW t \in Threads, HandleAccepted(t) PROVE SockInv'
  BY <1>handle, <1>t, <1>pcs, SockFrame DEF HandleAccepted, TypeOK, Users, Listening
<1>closing. ASSUME NEW t \in Threads, TimerClosing(t) PROVE SockInv'
  BY <1>closing, <1>t, SockFrame DEF TimerClosing
<1>free. ASSUME NEW t \in Threads, TimerFreeBase(t) PROVE SockInv'
  BY <1>free, <1>t, <1>pcs, SockFrame DEF TimerFreeBase, TypeOK, Users, Listening
<1>put. ASSUME NEW t \in Threads, TimerPutSock(t) PROVE SockInv'
  <2>1. /\ pc[t] = "freed" /\ pc'[t] = "deleted"
        /\ \A u \in Threads : u # t => pc'[u] = pc[u]
        /\ PutPathListenSock(key[t]) /\ UNCHANGED <<key, sd>>
    BY <1>put, <1>pcs DEF TimerPutSock, TypeOK
  <2> QED
    BY <2>1, <1>t, SockLeave DEF Users, Listening
<1>return. ASSUME NEW t \in Threads, LoopReturn(t) PROVE SockInv'
  <2>1. /\ pc[t] = "deleted" /\ pc'[t] \in {"deleted", "exited"}
        /\ \A u \in Threads : u # t => pc'[u] = pc[u]
        /\ UNCHANGED <<acceptVars, key, sd>>
    BY <1>return, <1>pcs DEF LoopReturn, TypeOK
  <2> QED
    BY <2>1, <1>t, SockFrame DEF Users, Listening
<1>connect. ASSUME NEW c \in Conns, NEW k \in Keys, Connect(c, k) PROVE SockInv'
  BY <1>connect, <1>t, SockFrame DEF Connect, threadVars
<1>stutter. ASSUME UNCHANGED vars PROVE SockInv'
  BY <1>stutter, <1>t, SockFrame DEF vars, threadVars
<1> QED
  BY <1>cmd, <1>get, <1>created, <1>failed, <1>add, <1>del, <1>mark, <1>done,
     <1>start, <1>ready, <1>lock, <1>accept, <1>handle, <1>closing, <1>free,
     <1>put, <1>return, <1>connect, <1>stutter
  DEF Next, AdminStep, ListenStep, TimerStep

\* use_num of every port is the number of threads that can still touch the
\* port's socket, and the entry exists exactly while there is one, in every
\* reachable state and for any numbers of ports and threads.
THEOREM RefCountCorrect == Spec => []RefCountExact
<1>1. SockInv => RefCountExact
  BY DEF SockInv
<1> QED
  BY <1>1, InitSockInv, NextSockInv, PTL DEF Spec

\* No thread ever locks a destroyed accept mutex or accepts on a closed or
\* replaced listening socket.
THEOREM SharedSocketCorrect == Spec => []SharedSocketAlive
<1>1. SockInv => SharedSocketAlive
  BY DEF SockInv
<1> QED
  BY <1>1, InitSockInv, NextSockInv, PTL DEF Spec

\* At most one thread at a time is inside accept on a listening socket, and
\* the mutex is held by nobody else.
THEOREM AcceptCorrect == Spec => []AcceptExclusive
<1>1. SockInv => AcceptExclusive
  BY DEF SockInv
<1> QED
  BY <1>1, InitSockInv, NextSockInv, PTL DEF Spec
-----------------------------------------------------------------------------
(* IoThreads implements SharedPort.  The invariant of the shared sockets
   says which users and which object a port has; Unmade adds that the socket
   a launch creates is new.  Every step is then a Join, Leave, Enter, Exit
   or a stutter. *)

Unmade == \A t \in Threads : pc[t] = "none" => sock[t] = "unused"

PortInv == SockInv /\ Unmade

portVars == <<PortUsers, acceptSd, PortLife, PortInside>>

\* Nothing is shared at the start.
LEMMA InitPort == Init => PortInv /\ Port!Init
<1> SUFFICES ASSUME Init PROVE PortInv /\ Port!Init
  OBVIOUS
<1>1. PortInv
  BY InitSockInv DEF PortInv, Unmade, Init, PathInit
<1>2. PortUsers = [k \in Keys |-> {}]
  BY DEF PortUsers, UsersOf, Init, Users, Listening
<1>3. PortLife = [s \in Threads |-> "unused"]
  BY DEF PortLife, Init, PathInit
<1>4. PortInside = [k \in Keys |-> Nil]
  BY DEF PortInside, Init, PathInit
<1> QED
  BY <1>1, <1>2, <1>3, <1>4 DEF Port!Init, Init, PathInit

\* A step that leaves the shared objects alone, and no thread begins or stops
\* using them, is a stutter of SharedPort.
LEMMA PortFrame ==
  ASSUME UNCHANGED <<acceptVars, key>>,
         \A u \in Threads : pc'[u] \in Users <=> pc[u] \in Users
  PROVE  UNCHANGED portVars
<1> USE DEF acceptVars
<1>1. UNCHANGED PortUsers
  BY DEF PortUsers, UsersOf
<1>2. UNCHANGED PortLife
  BY DEF PortLife
<1>3. UNCHANGED PortInside
  BY DEF PortInside
<1> QED
  BY <1>1, <1>2, <1>3 DEF portVars

\* The socket a launch creates was never used before.
LEMMA NextUnmade ==
  ASSUME PortInv, [Next]_vars
  PROVE  Unmade'
<1> USE DEF PortInv, SockInv, acceptVars
<1>ok. TypeOK /\ PathTypeOK /\ AdminOK
  BY DEF TypeInv, TypeOK
<1>1. \A t \in Threads : pc'[t] = "none" => pc[t] = "none"
  <2>1. CASE \E t \in Threads : LaunchGet(t)
    BY <2>1, <1>ok DEF LaunchGet, TypeOK
  <2>2. CASE LaunchCreated
    BY <2>2, <1>ok DEF LaunchCreated, TypeOK
  <2>3. CASE LaunchFailed
    BY <2>3, <1>ok DEF LaunchFailed, TypeOK
  <2>4. CASE LaunchAdd \/ RetrieveDel \/ RetrieveMark \/ CommandDone
    BY <2>4 DEF LaunchAdd, RetrieveDel, RetrieveMark, CommandDone, threadVars
  <2>5. CASE \E t \in Threads : StartLoop(t) \/ ListenReady(t) \/ AcceptLock(t)
    BY <2>5, <1>ok DEF StartLoop, ListenReady, AcceptLock, TypeOK
  <2>6. CASE \E t \in Threads : Accept(t) \/ HandleAccepted(t)
    BY <2>6, <1>ok DEF Accept, HandleAccepted, TypeOK
  <2>7. CASE \E t \in Threads : TimerClosing(t) \/ TimerFreeBase(t)
    BY <2>7, <1>ok DEF TimerClosing, TimerFreeBase, TypeOK
  <2>8. CASE \E t \in Threads : TimerPutSock(t) \/ LoopReturn(t)
    BY <2>8, <1>ok DEF TimerPutSock, LoopReturn, TypeOK
  <2>9. CASE \E c \in Conns, k \in Keys : Connect(c, k)
    BY <2>9 DEF Connect, threadVars
  <2>10. CASE \E k \in Keys, n \in 0..MaxPerCmd, m \in 0..MaxPerCmd : Command(k, n, m)
    BY <2>10 DEF Command, threadVars
  <2>11. CASE UNCHANGED vars
    BY <2>11 DEF vars, threadVars
  <2> QED
    BY <2>1, <2>2, <2>3, <2>4, <2>5, <2>6, <2>7, <2>8, <2>9, <2>10, <2>11
    DEF Next, AdminStep, ListenStep, TimerStep
<1>2. ASSUME NEW k, PutPathListenSock(k), k \in Keys
      PROVE  \A t \in Threads : pc[t] = "none" => sock'[t] = sock[t]
  BY <1>2, <1>ok DEF PutPathListenSock, EntriesDistinct, PathTypeOK
<1>3. CASE \E t \in Threads : LaunchGet(t)
  <2> PICK t \in Threads : LaunchGet(t)
    BY <1>3
  <2>1. pc' = [pc EXCEPT ![t] = "created"]
    BY DEF LaunchGet
  <2>2. \A u \in Threads \ {t} : sock'[u] = sock[u]
    BY <1>ok DEF LaunchGet, GetPathListenSock, InitListenSocket, PathTypeOK
  <2> QED
    BY <2>1, <2>2, <1>ok DEF Unmade, TypeOK
<1>4. CASE LaunchFailed
  <2>1. adminPtr \in Threads /\ key[adminPtr] \in Keys
    BY <1>4, <1>ok DEF LaunchFailed, AdminOK, Users
  <2> QED
    BY <2>1, <1>1, <1>2, <1>4 DEF LaunchFailed, Unmade
<1>5. CASE \E t \in Threads : TimerPutSock(t)
  <2> PICK t \in Threads : TimerPutSock(t)
    BY <1>5
  <2>1. key[t] \in Keys
    BY <1>ok DEF TimerPutSock, AdminOK, Users
  <2> QED
    BY <2>1, <1>1, <1>2 DEF TimerPutSock, Unmade
<1>6. CASE UNCHANGED sock
  BY <1>1, <1>6 DEF Unmade
<1>7. \/ \E t \in Threads : LaunchGet(t) \/ TimerPutSock(t)
      \/ LaunchFailed
      \/ UNCHANGED sock
  BY DEF Next, AdminStep, ListenStep, TimerStep, vars, Command, LaunchCreated,
         LaunchAdd, RetrieveDel, RetrieveMark, CommandDone, StartLoop,
         ListenReady, AcceptLock, Accept, HandleAccepted, TimerClosing,
         TimerFreeBase, LoopReturn, Connect
<1> QED
  BY <1>3, <1>4, <1>5, <1>6, <1>7

\* io_launch_one_thread: the launched thread joins the users of its port.
LEMMA PortJoin ==
  ASSUME PortInv, NEW t \in Threads, LaunchGet(t)
  PROVE  Port!Next
<1> USE DEF PortInv, SockInv
<1>ok. TypeOK /\ PathTypeOK /\ AdminOK
  BY DEF TypeInv, TypeOK
<1>p. PICK k \in Keys : k = adminKey
  BY <1>ok DEF LaunchGet, AdminOK
<1>1. /\ pc[t] = "none" /\ pc' = [pc EXCEPT ![t] = "created"]
      /\ key' = [key EXCEPT ![t] = k]
      /\ GetPathListenSock(k, t)
  BY <1>p DEF LaunchGet
<1>2. /\ pc'[t] = "created" /\ key'[t] = k
      /\ \A u \in Threads \ {t} : pc'[u] = pc[u] /\ key'[u] = key[u]
  BY <1>1, <1>ok DEF TypeOK
<1>3. /\ UsersOf(k)' = UsersOf(k) \cup {t}
      /\ \A j \in Keys \ {k} : UsersOf(j)' = UsersOf(j)
      /\ \A j \in Keys : t \notin UsersOf(j)
  BY <1>1, <1>2 DEF UsersOf, Users, Listening
<1>4. PortUsers' = [PortUsers EXCEPT ![k] = @ \cup {t}]
  BY <1>3 DEF PortUsers
<1>5. \A j \in Keys : t \notin PortUsers[j]
  BY <1>3 DEF PortUsers
<1>6. CASE acceptSd[k] # Nil
  <2>1. UNCHANGED <<acceptSd, sock, lock>>
    BY <1>1, <1>6 DEF GetPathListenSock
  <2>2. UNCHANGED PortLife
    BY <2>1 DEF PortLife
  <2>3. UNCHANGED PortInside
    BY <2>1 DEF PortInside
  <2>4. PortUsers[k] # {}
    BY <1>6 DEF RefCountExact, PortUsers
  <2>5. Port!Join(k, t)
    BY <1>4, <1>5, <2>1, <2>2, <2>3, <2>4 DEF Port!Join
  <2> QED
    BY <2>5 DEF Port!Next
<1>7. CASE acceptSd[k] = Nil
  <2>1. PICK result \in {"open", "stray", "failed"} :
          /\ sock' = [sock EXCEPT ![t] = result]
          /\ lock' = [lock EXCEPT ![t] = Free]
          /\ acceptSd' = [acceptSd EXCEPT ![k] = t]
    BY <1>1, <1>7 DEF GetPathListenSock, InitListenSocket
  <2>2. PortLife[t] = "unused"
    BY <1>1 DEF Unmade, PortLife
  <2>3. PortLife' = [PortLife EXCEPT ![t] = "alive"]
    <3>1. /\ sock'[t] # "unused" /\ lock'[t] # Nil
          /\ \A s \in Threads \ {t} : sock'[s] = sock[s] /\ lock'[s] = lock[s]
      BY <2>1, <1>ok, NamesAssumption DEF PathTypeOK
    <3> QED
      BY <3>1 DEF PortLife
  <2>4. UNCHANGED PortInside
    <3> SUFFICES ASSUME NEW j \in Keys
                 PROVE  (acceptSd'[j] = Nil \/ lock'[acceptSd'[j]] = Free
                           <=> acceptSd[j] = Nil \/ lock[acceptSd[j]] = Free)
                        /\ (~ (acceptSd[j] = Nil \/ lock[acceptSd[j]] = Free)
                             => lock'[acceptSd'[j]] = lock[acceptSd[j]])
      BY DEF PortInside
    <3>1. CASE j = k
      BY <2>1, <1>7, <1>ok, <3>1 DEF PathTypeOK
    <3>2. CASE j # k
      BY <2>1, <1>1, <1>ok, <3>2 DEF PathTypeOK, EntriesDistinct
    <3> QED
      BY <3>1, <3>2
  <2>5. PortUsers[k] = {}
    BY <1>7 DEF RefCountExact, PortUsers
  <2>6. Port!Join(k, t)
    BY <1>4, <1>5, <2>1, <2>2, <2>3, <2>4, <2>5 DEF Port!Join
  <2> QED
    BY <2>6 DEF Port!Next
<1> QED
  BY <1>6, <1>7

\* Put_Path_Listen_Sock by a failed launch or by the last timer of a thread:
\* the thread leaves the users of its port.
LEMMA PortLeave ==
  ASSUME PortInv, NEW t \in Threads, pc[t] \in Users, pc[t] # "accepting",
         PutPathListenSock(key[t]), UNCHANGED key, pc'[t] \notin Users,
         \A u \in Threads : u # t => pc'[u] = pc[u]
  PROVE  Port!Next
<1> USE DEF PortInv, SockInv
<1>ok. TypeOK /\ PathTypeOK /\ AdminOK
  BY DEF TypeInv, TypeOK
<1>p. PICK k \in Keys : k = key[t]
  BY <1>ok DEF AdminOK
<1>1. /\ t \in UsersOf(k) /\ UsersOf(k)' = UsersOf(k) \ {t}
      /\ \A j \in Keys \ {k} : UsersOf(j)' = UsersOf(j)
  BY <1>p DEF UsersOf
<1>2. PortUsers' = [PortUsers EXCEPT ![k] = @ \ {t}] /\ t \in PortUsers[k]
  BY <1>1 DEF PortUsers
<1>3. acceptSd[k] \in Threads /\ useNum[k] = Cardinality(UsersOf(k))
  BY <1>1, <1>ok DEF RefCountExact, PathTypeOK
<1>4. /\ sock[acceptSd[k]] # "unused" /\ sock[acceptSd[k]] # "closed"
      /\ sd[t] = acceptSd[k]
  BY <1>p DEF SharedSocketAlive
<1>5. PortInside[k] # t
  BY <1>4, <1>3, NamesAssumption DEF PortInside, AcceptExclusive
<1>6. CASE ~ IsLastUse(k)
  <2>1. UNCHANGED <<acceptSd, sock, lock>>
    BY <1>6, <1>3, <1>p, NamesAssumption DEF PutPathListenSock
  <2>2. UNCHANGED PortLife /\ UNCHANGED PortInside
    BY <2>1 DEF PortLife, PortInside
  <2>3. PortUsers[k] # {t}
    <3>1. Cardinality(UsersOf(k)) \in Nat /\ Cardinality(UsersOf(k)) > 1
      BY <1>6, <1>3, UsersFinite DEF IsLastUse
    <3>2. UsersOf(k) \ {t} # {}
      BY <1>1, <3>1, LastUser
    <3> QED
      BY <3>2 DEF PortUsers
  <2>4. Port!Leave(k, t)
    BY <1>2, <1>5, <2>1, <2>2, <2>3 DEF Port!Leave
  <2> QED
    BY <2>4 DEF Port!Next
<1>7. CASE IsLastUse(k)
  <2>1. /\ sock' = [sock EXCEPT ![acceptSd[k]] = IF @ = "failed" THEN @ ELSE "closed"]
        /\ lock' = [lock EXCEPT ![acceptSd[k]] = Nil]
        /\ acceptSd' = [acceptSd EXCEPT ![k] = Nil]
    BY <1>7, <1>3, <1>p, NamesAssumption DEF PutPathListenSock
  <2>2. PortUsers[k] = {t}
    <3>1. Cardinality(UsersOf(k)) \in Nat /\ Cardinality(UsersOf(k)) <= 1
      BY <1>7, <1>3, UsersFinite DEF IsLastUse
    <3>2. UsersOf(k) \ {t} = {}
      BY <1>1, <3>1, LastUser
    <3> QED
      BY <1>1, <3>2 DEF PortUsers
  <2>3. PortLife' = [PortLife EXCEPT ![acceptSd[k]] = "gone"]
    <3>1. /\ sock'[acceptSd[k]] # "unused" /\ lock'[acceptSd[k]] = Nil
          /\ \A s \in Threads \ {acceptSd[k]} : sock'[s] = sock[s] /\ lock'[s] = lock[s]
      BY <2>1, <1>3, <1>4, <1>ok DEF PathTypeOK
    <3> QED
      BY <3>1, <1>3 DEF PortLife
  <2>4. UNCHANGED PortInside
    <3> SUFFICES ASSUME NEW j \in Keys
                 PROVE  PortInside'[j] = PortInside[j]
      BY DEF PortInside
    <3>1. CASE j = k
      <4>1. PortInside'[j] = Nil
        BY <2>1, <3>1, <1>ok DEF PortInside, PathTypeOK
      <4>2. \A u \in Threads : lock[acceptSd[k]] = u => u = t
        <5> SUFFICES ASSUME NEW u \in Threads, lock[acceptSd[k]] = u PROVE u = t
          OBVIOUS
        <5>1. pc[u] = "accepting" /\ sd[u] = acceptSd[k]
          BY <1>3 DEF AcceptExclusive
        <5>2. key[u] \in Keys /\ sd[u] = acceptSd[key[u]]
          BY <5>1, <1>ok DEF AdminOK, SharedSocketAlive, Users, Listening
        <5>3. key[u] = k
          BY <5>1, <5>2, <1>3, NamesAssumption DEF EntriesDistinct
        <5> QED
          BY <5>1, <5>3, <2>2 DEF PortUsers, UsersOf, Users, Listening
      <4>3. lock[acceptSd[k]] = Free
        <5>1. lock[acceptSd[k]] # Nil
          BY <1>p, <1>4 DEF SharedSocketAlive
        <5>2. lock[acceptSd[k]] # t
          BY <1>4, <1>3 DEF AcceptExclusive
        <5> QED
          BY <4>2, <5>1, <5>2, <1>3, <1>ok DEF PathTypeOK
      <4> QED
        BY <4>1, <4>3, <3>1 DEF PortInside
    <3>2. CASE j # k
      <4>1. acceptSd'[j] = acceptSd[j]
        BY <2>1, <1>ok, <3>2 DEF PathTypeOK
      <4>2. acceptSd[j] # Nil => lock'[acceptSd[j]] = lock[acceptSd[j]]
        BY <2>1, <1>3, <1>ok, <3>2 DEF PathTypeOK, EntriesDistinct
      <4> QED
        BY <4>1, <4>2 DEF PortInside
    <3> QED
      BY <3>1, <3>2
  <2>5. Port!Leave(k, t)
    BY <1>2, <1>5, <2>1, <2>2, <2>3, <2>4 DEF Port!Leave
  <2> QED
    BY <2>5 DEF Port!Next
<1> QED
  BY <1>6, <1>7

\* ProcessListenEvent locks the accept mutex: the user enters.
LEMMA PortEnter ==
  ASSUME PortInv, NEW t \in Threads, AcceptLock(t)
  PROVE  Port!Next
<1> USE DEF PortInv, SockInv
<1>ok. TypeOK /\ PathTypeOK /\ AdminOK
  BY DEF TypeInv, TypeOK
<1>1. /\ pc[t] = "locking" /\ lock[sd[t]] = Free
      /\ lock' = [lock EXCEPT ![sd[t]] = t]
      /\ pc' = [pc EXCEPT ![t] = "accepting"]
      /\ UNCHANGED <<acceptSd, sock, key>>
  BY DEF AcceptLock
<1>2. key[t] \in Keys /\ t \in UsersOf(key[t]) /\ sd[t] = acceptSd[key[t]]
  BY <1>1, <1>ok DEF AdminOK, UsersOf, Users, Listening, SharedSocketAlive
<1>p. PICK k \in Keys : k = key[t]
  BY <1>2
<1>3. acceptSd[k] \in Threads
  BY <1>2, <1>p, <1>ok DEF RefCountExact, PathTypeOK
<1>4. \A u \in Threads : pc'[u] \in Users <=> pc[u] \in Users
  BY <1>1, <1>ok DEF TypeOK, Users, Listening
<1>5. UNCHANGED PortUsers
  BY <1>1, <1>4 DEF PortUsers, UsersOf
<1>6. \A s \in Threads : lock'[s] = IF s = acceptSd[k] THEN t ELSE lock[s]
  BY <1>1, <1>2, <1>p, <1>ok DEF PathTypeOK
<1>7. UNCHANGED PortLife
  BY <1>1, <1>2, <1>3, <1>p, <1>6, NamesAssumption DEF PortLife
<1>8. PortInside[k] = Nil
  BY <1>1, <1>2, <1>p DEF PortInside
<1>9. PortInside' = [PortInside EXCEPT ![k] = t]
  <2> SUFFICES ASSUME NEW j \in Keys
               PROVE  PortInside'[j] = IF j = k THEN t ELSE PortInside[j]
    BY DEF PortInside
  <2>1. CASE j = k
    BY <2>1, <1>1, <1>3, <1>6, NamesAssumption DEF PortInside
  <2>2. CASE j # k
    BY <2>2, <1>1, <1>3, <1>6, <1>ok, NamesAssumption
    DEF PortInside, EntriesDistinct, PathTypeOK
  <2> QED
    BY <2>1, <2>2
<1>10. Port!Enter(k, t)
  BY <1>1, <1>2, <1>p, <1>5, <1>7, <1>8, <1>9 DEF Port!Enter, PortUsers
<1> QED
  BY <1>10 DEF Port!Next

\* The accept call has returned and the mutex is given back: the user exits.
LEMMA PortExit ==
  ASSUME PortInv, NEW t \in Threads, Accept(t)
  PROVE  Port!Next
<1> USE DEF PortInv, SockInv
<1>ok. TypeOK /\ PathTypeOK /\ AdminOK
  BY DEF TypeInv, TypeOK
<1>1. /\ pc[t] = "accepting"
      /\ lock' = [lock EXCEPT ![sd[t]] = Free]
      /\ pc' = [pc EXCEPT ![t] = "accepted"]
      /\ UNCHANGED <<acceptSd, sock, key>>
  BY DEF Accept
<1>2. key[t] \in Keys /\ t \in UsersOf(key[t]) /\ sd[t] = acceptSd[key[t]]
  BY <1>1, <1>ok DEF AdminOK, UsersOf, Users, Listening, SharedSocketAlive
<1>p. PICK k \in Keys : k = key[t]
  BY <1>2
<1>3. acceptSd[k] \in Threads
  BY <1>2, <1>p, <1>ok DEF RefCountExact, PathTypeOK
<1>4. \A u \in Threads : pc'[u] \in Users <=> pc[u] \in Users
  BY <1>1, <1>ok DEF TypeOK, Users, Listening
<1>5. UNCHANGED PortUsers
  BY <1>1, <1>4 DEF PortUsers, UsersOf
<1>6. lock[acceptSd[k]] = t
  BY <1>1, <1>2, <1>3, <1>p DEF AcceptExclusive
<1>7. \A s \in Threads : lock'[s] = IF s = acceptSd[k] THEN Free ELSE lock[s]
  BY <1>1, <1>2, <1>p, <1>ok DEF PathTypeOK
<1>8. UNCHANGED PortLife
  BY <1>1, <1>3, <1>6, <1>7, NamesAssumption DEF PortLife
<1>9. PortInside[k] = t
  BY <1>3, <1>6, NamesAssumption DEF PortInside
<1>10. PortInside' = [PortInside EXCEPT ![k] = Nil]
  <2> SUFFICES ASSUME NEW j \in Keys
               PROVE  PortInside'[j] = IF j = k THEN Nil ELSE PortInside[j]
    BY DEF PortInside
  <2>1. CASE j = k
    BY <2>1, <1>1, <1>3, <1>7 DEF PortInside
  <2>2. CASE j # k
    BY <2>2, <1>1, <1>3, <1>7, <1>ok, NamesAssumption
    DEF PortInside, EntriesDistinct, PathTypeOK
  <2> QED
    BY <2>1, <2>2
<1>11. Port!Exit(k, t)
  BY <1>1, <1>5, <1>8, <1>9, <1>10 DEF Port!Exit
<1> QED
  BY <1>11 DEF Port!Next

\* Every step of the threads is a step of SharedPort or leaves it as it is.
LEMMA NextPort ==
  ASSUME PortInv, [Next]_vars
  PROVE  Port!Next \/ UNCHANGED portVars
<1> USE DEF PortInv, SockInv
<1>ok. TypeOK /\ PathTypeOK /\ AdminOK
  BY DEF TypeInv, TypeOK
<1>cmd. ASSUME NEW k \in Keys, NEW n \in 0..MaxPerCmd, NEW m \in 0..MaxPerCmd,
               Command(k, n, m)
        PROVE  UNCHANGED portVars
  BY <1>cmd, PortFrame DEF Command, threadVars
<1>created. ASSUME LaunchCreated PROVE UNCHANGED portVars
  BY <1>created, <1>ok, PortFrame DEF LaunchCreated, TypeOK, AdminOK, Users, Listening
<1>failed. ASSUME LaunchFailed PROVE Port!Next
  <2>1. adminPtr \in Threads /\ pc[adminPtr] = "created"
    BY <1>failed, <1>ok DEF LaunchFailed, AdminOK
  <2>2. PICK t \in Threads : t = adminPtr
    BY <2>1
  <2>3. /\ pc'[t] = "discarded" /\ \A u \in Threads : u # t => pc'[u] = pc[u]
        /\ PutPathListenSock(key[t]) /\ UNCHANGED key
    BY <1>failed, <1>ok, <2>2 DEF LaunchFailed, TypeOK
  <2> QED
    BY <2>1, <2>2, <2>3, PortLeave DEF Users, Listening
<1>rest. ASSUME LaunchAdd \/ RetrieveDel \/ RetrieveMark \/ CommandDone
         PROVE  UNCHANGED portVars
  BY <1>rest, PortFrame DEF LaunchAdd, RetrieveDel, RetrieveMark, CommandDone, threadVars
<1>loop. ASSUME NEW t \in Threads, StartLoop(t) \/ ListenReady(t) \/ HandleAccepted(t)
         PROVE  UNCHANGED portVars
  BY <1>loop, <1>ok, PortFrame
  DEF StartLoop, ListenReady, HandleAccepted, TypeOK, Users, Listening
<1>timer. ASSUME NEW t \in Threads, TimerClosing(t) \/ TimerFreeBase(t)
          PROVE  UNCHANGED portVars
  BY <1>timer, <1>ok, PortFrame
  DEF TimerClosing, TimerFreeBase, TypeOK, Users, Listening
<1>put. ASSUME NEW t \in Threads, TimerPutSock(t) PROVE Port!Next
  <2>1. /\ pc[t] = "freed" /\ pc'[t] = "deleted"
        /\ \A u \in Threads : u # t => pc'[u] = pc[u]
        /\ PutPathListenSock(key[t]) /\ UNCHANGED key
    BY <1>put, <1>ok DEF TimerPutSock, TypeOK
  <2> QED
    BY <2>1, PortLeave DEF Users, Listening
<1>return. ASSUME NEW t \in Threads, LoopReturn(t) PROVE UNCHANGED portVars
  BY <1>return, <1>ok, PortFrame DEF LoopReturn, TypeOK, Users, Listening
<1>connect. ASSUME NEW c \in Conns, NEW k \in Keys, Connect(c, k)
            PROVE  UNCHANGED portVars
  BY <1>connect, PortFrame DEF Connect, threadVars
<1>stutter. ASSUME UNCHANGED vars PROVE UNCHANGED portVars
  BY <1>stutter, PortFrame DEF vars, threadVars
<1> QED
  BY <1>cmd, <1>created, <1>failed, <1>rest, <1>loop, <1>timer, <1>put, <1>return,
     <1>connect, <1>stutter, PortJoin, PortEnter, PortExit
  DEF Next, AdminStep, ListenStep, TimerStep

\* The threads, with their counts, locks, failed launches and retirements,
\* implement the shared port, for any sets of ports, threads and connections:
\* what a thread relies on in ProcessListenEvent is what SharedPort says.
THEOREM SharesPortsCorrect == Spec => SharesPorts
<1>1. PortInv /\ [Next]_vars => PortInv'
  BY NextSockInv, NextUnmade DEF PortInv
<1>2. PortInv /\ [Next]_vars => [Port!Next]_(Port!vars)
  BY NextPort DEF portVars, Port!vars
<1> QED
  BY <1>1, <1>2, InitPort, PTL DEF Spec, SharesPorts, Port!Spec
=============================================================================
