---------------------------- MODULE PathManager ----------------------------
(***************************************************************************)
(* Path_Manager (path_manager.cpp), the object every thread of comio       *)
(* shares.  This module holds its two dictionaries about threads:          *)
(*                                                                         *)
(*   _accept_dict    listening port -> (listening socket, accept mutex,    *)
(*                   number of threads using them)                         *)
(*   _path_ptr_dict  listening port -> stack of io_dispatch_thread_info    *)
(*                   pointers, the threads that can still be retired       *)
(*                                                                         *)
(* Each dictionary has a mutex that its methods hold from the first line   *)
(* to the last, so one call is one atomic step.  (_path_dict, the weighted *)
(* backend lists, is in module SelectPath.)                                *)
(*                                                                         *)
(* A listening socket and its accept mutex are created together, by one    *)
(* launch of one thread, and are never created twice: both are named by    *)
(* the thread whose launch created them.                                   *)
(***************************************************************************)
EXTENDS Integers, Sequences, FiniteSets

CONSTANTS
  Keys,      \* Path_Key values: the in_path ports the commands name
  Threads,   \* the io_dispatch_thread_info objects (bounds the launches)
  Nil,       \* no object: a null pointer, an absent entry, a dead mutex
  Free       \* the owner of a mutex nobody holds

ASSUME NamesAssumption ==
  /\ IsFiniteSet(Threads)
  /\ Nil \notin Threads
  /\ Free \notin Threads
  /\ Nil # Free

VARIABLES
  acceptSd,   \* _accept_dict[k]._sd and ._sd_lock, Nil when k has no entry
  useNum,     \* _accept_dict[k].use_num, 0 when k has no entry
  sock,       \* kernel state of the listening socket
  lock,       \* owner of the accept mutex, Nil when it does not exist
  pathPtr     \* _path_ptr_dict[k], <<>> when k has no entry

acceptVars == <<acceptSd, useNum, sock, lock>>

\* "stray": bind failed and was not noticed, so listen() took another port.
\* "failed": socket() itself failed and the descriptor is -1.
SockStates == {"unused", "open", "stray", "failed", "closed"}

PathTypeOK ==
  /\ acceptSd \in [Keys -> Threads \cup {Nil}]
  /\ useNum   \in [Keys -> Int]
  /\ sock     \in [Threads -> SockStates]
  /\ lock     \in [Threads -> Threads \cup {Nil, Free}]
  /\ pathPtr  \in [Keys -> Seq(Threads)]

PathInit ==
  /\ acceptSd = [k \in Keys |-> Nil]
  /\ useNum   = [k \in Keys |-> 0]
  /\ sock     = [t \in Threads |-> "unused"]
  /\ lock     = [t \in Threads |-> Nil]
  /\ pathPtr  = [k \in Keys |-> <<>>]

\* socket, bind and listen; the results of bind and listen are not looked at.
InitListenSocket(t) ==
  \E result \in {"open", "stray", "failed"} :
    sock' = [sock EXCEPT ![t] = result]

\* Take the entry of k, or make one with the objects of launch t.
GetPathListenSock(k, t) ==
  \/ /\ acceptSd[k] # Nil
     /\ useNum' = [useNum EXCEPT ![k] = @ + 1]
     /\ UNCHANGED <<acceptSd, sock, lock>>
  \/ /\ acceptSd[k] = Nil
     /\ InitListenSocket(t)
     /\ lock'     = [lock EXCEPT ![t] = Free]
     /\ acceptSd' = [acceptSd EXCEPT ![k] = t]
     /\ useNum'   = [useNum EXCEPT ![k] = 1]

\* Mutant: off by one, the last user but one takes the objects away.
IsLastButOne(k) == useNum[k] - 1 <= 1

\* Mutant: off by one the other way, nobody is ever the last user.
IsNeverLast(k) == useNum[k] - 1 < 0

IsLastUse(k) == useNum[k] - 1 <= 0

\* Give the entry of k back; the last user closes and destroys its objects.
PutPathListenSock(k) ==
  \/ /\ acceptSd[k] = Nil
     /\ UNCHANGED acceptVars
  \/ /\ acceptSd[k] # Nil
     /\ ~ IsLastUse(k)
     /\ useNum' = [useNum EXCEPT ![k] = @ - 1]
     /\ UNCHANGED <<acceptSd, sock, lock>>
  \/ /\ acceptSd[k] # Nil
     /\ IsLastUse(k)
     /\ sock'     = [sock EXCEPT ![acceptSd[k]] =
                       IF @ = "failed" THEN @ ELSE "closed"]
     /\ lock'     = [lock EXCEPT ![acceptSd[k]] = Nil]
     /\ acceptSd' = [acceptSd EXCEPT ![k] = Nil]
     /\ useNum'   = [useNum EXCEPT ![k] = 0]

\* Register a launched thread.
AddPathPtr(k, t) == pathPtr' = [pathPtr EXCEPT ![k] = Append(@, t)]

\* The thread that the next retirement on k takes: the newest one.
NewestPtr(k) == IF pathPtr[k] = <<>> THEN Nil ELSE pathPtr[k][Len(pathPtr[k])]

\* Mutant: the pointer is read and left in the registry.
KeepPtr(k) == UNCHANGED pathPtr

\* Take it out of the registry.
DelPathPtr(k) ==
  pathPtr' = [pathPtr EXCEPT ![k] =
                IF @ = <<>> THEN @ ELSE SubSeq(@, 1, Len(@) - 1)]
=============================================================================
