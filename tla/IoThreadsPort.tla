--------------------------- MODULE IoThreadsPort ---------------------------
(***************************************************************************)
(* IoThreads implements SharedPort.  A thread uses a port from the launch  *)
(* that takes the entry of _accept_dict to the timer that gives it back;   *)
(* the socket and the mutex of an entry are one object, named by the       *)
(* launch that made them; the user inside is the owner of the mutex.       *)
(***************************************************************************)
EXTENDS IoThreads

PortUsers  == [k \in Keys |-> UsersOf(k)]
PortLife   == [s \in Threads |->
                 IF sock[s] = "unused" THEN "unused"
                 ELSE IF lock[s] = Nil THEN "gone" ELSE "alive"]
PortInside == [k \in Keys |->
                 IF acceptSd[k] = Nil \/ lock[acceptSd[k]] = Free THEN Nil
                 ELSE lock[acceptSd[k]]]

Port == INSTANCE SharedPort
          WITH Ports <- Keys, Users <- Threads, Objects <- Threads,
               users <- PortUsers, object <- acceptSd, life <- PortLife,
               inside <- PortInside

\* Launches, failed launches, accepts and retirements in any order do to the
\* shared listening sockets only what SharedPort allows: no step closes,
\* replaces or reopens a socket somebody uses, none lets a second thread into
\* the accept call, and a thread that gives the socket back is a user of it,
\* once (Get_Path_Listen_Sock, Put_Path_Listen_Sock, ProcessListenEvent).
SharesPorts == Port!Spec
=============================================================================
