----------------------------- MODULE SharedPort -----------------------------
(***************************************************************************)
(* What Path_Manager promises the I/O threads of a listening port, without *)
(* the reference count, the launches and the retirements that keep the     *)
(* promise.  The users of a port share one object (a listening socket and  *)
(* its accept mutex).  The first user makes it, new; it lasts until the    *)
(* last one leaves, which ends it for good; and one user at a time, and    *)
(* only while it is one, is inside the accept call.                        *)
(***************************************************************************)
CONSTANTS
  Ports,     \* listening ports
  Users,     \* the threads that share them
  Objects,   \* shared objects, each made once
  Nil        \* no object, nobody

VARIABLES
  users,     \* the users of each port
  object,    \* the object they share, Nil when there is none
  life,      \* "unused", "alive" or "gone", of each object
  inside     \* the user that accepts on the port, or Nil

vars == <<users, object, life, inside>>

Init ==
  /\ users  = [p \in Ports |-> {}]
  /\ object = [p \in Ports |-> Nil]
  /\ life   = [o \in Objects |-> "unused"]
  /\ inside = [p \in Ports |-> Nil]

Join(p, u) ==
  /\ \A q \in Ports : u \notin users[q]
  /\ users' = [users EXCEPT ![p] = @ \cup {u}]
  /\ \/ /\ users[p] # {}
        /\ UNCHANGED <<object, life>>
     \/ /\ users[p] = {}
        /\ \E o \in Objects :
             /\ life[o] = "unused"
             /\ object' = [object EXCEPT ![p] = o]
             /\ life'   = [life EXCEPT ![o] = "alive"]
  /\ UNCHANGED inside

Leave(p, u) ==
  /\ u \in users[p] /\ inside[p] # u
  /\ users' = [users EXCEPT ![p] = @ \ {u}]
  /\ \/ /\ users[p] # {u}
        /\ UNCHANGED <<object, life>>
     \/ /\ users[p] = {u}
        /\ object' = [object EXCEPT ![p] = Nil]
        /\ life'   = [life EXCEPT ![object[p]] = "gone"]
  /\ UNCHANGED inside

Enter(p, u) ==
  /\ u \in users[p] /\ inside[p] = Nil
  /\ inside' = [inside EXCEPT ![p] = u]
  /\ UNCHANGED <<users, object, life>>

Exit(p, u) ==
  /\ inside[p] = u
  /\ inside' = [inside EXCEPT ![p] = Nil]
  /\ UNCHANGED <<users, object, life>>

Next ==
  \E p \in Ports, u \in Users : Join(p, u) \/ Leave(p, u) \/ Enter(p, u) \/ Exit(p, u)

Spec == Init /\ [][Next]_vars
=============================================================================
