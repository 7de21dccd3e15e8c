---------------------------- MODULE MCIoDispatch ----------------------------
(* Instances of IoDispatch for TLC. *)
EXTENDS IoDispatch, TLC

CONSTANTS b1, b2, b3   \* the backends

\* The first two of three backends are alike for Io_Comp, as "10.0.0.1" and
\* "10.0.0.12" of one port are, and the third is like neither.
OneApart == {p \in Backends \X Backends : p[1] = p[2] \/ b3 \notin Range(p)}

\* One session is not like the others.
One == CHOOSE s \in Sessions : TRUE

\* Descriptors are told apart only by their names, and so are the other clients
\* and the two backends that are alike.
Symmetry ==
  Permutations(Sessions \ {One}) \cup Permutations(Fds)
    \cup Permutations(Backends \ {b3})

\* Two requests of one client and one of each other; one of each other client,
\* when one is silent and does nothing but take a descriptor number.
OneEach  == [s \in Sessions |-> 1]
TwoOfOne == [OneEach EXCEPT ![One] = 2]
OneSilent == [OneEach EXCEPT ![One] = 0]
=============================================================================
