---------------------------- MODULE MCIoThreads ----------------------------
(* Instances of IoThreads for TLC. *)
EXTENDS IoThreadsPort, TLC

\* Ports, threads and connections are told apart by nothing but their names.
Symmetry == Permutations(Keys) \cup Permutations(Threads) \cup Permutations(Conns)
=============================================================================
