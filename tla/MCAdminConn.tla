---------------------------- MODULE MCAdminConn ----------------------------
(* Instances of AdminConn for TLC. *)
EXTENDS AdminConn, TLC

Symmetry == Permutations(Conns)
=============================================================================
