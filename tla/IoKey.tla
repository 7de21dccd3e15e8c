------------------------------- MODULE IoKey -------------------------------
(***************************************************************************)
(* The key of the connection cache of an Io_Manager and its order, Io_Comp *)
(* (io_manager.h).  An address is a sequence of characters, here numbers.  *)
(***************************************************************************)
EXTENDS Integers, Sequences, SequencesExt

Key(ip, port) == [ip |-> ip, port |-> port]

(* strncmp of the first n characters: less than 0, 0, or more than 0. *)
StrNCmp(a, b, n) ==
  LET differ == {i \in 1 .. n : a[i] # b[i]}
      first  == CHOOSE i \in differ : \A j \in differ : i <= j
  IN  IF differ = {} THEN 0 ELSE a[first] - b[first]

\* Mutant: the ports are compared with <=.
CompNotStrict(ls, rs) ==
  LET n == IF Len(ls.ip) > Len(rs.ip) THEN Len(rs.ip) ELSE Len(ls.ip)
      ret == StrNCmp(ls.ip, rs.ip, n)
  IN  IF ret = 0 THEN ls.port <= rs.port ELSE ret < 0

(* Io_Comp's operator(): the shorter of the two lengths is compared.       *)
Comp(ls, rs) ==
  LET n == IF Len(ls.ip) > Len(rs.ip) THEN Len(rs.ip) ELSE Len(ls.ip)
      ret == StrNCmp(ls.ip, rs.ip, n)
  IN  IF ret = 0 THEN ls.port < rs.port ELSE ret < 0
=============================================================================
