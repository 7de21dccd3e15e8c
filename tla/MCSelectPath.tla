---------------------------- MODULE MCSelectPath ----------------------------
(* Instance of SelectPath for TLC. *)
EXTENDS SelectPath

CONSTANTS MaxRatio, MaxBackends

\* Every list of up to MaxBackends ratios up to MaxRatio, and some whose sum
\* does not fit in an int.
AllRatioLists ==
  UNION {[1..n -> 0..MaxRatio] : n \in 1..MaxBackends}
    \cup {<<MaxInt>>, <<MaxInt, 1>>, <<MaxInt, MaxInt, 3>>}
=============================================================================
