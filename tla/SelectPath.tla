----------------------------- MODULE SelectPath -----------------------------
(***************************************************************************)
(* _path_dict of Path_Manager (path_manager.cpp): for each listening port  *)
(* the weighted list of backends, and the selection of the backend of the  *)
(* next request.  The I/O threads of a port select while the command       *)
(* thread replaces the list; _path_dict_lock is held through each method,  *)
(* so each is one step, in any order.                                      *)
(*                                                                         *)
(* A backend is its position in the list; its address plays no part here.  *)
(***************************************************************************)
EXTENDS Integers, Sequences

CONSTANTS
  Keys,        \* listening ports
  RatioLists,  \* the lists of ratios the commands carry
  MaxInt,      \* the largest int
  MaxPicks     \* bounds the selections between two replacements of a list

\* get_out_json refuses negative ratios and empty lists.
ASSUME RatioAssumption ==
  /\ MaxInt \in Nat
  /\ RatioLists \subseteq Seq(0..MaxInt) \ {<<>>}
  /\ MaxPicks \in Nat

VARIABLES
  ratioConfig,  \* _ratio_config of each backend of the port, <<>> if no entry
  ratioUse,     \* _ratio_use of each backend
  picks,        \* history: how often each was selected since the last update
  total         \* history: how many selections since the last update

vars == <<ratioConfig, ratioUse, picks, total>>

\* The sums are ints; when they overflow, the build's add wraps around.
Wrap(n) == ((n + MaxInt + 1) % (2 * MaxInt + 2)) - MaxInt - 1

Init ==
  /\ ratioConfig = [k \in Keys |-> <<>>]
  /\ ratioUse    = [k \in Keys |-> <<>>]
  /\ picks       = [k \in Keys |-> <<>>]
  /\ total       = [k \in Keys |-> 0]

\* Mutant: new backends start without credit.
UpdateNoCredit(k, ratios) ==
  /\ ratioConfig' = [ratioConfig EXCEPT ![k] = ratios]
  /\ ratioUse'    = [ratioUse EXCEPT ![k] = [i \in DOMAIN ratios |-> 0]]
  /\ picks'       = [picks EXCEPT ![k] = [i \in DOMAIN ratios |-> 0]]
  /\ total'       = [total EXCEPT ![k] = 0]

\* The old list goes with what it remembered; each new backend starts with
\* its own ratio as credit (the constructor of Path_Value).
UpdatePath(k, ratios) ==
  /\ ratioConfig' = [ratioConfig EXCEPT ![k] = ratios]
  /\ ratioUse'    = [ratioUse EXCEPT ![k] = ratios]
  /\ picks'       = [picks EXCEPT ![k] = [i \in DOMAIN ratios |-> 0]]
  /\ total'       = [total EXCEPT ![k] = 0]

\* Loop 1 of Select_Path: the running sum of the ratios.
SumRatio(ratios) ==
  LET sum[i \in 0..Len(ratios)] ==
        IF i = 0 THEN 0 ELSE Wrap(sum[i - 1] + ratios[i])
  IN  sum[Len(ratios)]

\* Mutant: the backend with the least credit.
MinRatioPos(use) ==
  CHOOSE i \in DOMAIN use : \A j \in DOMAIN use : use[j] >= use[i]

\* The first backend with the largest credit.
MaxRatioPos(use) ==
  CHOOSE i \in DOMAIN use :
    \A j \in DOMAIN use : use[j] <= use[i] /\ (j < i => use[j] < use[i])

\* Mutant: the selected backend does not get its own ratio back.
SelectNoRefund(k) ==
  /\ ratioConfig[k] # <<>>
  /\ total[k] < MaxPicks
  /\ LET pos == MaxRatioPos(ratioUse[k])
         sum == SumRatio(ratioConfig[k])
     IN  /\ ratioUse' = [ratioUse EXCEPT ![k] =
                           [i \in DOMAIN @ |->
                              Wrap(IF i = pos THEN @[i] - sum
                                   ELSE @[i] + ratioConfig[k][i])]]
         /\ picks' = [picks EXCEPT ![k][pos] = @ + 1]
  /\ total' = [total EXCEPT ![k] = @ + 1]
  /\ UNCHANGED ratioConfig

\* Take the backend with the largest credit and charge it the sum of the
\* ratios; then every backend earns its ratio.
SelectPath(k) ==
  /\ ratioConfig[k] # <<>>
  /\ total[k] < MaxPicks
  /\ LET pos == MaxRatioPos(ratioUse[k])
         sum == SumRatio(ratioConfig[k])
     IN  /\ ratioUse' = [ratioUse EXCEPT ![k] =
                           [i \in DOMAIN @ |->
                              Wrap((IF i = pos THEN @[i] - sum ELSE @[i])
                                     + ratioConfig[k][i])]]
         /\ picks' = [picks EXCEPT ![k][pos] = @ + 1]
  /\ total' = [total EXCEPT ![k] = @ + 1]
  /\ UNCHANGED ratioConfig

Next ==
  \E k \in Keys :
    \/ SelectPath(k)
    \/ \E ratios \in RatioLists : UpdatePath(k, ratios)

Spec == Init /\ [][Next]_vars
-----------------------------------------------------------------------------
Sum(k) == SumRatio(ratioConfig[k])

\* The sum without a wrap.
ExactSum(ratios) ==
  LET sum[i \in 0..Len(ratios)] ==
        IF i = 0 THEN 0 ELSE sum[i - 1] + ratios[i]
  IN  sum[Len(ratios)]

\* An int has room for the sum of the ratios once for each backend.  Room for
\* the sum itself is not enough: with the ratios 1, 1, 3 and 3 a credit
\* reaches 10, although the sum is 8.
RatiosFit(k) == Len(ratioConfig[k]) * ExactSum(ratioConfig[k]) <= MaxInt

\* The credit given out is never lost or made up: over the backends of a port
\* it always sums to the sum of the ratios, whatever was selected, up to the
\* wrap of both.
CreditConserved ==
  \A k \in Keys : SumRatio(ratioUse[k]) = Sum(k)

\* _ratio_use is a balance: what the backend earned in all selections since
\* the last update, less the full sum for each request it was given.
CreditIsBalance ==
  \A k \in Keys : \A i \in DOMAIN ratioConfig[k] :
    RatiosFit(k) => ratioUse[k][i] = ratioConfig[k][i] * (total[k] + 1) - Sum(k) * picks[k][i]

Ahead(k, i) == picks[k][i] * Sum(k) - total[k] * ratioConfig[k][i]

\* No backend is ever a whole request ahead of its share, after any number of
\* selections: picks < total * ratio / sum + 1; and it is behind by less than
\* one request for each other backend of the list.  So a backend of ratio 0
\* gets nothing as long as another one has a ratio, no backend starves, and
\* the shares come out exactly at the end of every round of sum selections.
FairShare ==
  \A k \in Keys : \A i \in DOMAIN ratioConfig[k] :
    RatiosFit(k) /\ Sum(k) > 0 =>
      /\ Ahead(k, i) < Sum(k)
      /\ - Ahead(k, i) <= (Len(ratioConfig[k]) - 1) * (Sum(k) - 1)
=============================================================================
