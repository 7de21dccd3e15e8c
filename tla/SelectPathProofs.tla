-------------------------- MODULE SelectPathProofs --------------------------
(***************************************************************************)
(* The selection of a backend, for every list of ratios, every width of    *)
(* an int and any number of selections.                                    *)
(***************************************************************************)
EXTENDS SelectPath, FiniteSetTheorems, WellFoundedInduction, TLAPS

-----------------------------------------------------------------------------
(* Naturals. *)

\* Every set of naturals that is not empty has a least element.
LEMMA LeastNat ==
  ASSUME NEW T \in SUBSET Nat, T # {}
  PROVE  \E m \in T : \A n \in T : m <= n
<1>1. \A R, S : IsWellFoundedOn(R, S) =>
       \A U \in SUBSET S : U # {} => \E m \in U : \A n \in U : <<n, m>> \notin R
  BY WFMin
<1>2. IsWellFoundedOn({ss \in Nat \X Nat : ss[1] < ss[2]}, Nat)
  BY NatLessThanWellFounded DEF OpToRel
<1>3. PICK m \in T : \A n \in T : <<n, m>> \notin {ss \in Nat \X Nat : ss[1] < ss[2]}
  BY <1>1, <1>2
<1>4. \A n \in T : ~(n < m)
  BY <1>3
<1> QED BY <1>4

\* A set of naturals that holds 0 and with a number the next holds them all.
LEMMA SetInduction ==
  ASSUME NEW T \in SUBSET Nat, 0 \in T, \A n \in T : n + 1 \in T
  PROVE  \A n \in Nat : n \in T
<1> SUFFICES ASSUME Nat \ T # {} PROVE FALSE
  OBVIOUS
<1>1. PICK m \in Nat \ T : \A n \in Nat \ T : m <= n
  BY LeastNat
<1>2. m - 1 \in Nat /\ m - 1 \in T
  BY <1>1
<1> QED
  BY <1>1, <1>2

-----------------------------------------------------------------------------
(* Running sums.  A recursive function is what its definition chooses, so  *)
(* that it exists is shown first.                                          *)

\* The function that begins with 0 and takes a given step at each index exists.
LEMMA Recursion ==
  ASSUME NEW n \in Nat, NEW step \in [1..n -> [Int -> Int]]
  PROVE  \E f \in [0..n -> Int] : f[0] = 0 /\ \A i \in 1..n : f[i] = step[i][f[i - 1]]
<1> DEFINE Upto(k, f) == /\ f \in [0..k -> Int] /\ f[0] = 0
                         /\ \A i \in 1..k : f[i] = step[i][f[i - 1]]
           T == {k \in Nat : k <= n => \E f : Upto(k, f)}
<1> HIDE DEF Upto
<1>1. 0 \in T
  <2>1. Upto(0, [i \in 0..0 |-> 0])
    BY DEF Upto
  <2> QED BY <2>1
<1>2. ASSUME NEW k \in T PROVE k + 1 \in T
  <2>1. k \in Nat
    OBVIOUS
  <2> SUFFICES ASSUME k + 1 <= n PROVE \E f : Upto(k + 1, f)
    BY <2>1
  <2>2. PICK f : Upto(k, f)
    BY <2>1
  <2> DEFINE g == [i \in 0..k + 1 |-> IF i <= k THEN f[i] ELSE step[k + 1][f[k]]]
  <2>3. step[k + 1][f[k]] \in Int
    BY <2>1, <2>2, k \in 0..k, k + 1 \in 1..n DEF Upto
  <2>4. g \in [0..k + 1 -> Int] /\ g[0] = 0
    BY <2>1, <2>2, <2>3 DEF Upto
  <2>5. ASSUME NEW i \in 1..k + 1 PROVE g[i] = step[i][g[i - 1]]
    <3>1. CASE i = k + 1
      BY <3>1, <2>1
    <3>2. CASE i # k + 1
      BY <3>2, <2>1, <2>2 DEF Upto
    <3> QED BY <3>1, <3>2
  <2>6. Upto(k + 1, g)
    BY <2>4, <2>5 DEF Upto
  <2> QED BY <2>6
<1>3. n \in T
  <2>1. T \in SUBSET Nat
    OBVIOUS
  <2> HIDE DEF T
  <2> QED BY <1>1, <1>2, <2>1, SetInduction
<1>4. PICK f : Upto(n, f)
  BY <1>3
<1> QED BY <1>4 DEF Upto

Partial(q) ==
  LET sum[i \in 0..Len(q)] == IF i = 0 THEN 0 ELSE sum[i - 1] + q[i] IN sum

PartialWrap(q) ==
  LET sum[i \in 0..Len(q)] == IF i = 0 THEN 0 ELSE Wrap(sum[i - 1] + q[i]) IN sum

LEMMA WrapType == ASSUME NEW n \in Int PROVE Wrap(n) \in Int
  BY RatioAssumption DEF Wrap

\* The running sum is the function its definition says it is.
LEMMA PartialDef ==
  ASSUME NEW q \in Seq(Int)
  PROVE  /\ Partial(q) \in [0..Len(q) -> Int]
         /\ Partial(q)[0] = 0
         /\ \A i \in 1..Len(q) : Partial(q)[i] = Partial(q)[i - 1] + q[i]
         /\ ExactSum(q) = Partial(q)[Len(q)]
<1> DEFINE n == Len(q)
           Eq(f) == f = [i \in 0..n |-> IF i = 0 THEN 0 ELSE f[i - 1] + q[i]]
           step == [i \in 1..n |-> [x \in Int |-> x + q[i]]]
<1>1. n \in Nat /\ step \in [1..n -> [Int -> Int]]
  OBVIOUS
<1>2. PICK f \in [0..n -> Int] : f[0] = 0 /\ \A i \in 1..n : f[i] = step[i][f[i - 1]]
  <2> HIDE DEF step, n
  <2> QED BY <1>1, Recursion
<1>3. Eq(f)
  <2>1. ASSUME NEW i \in 0..n PROVE f[i] = IF i = 0 THEN 0 ELSE f[i - 1] + q[i]
    <3>1. CASE i = 0
      BY <3>1, <1>2
    <3>2. CASE i # 0
      <4>1. i \in 1..n /\ f[i - 1] \in Int
        BY <3>2, <1>1
      <4> QED BY <3>2, <4>1, <1>2
    <3> QED BY <3>1, <3>2
  <2> QED BY <2>1
<1>4. Partial(q) = CHOOSE g : Eq(g)
  BY DEF Partial
<1>5. Eq(Partial(q))
  BY <1>3, <1>4
<1>6. \A i \in 0..n : Partial(q)[i] = IF i = 0 THEN 0 ELSE Partial(q)[i - 1] + q[i]
  BY <1>5
<1>7. f = Partial(q)
  <2> DEFINE T == {k \in Nat : k \in 0..n => Partial(q)[k] = f[k]}
  <2>1. 0 \in T
    BY <1>6, <1>2, <1>1
  <2>2. ASSUME NEW k \in T PROVE k + 1 \in T
    BY <2>2, <1>6, <1>3, <1>1
  <2>3. \A k \in Nat : k \in T
    <3>1. T \in SUBSET Nat
      OBVIOUS
    <3> HIDE DEF T
    <3> QED BY <2>1, <2>2, <3>1, SetInduction
  <2>4. \A k \in 0..n : Partial(q)[k] = f[k]
    BY <2>3, <1>1
  <2> QED BY <2>4, <1>5, <1>2
<1>8. ExactSum(q) = Partial(q)[Len(q)]
  BY DEF ExactSum, Partial
<1> QED
  BY <1>1, <1>2, <1>6, <1>7, <1>8
\* The same of the sum that wraps.
LEMMA WrapDef ==
  ASSUME NEW q \in Seq(Int)
  PROVE  /\ PartialWrap(q) \in [0..Len(q) -> Int]
         /\ PartialWrap(q)[0] = 0
         /\ \A i \in 1..Len(q) : PartialWrap(q)[i] = Wrap(PartialWrap(q)[i - 1] + q[i])
         /\ SumRatio(q) = PartialWrap(q)[Len(q)]
<1> DEFINE n == Len(q)
           Eq(f) == f = [i \in 0..n |-> IF i = 0 THEN 0 ELSE Wrap(f[i - 1] + q[i])]
           step == [i \in 1..n |-> [x \in Int |-> Wrap(x + q[i])]]
<1>1. n \in Nat /\ step \in [1..n -> [Int -> Int]]
  <2>1. \A i \in 1..n, x \in Int : Wrap(x + q[i]) \in Int
    BY WrapType
  <2> QED BY <2>1
<1>2. PICK f \in [0..n -> Int] : f[0] = 0 /\ \A i \in 1..n : f[i] = step[i][f[i - 1]]
  <2> HIDE DEF step, n
  <2> QED BY <1>1, Recursion
<1>3. Eq(f)
  <2>1. ASSUME NEW i \in 0..n PROVE f[i] = IF i = 0 THEN 0 ELSE Wrap(f[i - 1] + q[i])
    <3>1. CASE i = 0
      BY <3>1, <1>2
    <3>2. CASE i # 0
      <4>1. i \in 1..n /\ f[i - 1] \in Int
        BY <3>2, <1>1
      <4> QED BY <3>2, <4>1, <1>2
    <3> QED BY <3>1, <3>2
  <2> QED BY <2>1
<1>4. PartialWrap(q) = CHOOSE g : Eq(g)
  BY DEF PartialWrap
<1>5. Eq(PartialWrap(q))
  BY <1>3, <1>4
<1>6. \A i \in 0..n : PartialWrap(q)[i] = IF i = 0 THEN 0 ELSE Wrap(PartialWrap(q)[i - 1] + q[i])
  BY <1>5
<1>7. f = PartialWrap(q)
  <2> DEFINE T == {k \in Nat : k \in 0..n => PartialWrap(q)[k] = f[k]}
  <2>1. 0 \in T
    BY <1>6, <1>2, <1>1
  <2>2. ASSUME NEW k \in T PROVE k + 1 \in T
    BY <2>2, <1>6, <1>3, <1>1
  <2>3. \A k \in Nat : k \in T
    <3>1. T \in SUBSET Nat
      OBVIOUS
    <3> HIDE DEF T
    <3> QED BY <2>1, <2>2, <3>1, SetInduction
  <2>4. \A k \in 0..n : PartialWrap(q)[k] = f[k]
    BY <2>3, <1>1
  <2> QED BY <2>4, <1>5, <1>2
<1>8. SumRatio(q) = PartialWrap(q)[Len(q)]
  BY DEF SumRatio, PartialWrap
<1> QED
  BY <1>1, <1>2, <1>6, <1>7, <1>8
LEMMA SumType == ASSUME NEW q \in Seq(Int) PROVE ExactSum(q) \in Int
<1>1. Len(q) \in 0..Len(q)
  OBVIOUS
<1> QED BY <1>1, PartialDef

\* Sums of two lists, of a multiple of a list, of one value at one position.
LEMMA SumPlus ==
  ASSUME NEW a \in Seq(Int), NEW b \in Seq(Int), NEW c \in Seq(Int),
         Len(a) = Len(b), Len(b) = Len(c),
         \A i \in 1..Len(a) : c[i] = a[i] + b[i]
  PROVE  ExactSum(c) = ExactSum(a) + ExactSum(b)
<1> DEFINE T == {k \in Nat : k \in 0..Len(a) =>
                    Partial(c)[k] = Partial(a)[k] + Partial(b)[k]}
<1>1. 0 \in T
  BY PartialDef
<1>2. ASSUME NEW k \in T PROVE k + 1 \in T
  <2> SUFFICES ASSUME k + 1 \in 0..Len(a)
               PROVE  Partial(c)[k + 1] = Partial(a)[k + 1] + Partial(b)[k + 1]
    BY <1>2
  <2>1. k \in 0..Len(a) /\ k + 1 \in 1..Len(a) /\ (k + 1) - 1 = k
    BY <1>2
  <2>2. Partial(c)[k] = Partial(a)[k] + Partial(b)[k]
    BY <1>2, <2>1
  <2>3. /\ Partial(a)[k + 1] = Partial(a)[k] + a[k + 1]
        /\ Partial(b)[k + 1] = Partial(b)[k] + b[k + 1]
        /\ Partial(c)[k + 1] = Partial(c)[k] + c[k + 1]
        /\ Partial(a)[k] \in Int /\ Partial(b)[k] \in Int
    BY <2>1, PartialDef
  <2> QED BY <2>1, <2>2, <2>3
<1>3. Len(a) \in T
  <2>1. T \in SUBSET Nat /\ Len(a) \in Nat
    OBVIOUS
  <2> HIDE DEF T
  <2> QED BY <1>1, <1>2, <2>1, SetInduction
<1> QED BY <1>3, PartialDef

LEMMA SumTimes ==
  ASSUME NEW m \in Int, NEW a \in Seq(Int), NEW c \in Seq(Int),
         Len(a) = Len(c), \A i \in 1..Len(a) : c[i] = m * a[i]
  PROVE  ExactSum(c) = m * ExactSum(a)
<1> DEFINE T == {k \in Nat : k \in 0..Len(a) => Partial(c)[k] = m * Partial(a)[k]}
<1>1. 0 \in T
  BY PartialDef
<1>2. ASSUME NEW k \in T PROVE k + 1 \in T
  <2> SUFFICES ASSUME k + 1 \in 0..Len(a)
               PROVE  Partial(c)[k + 1] = m * Partial(a)[k + 1]
    BY <1>2
  <2>1. k \in 0..Len(a) /\ k + 1 \in 1..Len(a) /\ (k + 1) - 1 = k
    BY <1>2
  <2>2. Partial(c)[k] = m * Partial(a)[k]
    BY <1>2, <2>1
  <2>3. /\ Partial(a)[k + 1] = Partial(a)[k] + a[k + 1]
        /\ Partial(c)[k + 1] = Partial(c)[k] + c[k + 1]
        /\ Partial(a)[k] \in Int
    BY <2>1, PartialDef
  <2>4. a[k + 1] \in Int
    BY <2>1
  <2>5. \A x, y \in Int : m * (x + y) = m * x + m * y
    OBVIOUS
  <2> QED BY <2>1, <2>2, <2>3, <2>4, <2>5
<1>3. Len(a) \in T
  <2>1. T \in SUBSET Nat /\ Len(a) \in Nat
    OBVIOUS
  <2> HIDE DEF T
  <2> QED BY <1>1, <1>2, <2>1, SetInduction
<1> QED BY <1>3, PartialDef

LEMMA SumAtOne ==
  ASSUME NEW m \in Int, NEW c \in Seq(Int), NEW pos \in 1..Len(c),
         \A i \in 1..Len(c) : c[i] = IF i = pos THEN m ELSE 0
  PROVE  ExactSum(c) = m
<1> DEFINE T == {k \in Nat : k \in 0..Len(c) =>
                    Partial(c)[k] = IF k < pos THEN 0 ELSE m}
<1>1. 0 \in T
  BY PartialDef
<1>2. ASSUME NEW k \in T PROVE k + 1 \in T
  <2> SUFFICES ASSUME k + 1 \in 0..Len(c)
               PROVE  Partial(c)[k + 1] = IF k + 1 < pos THEN 0 ELSE m
    BY <1>2
  <2>1. k \in 0..Len(c) /\ k + 1 \in 1..Len(c) /\ (k + 1) - 1 = k
    BY <1>2
  <2>2. Partial(c)[k] = IF k < pos THEN 0 ELSE m
    BY <1>2, <2>1
  <2>3. Partial(c)[k + 1] = Partial(c)[k] + c[k + 1]
    BY <2>1, PartialDef
  <2> QED BY <2>1, <2>2, <2>3
<1>3. Len(c) \in T
  <2>1. T \in SUBSET Nat /\ Len(c) \in Nat
    OBVIOUS
  <2> HIDE DEF T
  <2> QED BY <1>1, <1>2, <2>1, SetInduction
<1> QED BY <1>3, PartialDef

LEMMA SumSame ==
  ASSUME NEW m \in Int, NEW c \in Seq(Int), \A i \in 1..Len(c) : c[i] = m
  PROVE  ExactSum(c) = m * Len(c)
<1> DEFINE T == {k \in Nat : k \in 0..Len(c) => Partial(c)[k] = m * k}
<1>1. 0 \in T
  BY PartialDef
<1>2. ASSUME NEW k \in T PROVE k + 1 \in T
  <2> SUFFICES ASSUME k + 1 \in 0..Len(c) PROVE Partial(c)[k + 1] = m * (k + 1)
    BY <1>2
  <2>1. k \in 0..Len(c) /\ k + 1 \in 1..Len(c) /\ (k + 1) - 1 = k
    BY <1>2
  <2>2. Partial(c)[k] = m * k
    BY <1>2, <2>1
  <2>3. Partial(c)[k + 1] = Partial(c)[k] + m
    BY <2>1, PartialDef
  <2>4. \A x \in Int : m * (x + 1) = m * x + m
    OBVIOUS
  <2> QED BY <2>1, <2>2, <2>3, <2>4
<1>3. Len(c) \in T
  <2>1. T \in SUBSET Nat /\ Len(c) \in Nat
    OBVIOUS
  <2> HIDE DEF T
  <2> QED BY <1>1, <1>2, <2>1, SetInduction
<1> QED BY <1>3, PartialDef

\* No element of a list without negative numbers is larger than the sum.
LEMMA SumBounds ==
  ASSUME NEW c \in Seq(Int), \A i \in 1..Len(c) : c[i] >= 0
  PROVE  ExactSum(c) >= 0 /\ \A i \in 1..Len(c) : c[i] <= ExactSum(c)
<1> DEFINE T == {k \in Nat : k \in 0..Len(c) =>
                    /\ Partial(c)[k] >= 0
                    /\ \A i \in 1..k : c[i] <= Partial(c)[k]}
<1>1. 0 \in T
  BY PartialDef
<1>2. ASSUME NEW k \in T PROVE k + 1 \in T
  <2> SUFFICES ASSUME k + 1 \in 0..Len(c)
               PROVE  /\ Partial(c)[k + 1] >= 0
                      /\ \A i \in 1..k + 1 : c[i] <= Partial(c)[k + 1]
    BY <1>2
  <2>1. k \in 0..Len(c) /\ k + 1 \in 1..Len(c) /\ (k + 1) - 1 = k
    BY <1>2
  <2>2. Partial(c)[k] >= 0 /\ \A i \in 1..k : c[i] <= Partial(c)[k]
    BY <1>2, <2>1
  <2>3. /\ Partial(c)[k + 1] = Partial(c)[k] + c[k + 1]
        /\ Partial(c)[k] \in Int
    BY <2>1, PartialDef
  <2>4. \A i \in 1..k + 1 : c[i] \in Int /\ (i \in 1..k \/ i = k + 1)
    BY <2>1
  <2> QED BY <2>1, <2>2, <2>3, <2>4
<1>3. Len(c) \in T
  <2>1. T \in SUBSET Nat /\ Len(c) \in Nat
    OBVIOUS
  <2> HIDE DEF T
  <2> QED BY <1>1, <1>2, <2>1, SetInduction
<1> QED BY <1>3, PartialDef

\* A positive sum has a positive element.
LEMMA SumPositive ==
  ASSUME NEW c \in Seq(Int), ExactSum(c) > 0
  PROVE  \E i \in 1..Len(c) : c[i] > 0
<1> SUFFICES ASSUME \A i \in 1..Len(c) : c[i] <= 0 PROVE FALSE
  OBVIOUS
<1> DEFINE T == {k \in Nat : k \in 0..Len(c) => Partial(c)[k] <= 0}
<1>1. 0 \in T
  BY PartialDef
<1>2. ASSUME NEW k \in T PROVE k + 1 \in T
  <2> SUFFICES ASSUME k + 1 \in 0..Len(c) PROVE Partial(c)[k + 1] <= 0
    BY <1>2
  <2>1. k \in 0..Len(c) /\ k + 1 \in 1..Len(c) /\ (k + 1) - 1 = k
    BY <1>2
  <2>2. Partial(c)[k] <= 0
    BY <1>2, <2>1
  <2>3. /\ Partial(c)[k + 1] = Partial(c)[k] + c[k + 1]
        /\ Partial(c)[k] \in Int
    BY <2>1, PartialDef
  <2> QED BY <2>1, <2>2, <2>3
<1>3. Len(c) \in T
  <2>1. T \in SUBSET Nat /\ Len(c) \in Nat
    OBVIOUS
  <2> HIDE DEF T
  <2> QED BY <1>1, <1>2, <2>1, SetInduction
<1> QED BY <1>3, PartialDef
-----------------------------------------------------------------------------
(* The wrap of an int. *)

Width == 2 * MaxInt + 2

LEMMA TimesAtLeast ==
  ASSUME NEW w \in Nat, NEW d \in Int, d >= 1
  PROVE  w * d >= w
<1>1. w * d = w * (d - 1) + w
  OBVIOUS
<1>2. w * (d - 1) >= 0
  OBVIOUS
<1> QED BY <1>1, <1>2

\* The result is an int, and a multiple of the width away.
LEMMA WrapIs ==
  ASSUME NEW n \in Int
  PROVE  /\ Wrap(n) \in -MaxInt - 1..MaxInt
         /\ \E k \in Int : Wrap(n) = n + Width * k
<1> DEFINE m == n + MaxInt + 1
<1>1. Width \in Nat /\ Width > 0 /\ m \in Int /\ MaxInt \in Nat
  BY RatioAssumption DEF Width
<1>2. m = Width * (m \div Width) + (m % Width) /\ m \div Width \in Int
  BY <1>1
<1>3. m % Width \in 0..Width - 1
  BY <1>1
<1>4. Wrap(n) = (m % Width) - MaxInt - 1
  BY DEF Wrap, Width
<1>5. Width * (0 - (m \div Width)) = 0 - Width * (m \div Width)
  BY <1>1, <1>2
<1>6. Wrap(n) = n + Width * (0 - (m \div Width))
  BY <1>1, <1>2, <1>3, <1>4, <1>5
<1> QED
  BY <1>1, <1>2, <1>3, <1>4, <1>6 DEF Width

\* There is only one such int.
LEMMA WrapUnique ==
  ASSUME NEW n \in Int, NEW m \in -MaxInt - 1..MaxInt, NEW k \in Int,
         m = n + Width * k
  PROVE  Wrap(n) = m
<1>1. PICK j \in Int : Wrap(n) = n + Width * j
  BY WrapIs
<1>2. Width \in Nat /\ Width = 2 * MaxInt + 2 /\ MaxInt \in Nat
  BY RatioAssumption DEF Width
<1>3. Wrap(n) \in -MaxInt - 1..MaxInt
  BY WrapIs
<1>4. Width * (k - j) = Width * k - Width * j /\ Width * (j - k) = Width * j - Width * k
  BY <1>2
<1>5. CASE k - j >= 1
  BY <1>1, <1>2, <1>3, <1>4, <1>5, TimesAtLeast
<1>6. CASE j - k >= 1
  BY <1>1, <1>2, <1>3, <1>4, <1>6, TimesAtLeast
<1>7. CASE k = j
  BY <1>1, <1>7
<1> QED BY <1>5, <1>6, <1>7

LEMMA WrapSmall ==
  ASSUME NEW n \in -MaxInt - 1..MaxInt
  PROVE  Wrap(n) = n
<1>1. Width \in Int /\ n \in Int /\ n = n + Width * 0
  BY RatioAssumption DEF Width
<1> QED BY <1>1, WrapUnique

LEMMA WrapSame ==
  ASSUME NEW n \in Int, NEW k \in Int
  PROVE  Wrap(n + Width * k) = Wrap(n)
<1>1. PICK j \in Int : Wrap(n) = n + Width * j
  BY WrapIs
<1>2. Width \in Int /\ Width * k \in Int
  BY RatioAssumption DEF Width
<1>3. Width * (j - k) = Width * j - Width * k
  BY <1>2
<1> DEFINE x == n + Width * k
           i == j - k
<1>4. x \in Int /\ i \in Int /\ Wrap(n) = x + Width * i
  BY <1>1, <1>2, <1>3
<1>5. Wrap(n) \in -MaxInt - 1..MaxInt
  BY WrapIs
<1>6. Wrap(x) = Wrap(n)
  <2> HIDE DEF x, i
  <2> QED BY <1>4, <1>5, WrapUnique
<1> QED BY <1>6

\* Wrapping at every addition is wrapping once at the end.
LEMMA SumRatioWraps ==
  ASSUME NEW q \in Seq(Int)
  PROVE  SumRatio(q) = Wrap(ExactSum(q))
<1> DEFINE T == {k \in Nat : k \in 0..Len(q) => PartialWrap(q)[k] = Wrap(Partial(q)[k])}
<1>1. 0 \in T
  <2>1. Wrap(0) = 0
    BY WrapSmall, RatioAssumption
  <2> QED BY <2>1, PartialDef, WrapDef
<1>2. ASSUME NEW k \in T PROVE k + 1 \in T
  <2> SUFFICES ASSUME k + 1 \in 0..Len(q)
               PROVE  PartialWrap(q)[k + 1] = Wrap(Partial(q)[k + 1])
    BY <1>2
  <2>1. k \in 0..Len(q) /\ k + 1 \in 1..Len(q) /\ (k + 1) - 1 = k
    BY <1>2
  <2>2. PartialWrap(q)[k] = Wrap(Partial(q)[k])
    BY <1>2, <2>1
  <2>3. /\ Partial(q)[k + 1] = Partial(q)[k] + q[k + 1]
        /\ PartialWrap(q)[k + 1] = Wrap(PartialWrap(q)[k] + q[k + 1])
        /\ Partial(q)[k] \in Int
    BY <2>1, PartialDef, WrapDef
  <2>4. q[k + 1] \in Int
    BY <2>1
  <2>5. PICK j \in Int : Wrap(Partial(q)[k]) = Partial(q)[k] + Width * j
    BY <2>3, WrapIs
  <2>6. Width * j \in Int
    BY RatioAssumption DEF Width
  <2>7. Wrap(Partial(q)[k]) + q[k + 1] = Partial(q)[k + 1] + Width * j
    BY <2>3, <2>4, <2>5, <2>6
  <2> QED BY <2>2, <2>3, <2>4, <2>7, WrapSame
<1>3. Len(q) \in T
  <2>1. T \in SUBSET Nat /\ Len(q) \in Nat
    OBVIOUS
  <2> HIDE DEF T
  <2> QED BY <1>1, <1>2, <2>1, SetInduction
<1> QED BY <1>3, PartialDef, WrapDef
-----------------------------------------------------------------------------
(* One selection. *)

\* A list of ints that is not empty has a first position of its maximum.
LEMMA MaxExists ==
  ASSUME NEW u \in Seq(Int), u # <<>>
  PROVE  /\ MaxRatioPos(u) \in 1..Len(u)
         /\ \A j \in 1..Len(u) : u[j] <= u[MaxRatioPos(u)]
<1> DEFINE IsMax(i, k) == i \in 1..k /\ \A j \in 1..k : u[j] <= u[i]
           T == {k \in Nat : k + 1 \in 1..Len(u) => \E i \in 1..k + 1 : IsMax(i, k + 1)}
<1>1. 0 \in T
  <2>1. \A j \in 1..1 : j = 1
    OBVIOUS
  <2>2. 1 \in 1..Len(u) => IsMax(1, 1)
    BY <2>1
  <2> QED BY <2>2
<1>2. ASSUME NEW k \in T PROVE k + 1 \in T
  <2> SUFFICES ASSUME k + 2 \in 1..Len(u) PROVE \E i \in 1..k + 2 : IsMax(i, k + 2)
    BY <1>2
  <2>1. k \in Nat /\ k + 1 \in 1..Len(u)
    BY <1>2
  <2>2. PICK i \in 1..k + 1 : IsMax(i, k + 1)
    BY <1>2, <2>1
  <2>3. \A j \in 1..k + 2 : u[j] \in Int /\ (j \in 1..k + 1 \/ j = k + 2)
    BY <2>1
  <2>4. CASE u[k + 2] <= u[i]
    <3>1. IsMax(i, k + 2)
      BY <2>1, <2>2, <2>3, <2>4
    <3> QED BY <2>1, <3>1
  <2>5. CASE ~ (u[k + 2] <= u[i])
    <3>1. IsMax(k + 2, k + 2)
      BY <2>1, <2>2, <2>3, <2>5
    <3> QED BY <2>1, <3>1
  <2> QED BY <2>4, <2>5
<1>3. Len(u) - 1 \in T /\ Len(u) \in Nat /\ Len(u) >= 1
  <2>1. T \in SUBSET Nat /\ Len(u) - 1 \in Nat
    OBVIOUS
  <2>2. Len(u) - 1 \in T
    <3> HIDE DEF T
    <3> QED BY <1>1, <1>2, <2>1, SetInduction
  <2> QED BY <2>1, <2>2
<1> DEFINE Maxima == {i \in Nat : IsMax(i, Len(u))}
<1>4. Maxima # {}
  BY <1>3
<1>5. PICK first \in Maxima : \A i \in Maxima : first <= i
  <2>1. Maxima \in SUBSET Nat
    OBVIOUS
  <2> HIDE DEF Maxima
  <2> QED BY <1>4, <2>1, LeastNat
<1>6. ASSUME NEW j \in 1..Len(u), j < first PROVE u[j] < u[first]
  <2>1. j \notin Maxima
    BY <1>5, <1>6
  <2>2. PICK i \in 1..Len(u) : ~ (u[i] <= u[j])
    BY <2>1
  <2>3. u[i] <= u[first] /\ u[i] \in Int /\ u[j] \in Int /\ u[first] \in Int
    BY <2>2, <1>5
  <2> QED BY <2>2, <2>3
<1>7. \E i \in DOMAIN u :
        \A j \in DOMAIN u : u[j] <= u[i] /\ (j < i => u[j] < u[i])
  <2>1. DOMAIN u = 1..Len(u) /\ first \in 1..Len(u)
    BY <1>5
  <2>2. \A j \in 1..Len(u) : u[j] <= u[first]
    BY <1>5
  <2> QED BY <2>1, <2>2, <1>6
<1>8. /\ MaxRatioPos(u) \in DOMAIN u
      /\ \A j \in DOMAIN u : u[j] <= u[MaxRatioPos(u)]
  BY <1>7 DEF MaxRatioPos
<1> QED BY <1>8

\* The credits u of backends with the ratios r, when an int holds them all:
\* they sum to the sum of the ratios, and no backend is a request ahead.
Balanced(r, u) ==
  /\ Len(u) = Len(r)
  /\ ExactSum(u) = ExactSum(r)
  /\ \A i \in 1..Len(r) : u[i] >= r[i] - ExactSum(r) + (IF ExactSum(r) > 0 THEN 1 ELSE 0)

\* What the others owe is what a backend can be owed.
LEMMA BalancedUpper ==
  ASSUME NEW r \in Seq(Nat), NEW u \in Seq(Int), Balanced(r, u), ExactSum(r) > 0
  PROVE  \A i \in 1..Len(r) : u[i] <= r[i] + (Len(r) - 1) * (ExactSum(r) - 1)
<1> DEFINE n == Len(r)
           S == ExactSum(r)
           m == S - 1
           diff == [i \in 1..n |-> u[i] - r[i]]
           same == [i \in 1..n |-> m]
           v    == [i \in 1..n |-> diff[i] + m]
<1>1. n \in Nat /\ n = Len(r) /\ r \in Seq(Int) /\ Len(u) = n
  BY DEF Balanced
<1>2. S \in Int /\ ExactSum(u) = S /\ ExactSum(r) = S /\ m \in Int /\ m = S - 1
  BY <1>1, SumType DEF Balanced
<1>3. \A i \in 1..n : u[i] \in Int /\ r[i] \in Int
  BY <1>1
<1> HIDE DEF m, n, S
<1>4. diff \in Seq(Int) /\ Len(diff) = n /\ \A i \in 1..n : diff[i] = u[i] - r[i]
  BY <1>1, <1>3
<1>5. same \in Seq(Int) /\ Len(same) = n /\ \A i \in 1..n : same[i] = m
  BY <1>1, <1>2
<1> HIDE DEF diff, same
<1>6. v \in Seq(Int) /\ Len(v) = n /\ \A i \in 1..n : v[i] = diff[i] + m
  BY <1>1, <1>2, <1>3, <1>4
<1> HIDE DEF v
<1>7. ExactSum(diff) = 0
  <2>1. \A i \in 1..Len(diff) : u[i] = diff[i] + r[i]
    BY <1>3, <1>4
  <2>2. Len(diff) = Len(r) /\ Len(r) = Len(u)
    BY <1>1, <1>4
  <2>3. ExactSum(u) = ExactSum(diff) + ExactSum(r)
    BY <1>1, <1>4, <2>1, <2>2, SumPlus
  <2>4. ExactSum(diff) \in Int
    BY <1>4, SumType
  <2> QED BY <1>2, <2>3, <2>4
<1>8. ExactSum(same) = m * n
  BY <1>2, <1>5, SumSame
<1>9. ExactSum(v) = m * n
  <2>1. \A i \in 1..Len(diff) : v[i] = diff[i] + same[i]
    BY <1>4, <1>5, <1>6
  <2>2. Len(diff) = Len(same) /\ Len(same) = Len(v)
    BY <1>4, <1>5, <1>6
  <2>3. ExactSum(v) = ExactSum(diff) + ExactSum(same)
    BY <1>4, <1>5, <1>6, <2>1, <2>2, SumPlus
  <2> QED BY <1>1, <1>2, <1>7, <1>8, <2>3
<1> DEFINE Between(i) == u[i] \in Int /\ r[i] \in Int /\ v[i] = u[i] - r[i] + m
<1>10. \A i \in 1..n : Between(i)
  BY <1>3, <1>4, <1>6
<1>11. \A i \in 1..Len(v) : v[i] >= 0
  <2> SUFFICES ASSUME NEW i \in 1..n PROVE v[i] >= 0
    BY <1>6
  <2>1. u[i] >= r[i] - S + 1
    BY <1>1, <1>2 DEF Balanced
  <2>2. Between(i)
    BY <1>10
  <2> QED BY <1>2, <2>1, <2>2
<1>12. \A i \in 1..n : v[i] <= m * n
  BY <1>6, <1>9, <1>11, SumBounds
<1> DEFINE room == (n - 1) * m
<1>13. room \in Int /\ m * n = room + m
  BY <1>1, <1>2
<1> HIDE DEF room
<1>14. \A i \in 1..n : u[i] <= r[i] + room
  <2> SUFFICES ASSUME NEW i \in 1..n PROVE u[i] <= r[i] + room
    OBVIOUS
  <2>1. v[i] <= room + m /\ Between(i)
    BY <1>10, <1>12, <1>13
  <2> QED BY <1>2, <1>13, <2>1
<1> QED BY <1>1, <1>2, <1>14 DEF room

\* When n times the sum of n ratios fits an int, so does every credit.
LEMMA BalancedFits ==
  ASSUME NEW r \in Seq(Nat), NEW u \in Seq(Int), Balanced(r, u),
         Len(r) > 0, Len(r) * ExactSum(r) <= MaxInt
  PROVE  /\ ExactSum(r) \in 0..MaxInt
         /\ \A i \in 1..Len(r) : u[i] \in -MaxInt - 1..MaxInt
<1> DEFINE n == Len(r)
           S == ExactSum(r)
<1>1. n \in Nat /\ n >= 1 /\ r \in Seq(Int) /\ Len(u) = n /\ \A i \in 1..n : r[i] >= 0
  BY DEF Balanced
<1>2. /\ S \in Nat /\ ExactSum(u) = S
      /\ \A i \in 1..n : r[i] \in 0..S
  <2>1. S >= 0 /\ \A i \in 1..n : r[i] <= S
    BY <1>1, SumBounds
  <2>2. S \in Int
    BY <1>1, SumType
  <2> QED BY <1>1, <2>1, <2>2 DEF Balanced
<1>3. \A i \in 1..n : u[i] \in Int /\ r[i] \in Int /\ u[i] >= r[i] - S + (IF S > 0 THEN 1 ELSE 0)
  BY <1>1 DEF Balanced
<1>4. n * S = (n - 1) * S + S /\ (n - 1) * S >= 0 /\ MaxInt \in Nat
  <2>1. \A a, b \in Nat : a >= 1 => a * b = (a - 1) * b + b /\ (a - 1) * b >= 0
    OBVIOUS
  <2> HIDE DEF n, S
  <2> QED BY <1>1, <1>2, <2>1, RatioAssumption
<1>5. S > 0 => \A i \in 1..n : u[i] <= r[i] + (n - 1) * (S - 1)
  BY BalancedUpper
<1> DEFINE T == (n - 1) * S
           R == (n - 1) * (S - 1)
<1>6. T \in Int /\ R \in Int /\ R = T - (n - 1) /\ S + T <= MaxInt /\ T >= 0 /\ S <= MaxInt
  BY <1>1, <1>2, <1>4
<1>7. S = 0 => \A i \in 1..n : u[i] = 0
  <2> SUFFICES ASSUME S = 0 PROVE \A i \in 1..n : u[i] = 0
    OBVIOUS
  <2>1. \A i \in 1..Len(u) : u[i] >= 0
    <3> HIDE DEF n, S
    <3> SUFFICES ASSUME NEW i \in 1..n PROVE u[i] >= 0
      BY <1>1
    <3>1. r[i] \in Int /\ r[i] >= 0 /\ u[i] \in Int /\ u[i] >= r[i] - S + 0
      BY <1>1, <1>3
    <3> QED BY <3>1
  <2>2. \A i \in 1..Len(u) : u[i] <= 0
    BY <1>2, <2>1, SumBounds
  <2> QED BY <1>1, <1>3, <2>1, <2>2
<1> HIDE DEF n, S, T, R
<1>8. ASSUME NEW i \in 1..n PROVE u[i] \in -MaxInt - 1..MaxInt
  <2>1. CASE S = 0
    BY <1>4, <1>7, <2>1
  <2>2. CASE S > 0
    <3>1. u[i] <= r[i] + R
      BY <1>5, <2>2 DEF R
    <3>2. u[i] \in Int /\ r[i] \in 0..S /\ u[i] >= r[i] - S + 1
      BY <1>2, <1>3, <2>2
    <3> QED BY <1>1, <1>2, <1>4, <1>6, <3>1, <3>2
  <2> QED BY <1>2, <2>1, <2>2
<1> QED BY <1>2, <1>4, <1>6, <1>8 DEF n, S

\* What a selection does to the sum of the credits: it takes the charge and
\* gives every backend its ratio.
LEMMA ChargeSum ==
  ASSUME NEW u \in Seq(Int), NEW r \in Seq(Int), NEW w \in Seq(Int),
         Len(u) = Len(r), Len(r) = Len(w), NEW pos \in 1..Len(u), NEW c \in Int,
         \A i \in 1..Len(u) : w[i] = (IF i = pos THEN u[i] - c ELSE u[i]) + r[i]
  PROVE  ExactSum(w) = ExactSum(u) - c + ExactSum(r)
<1> DEFINE n == Len(u)
           d == [i \in 1..n |-> IF i = pos THEN 0 - c ELSE 0]
           x == [i \in 1..n |-> u[i] + d[i]]
<1>1. n \in Nat /\ n = Len(u) /\ \A i \in 1..n : u[i] \in Int /\ r[i] \in Int
  OBVIOUS
<1> HIDE DEF n
<1>2. d \in Seq(Int) /\ Len(d) = n /\ \A i \in 1..n : d[i] = IF i = pos THEN 0 - c ELSE 0
  BY <1>1
<1> HIDE DEF d
<1>3. x \in Seq(Int) /\ Len(x) = n /\ \A i \in 1..n : x[i] = u[i] + d[i]
  BY <1>1, <1>2
<1> HIDE DEF x
<1>4. ExactSum(d) = 0 - c
  <2>1. pos \in 1..Len(d) /\ 0 - c \in Int
    BY <1>1, <1>2
  <2> QED BY <1>2, <2>1, SumAtOne
<1>5. ExactSum(x) = ExactSum(u) + ExactSum(d)
  BY <1>1, <1>2, <1>3, SumPlus
<1>6. ExactSum(w) = ExactSum(x) + ExactSum(r)
  <2>1. \A i \in 1..Len(x) : w[i] = x[i] + r[i]
    <3> SUFFICES ASSUME NEW i \in 1..n PROVE w[i] = x[i] + r[i]
      BY <1>3
    <3>1. w[i] = (IF i = pos THEN u[i] - c ELSE u[i]) + r[i]
      BY <1>1
    <3>2. x[i] = u[i] + (IF i = pos THEN 0 - c ELSE 0)
      BY <1>2, <1>3
    <3> QED BY <1>1, <3>1, <3>2
  <2>2. Len(x) = Len(r) /\ Len(r) = Len(w)
    BY <1>1, <1>3
  <2> QED BY <1>3, <2>1, <2>2, SumPlus
<1> QED BY <1>4, <1>5, <1>6, SumType

\* Wrapping every credit does not change the wrapped sum.
LEMMA WrapEach ==
  ASSUME NEW w \in Seq(Int), NEW x \in Seq(Int), Len(x) = Len(w),
         \A i \in 1..Len(w) : x[i] = Wrap(w[i])
  PROVE  SumRatio(x) = Wrap(ExactSum(w))
<1> DEFINE n == Len(w)
           m == [i \in 1..n |-> CHOOSE k \in Int : Wrap(w[i]) = w[i] + Width * k]
           t == [i \in 1..n |-> Width * m[i]]
<1>1. n \in Nat /\ n = Len(w) /\ n = Len(x) /\ \A i \in 1..n : w[i] \in Int
  OBVIOUS
<1>2. \A i \in 1..n : m[i] \in Int /\ Wrap(w[i]) = w[i] + Width * m[i]
  <2> TAKE i \in 1..n
  <2>1. \E k \in Int : Wrap(w[i]) = w[i] + Width * k
    BY <1>1, WrapIs
  <2> QED BY <2>1
<1>3. Width \in Int
  BY RatioAssumption DEF Width
<1> HIDE DEF n
<1>4. m \in Seq(Int) /\ Len(m) = n
  BY <1>1, <1>2
<1> HIDE DEF m
<1>5. t \in Seq(Int) /\ Len(t) = n /\ \A i \in 1..n : t[i] = Width * m[i]
  BY <1>1, <1>2, <1>3
<1> HIDE DEF t
<1>6. ExactSum(t) = Width * ExactSum(m)
  BY <1>3, <1>4, <1>5, SumTimes
<1>7. ExactSum(x) = ExactSum(w) + ExactSum(t)
  <2>1. \A i \in 1..Len(w) : x[i] = w[i] + t[i]
    BY <1>1, <1>2, <1>5
  <2>2. Len(w) = Len(t) /\ Len(t) = Len(x)
    BY <1>1, <1>5
  <2> QED BY <1>5, <2>1, <2>2, SumPlus
<1>8. ExactSum(w) \in Int /\ ExactSum(m) \in Int
  BY <1>4, SumType
<1> QED BY <1>6, <1>7, <1>8, SumRatioWraps, WrapSame

LEMMA EarnedMore ==
  ASSUME NEW a \in Int, NEW b \in Int, NEW c \in Int, NEW d \in Int,
         b >= 0, a >= b - c + d
  PROVE  a + b >= b - c + d
  OBVIOUS

\* A selection keeps the balance: only a backend with credit is charged.
LEMMA ChargeBalanced ==
  ASSUME NEW r \in Seq(Nat), NEW u \in Seq(Int), Balanced(r, u),
         NEW pos \in 1..Len(u), \A j \in 1..Len(u) : u[j] <= u[pos],
         NEW w \in Seq(Int), Len(w) = Len(u),
         \A i \in 1..Len(u) : w[i] = (IF i = pos THEN u[i] - ExactSum(r) ELSE u[i]) + r[i]
  PROVE  Balanced(r, w)
<1> DEFINE n == Len(u)
           S == ExactSum(r)
           one == IF S > 0 THEN 1 ELSE 0
<1>1. /\ r \in Seq(Int) /\ n \in Nat /\ n = Len(r) /\ n = Len(u) /\ n = Len(w)
      /\ \A i \in 1..Len(r) : r[i] >= 0
      /\ \A i \in 1..n : r[i] \in Int /\ u[i] \in Int
  <2>1. r \in Seq(Int) /\ Len(r) = Len(u) /\ Len(u) \in Nat
    BY DEF Balanced
  <2>2. \A i \in 1..Len(r) : r[i] \in Nat
    OBVIOUS
  <2>3. \A i \in 1..Len(u) : u[i] \in Int
    OBVIOUS
  <2> QED BY <2>1, <2>2, <2>3
<1>2. S \in Int /\ S >= 0 /\ ExactSum(u) = S /\ ExactSum(r) = S
  <2>1. ExactSum(r) \in Int
    BY <1>1, SumType
  <2>2. ExactSum(r) >= 0
    BY <1>1, SumBounds
  <2> QED BY <2>1, <2>2 DEF Balanced
<1>3. \A i \in 1..n : /\ w[i] = (IF i = pos THEN u[i] - S ELSE u[i]) + r[i]
                      /\ u[i] >= r[i] - S + one
  BY DEF Balanced
<1>4. one \in 0..1 /\ (S > 0 => one = 1) /\ (S = 0 => one = 0)
  OBVIOUS
<1> HIDE DEF n, S, one
<1>5. ExactSum(w) = S
  <2>1. /\ Len(u) = Len(r) /\ Len(r) = Len(w)
        /\ \A i \in 1..Len(u) : w[i] = (IF i = pos THEN u[i] - S ELSE u[i]) + r[i]
    BY <1>1, <1>3
  <2>2. ExactSum(w) = ExactSum(u) - S + ExactSum(r)
    BY <1>1, <1>2, <2>1, ChargeSum
  <2> QED BY <1>2, <2>2
<1>6. u[pos] >= one
  <2>1. CASE S > 0
    <3>1. PICK i \in 1..Len(u) : u[i] > 0
      BY <1>2, <2>1, SumPositive
    <3>2. u[i] <= u[pos] /\ u[i] \in Int /\ u[pos] \in Int
      OBVIOUS
    <3> QED BY <1>4, <2>1, <3>1, <3>2
  <2>2. CASE S = 0
    <3>1. u[pos] >= r[pos] - S + one /\ r[pos] >= 0 /\ r[pos] \in Int /\ u[pos] \in Int
      BY <1>1, <1>3
    <3> QED BY <1>4, <2>2, <3>1
  <2> QED BY <1>2, <2>1, <2>2
<1>7. ASSUME NEW i \in 1..n PROVE w[i] >= r[i] - S + one
  <2>1. r[i] \in Int /\ r[i] >= 0 /\ u[i] \in Int /\ u[pos] \in Int
    BY <1>1
  <2>2. CASE i = pos
    <3>1. w[i] = u[pos] - S + r[i]
      BY <1>3, <2>2
    <3> QED BY <1>2, <1>4, <1>6, <2>1, <3>1
  <2>3. CASE i # pos
    <3>1. w[i] = u[i] + r[i]
      BY <1>3, <2>3
    <3>2. u[i] >= r[i] - S + one
      BY <1>3
    <3>3. S \in Int /\ one \in Int
      BY <1>2, <1>4
    <3> QED BY <2>1, <3>1, <3>2, <3>3, EarnedMore
  <2> QED BY <2>2, <2>3
<1> QED BY <1>1, <1>2, <1>5, <1>7 DEF Balanced, S, one

\* What the selection of the backend pos makes of the credits u, before and
\* after the wrap.
Charged(r, u, pos, charge) ==
  [i \in 1..Len(u) |-> (IF i = pos THEN u[i] - charge ELSE u[i]) + r[i]]

Wrapped(w) == [i \in 1..Len(w) |-> Wrap(w[i])]

LEMMA ChargedType ==
  ASSUME NEW r \in Seq(Int), NEW u \in Seq(Int), Len(r) = Len(u), NEW pos, NEW charge \in Int
  PROVE  Charged(r, u, pos, charge) \in Seq(Int) /\ Len(Charged(r, u, pos, charge)) = Len(u)
<1>1. \A i \in 1..Len(u) : u[i] \in Int /\ r[i] \in Int
  OBVIOUS
<1>2. \A i \in 1..Len(u) : (IF i = pos THEN u[i] - charge ELSE u[i]) + r[i] \in Int
  BY <1>1
<1>3. Len(u) \in Nat
  OBVIOUS
<1> QED BY <1>2, <1>3 DEF Charged

LEMMA WrappedType ==
  ASSUME NEW w \in Seq(Int)
  PROVE  Wrapped(w) \in Seq(Int) /\ Len(Wrapped(w)) = Len(w)
<1>1. \A i \in 1..Len(w) : Wrap(w[i]) \in Int
  BY WrapType
<1>2. Len(w) \in Nat
  OBVIOUS
<1> QED BY <1>1, <1>2 DEF Wrapped

\* A selection leaves the wrapped sum of the credits as it was.
LEMMA ConservedList ==
  ASSUME NEW r \in Seq(Int), NEW u \in Seq(Int), Len(r) = Len(u),
         NEW pos \in 1..Len(u), SumRatio(u) = SumRatio(r)
  PROVE  SumRatio(Wrapped(Charged(r, u, pos, SumRatio(r)))) = SumRatio(r)
<1> DEFINE charge == SumRatio(r)
           w == Charged(r, u, pos, charge)
           x == Wrapped(w)
<1>1. charge \in Int /\ charge = Wrap(ExactSum(r)) /\ charge = Wrap(ExactSum(u))
  BY SumRatioWraps, SumType, WrapType
<1>2. ExactSum(r) \in Int /\ ExactSum(u) \in Int
  BY SumType
<1>3. w \in Seq(Int) /\ Len(w) = Len(u)
  BY <1>1, ChargedType
<1>4. \A i \in 1..Len(u) : w[i] = (IF i = pos THEN u[i] - charge ELSE u[i]) + r[i]
  BY DEF Charged
<1>5. x \in Seq(Int) /\ Len(x) = Len(w) /\ \A i \in 1..Len(w) : x[i] = Wrap(w[i])
  BY <1>3, WrappedType DEF Wrapped
<1> HIDE DEF w, x, charge
<1>6. ExactSum(w) = ExactSum(u) - charge + ExactSum(r)
  <2>1. Len(u) = Len(r) /\ Len(r) = Len(w)
    BY <1>3
  <2> QED BY <1>1, <1>3, <1>4, <2>1, ChargeSum
<1>7. PICK j \in Int : charge = ExactSum(r) + Width * j
  BY <1>1, <1>2, WrapIs
<1>8. Width \in Int
  BY RatioAssumption DEF Width
<1>9. Width * (0 - j) = 0 - Width * j /\ Width * j \in Int
  BY <1>8
<1>10. ExactSum(w) = ExactSum(u) + Width * (0 - j)
  <2> DEFINE back == Width * (0 - j)
             more == Width * j
             eu == ExactSum(u)
             er == ExactSum(r)
  <2>1. ExactSum(w) = eu - charge + er /\ charge = er + more /\ back = 0 - more
    BY <1>6, <1>7, <1>9
  <2>2. eu \in Int /\ er \in Int /\ more \in Int
    BY <1>2, <1>9
  <2> HIDE DEF back, more, eu, er
  <2>3. ExactSum(w) = eu + back
    BY <2>1, <2>2
  <2> QED BY <2>3 DEF eu, back
<1>11. Wrap(ExactSum(w)) = charge
  BY <1>1, <1>2, <1>10, WrapSame
<1>12. SumRatio(x) = Wrap(ExactSum(w))
  BY <1>3, <1>5, WrapEach
<1> QED BY <1>11, <1>12 DEF x, w, charge

\* As long as an int has room, nothing wraps and the balance is kept.
LEMMA BalancedList ==
  ASSUME NEW r \in Seq(Nat), r # <<>>, NEW u \in Seq(Int), Balanced(r, u),
         Len(r) * ExactSum(r) <= MaxInt,
         NEW pos \in 1..Len(u), \A j \in 1..Len(u) : u[j] <= u[pos]
  PROVE  /\ Wrapped(Charged(r, u, pos, ExactSum(r))) = Charged(r, u, pos, ExactSum(r))
         /\ Balanced(r, Charged(r, u, pos, ExactSum(r)))
<1> DEFINE w == Charged(r, u, pos, ExactSum(r))
<1>1. r \in Seq(Int) /\ Len(r) = Len(u) /\ ExactSum(r) \in Int
  BY SumType DEF Balanced
<1>2. w \in Seq(Int) /\ Len(w) = Len(u)
  BY <1>1, ChargedType
<1>3. \A i \in 1..Len(u) : w[i] = (IF i = pos THEN u[i] - ExactSum(r) ELSE u[i]) + r[i]
  BY DEF Charged
<1> HIDE DEF w
<1>4. Balanced(r, w)
  BY <1>2, <1>3, ChargeBalanced
<1>5. Len(r) > 0
  OBVIOUS
<1>6. \A i \in 1..Len(r) : w[i] \in -MaxInt - 1..MaxInt
  BY <1>2, <1>4, <1>5, BalancedFits
<1>7. \A i \in 1..Len(w) : Wrap(w[i]) = w[i]
  BY <1>1, <1>2, <1>6, WrapSmall
<1>8. Wrapped(w) = w
  <2>1. Wrapped(w) = [i \in 1..Len(w) |-> w[i]]
    BY <1>7 DEF Wrapped
  <2> QED BY <1>2, <2>1
<1> QED BY <1>4, <1>8 DEF w

-----------------------------------------------------------------------------
(* The invariant. *)

Lists ==
  /\ ratioConfig \in [Keys -> RatioLists \cup {<<>>}]
  /\ ratioUse \in [Keys -> Seq(Int)]
  /\ picks \in [Keys -> Seq(Int)]
  /\ total \in [Keys -> Nat]
  /\ \A k \in Keys : Len(ratioUse[k]) = Len(ratioConfig[k])
  /\ \A k \in Keys : Len(picks[k]) = Len(ratioConfig[k])

\* As long as an int has room, the credits are balanced, and each is what
\* the history says.
Balances ==
  \A k \in Keys : RatiosFit(k) =>
    /\ Balanced(ratioConfig[k], ratioUse[k])
    /\ \A i \in 1..Len(ratioConfig[k]) :
         ratioUse[k][i] = ratioConfig[k][i] * (total[k] + 1) - Sum(k) * picks[k][i]

CreditInv == Lists /\ CreditConserved /\ Balances

LEMMA ListTypes ==
  ASSUME NEW ratios \in RatioLists \cup {<<>>}
  PROVE  /\ ratios \in Seq(Nat) /\ ratios \in Seq(Int) /\ ratios \in Seq(0..MaxInt)
         /\ \A i \in 1..Len(ratios) : ratios[i] >= 0
<1>1. CASE ratios = <<>>
  BY <1>1
<1>2. CASE ratios \in RatioLists
  <2>1. ratios \in Seq(0..MaxInt) /\ MaxInt \in Nat
    BY <1>2, RatioAssumption
  <2> QED BY <2>1
<1> QED BY <1>1, <1>2

\* The exact sum of a list that fits is the sum the code computes.
LEMMA FitSum ==
  ASSUME NEW r \in Seq(Nat), Len(r) * ExactSum(r) <= MaxInt
  PROVE  SumRatio(r) = ExactSum(r) /\ ExactSum(r) \in 0..MaxInt
<1>1. r \in Seq(Int) /\ Len(r) \in Nat /\ \A i \in 1..Len(r) : r[i] >= 0
  OBVIOUS
<1>2. ExactSum(r) \in Int /\ ExactSum(r) >= 0 /\ MaxInt \in Nat
  BY <1>1, SumType, SumBounds, RatioAssumption
<1>3. CASE Len(r) = 0
  <2>1. ExactSum(r) = 0
    BY <1>1, <1>3, PartialDef
  <2> QED BY <1>1, <1>2, <2>1, SumRatioWraps, WrapSmall
<1>4. CASE Len(r) # 0
  <2>1. \A a, b \in Nat : a >= 1 => a * b >= b
    BY TimesAtLeast
  <2> DEFINE n == Len(r)
             S == ExactSum(r)
  <2>2. n \in Nat /\ n >= 1 /\ S \in Nat /\ n * S <= MaxInt
    BY <1>1, <1>2, <1>4
  <2>3. n * S >= S /\ n * S \in Nat
    <3> HIDE DEF n, S
    <3> QED BY <2>1, <2>2
  <2>4. S \in -MaxInt - 1..MaxInt
    <3> DEFINE p == n * S
    <3>1. p \in Nat /\ p <= MaxInt /\ p >= S
      BY <2>2, <2>3
    <3> HIDE DEF n, S, p
    <3> QED BY <1>2, <2>2, <3>1
  <2> QED BY <1>1, <1>2, <2>4, SumRatioWraps, WrapSmall
<1> QED BY <1>3, <1>4

LEMMA InitCredit == Init => CreditInv
<1> SUFFICES ASSUME Init PROVE CreditInv
  OBVIOUS
<1>1. Lists
  BY DEF Init, Lists
<1>2. ASSUME NEW k \in Keys
      PROVE  ratioConfig[k] = <<>> /\ ratioUse[k] = <<>>
  BY DEF Init
<1>3. CreditConserved
  BY <1>2 DEF CreditConserved, Sum
<1>4. Balances
  <2>1. <<>> \in Seq(Int) /\ Len(<<>>) = 0
    OBVIOUS
  <2> QED BY <1>2, <2>1 DEF Balances, Balanced
<1> QED BY <1>1, <1>3, <1>4 DEF CreditInv

\* A new list begins with its ratios as credit.
LEMMA UpdateCredit ==
  ASSUME CreditInv, NEW k \in Keys, NEW ratios \in RatioLists, UpdatePath(k, ratios)
  PROVE  CreditInv'
<1> USE DEF CreditInv
<1>1. /\ ratios \in Seq(Nat) /\ ratios \in Seq(Int)
      /\ \A i \in 1..Len(ratios) : ratios[i] >= 0
  BY ListTypes
<1>2. /\ [i \in DOMAIN ratios |-> 0] \in Seq(Int)
      /\ Len([i \in DOMAIN ratios |-> 0]) = Len(ratios)
      /\ \A i \in 1..Len(ratios) : [j \in DOMAIN ratios |-> 0][i] = 0
  BY <1>1
<1>3. Lists'
  BY <1>1, <1>2 DEF Lists, UpdatePath
<1>4. /\ ratioConfig'[k] = ratios /\ ratioUse'[k] = ratios /\ total'[k] = 0
      /\ picks'[k] = [i \in DOMAIN ratios |-> 0]
  BY DEF Lists, UpdatePath
<1>5. ASSUME NEW other \in Keys, other # k
      PROVE  /\ ratioConfig'[other] = ratioConfig[other]
             /\ ratioUse'[other] = ratioUse[other]
             /\ total'[other] = total[other]
             /\ picks'[other] = picks[other]
  BY <1>5 DEF Lists, UpdatePath
<1>6. CreditConserved'
  BY <1>4, <1>5 DEF CreditConserved, Sum
<1>7. Balances'
  <2> SUFFICES ASSUME NEW port \in Keys, RatiosFit(port)'
               PROVE  /\ Balanced(ratioConfig'[port], ratioUse'[port])
                      /\ \A i \in 1..Len(ratioConfig'[port]) :
                           ratioUse'[port][i] =
                             ratioConfig'[port][i] * (total'[port] + 1)
                               - Sum(port)' * picks'[port][i]
    BY DEF Balances
  <2>1. CASE port # k
    BY <1>5, <2>1 DEF Balances, RatiosFit, Sum
  <2>2. CASE port = k
    <3>1. SumRatio(ratios) = ExactSum(ratios) /\ ExactSum(ratios) \in 0..MaxInt
      BY <1>1, <1>4, <2>2, FitSum DEF RatiosFit
    <3>2. Balanced(ratios, ratios)
      <4>1. \A i \in 1..Len(ratios) : ratios[i] \in Int
        BY <1>1
      <4>2. ExactSum(ratios) \in Int /\ ExactSum(ratios) >= 0
        BY <3>1, RatioAssumption
      <4> QED BY <4>1, <4>2 DEF Balanced
    <3>3. ASSUME NEW i \in 1..Len(ratios)
          PROVE  ratios[i] = ratios[i] * (0 + 1) - SumRatio(ratios) * 0
      <4>1. ratios[i] \in Int /\ SumRatio(ratios) \in Int
        BY <1>1, <3>1, RatioAssumption
      <4> QED BY <4>1
    <3> QED BY <1>2, <1>4, <2>2, <3>2, <3>3 DEF Sum
  <2> QED BY <2>1, <2>2
<1> QED BY <1>3, <1>6, <1>7

\* What a selection does to the lists of its port, and to the others.
LEMMA SelectedValues ==
  ASSUME Lists, NEW k \in Keys, SelectPath(k)
  PROVE  LET pos == MaxRatioPos(ratioUse[k]) IN
         /\ ratioConfig' = ratioConfig
         /\ ratioUse' = [ratioUse EXCEPT ![k] =
                           Wrapped(Charged(ratioConfig[k], @, pos, Sum(k)))]
         /\ picks' = [picks EXCEPT ![k] = [picks[k] EXCEPT ![pos] = picks[k][pos] + 1]]
         /\ total' = [total EXCEPT ![k] = @ + 1]
<1> DEFINE r == ratioConfig[k]
           u == ratioUse[k]
           pos == MaxRatioPos(u)
           charge == SumRatio(r)
           w == Charged(r, u, pos, charge)
           x == Wrapped(w)
<1>1. r \in Seq(Int) /\ u \in Seq(Int) /\ Len(r) = Len(u) /\ DOMAIN u = 1..Len(u)
  <2>1. r \in RatioLists \cup {<<>>}
    BY DEF Lists
  <2>2. r \in Seq(Int)
    BY <2>1, ListTypes
  <2>3. u \in Seq(Int) /\ Len(u) = Len(r)
    BY DEF Lists
  <2> QED BY <2>2, <2>3
<1>2. charge \in Int
  BY <1>1, SumRatioWraps, SumType, WrapType
<1>3. Len(w) = Len(u)
  BY <1>1, <1>2, ChargedType
<1>4. \A i \in 1..Len(u) : w[i] = (IF i = pos THEN u[i] - charge ELSE u[i]) + r[i]
  BY DEF Charged
<1>5. x = [i \in DOMAIN u |-> Wrap((IF i = pos THEN u[i] - charge ELSE u[i]) + r[i])]
  <2> HIDE DEF w
  <2>1. x = [i \in 1..Len(u) |-> Wrap(w[i])]
    BY <1>3 DEF Wrapped
  <2> HIDE DEF x
  <2> QED BY <1>1, <1>4, <2>1
<1>6. ratioUse' = [ratioUse EXCEPT ![k] = x]
  <2>1. ratioUse' = [ratioUse EXCEPT ![k] =
                       [i \in DOMAIN u |-> Wrap((IF i = pos THEN u[i] - charge ELSE u[i]) + r[i])]]
    BY DEF SelectPath
  <2> HIDE DEF x
  <2> QED BY <1>5, <2>1
<1>7. picks' = [picks EXCEPT ![k] = [picks[k] EXCEPT ![pos] = picks[k][pos] + 1]]
  <2>1. picks' = [picks EXCEPT ![k][pos] = @ + 1]
    BY DEF SelectPath
  <2> HIDE DEF pos
  <2> QED BY <2>1
<1>8. total' = [total EXCEPT ![k] = @ + 1] /\ ratioConfig' = ratioConfig
  BY DEF SelectPath
<1>9. ratioUse' = [ratioUse EXCEPT ![k] = Wrapped(Charged(ratioConfig[k], @, pos, Sum(k)))]
  BY <1>6 DEF Sum
<1> QED BY <1>7, <1>8, <1>9

\* A selection charges the backend with the most credit.
LEMMA SelectCredit ==
  ASSUME CreditInv, NEW k \in Keys, SelectPath(k)
  PROVE  CreditInv'
<1> DEFINE r == ratioConfig[k]
           u == ratioUse[k]
           p == picks[k]
           t == total[k]
           n == Len(u)
           pos == MaxRatioPos(u)
           w == Charged(r, u, pos, Sum(k))
           x == Wrapped(w)
           q == [p EXCEPT ![pos] = p[pos] + 1]
<1>1. /\ r \in Seq(Nat) /\ r \in Seq(Int) /\ r # <<>>
      /\ u \in Seq(Int) /\ n \in Nat /\ Len(r) = n /\ u # <<>>
      /\ p \in Seq(Int) /\ Len(p) = n /\ t \in Nat
  <2>1. r \in RatioLists \cup {<<>>} /\ r # <<>>
    BY DEF CreditInv, Lists, SelectPath
  <2>2. r \in Seq(Nat) /\ r \in Seq(Int)
    BY <2>1, ListTypes
  <2>3. u \in Seq(Int) /\ Len(u) = Len(r) /\ p \in Seq(Int) /\ Len(p) = Len(r) /\ t \in Nat
    BY DEF CreditInv, Lists
  <2> QED BY <2>1, <2>2, <2>3
<1>2. pos \in 1..n /\ \A j \in 1..n : u[j] <= u[pos]
  BY <1>1, MaxExists
<1>3. Sum(k) = SumRatio(r) /\ Sum(k) \in Int
  BY <1>1, SumRatioWraps, SumType, WrapType DEF Sum
<1>4. w \in Seq(Int) /\ Len(w) = n
  BY <1>1, <1>3, ChargedType
<1>5. x \in Seq(Int) /\ Len(x) = n
  BY <1>4, WrappedType
<1>6. q \in Seq(Int) /\ Len(q) = n
      /\ \A i \in 1..n : q[i] = IF i = pos THEN p[i] + 1 ELSE p[i]
  <2> HIDE DEF pos, p, n
  <2>1. pos \in 1..Len(p)
    BY <1>1, <1>2
  <2> QED BY <1>1, <2>1
<1>7. /\ ratioConfig' = ratioConfig
      /\ ratioUse' = [ratioUse EXCEPT ![k] = x]
      /\ picks' = [picks EXCEPT ![k] = q]
      /\ total' = [total EXCEPT ![k] = t + 1]
  BY SelectedValues DEF CreditInv
<1>8. Lists
  BY DEF CreditInv
<1> HIDE DEF pos, w, x, q
<1>9. ratioConfig'[k] = r /\ ratioUse'[k] = x /\ picks'[k] = q /\ total'[k] = t + 1
  BY <1>7, <1>8 DEF Lists
<1>10. ASSUME NEW other \in Keys, other # k
       PROVE  /\ ratioConfig'[other] = ratioConfig[other]
              /\ ratioUse'[other] = ratioUse[other]
              /\ total'[other] = total[other]
              /\ picks'[other] = picks[other]
  BY <1>7, <1>8, <1>10 DEF Lists
<1>11. Lists'
  <2>1. t + 1 \in Nat
    BY <1>1
  <2> HIDE DEF t
  <2>2. ratioUse' \in [Keys -> Seq(Int)] /\ picks' \in [Keys -> Seq(Int)] /\ total' \in [Keys -> Nat]
    BY <1>5, <1>6, <1>7, <1>8, <2>1 DEF Lists
  <2>3. ASSUME NEW port \in Keys
        PROVE  /\ Len(ratioUse'[port]) = Len(ratioConfig'[port])
               /\ Len(picks'[port]) = Len(ratioConfig'[port])
    BY <1>1, <1>5, <1>6, <1>8, <1>9, <1>10 DEF Lists
  <2> QED BY <1>7, <1>8, <2>2, <2>3 DEF Lists
<1>12. CreditConserved'
  <2>1. SumRatio(u) = SumRatio(r)
    BY DEF CreditInv, CreditConserved, Sum
  <2>2. SumRatio(x) = SumRatio(r)
    BY <1>1, <1>2, <1>3, <2>1, ConservedList DEF x, w
  <2> QED BY <1>9, <1>10, <2>2 DEF CreditInv, CreditConserved, Sum
<1>13. Balances'
  <2> SUFFICES ASSUME NEW port \in Keys, RatiosFit(port)'
               PROVE  /\ Balanced(ratioConfig'[port], ratioUse'[port])
                      /\ \A i \in 1..Len(ratioConfig'[port]) :
                           ratioUse'[port][i] =
                             ratioConfig'[port][i] * (total'[port] + 1)
                               - Sum(port)' * picks'[port][i]
    BY DEF Balances
  <2>1. CASE port # k
    BY <1>10, <2>1 DEF CreditInv, Balances, RatiosFit, Sum
  <2>2. CASE port = k
    <3>1. Len(r) * ExactSum(r) <= MaxInt
      BY <1>9, <2>2 DEF RatiosFit
    <3>2. Sum(k) = ExactSum(r)
      BY <1>1, <1>3, <3>1, FitSum
    <3>3. /\ Balanced(r, u)
          /\ \A i \in 1..n : u[i] = r[i] * (t + 1) - Sum(k) * p[i]
      BY <1>1, <3>1 DEF CreditInv, Balances, RatiosFit
    <3>4. x = w /\ Balanced(r, w)
      BY <1>1, <1>2, <3>1, <3>2, <3>3, BalancedList DEF x, w
    <3>5. ASSUME NEW i \in 1..n
          PROVE  x[i] = r[i] * (t + 1 + 1) - Sum(k) * q[i]
      <4> DEFINE a == r[i]
                 b == p[i]
                 S == Sum(k)
      <4>1. x[i] = (IF i = pos THEN u[i] - S ELSE u[i]) + a
        BY <3>4 DEF w, Charged
      <4>2. u[i] = a * (t + 1) - S * b /\ q[i] = IF i = pos THEN b + 1 ELSE b
        BY <1>6, <3>3
      <4>3. a \in Int /\ b \in Int /\ S \in Int /\ t \in Int
        BY <1>1, <1>3
      <4> HIDE DEF a, b, S, t, p
      <4>4. a * (t + 1 + 1) = a * (t + 1) + a /\ S * (b + 1) = S * b + S
        BY <4>3
      <4>5. a * (t + 1) \in Int /\ S * b \in Int
        BY <4>3
      <4>6. x[i] = a * (t + 1 + 1) - S * q[i]
        <5>1. CASE i = pos
          BY <4>1, <4>2, <4>3, <4>4, <4>5, <5>1
        <5>2. CASE i # pos
          BY <4>1, <4>2, <4>3, <4>4, <4>5, <5>2
        <5> QED BY <5>1, <5>2
      <4> QED BY <4>6 DEF a, S
    <3>6. Sum(port)' = Sum(k)
      BY <1>9, <2>2 DEF Sum
    <3> QED BY <1>1, <1>9, <2>2, <3>4, <3>5, <3>6
  <2> QED BY <2>1, <2>2
<1> QED BY <1>11, <1>12, <1>13 DEF CreditInv

LEMMA CreditInvariant == Spec => []CreditInv
<1>1. Init => CreditInv
  BY InitCredit
<1>2. CreditInv /\ [Next]_vars => CreditInv'
  <2> SUFFICES ASSUME CreditInv, [Next]_vars PROVE CreditInv'
    OBVIOUS
  <2>1. ASSUME NEW k \in Keys, SelectPath(k) PROVE CreditInv'
    BY <2>1, SelectCredit
  <2>2. ASSUME NEW k \in Keys, NEW ratios \in RatioLists, UpdatePath(k, ratios) PROVE CreditInv'
    BY <2>2, UpdateCredit
  <2>3. CASE UNCHANGED vars
    BY <2>3 DEF vars, CreditInv, Lists, CreditConserved, Balances, RatiosFit, Sum
  <2> QED BY <2>1, <2>2, <2>3 DEF Next
<1> QED BY <1>1, <1>2, PTL DEF Spec

-----------------------------------------------------------------------------
(* The theorems. *)

\* The credits of a port always sum to the sum of its ratios, up to the wrap
\* of an int: no selection and no replacement of the list (path_manager.cpp)
\* loses or makes up credit, whatever the ratios.
THEOREM CreditConservedCorrect == Spec => []CreditConserved
<1>1. CreditInv => CreditConserved
  BY DEF CreditInv
<1> QED BY <1>1, CreditInvariant, PTL

\* As long as an int has room, _ratio_use of a backend is what it earned less
\* what it was charged: no addition in Select_Path wraps.
THEOREM CreditIsBalanceCorrect == Spec => []CreditIsBalance
<1>1. CreditInv => CreditIsBalance
  <2>1. ASSUME CreditInv, NEW k \in Keys PROVE DOMAIN ratioConfig[k] = 1..Len(ratioConfig[k])
    <3>1. ratioConfig[k] \in Seq(Int)
      BY <2>1, ListTypes DEF CreditInv, Lists
    <3> QED BY <3>1
  <2> QED BY <2>1 DEF CreditInv, Balances, CreditIsBalance
<1> QED BY <1>1, CreditInvariant, PTL

\* What a backend is ahead of its share is what its credit falls short of its
\* ratio, and a balanced credit is neither a sum short nor far above.
LEMMA FairWhenBalanced ==
  ASSUME CreditInv, NEW k \in Keys, NEW i \in DOMAIN ratioConfig[k], RatiosFit(k), Sum(k) > 0
  PROVE  /\ Ahead(k, i) < Sum(k)
         /\ - Ahead(k, i) <= (Len(ratioConfig[k]) - 1) * (Sum(k) - 1)
<1> DEFINE r == ratioConfig[k]
           u == ratioUse[k]
           S == Sum(k)
           a == r[i]
           b == picks[k][i]
           c == u[i]
           t == total[k]
           most == (Len(r) - 1) * (S - 1)
<1>1. /\ r \in Seq(Nat) /\ u \in Seq(Int) /\ picks[k] \in Seq(Int) /\ t \in Int
      /\ Len(picks[k]) = Len(r) /\ Len(u) = Len(r) /\ i \in 1..Len(r)
  <2>1. r \in Seq(Nat)
    BY ListTypes DEF CreditInv, Lists
  <2> QED BY <2>1 DEF CreditInv, Lists
<1>2. SumRatio(r) = ExactSum(r) /\ ExactSum(r) \in 0..MaxInt
  BY <1>1, FitSum DEF RatiosFit
<1>3. S = ExactSum(r) /\ S \in Int
  BY <1>2, RatioAssumption DEF Sum
<1>4. a \in Int /\ b \in Int /\ c \in Int
  BY <1>1
<1>5. Balanced(r, u) /\ c = a * (t + 1) - S * b
  BY <1>1 DEF CreditInv, Balances
<1>6. c >= a - S + 1
  BY <1>1, <1>3, <1>5 DEF Balanced
<1>7. c <= a + most
  BY <1>1, <1>3, <1>5, BalancedUpper
<1>8. most \in Int
  BY <1>1, <1>3
<1>9. Ahead(k, i) = b * S - t * a
  BY DEF Ahead
<1> HIDE DEF r, u, S, a, b, c, t, most
<1>10. a * (t + 1) = t * a + a /\ S * b = b * S /\ t * a \in Int /\ b * S \in Int
  BY <1>1, <1>3, <1>4
<1>11. Ahead(k, i) = a - c
  BY <1>3, <1>4, <1>5, <1>9, <1>10
<1>12. Ahead(k, i) < S /\ - Ahead(k, i) <= most
  BY <1>3, <1>4, <1>6, <1>7, <1>8, <1>11
<1> QED BY <1>12 DEF S, r, most

\* As long as an int has room, no backend is ever a whole request ahead of its
\* share, nor behind by a request for each other one, whatever the ratios and
\* however many selections Select_Path made.
THEOREM FairShareCorrect == Spec => []FairShare
<1>1. CreditInv => FairShare
  BY FairWhenBalanced DEF FairShare
<1> QED BY <1>1, CreditInvariant, PTL
=============================================================================
