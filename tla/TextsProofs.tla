----------------------------- MODULE TextsProofs ----------------------------
(***************************************************************************)
(* What module Texts has of numbers, keys, bodies, tokens and strings, for *)
(* any text.  Each kind of text grows by one character in a step, and the  *)
(* properties are asked of every text that it becomes.                     *)
(***************************************************************************)
EXTENDS Texts, FiniteSetTheorems, SequenceTheorems, WellFoundedInduction, TLAPS

-----------------------------------------------------------------------------
(* The characters of each kind of text. *)

Digit == 0 .. 9
Byte == 0 .. 255
Code == 0 .. 65535

AlphabetsOf(alphabet) ==
  /\ alphabet["number"] \subseteq Digit
  /\ alphabet["key"] \subseteq Int
  /\ alphabet["body"] \subseteq Byte
  /\ alphabet["string"] \subseteq Byte
  /\ alphabet["unicode"] \subseteq Code
  /\ \A k \in {"digits", "comment", "word"} : "0x00" \notin alphabet[k]

LEMMA AlphabetsAre == AlphabetsOf(Alphabet)
<1>1. Characters
  BY AlphabetAssumption
<1>2. Alphabet["number"] \subseteq Digit
  BY <1>1, SMTT(30) DEF Characters, Digit
<1>3. Alphabet["key"] \subseteq Int
  BY <1>1, SMTT(30) DEF Characters
<1>4. Alphabet["body"] \subseteq Byte
  BY <1>1, SMTT(30) DEF Characters, Byte
<1>5. Alphabet["string"] \subseteq Byte
  BY <1>1, SMTT(30) DEF Characters, Byte
<1>6. Alphabet["unicode"] \subseteq Code
  BY <1>1, SMTT(30) DEF Characters, Code
<1>7. \A k \in {"digits", "comment", "word"} : "0x00" \notin Alphabet[k]
  BY <1>1, SMTT(30) DEF Characters
<1> QED BY <1>2, <1>3, <1>4, <1>5, <1>6, <1>7 DEF AlphabetsOf

-----------------------------------------------------------------------------
(* Naturals, and functions and sequences that go on step by step. *)

\* Every set of naturals that is not empty has a least element.
LEMMA LeastNat ==
  ASSUME NEW T \in SUBSET Nat, T # {}
  PROVE  \E m \in T : \A n \in T : m <= n
<1>1. \A R, S : IsWellFoundedOn(R, S) =>
       \A U \in SUBSET S : U # {} => \E m \in U : \A n \in U : <<n, m>> \notin R
  BY WFMin
<1>2. IsWellFoundedOn({ss \in Nat \X Nat : ss[1] < ss[2]}, Nat)
  BY NatLessThanWellFounded DEF OpToRel
<1>3. PICK m \in T : \A n \in T : <<n, m>> \notin {ss \in Nat \X Nat : ss[1] < ss[2]}
  BY <1>1, <1>2
<1>4. \A n \in T : ~(n < m)
  BY <1>3
<1> QED BY <1>4

\* A set of naturals that holds 0 and with a number the next holds them all.
LEMMA SetInduction ==
  ASSUME NEW T \in SUBSET Nat, 0 \in T, \A n \in T : n + 1 \in T
  PROVE  \A n \in Nat : n \in T
<1> SUFFICES ASSUME Nat \ T # {} PROVE FALSE
  OBVIOUS
<1>1. PICK m \in Nat \ T : \A n \in Nat \ T : m <= n
  BY LeastNat
<1>2. m - 1 \in Nat /\ m - 1 \in T
  BY <1>1
<1> QED
  BY <1>1, <1>2

Runs(f, n, S, c, step) ==
  /\ f \in [0 .. n -> S]
  /\ f[0] = c
  /\ \A i \in 1 .. n : f[i] = step[<<f[i - 1], i>>]

\* There is the function that goes on from each of its values to the next.
LEMMA Recursion ==
  ASSUME NEW n \in Nat, NEW S, NEW c \in S, NEW step \in [S \X (1 .. n) -> S]
  PROVE  \E f : Runs(f, n, S, c, step)
<1> DEFINE Eq(m, f) == /\ f \in [0 .. m -> S]
                       /\ f[0] = c
                       /\ \A i \in 1 .. m : f[i] = step[<<f[i - 1], i>>]
           Has == {m \in Nat : m <= n => \E f : Eq(m, f)}
<1>1. 0 \in Has
  <2>1. Eq(0, [i \in 0 .. 0 |-> c])
    OBVIOUS
  <2> QED BY <2>1
<1>2. ASSUME NEW m \in Has PROVE m + 1 \in Has
  <2> SUFFICES ASSUME m + 1 <= n PROVE \E f : Eq(m + 1, f)
    OBVIOUS
  <2>1. PICK f : Eq(m, f)
    OBVIOUS
  <2> DEFINE new == step[<<f[m], m + 1>>]
             g == [i \in 0 .. m + 1 |-> IF i = m + 1 THEN new ELSE f[i]]
  <2>2. f[m] \in S /\ new \in S
    BY <2>1
  <2>3. g \in [0 .. m + 1 -> S] /\ g[0] = c
    BY <2>1, <2>2
  <2>4. ASSUME NEW i \in 1 .. m + 1 PROVE g[i] = step[<<g[i - 1], i>>]
    <3>1. i - 1 \in 0 .. m /\ g[i - 1] = f[i - 1]
      OBVIOUS
    <3>2. CASE i = m + 1
      <4>1. g[i] = new /\ i - 1 = m
        BY <3>2
      <4> QED BY <3>1, <3>2, <4>1
    <3>3. CASE i # m + 1
      <4>1. i \in 1 .. m /\ g[i] = f[i]
        BY <3>3
      <4> QED BY <2>1, <3>1, <4>1
    <3> QED BY <3>2, <3>3
  <2>5. Eq(m + 1, g)
    <3> HIDE DEF g
    <3> QED BY <2>3, <2>4
  <2> HIDE DEF Eq
  <2> QED BY <2>5
<1>3. n \in Has
  <2> HIDE DEF Has
  <2>1. Has \in SUBSET Nat
    BY DEF Has
  <2> QED BY <1>1, <1>2, <2>1, SetInduction
<1>4. PICK f : Eq(n, f)
  BY <1>3
<1> QED BY <1>4 DEF Runs

\* Sequences one behind the other: how far they go up to each.
Pieces(g, w, n, S) ==
  /\ n \in Nat /\ w \in [1 .. n -> Seq(S)]
  /\ g \in [0 .. n -> Seq(S)]
  /\ g[0] = <<>>
  /\ \A k \in 1 .. n : g[k] = g[k - 1] \o w[k]

LEMMA PiecesAre ==
  ASSUME NEW n \in Nat, NEW S, NEW w \in [1 .. n -> Seq(S)]
  PROVE  \E g : Pieces(g, w, n, S)
<1> DEFINE step == [p \in Seq(S) \X (1 .. n) |-> p[1] \o w[p[2]]]
<1>1. step \in [Seq(S) \X (1 .. n) -> Seq(S)]
  OBVIOUS
<1>2. PICK g : Runs(g, n, Seq(S), <<>>, step)
  <2>1. <<>> \in Seq(S)
    OBVIOUS
  <2> HIDE DEF step
  <2> QED BY <1>1, <2>1, Recursion
<1>3. ASSUME NEW k \in 1 .. n PROVE g[k] = g[k - 1] \o w[k]
  <2>1. k - 1 \in 0 .. n
    OBVIOUS
  <2>2. g[k - 1] \in Seq(S)
    <3> HIDE DEF step
    <3> QED BY <1>2, <2>1 DEF Runs
  <2>3. step[<<g[k - 1], k>>] = g[k - 1] \o w[k]
    BY <2>2
  <2> HIDE DEF step
  <2> QED BY <1>2, <2>3 DEF Runs
<1> HIDE DEF step
<1> QED BY <1>2, <1>3 DEF Pieces, Runs

\* Each of them begins like the one before it and goes on with one sequence.
Grows(p, q, e) ==
  /\ Len(p) \in Nat /\ Len(q) \in Nat /\ Len(e) \in Nat
  /\ Len(q) = Len(p) + Len(e)
  /\ \A i \in 1 .. Len(p) : q[i] = p[i]
  /\ \A i \in 1 .. Len(e) : q[Len(p) + i] = e[i]

LEMMA GrowsLonger ==
  ASSUME NEW p, NEW q, NEW e, Grows(p, q, e)
  PROVE  Len(p) \in Nat /\ Len(q) \in Nat /\ Len(e) \in Nat /\ Len(p) <= Len(q) /\ Len(q) = Len(p) + Len(e)
  BY DEF Grows

LEMMA ConcatGrows ==
  ASSUME NEW S, NEW a \in Seq(S), NEW b \in Seq(S)
  PROVE  Grows(a, a \o b, b)
<1>1. Len(a) \in Nat /\ Len(b) \in Nat
  OBVIOUS
<1>2. /\ Len(a \o b) = Len(a) + Len(b)
      /\ \A i \in 1 .. Len(a) + Len(b) : (a \o b)[i] = IF i <= Len(a) THEN a[i] ELSE b[i - Len(a)]
  BY ConcatProperties
<1>3. \A i \in 1 .. Len(a) : (a \o b)[i] = a[i]
  BY <1>1, <1>2
<1>4. ASSUME NEW i \in 1 .. Len(b) PROVE (a \o b)[Len(a) + i] = b[i]
  <2>1. Len(a) + i \in 1 .. Len(a) + Len(b) /\ ~(Len(a) + i <= Len(a)) /\ (Len(a) + i) - Len(a) = i
    BY <1>1
  <2> QED BY <1>2, <2>1
<1> QED BY <1>1, <1>2, <1>3, <1>4 DEF Grows

LEMMA PiecesGrow ==
  ASSUME NEW n, NEW S, NEW w, NEW g, Pieces(g, w, n, S),
         NEW k \in Nat, k < n
  PROVE  Grows(g[k], g[k + 1], w[k + 1])
<1>1. k + 1 \in 1 .. n /\ k \in 0 .. n /\ (k + 1) - 1 = k
  BY DEF Pieces
<1>2. g[k] \in Seq(S) /\ w[k + 1] \in Seq(S) /\ g[k + 1] = g[k] \o w[k + 1]
  BY <1>1 DEF Pieces
<1> QED BY <1>2, ConcatGrows

LEMMA PiecesBegin ==
  ASSUME NEW n, NEW S, NEW w, NEW g, Pieces(g, w, n, S),
         NEW k \in 0 .. n
  PROVE  /\ g[k] \in Seq(S) /\ g[n] \in Seq(S)
         /\ Len(g[k]) <= Len(g[n])
         /\ \A i \in 1 .. Len(g[k]) : g[n][i] = g[k][i]
<1> DEFINE Goes(m) == /\ Len(g[k]) <= Len(g[m])
                      /\ \A i \in 1 .. Len(g[k]) : g[m][i] = g[k][i]
           Has == {m \in Nat : k + m <= n => Goes(k + m)}
<1>0. n \in Nat
  BY DEF Pieces
<1>1. \A m \in 0 .. n : g[m] \in Seq(S) /\ Len(g[m]) \in Nat
  BY DEF Pieces
<1>2. 0 \in Has
  BY <1>0, <1>1
<1>3. ASSUME NEW m \in Has PROVE m + 1 \in Has
  <2> SUFFICES ASSUME k + (m + 1) <= n PROVE Goes(k + (m + 1))
    OBVIOUS
  <2> DEFINE j == k + m
  <2>1. j \in Nat /\ j < n /\ k + (m + 1) = j + 1
    BY <1>0
  <2>2. Goes(j)
    BY <1>0
  <2> HIDE DEF j
  <2>3. Grows(g[j], g[j + 1], w[j + 1])
    BY <2>1, PiecesGrow
  <2>4. Len(g[k]) \in Nat
    BY <1>1
  <2>5. Len(g[k]) <= Len(g[j + 1])
    BY <2>2, <2>3, <2>4, GrowsLonger
  <2>6. \A i \in 1 .. Len(g[k]) : i \in 1 .. Len(g[j])
    BY <2>2, <2>3, <2>4, GrowsLonger
  <2>7. \A i \in 1 .. Len(g[k]) : g[j + 1][i] = g[k][i]
    BY <2>2, <2>3, <2>6 DEF Grows
  <2> QED BY <2>1, <2>5, <2>7
<1>4. n - k \in Has
  <2>1. Has \in SUBSET Nat /\ n - k \in Nat
    BY <1>0
  <2> HIDE DEF Has
  <2> QED BY <1>2, <1>3, <2>1, SetInduction
<1>5. Goes(n)
  <2>1. k + (n - k) = n
    BY <1>0
  <2> HIDE DEF Goes
  <2> QED BY <1>4, <2>1
<1>6. k \in 0 .. n /\ n \in 0 .. n
  BY <1>0
<1> QED BY <1>1, <1>5, <1>6

\* The piece k + 1 lies in the whole behind the pieces before it.
Inside(p, q, e, whole) ==
  /\ Len(p) \in Nat /\ Len(e) \in Nat /\ Len(whole) \in Nat
  /\ Len(q) = Len(p) + Len(e)
  /\ Len(q) <= Len(whole)
  /\ \A i \in 1 .. Len(e) : whole[Len(p) + i] = e[i]

LEMMA PieceIn ==
  ASSUME NEW n, NEW S, NEW w, NEW g, Pieces(g, w, n, S),
         NEW k \in Nat, k < n
  PROVE  Inside(g[k], g[k + 1], w[k + 1], g[n])
<1>1. k + 1 \in 0 .. n
  BY DEF Pieces
<1>2. Len(g[k + 1]) <= Len(g[n]) /\ \A i \in 1 .. Len(g[k + 1]) : g[n][i] = g[k + 1][i]
  BY <1>1, PiecesBegin
<1>3. Grows(g[k], g[k + 1], w[k + 1])
  BY PiecesGrow
<1>4. ASSUME NEW i \in 1 .. Len(w[k + 1]) PROVE g[n][Len(g[k]) + i] = w[k + 1][i]
  <2>1. Len(g[k]) + i \in 1 .. Len(g[k + 1])
    <3> DEFINE a == Len(g[k])
               b == Len(w[k + 1])
    <3>1. a \in Nat /\ b \in Nat /\ Len(g[k + 1]) = a + b
      BY <1>3, GrowsLonger
    <3> HIDE DEF a, b
    <3>2. i \in 1 .. b
      BY DEF b
    <3>3. a + i \in 1 .. Len(g[k + 1])
      BY <3>1, <3>2
    <3> QED BY <3>3 DEF a
  <2>2. g[k + 1][Len(g[k]) + i] = w[k + 1][i]
    BY <1>3 DEF Grows
  <2> QED BY <1>2, <2>1, <2>2
<1>5. Len(g[k]) \in Nat /\ Len(w[k + 1]) \in Nat /\ Len(g[k + 1]) = Len(g[k]) + Len(w[k + 1])
  BY <1>3 DEF Grows
<1>6. Len(g[n]) \in Nat
  <2>1. g[n] \in Seq(S)
    BY <1>1, PiecesBegin
  <2> QED BY <2>1
<1> QED BY <1>2, <1>4, <1>5, <1>6 DEF Inside

\* Sequences one behind the other, as FlattenSeq has them.
LEMMA FlattenIs ==
  ASSUME NEW n, NEW S, NEW w, NEW g, Pieces(g, w, n, S)
  PROVE  FlattenSeq(w) = g[n]
<1>0. n \in Nat /\ w \in [1 .. n -> Seq(S)]
  BY DEF Pieces
<1>1. Len(w) = n
  <2>1. w \in Seq(Seq(S))
    BY <1>0, SeqDef
  <2>2. Len(w) \in Nat /\ DOMAIN w = 1 .. Len(w) /\ DOMAIN w = 1 .. n
    BY <1>0, <2>1
  <2> QED BY <1>0, <2>2
<1>2. CASE n = 0
  <2>1. FlattenSeq(w) = w
    BY <1>1, <1>2 DEF FlattenSeq
  <2>2. w = <<>>
    BY <1>0, <1>2
  <2> QED BY <1>2, <2>1, <2>2 DEF Pieces
<1>3. CASE n # 0
  <2> DEFINE F(f, i) == IF i = 1 THEN w[i] ELSE f[i - 1] \o w[i]
             flatten == CHOOSE f : f = [i \in 1 .. n |-> F(f, i)]
             f0 == [i \in 1 .. n |-> g[i]]
  <2>1. ASSUME NEW i \in 1 .. n PROVE f0[i] = F(f0, i)
    <3>1. CASE i = 1
      <4>1. 1 \in 1 .. n /\ 1 - 1 = 0
        BY <1>0, <1>3
      <4>2. g[1] = <<>> \o w[1] /\ w[1] \in Seq(S)
        BY <4>1 DEF Pieces
      <4>3. g[1] = w[1]
        BY <4>2, ConcatEmptySeq
      <4> QED BY <3>1, <4>3
    <3>2. CASE i # 1
      <4>1. i - 1 \in 1 .. n
        BY <1>0, <3>2
      <4> QED BY <3>2, <4>1 DEF Pieces
    <3> QED BY <3>1, <3>2
  <2>2. f0 = [i \in 1 .. n |-> F(f0, i)]
    <3> HIDE DEF F
    <3>1. f0 = [i \in 1 .. n |-> f0[i]]
      OBVIOUS
    <3> HIDE DEF f0
    <3> QED BY <2>1, <3>1
  <2>3. flatten = [i \in 1 .. n |-> F(flatten, i)]
    <3> HIDE DEF F, f0
    <3> QED BY <2>2
  <2> HIDE DEF flatten
  <2> DEFINE Has == {m \in Nat : m + 1 <= n => flatten[m + 1] = g[m + 1]}
  <2>4. \A i \in 1 .. n : flatten[i] = F(flatten, i)
    <3> HIDE DEF F
    <3> QED BY <2>3
  <2>5. 0 \in Has
    <3>1. 1 \in 1 .. n
      BY <1>0, <1>3
    <3>2. flatten[1] = w[1]
      BY <2>4, <3>1
    <3>3. f0[1] = w[1]
      BY <2>1, <3>1
    <3> QED BY <3>1, <3>2, <3>3
  <2>6. ASSUME NEW m \in Has PROVE m + 1 \in Has
    <3> SUFFICES ASSUME (m + 1) + 1 <= n PROVE flatten[(m + 1) + 1] = g[(m + 1) + 1]
      OBVIOUS
    <3> DEFINE k == (m + 1) + 1
    <3>1. k \in 1 .. n /\ k # 1 /\ k - 1 = m + 1
      BY <1>0
    <3>2. flatten[m + 1] = g[m + 1]
      BY <1>0
    <3> HIDE DEF k
    <3>3. flatten[k] = flatten[k - 1] \o w[k]
      BY <2>4, <3>1
    <3> QED BY <3>1, <3>2, <3>3 DEF k, Pieces
  <2>7. n - 1 \in Has
    <3>1. Has \in SUBSET Nat /\ n - 1 \in Nat
      BY <1>0, <1>3
    <3> HIDE DEF Has
    <3> QED BY <2>5, <2>6, <3>1, SetInduction
  <2>8. flatten[n] = g[n]
    BY <1>0, <2>7
  <2>9. FlattenSeq(w) = flatten[n]
    BY <1>1, <1>3 DEF FlattenSeq, flatten
  <2> QED BY <2>8, <2>9
<1> QED BY <1>2, <1>3

-----------------------------------------------------------------------------
(* Numbers between text and value. *)

\* What the first digits of a row mean.
NumberOf(s) == CHOOSE number : number = [i \in 0 .. Len(s) |-> IF i = 0 THEN 0 ELSE 10 * number[i - 1] + s[i]]

LEMMA NumberIs ==
  ASSUME NEW s \in Seq(Digit)
  PROVE  /\ Decimal(s) = NumberOf(s)[Len(s)]
         /\ NumberOf(s) \in [0 .. Len(s) -> Nat]
         /\ NumberOf(s)[0] = 0
         /\ \A i \in 1 .. Len(s) : NumberOf(s)[i] = 10 * NumberOf(s)[i - 1] + s[i]
<1>1. Len(s) \in Nat /\ \A i \in 1 .. Len(s) : s[i] \in Digit
  OBVIOUS
<1> DEFINE n == Len(s)
           step == [p \in Nat \X (1 .. n) |-> 10 * p[1] + s[p[2]]]
<1>2. step \in [Nat \X (1 .. n) -> Nat]
  BY <1>1 DEF Digit
<1>3. PICK f : Runs(f, n, Nat, 0, step)
  <2>1. n \in Nat /\ 0 \in Nat
    BY <1>1
  <2> HIDE DEF n, step
  <2> QED BY <1>2, <2>1, Recursion
<1>4. ASSUME NEW i \in 1 .. n PROVE f[i] = 10 * f[i - 1] + s[i]
  <2>1. i - 1 \in 0 .. n
    BY <1>1
  <2>2. f[i - 1] \in Nat
    <3> HIDE DEF step
    <3> QED BY <1>3, <2>1 DEF Runs
  <2>3. step[<<f[i - 1], i>>] = 10 * f[i - 1] + s[i]
    BY <2>2
  <2> HIDE DEF step
  <2> QED BY <1>3, <2>3 DEF Runs
<1>5. f = [i \in 0 .. n |-> IF i = 0 THEN 0 ELSE 10 * f[i - 1] + s[i]]
  <2>1. ASSUME NEW i \in 0 .. n PROVE f[i] = IF i = 0 THEN 0 ELSE 10 * f[i - 1] + s[i]
    <3>1. CASE i = 0
      <4> HIDE DEF step
      <4> QED BY <1>3, <3>1 DEF Runs
    <3>2. CASE i # 0
      <4>1. i \in 1 .. n
        BY <1>1, <3>2
      <4> QED BY <1>4, <3>2, <4>1
    <3> QED BY <3>1, <3>2
  <2> HIDE DEF step
  <2> QED BY <1>3, <2>1 DEF Runs
<1>6. NumberOf(s) = [i \in 0 .. n |-> IF i = 0 THEN 0 ELSE 10 * NumberOf(s)[i - 1] + s[i]]
  BY <1>5 DEF NumberOf
<1>7. ASSUME NEW g, g = [i \in 0 .. n |-> IF i = 0 THEN 0 ELSE 10 * g[i - 1] + s[i]]
      PROVE  g \in [0 .. n -> Nat]
  <2> DEFINE Has == {m \in Nat : m <= n => g[m] \in Nat}
  <2>1. 0 \in Has
    BY <1>1, <1>7
  <2>2. ASSUME NEW m \in Has PROVE m + 1 \in Has
    <3> SUFFICES ASSUME m + 1 <= n PROVE g[m + 1] \in Nat
      OBVIOUS
    <3>1. g[m + 1] = 10 * g[m] + s[m + 1] /\ g[m] \in Nat
      BY <1>1, <1>7
    <3>2. s[m + 1] \in Nat
      BY <1>1 DEF Digit
    <3> QED BY <3>1, <3>2
  <2>3. \A m \in Nat : m \in Has
    <3> HIDE DEF Has
    <3>1. Has \in SUBSET Nat
      BY DEF Has
    <3> QED BY <2>1, <2>2, <3>1, SetInduction
  <2>4. \A i \in 0 .. n : g[i] \in Nat
    BY <2>3
  <2> QED BY <1>7, <2>4
<1>8. NumberOf(s) \in [0 .. n -> Nat]
  <2> DEFINE g == NumberOf(s)
  <2>1. g = [i \in 0 .. n |-> IF i = 0 THEN 0 ELSE 10 * g[i - 1] + s[i]]
    BY <1>6
  <2> HIDE DEF g, n
  <2>2. g \in [0 .. n -> Nat]
    BY <1>7, <2>1
  <2> QED BY <2>2 DEF g
<1>9. Decimal(s) = NumberOf(s)[Len(s)]
  BY DEF Decimal, NumberOf
<1>10. /\ NumberOf(s)[0] = 0
       /\ \A i \in 1 .. n : NumberOf(s)[i] = 10 * NumberOf(s)[i - 1] + s[i]
  BY <1>1, <1>6
<1> QED BY <1>8, <1>9, <1>10

\* One digit more.
LEMMA DecimalAppend ==
  ASSUME NEW s \in Seq(Digit), NEW x \in Digit
  PROVE  /\ Decimal(Append(s, x)) = 10 * Decimal(s) + x
         /\ Decimal(s) \in Nat
<1> DEFINE r == Append(s, x)
<1>1. /\ r \in Seq(Digit) /\ Len(s) \in Nat /\ Len(r) = Len(s) + 1 /\ r[Len(s) + 1] = x
      /\ \A i \in 1 .. Len(s) : r[i] = s[i]
  OBVIOUS
<1> HIDE DEF r
<1>2. /\ Decimal(s) = NumberOf(s)[Len(s)]
      /\ NumberOf(s) \in [0 .. Len(s) -> Nat]
      /\ NumberOf(s)[0] = 0
      /\ \A i \in 1 .. Len(s) : NumberOf(s)[i] = 10 * NumberOf(s)[i - 1] + s[i]
  BY NumberIs
<1>3. /\ Decimal(r) = NumberOf(r)[Len(r)]
      /\ NumberOf(r)[0] = 0
      /\ \A i \in 1 .. Len(r) : NumberOf(r)[i] = 10 * NumberOf(r)[i - 1] + r[i]
  BY <1>1, NumberIs
<1> DEFINE Has == {m \in Nat : m <= Len(s) => NumberOf(r)[m] = NumberOf(s)[m]}
<1>4. 0 \in Has
  BY <1>2, <1>3
<1>5. ASSUME NEW m \in Has PROVE m + 1 \in Has
  <2> SUFFICES ASSUME m + 1 <= Len(s) PROVE NumberOf(r)[m + 1] = NumberOf(s)[m + 1]
    OBVIOUS
  <2>1. m + 1 \in 1 .. Len(s) /\ m + 1 \in 1 .. Len(r) /\ (m + 1) - 1 = m
    BY <1>1
  <2>2. NumberOf(r)[m] = NumberOf(s)[m]
    BY <1>1
  <2> QED BY <1>1, <1>2, <1>3, <2>1, <2>2
<1>6. Len(s) \in Has
  <2>1. Has \in SUBSET Nat
    OBVIOUS
  <2> HIDE DEF Has
  <2> QED BY <1>1, <1>4, <1>5, <2>1, SetInduction
<1>7. NumberOf(r)[Len(s)] = NumberOf(s)[Len(s)]
  BY <1>1, <1>6
<1>8. NumberOf(r)[Len(r)] = 10 * NumberOf(r)[Len(s)] + x
  <2>1. Len(s) + 1 \in 1 .. Len(r) /\ (Len(s) + 1) - 1 = Len(s)
    BY <1>1
  <2> QED BY <1>1, <1>3, <2>1
<1>9. NumberOf(s)[Len(s)] \in Nat
  BY <1>1, <1>2
<1> QED BY <1>2, <1>3, <1>7, <1>8, <1>9 DEF r

LEMMA DecimalOne ==
  ASSUME NEW x \in Digit
  PROVE  Decimal(<<x>>) = x
<1> DEFINE e == <<>>
<1>1. e \in Seq(Digit) /\ Append(e, x) = <<x>> /\ Len(e) = 0
  OBVIOUS
<1> HIDE DEF e
<1>2. Decimal(e) = 0
  BY <1>1, NumberIs
<1>3. Decimal(<<x>>) = 10 * Decimal(e) + x
  BY <1>1, DecimalAppend
<1> QED BY <1>2, <1>3 DEF Digit

\* A row of digits that has no digit 0 before it.
Written(s) == s \in Seq(Digit) /\ Len(s) >= 1 /\ (Len(s) = 1 \/ s[1] # 0)

DigitsOf(n) ==
  CHOOSE digits : digits = [k \in 0 .. n |-> IF k < 10 THEN <<k>> ELSE Append(digits[k \div 10], k % 10)]

Divides(f, n) == \A k \in 0 .. n : f[k] = IF k < 10 THEN <<k>> ELSE Append(f[k \div 10], k % 10)

LEMMA TenthIs ==
  ASSUME NEW k \in Nat
  PROVE  /\ k \div 10 \in Nat /\ k % 10 \in Digit /\ k = 10 * (k \div 10) + (k % 10)
         /\ k >= 10 => k \div 10 < k /\ k \div 10 # 0
  BY DEF Digit

LEMMA DigitsIs ==
  ASSUME NEW n \in Nat
  PROVE  UIntToString(n) = DigitsOf(n)[n] /\ Divides(DigitsOf(n), n)
<1> DEFINE Has == {m \in Nat : \E f : f = [k \in 0 .. m |-> f[k]] /\ Divides(f, m)}
<1>1. 0 \in Has
  <2> DEFINE f == [k \in 0 .. 0 |-> <<k>>]
  <2>1. f = [k \in 0 .. 0 |-> f[k]] /\ Divides(f, 0)
    BY DEF Divides
  <2> HIDE DEF f
  <2> QED BY <2>1
<1>2. ASSUME NEW m \in Has PROVE m + 1 \in Has
  <2>1. PICK f : f = [k \in 0 .. m |-> f[k]] /\ Divides(f, m)
    OBVIOUS
  <2> DEFINE new == IF m + 1 < 10 THEN <<m + 1>> ELSE Append(f[(m + 1) \div 10], (m + 1) % 10)
             g == [k \in 0 .. m + 1 |-> IF k = m + 1 THEN new ELSE f[k]]
  <2>2. g = [k \in 0 .. m + 1 |-> g[k]]
    OBVIOUS
  <2>3. ASSUME NEW k \in 0 .. m + 1
        PROVE  g[k] = IF k < 10 THEN <<k>> ELSE Append(g[k \div 10], k % 10)
    <3>1. k >= 10 => k \div 10 \in 0 .. m
      BY TenthIs
    <3>2. k >= 10 => g[k \div 10] = f[k \div 10]
      BY <3>1
    <3>3. CASE k = m + 1
      <4>1. g[k] = new
        BY <3>3
      <4> HIDE DEF g
      <4> QED BY <3>2, <3>3, <4>1
    <3>4. CASE k # m + 1
      <4>1. g[k] = f[k] /\ k \in 0 .. m
        BY <3>4
      <4>2. f[k] = IF k < 10 THEN <<k>> ELSE Append(f[k \div 10], k % 10)
        BY <2>1, <4>1 DEF Divides
      <4> HIDE DEF g
      <4> QED BY <3>2, <4>1, <4>2
    <3> QED BY <3>3, <3>4
  <2> HIDE DEF g
  <2>4. Divides(g, m + 1)
    BY <2>3 DEF Divides
  <2> QED BY <2>2, <2>4
<1>3. n \in Has
  <2>1. Has \in SUBSET Nat
    OBVIOUS
  <2> HIDE DEF Has
  <2> QED BY <1>1, <1>2, <2>1, SetInduction
<1>4. PICK f : f = [k \in 0 .. n |-> f[k]] /\ Divides(f, n)
  BY <1>3
<1>5. f = [k \in 0 .. n |-> f[k]]
  BY <1>4
<1> DEFINE Of(h, k) == IF k < 10 THEN <<k>> ELSE Append(h[k \div 10], k % 10)
<1>6. \A k \in 0 .. n : f[k] = Of(f, k)
  BY <1>4 DEF Divides
<1>7. f = [k \in 0 .. n |-> Of(f, k)]
  <2> HIDE DEF Of
  <2> QED BY <1>5, <1>6
<1>8. DigitsOf(n) = [k \in 0 .. n |-> Of(DigitsOf(n), k)]
  BY <1>7 DEF DigitsOf
<1>9. Divides(DigitsOf(n), n)
  <2>1. \A k \in 0 .. n : DigitsOf(n)[k] = Of(DigitsOf(n), k)
    <3> HIDE DEF Of
    <3> QED BY <1>8
  <2> QED BY <2>1 DEF Divides
<1>10. UIntToString(n) = DigitsOf(n)[n]
  BY DEF UIntToString, DigitsOf
<1> QED BY <1>9, <1>10

\* uintToString writes the number it is given, with no 0 before it.
LEMMA WrittenIs ==
  ASSUME NEW n \in Nat
  PROVE  Written(UIntToString(n)) /\ Decimal(UIntToString(n)) = n
<1>1. PICK d : UIntToString(n) = d[n] /\ Divides(d, n)
  BY DigitsIs
<1>8. \A k \in 0 .. n : k < 10 => d[k] = <<k>>
  BY <1>1 DEF Divides
<1>9. \A k \in 0 .. n : k >= 10 => d[k] = Append(d[k \div 10], k % 10)
  <2> SUFFICES ASSUME NEW k \in 0 .. n, k >= 10 PROVE d[k] = Append(d[k \div 10], k % 10)
    OBVIOUS
  <2>1. ~(k < 10)
    OBVIOUS
  <2> QED BY <1>1, <2>1, Zenon DEF Divides
<1> DEFINE Right(k) == Written(d[k]) /\ Decimal(d[k]) = k /\ (k # 0 => d[k][1] # 0)
           Has == {m \in Nat : \A k \in 0 .. m : k <= n => Right(k)}
<1>2. ASSUME NEW k \in 0 .. n, k < 10 PROVE Right(k)
  <2>1. k \in Digit
    BY <1>2 DEF Digit
  <2>0. d[k] = <<k>>
    BY <1>2, <1>8
  <2>2. <<k>> \in Seq(Digit) /\ Len(<<k>>) = 1 /\ <<k>>[1] = k
    BY <2>1
  <2> QED BY <2>0, <2>1, <2>2, DecimalOne DEF Written
<1>3. ASSUME NEW k \in 0 .. n, k >= 10, Right(k \div 10) PROVE Right(k)
  <2>1. /\ k \div 10 \in Nat /\ k % 10 \in Digit /\ k = 10 * (k \div 10) + (k % 10)
        /\ k \div 10 # 0
    BY <1>3, TenthIs
  <2> DEFINE s == d[k \div 10]
             x == k % 10
  <2>2. d[k] = Append(s, x)
    BY <1>3, <1>9, Zenon
  <2>3. s \in Seq(Digit) /\ x \in Digit /\ Len(s) >= 1 /\ s[1] # 0 /\ Decimal(s) = k \div 10
    BY <1>3, <2>1 DEF Written
  <2> HIDE DEF s, x
  <2>4. Append(s, x) \in Seq(Digit) /\ Len(Append(s, x)) >= 1 /\ Append(s, x)[1] # 0
    BY <2>3
  <2>5. Decimal(Append(s, x)) = 10 * (k \div 10) + x
    BY <2>3, DecimalAppend
  <2> QED BY <2>1, <2>2, <2>4, <2>5 DEF Written, x
<1> HIDE DEF Right
<1>4. 0 \in Has
  BY <1>2
<1>5. ASSUME NEW m \in Has PROVE m + 1 \in Has
  <2> SUFFICES ASSUME m + 1 <= n PROVE Right(m + 1)
    OBVIOUS
  <2>1. m + 1 >= 10 => (m + 1) \div 10 \in 0 .. m
    BY TenthIs
  <2>2. m + 1 >= 10 => Right((m + 1) \div 10)
    BY <2>1
  <2> QED BY <1>2, <1>3, <2>2
<1>6. n \in Has
  <2>1. Has \in SUBSET Nat
    OBVIOUS
  <2> HIDE DEF Has
  <2> QED BY <1>4, <1>5, <2>1, SetInduction
<1>7. Right(n)
  BY <1>6
<1> QED BY <1>1, <1>7 DEF Right

\* The loop over the digits of a number.
ScanOf(t) ==
  CHOOSE scan : scan = [i \in 0 .. Len(t.digits) |->
    IF i = 0 THEN [value |-> 0, double |-> FALSE]
    ELSE [value  |-> (10 * scan[i - 1].value + t.digits[i]) % (MaxLargestUInt + 1),
          double |-> scan[i - 1].double \/ Exceeds(t, scan[i - 1].value, i)]]

IsScan(scan, t) ==
  /\ scan[0] = [value |-> 0, double |-> FALSE]
  /\ \A i \in 1 .. Len(t.digits) :
       scan[i] = [value  |-> (10 * scan[i - 1].value + t.digits[i]) % (MaxLargestUInt + 1),
                  double |-> scan[i - 1].double \/ Exceeds(t, scan[i - 1].value, i)]

LEMMA ScanIs ==
  ASSUME NEW t, t.digits \in Seq(Digit)
  PROVE  Scanned(t) = ScanOf(t)[Len(t.digits)] /\ IsScan(ScanOf(t), t)
<1> DEFINE s == t.digits
           n == Len(s)
           m == MaxLargestUInt + 1
           S == [value : Nat, double : BOOLEAN]
           c == [value |-> 0, double |-> FALSE]
           Go(r, i) == [value  |-> (10 * r.value + s[i]) % m,
                        double |-> r.double \/ Exceeds(t, r.value, i)]
           step == [p \in S \X (1 .. n) |-> Go(p[1], p[2])]
<1>1. n \in Nat /\ \A i \in 1 .. n : s[i] \in Nat
  BY DEF Digit
<1>2. m \in Nat /\ m > 0
  BY WidthAssumption DEF MaxLargestUInt
<1>3. ASSUME NEW r \in S, NEW i \in 1 .. n PROVE Go(r, i) \in S
  <2>1. (10 * r.value + s[i]) \in Nat
    BY <1>1
  <2>2. (10 * r.value + s[i]) % m \in Nat
    <3> HIDE DEF m
    <3> QED BY <1>2, <2>1
  <2>3. (r.double \/ Exceeds(t, r.value, i)) \in BOOLEAN
    OBVIOUS
  <2> HIDE DEF m
  <2> QED BY <2>2, <2>3
<1>4. c \in S
  OBVIOUS
<1> HIDE DEF S, c, Go, m
<1>5. step \in [S \X (1 .. n) -> S]
  BY <1>3
<1>6. \A r \in S, i \in 1 .. n : step[<<r, i>>] = Go(r, i)
  OBVIOUS
<1>7. PICK f : Runs(f, n, S, c, step)
  <2> HIDE DEF n, step
  <2> QED BY <1>1, <1>4, <1>5, Recursion
<1>8. ASSUME NEW i \in 1 .. n PROVE f[i] = Go(f[i - 1], i)
  <2>1. i - 1 \in 0 .. n
    BY <1>1
  <2> HIDE DEF step
  <2>2. f[i - 1] \in S
    BY <1>7, <2>1 DEF Runs
  <2> QED BY <1>6, <1>7, <2>2 DEF Runs
<1>9. f = [i \in 0 .. n |-> IF i = 0 THEN c ELSE Go(f[i - 1], i)]
  <2>1. ASSUME NEW i \in 0 .. n PROVE f[i] = IF i = 0 THEN c ELSE Go(f[i - 1], i)
    <3>1. CASE i = 0
      <4> HIDE DEF step
      <4> QED BY <1>7, <3>1 DEF Runs
    <3>2. CASE i # 0
      <4>1. i \in 1 .. n
        BY <1>1, <3>2
      <4> QED BY <1>8, <3>2, <4>1
    <3> QED BY <3>1, <3>2
  <2> HIDE DEF step
  <2> QED BY <1>7, <2>1 DEF Runs
<1>10. ScanOf(t) = [i \in 0 .. n |-> IF i = 0 THEN c ELSE Go(ScanOf(t)[i - 1], i)]
  BY <1>9 DEF ScanOf, c, Go, m
<1>11. ScanOf(t)[0] = c /\ \A i \in 1 .. n : ScanOf(t)[i] = Go(ScanOf(t)[i - 1], i)
  <2> DEFINE g == ScanOf(t)
  <2>1. g = [i \in 0 .. n |-> IF i = 0 THEN c ELSE Go(g[i - 1], i)]
    BY <1>10
  <2> HIDE DEF g, n
  <2>2. g[0] = c
    BY <1>1, <2>1
  <2>3. ASSUME NEW i \in 1 .. n PROVE g[i] = Go(g[i - 1], i)
    <3>1. i \in 0 .. n /\ i # 0
      BY <1>1
    <3> QED BY <2>1, <3>1
  <2> QED BY <2>2, <2>3 DEF g
<1>12. Scanned(t) = ScanOf(t)[n]
  BY DEF Scanned, ScanOf
<1> QED BY <1>11, <1>12 DEF IsScan, c, Go, m

Limit(minus) == IF minus THEN MaxLargestInt + 1 ELSE 2 * MaxLargestInt + 1

LEMMA LimitIs ==
  ASSUME NEW minus \in BOOLEAN, NEW s, NEW rest
  PROVE  /\ MaxIntegerValue(NumberText(minus, s, rest)) = Limit(minus)
         /\ Limit(minus) \in Nat /\ Limit(minus) <= MaxLargestUInt /\ MaxLargestUInt \in Nat
  BY WidthAssumption DEF MaxIntegerValue, NumberText, Limit, MaxLargestUInt

\* A digit more, when the limit still holds it.
LEMMA Fits ==
  ASSUME NEW max \in Nat, NEW p \in Nat, NEW d \in Digit
  PROVE  10 * p + d <= max <=> p < max \div 10 \/ (p = max \div 10 /\ d <= max % 10)
<1>1. max \div 10 \in Nat /\ max % 10 \in 0 .. 9 /\ max = 10 * (max \div 10) + (max % 10)
  OBVIOUS
<1> QED BY <1>1 DEF Digit

LEMMA SmallMod ==
  ASSUME NEW m \in Nat, NEW n \in Nat, n < m
  PROVE  n % m = n
  OBVIOUS

\* As long as the loop does not give the number up, its value is the number.
LEMMA ScanExact ==
  ASSUME NEW minus \in BOOLEAN, NEW s \in Seq(Digit), NEW rest, NEW scan,
         IsScan(scan, NumberText(minus, s, rest)), NEW i \in 0 .. Len(s), ~scan[i].double
  PROVE  scan[i].value = NumberOf(s)[i] /\ NumberOf(s)[i] <= Limit(minus)
<1> DEFINE t == NumberText(minus, s, rest)
           Has == {m \in Nat : m <= Len(s) /\ ~scan[m].double =>
                      scan[m].value = NumberOf(s)[m] /\ NumberOf(s)[m] <= Limit(minus)}
<1>1. /\ NumberOf(s) \in [0 .. Len(s) -> Nat]
      /\ NumberOf(s)[0] = 0
      /\ \A j \in 1 .. Len(s) : NumberOf(s)[j] = 10 * NumberOf(s)[j - 1] + s[j]
  BY NumberIs
<1>2. t.digits = s
  BY DEF NumberText
<1>3. MaxIntegerValue(t) = Limit(minus) /\ Limit(minus) \in Nat /\ Limit(minus) <= MaxLargestUInt
      /\ MaxLargestUInt \in Nat
  BY LimitIs
<1> HIDE DEF t
<1>4. /\ scan[0] = [value |-> 0, double |-> FALSE]
      /\ \A j \in 1 .. Len(s) :
           scan[j] = [value  |-> (10 * scan[j - 1].value + s[j]) % (MaxLargestUInt + 1),
                      double |-> scan[j - 1].double \/ Exceeds(t, scan[j - 1].value, j)]
  BY <1>2 DEF IsScan, t
<1>5. 0 \in Has
  BY <1>1, <1>3, <1>4
<1>6. ASSUME NEW m \in Has PROVE m + 1 \in Has
  <2> SUFFICES ASSUME m + 1 <= Len(s), ~scan[m + 1].double
               PROVE  scan[m + 1].value = NumberOf(s)[m + 1] /\ NumberOf(s)[m + 1] <= Limit(minus)
    OBVIOUS
  <2>1. m + 1 \in 1 .. Len(s) /\ (m + 1) - 1 = m /\ m \in 0 .. Len(s) /\ s[m + 1] \in Digit
    OBVIOUS
  <2>2. /\ scan[m + 1].value = (10 * scan[m].value + s[m + 1]) % (MaxLargestUInt + 1)
        /\ ~scan[m].double /\ ~Exceeds(t, scan[m].value, m + 1)
    <3>1. scan[m + 1] = [value  |-> (10 * scan[m].value + s[m + 1]) % (MaxLargestUInt + 1),
                         double |-> scan[m].double \/ Exceeds(t, scan[m].value, m + 1)]
      BY <1>4, <2>1
    <3>2. scan[m + 1].double = (scan[m].double \/ Exceeds(t, scan[m].value, m + 1))
      BY <3>1 DEF Exceeds
    <3>3. ~scan[m].double /\ ~Exceeds(t, scan[m].value, m + 1)
      BY <3>2, Zenon
    <3> QED BY <3>1, <3>3
  <2>3. scan[m].value = NumberOf(s)[m] /\ NumberOf(s)[m] \in Nat
        /\ NumberOf(s)[m + 1] = 10 * NumberOf(s)[m] + s[m + 1]
    BY <1>1, <2>1, <2>2
  <2> HIDE DEF Has
  <2>4. 10 * NumberOf(s)[m] + s[m + 1] <= Limit(minus)
    <3> DEFINE p == NumberOf(s)[m]
               d == s[m + 1]
    <3>1. p < Limit(minus) \div 10 \/ (p = Limit(minus) \div 10 /\ d <= Limit(minus) % 10)
      <4>1. Limit(minus) \div 10 \in Nat /\ Limit(minus) % 10 \in Nat
        BY <1>3
      <4>2. ~(p >= Limit(minus) \div 10
                /\ (p > Limit(minus) \div 10 \/ m + 1 < Len(s) \/ d > Limit(minus) % 10))
        BY <1>2, <1>3, <2>2, <2>3 DEF Exceeds
      <4>3. p \in Nat /\ d \in Nat
        BY <2>1, <2>3 DEF Digit
      <4> HIDE DEF p, d
      <4> QED BY <4>1, <4>2, <4>3
    <3>2. p \in Nat /\ d \in Digit
      BY <2>1, <2>3
    <3> HIDE DEF p, d
    <3>3. 10 * p + d <= Limit(minus)
      BY <1>3, <3>1, <3>2, Fits
    <3> QED BY <3>3 DEF p, d
  <2>5. (10 * NumberOf(s)[m] + s[m + 1]) % (MaxLargestUInt + 1) = 10 * NumberOf(s)[m] + s[m + 1]
    <3> DEFINE v == 10 * NumberOf(s)[m] + s[m + 1]
    <3>1. v \in Nat
      BY <2>1, <2>3 DEF Digit
    <3>2. v <= Limit(minus)
      BY <2>4
    <3> HIDE DEF v
    <3>3. v < MaxLargestUInt + 1 /\ MaxLargestUInt + 1 \in Nat
      BY <1>3, <3>1, <3>2
    <3>4. v % (MaxLargestUInt + 1) = v
      BY <3>1, <3>3, SmallMod
    <3> QED BY <3>4 DEF v
  <2> QED BY <2>2, <2>3, <2>4, <2>5
<1>7. i \in Has
  <2>1. Has \in SUBSET Nat
    OBVIOUS
  <2>2. i \in Nat
    OBVIOUS
  <2> HIDE DEF Has
  <2> QED BY <1>5, <1>6, <2>1, <2>2, SetInduction
<1> QED BY <1>7

\* A number grows by ten times with each digit at least.
LEMMA Growing ==
  ASSUME NEW s \in Seq(Digit), NEW i \in 1 .. Len(s), i < Len(s)
  PROVE  NumberOf(s)[i] \in Nat /\ Decimal(s) >= 10 * NumberOf(s)[i]
<1> DEFINE v == NumberOf(s)
           From == {m \in Nat : i + 1 + m <= Len(s) => v[i + 1 + m] >= 10 * v[i]}
<1>1. Len(s) \in Nat /\ \A j \in 1 .. Len(s) : s[j] \in Nat
  BY DEF Digit
<1>2. /\ Decimal(s) = v[Len(s)]
      /\ v \in [0 .. Len(s) -> Nat]
      /\ v[0] = 0
      /\ \A j \in 1 .. Len(s) : v[j] = 10 * v[j - 1] + s[j]
  BY NumberIs
<1> HIDE DEF v
<1>3. \A j \in 0 .. Len(s) : v[j] \in Nat
  BY <1>2
<1>4. ASSUME NEW j \in Nat, j + 1 <= Len(s) PROVE v[j + 1] = 10 * v[j] + s[j + 1]
  <2>1. j + 1 \in 1 .. Len(s) /\ (j + 1) - 1 = j
    BY <1>1, <1>4
  <2> QED BY <1>2, <2>1
<1>7. v[i] \in Nat
  BY <1>1, <1>3
<1>8. 0 \in From
  <2>1. v[i + 1] = 10 * v[i] + s[i + 1] /\ s[i + 1] \in Nat
    BY <1>1, <1>4
  <2> QED BY <1>7, <2>1
<1>9. ASSUME NEW m \in From PROVE m + 1 \in From
  <2> SUFFICES ASSUME i + 1 + (m + 1) <= Len(s) PROVE v[i + 1 + (m + 1)] >= 10 * v[i]
    OBVIOUS
  <2> DEFINE k == i + 1 + m
  <2>1. k \in Nat /\ k + 1 <= Len(s) /\ i + 1 + (m + 1) = k + 1
    BY <1>1
  <2>2. v[k] >= 10 * v[i]
    BY <1>1, <2>1
  <2> HIDE DEF k
  <2>3. v[k + 1] = 10 * v[k] + s[k + 1]
    BY <1>4, <2>1
  <2>4. v[k] \in Nat /\ s[k + 1] \in Nat
    BY <1>1, <1>3, <2>1
  <2> QED BY <1>7, <2>1, <2>2, <2>3, <2>4
<1>10. (Len(s) - i) - 1 \in From
  <2>1. From \in SUBSET Nat /\ (Len(s) - i) - 1 \in Nat
    BY <1>1
  <2> HIDE DEF From
  <2> QED BY <1>8, <1>9, <2>1, SetInduction
<1>11. v[Len(s)] >= 10 * v[i]
  <2>1. i + 1 + ((Len(s) - i) - 1) = Len(s)
    BY <1>1
  <2> QED BY <1>1, <1>10, <2>1
<1> QED BY <1>2, <1>7, <1>11 DEF v

\* A number within the limit is not given up.
LEMMA ScanWhole ==
  ASSUME NEW minus \in BOOLEAN, NEW s \in Seq(Digit), NEW rest, NEW scan,
         IsScan(scan, NumberText(minus, s, rest)), Decimal(s) <= Limit(minus)
  PROVE  ~scan[Len(s)].double
<1> DEFINE t == NumberText(minus, s, rest)
           Has == {m \in Nat : m <= Len(s) => ~scan[m].double}
<1>1. s \in Seq(Digit) /\ Len(s) \in Nat
  OBVIOUS
<1>2. /\ Decimal(s) = NumberOf(s)[Len(s)]
      /\ NumberOf(s) \in [0 .. Len(s) -> Nat]
      /\ \A j \in 1 .. Len(s) : NumberOf(s)[j] = 10 * NumberOf(s)[j - 1] + s[j]
  BY <1>1, NumberIs
<1>3. t.digits = s
  BY DEF NumberText
<1>4. MaxIntegerValue(t) = Limit(minus) /\ Limit(minus) \in Nat
  BY LimitIs
<1> HIDE DEF t
<1>5. /\ scan[0] = [value |-> 0, double |-> FALSE]
      /\ \A j \in 1 .. Len(s) :
           scan[j] = [value  |-> (10 * scan[j - 1].value + s[j]) % (MaxLargestUInt + 1),
                      double |-> scan[j - 1].double \/ Exceeds(t, scan[j - 1].value, j)]
  BY <1>3 DEF IsScan, t
<1>6. 0 \in Has
  BY <1>5
<1>7. ASSUME NEW m \in Has PROVE m + 1 \in Has
  <2> SUFFICES ASSUME m + 1 <= Len(s) PROVE ~scan[m + 1].double
    OBVIOUS
  <2>1. m + 1 \in 1 .. Len(s) /\ (m + 1) - 1 = m /\ m \in 0 .. Len(s) /\ s[m + 1] \in Digit
    BY <1>1
  <2>2. ~scan[m].double
    BY <1>1
  <2>3. scan[m].value = NumberOf(s)[m]
    BY <1>1, <2>1, <2>2, ScanExact
  <2> DEFINE p == NumberOf(s)[m]
             d == s[m + 1]
             max == Limit(minus)
  <2>4. p \in Nat /\ d \in Digit /\ NumberOf(s)[m + 1] = 10 * p + d
    BY <1>2, <2>1
  <2>5. ~Exceeds(t, p, m + 1)
    <3>0. max \in Nat /\ max >= 10
      BY <1>4, LimitAssumption, WidthAssumption DEF Limit
    <3>1. max \div 10 \in Nat /\ max % 10 \in 0 .. 9 /\ max = 10 * (max \div 10) + (max % 10)
      <4> HIDE DEF max
      <4> QED BY <3>0
    <3>2. CASE m + 1 = Len(s)
      <4>1. 10 * p + d <= max
        BY <1>2, <2>4, <3>2
      <4>2. p < max \div 10 \/ (p = max \div 10 /\ d <= max % 10)
        <5> HIDE DEF p, d, max
        <5> QED BY <2>4, <3>0, <4>1, Fits
      <4>3. ~(p >= max \div 10 /\ (p > max \div 10 \/ m + 1 < Len(s) \/ d > max % 10))
        <5> HIDE DEF p, d, max
        <5> QED BY <2>4, <3>1, <3>2, <4>2 DEF Digit
      <4> QED BY <1>3, <1>4, <4>3 DEF Exceeds
    <3>3. CASE m + 1 < Len(s)
      <4>1. NumberOf(s)[m + 1] \in Nat /\ Decimal(s) >= 10 * NumberOf(s)[m + 1]
        BY <2>1, <3>3, Growing
      <4>2. 10 * (10 * p + d) <= max
        <5>1. Decimal(s) <= max
          OBVIOUS
        <5> DEFINE w == 10 * p + d
                   whole == Decimal(s)
        <5>2. w \in Nat /\ whole >= 10 * w /\ whole <= max
          BY <2>4, <4>1, <5>1
        <5>3. whole \in Nat
          BY <1>1, <1>2
        <5> HIDE DEF w, whole, max
        <5>4. 10 * w <= max
          BY <3>0, <5>2, <5>3
        <5> QED BY <5>4 DEF w
      <4>3. p < max \div 10
        <5> HIDE DEF p, d, max
        <5> QED BY <2>4, <3>0, <3>1, <4>2 DEF Digit
      <4> HIDE DEF p, d
      <4>4. ~(p >= max \div 10)
        <5> HIDE DEF max
        <5> QED BY <2>4, <3>1, <4>3
      <4> QED BY <1>4, <4>4 DEF Exceeds
    <3> QED BY <1>1, <2>1, <3>2, <3>3
  <2>6. scan[m + 1] = [value  |-> (10 * scan[m].value + s[m + 1]) % (MaxLargestUInt + 1),
                       double |-> scan[m].double \/ Exceeds(t, scan[m].value, m + 1)]
    BY <1>5, <2>1
  <2>7. scan[m + 1].double = (scan[m].double \/ Exceeds(t, scan[m].value, m + 1))
    BY <2>6 DEF Exceeds
  <2> QED BY <2>2, <2>3, <2>5, <2>7, Zenon
<1>8. Len(s) \in Has
  <2>1. Has \in SUBSET Nat
    OBVIOUS
  <2> HIDE DEF Has
  <2> QED BY <1>1, <1>6, <1>7, <2>1, SetInduction
<1> QED BY <1>1, <1>8

Sgn(minus) == IF minus THEN -1 ELSE 1

\* What an integer without a fraction becomes when the limit holds it.
Held(minus, n) == IF minus THEN IntV(-n) ELSE IF n <= MaxInt THEN IntV(n) ELSE UIntV(n)

Rests == {"", ".5", "e1", "e"}

\* decodeNumber reads what the limit holds itself, and leaves the rest to decodeDouble.
LEMMA DecodeIs ==
  ASSUME NEW minus \in BOOLEAN, NEW s \in Seq(Digit), NEW rest
  PROVE  LET t == NumberText(minus, s, rest)
         IN  /\ Decimal(s) \in Nat
             /\ DecodeNumber(t) = IF rest = "" /\ Decimal(s) <= Limit(minus)
                                    THEN [ok |-> TRUE, value |-> Held(minus, Decimal(s))]
                                    ELSE DecodeDouble(t)
<1> DEFINE t == NumberText(minus, s, rest)
           n == Decimal(s)
           scan == ScanOf(t)
<1>1. t.digits = s /\ t.minus = minus /\ t.rest = rest
  BY DEF NumberText
<1>2. n \in Nat /\ n = NumberOf(s)[Len(s)] /\ Len(s) \in 0 .. Len(s)
  <2>1. Len(s) \in Nat
    OBVIOUS
  <2> QED BY <2>1, NumberIs
<1>3. Scanned(t) = scan[Len(s)] /\ IsScan(scan, t)
  BY <1>1, ScanIs
<1>4. ASSUME rest = "", n <= Limit(minus)
      PROVE  DecodeNumber(t) = [ok |-> TRUE, value |-> Held(minus, n)]
  <2>1. ~scan[Len(s)].double
    BY <1>3, <1>4, ScanWhole
  <2>2. scan[Len(s)].value = n
    BY <1>2, <1>3, <2>1, ScanExact
  <2>3. Scanned(t).value = n /\ ~(Scanned(t).double \/ t.rest # "")
    BY <1>1, <1>3, <1>4, <2>1, <2>2
  <2> HIDE DEF t, n
  <2> QED BY <1>1, <2>3, Zenon DEF DecodeNumber, Held
<1>5. ASSUME ~(rest = "" /\ n <= Limit(minus)) PROVE DecodeNumber(t) = DecodeDouble(t)
  <2>1. Scanned(t).double \/ t.rest # ""
    <3>1. CASE scan[Len(s)].double
      BY <1>3, <3>1
    <3>2. CASE ~scan[Len(s)].double
      <4>1. n <= Limit(minus)
        BY <1>2, <1>3, <3>2, ScanExact
      <4> QED BY <1>1, <1>5, <4>1
    <3> QED BY <3>1, <3>2
  <2> HIDE DEF t
  <2> QED BY <2>1, Zenon DEF DecodeNumber
<1> QED BY <1>2, <1>4, <1>5

LEMMA SgnIs ==
  ASSUME NEW minus \in BOOLEAN, NEW d \in Nat
  PROVE  /\ Sgn(minus) * d \in Int
         /\ minus => Sgn(minus) * d = -d
         /\ ~minus => Sgn(minus) * d = d
<1>1. CASE minus
  BY <1>1 DEF Sgn
<1>2. CASE ~minus
  BY <1>2 DEF Sgn
<1> QED BY <1>1, <1>2

LEMMA HeldIs ==
  ASSUME NEW minus \in BOOLEAN, NEW d
  PROVE  /\ minus => Held(minus, d) = IntV(-d)
         /\ ~minus /\ d <= MaxInt => Held(minus, d) = IntV(d)
         /\ ~minus /\ ~(d <= MaxInt) => Held(minus, d) = UIntV(d)
  BY Zenon DEF Held

LEMMA WidthIs ==
  /\ MaxInt \in Nat \ {0} /\ MaxLargestInt \in Nat /\ MaxInt <= MaxLargestInt
  /\ MinInt = -MaxInt - 1 /\ MaxUInt = 2 * MaxInt + 1
  /\ MinLargestInt = -MaxLargestInt - 1 /\ MaxLargestUInt = 2 * MaxLargestInt + 1
  BY WidthAssumption DEF MinInt, MaxUInt, MinLargestInt, MaxLargestUInt

\* What decodeDouble gives of a text, when it is a number that a double can hold.
LEMMA DoubleIs ==
  ASSUME NEW t, DecodeDouble(t).ok
  PROVE  LET h == WrittenNumber(t)
         IN  /\ h \in DOMAIN Rounded /\ h \in Int /\ Rounded[h] \in Int
             /\ DecodeDouble(t).value = RealV(Rounded[h])
<1> DEFINE h == WrittenNumber(t)
           read == [ok |-> TRUE, value |-> RealV(Rounded[h])]
           none == [ok |-> FALSE, value |-> Null]
<1>1. ~none.ok /\ read.value = RealV(Rounded[h])
  OBVIOUS
<1> HIDE DEF read, none
<1>2. DecodeDouble(t) = IF RightNumber(t) /\ h \in DOMAIN Rounded THEN read ELSE none
  BY DEF DecodeDouble, read, none
<1> HIDE DEF h
<1>3. h \in DOMAIN Rounded /\ DecodeDouble(t) = read
  BY <1>1, <1>2
<1>4. h \in Int /\ Rounded[h] \in Int
  BY <1>3, DoubleAssumption
<1> QED BY <1>1, <1>3, <1>4 DEF h

LEMMA DoubleOk ==
  ASSUME NEW t, RightNumber(t), WrittenNumber(t) \in DOMAIN Rounded
  PROVE  DecodeDouble(t).ok
  BY DEF DecodeDouble

LEMMA DoubleFails ==
  ASSUME NEW t, ~DecodeDouble(t).ok
  PROVE  DecodeDouble(t).value = Null
  BY DEF DecodeDouble

\* A number of the width of Int or UInt becomes a double at most half an integer away.
LEMMA RoundedNear ==
  ASSUME NEW h \in DOMAIN Rounded, 2 * MinInt - 1 <= Rounded[h], Rounded[h] <= 2 * MaxInt + 1
  PROVE  h \in Int /\ Rounded[h] \in h - 1 .. h + 1 /\ (h % 2 = 0 => Rounded[h] = h)
<1>1. /\ h \in Int /\ Rounded[h] \in Int
      /\ \A g \in DOMAIN Rounded : (g <= h => Rounded[g] <= Rounded[h])
                                  /\ (h <= g => Rounded[h] <= Rounded[g])
      /\ \A n \in -MaxUInt .. MaxUInt : 2 * n \in DOMAIN Rounded /\ Rounded[2 * n] = 2 * n
  <2>1. MaxUInt \in Nat
    BY WidthIs
  <2>2. \A n \in -MaxUInt .. MaxUInt : 2 * n \in -2 * MaxUInt .. 2 * MaxUInt
    BY <2>1
  <2> QED BY <2>2, DoubleAssumption
<1>2. h < 2 * (MaxInt + 1)
  <2>1. MaxInt + 1 \in -MaxUInt .. MaxUInt
    BY WidthIs
  <2>2. 2 * (MaxInt + 1) \in DOMAIN Rounded /\ Rounded[2 * (MaxInt + 1)] = 2 * (MaxInt + 1)
    BY <1>1, <2>1
  <2>3. 2 * (MaxInt + 1) <= h => 2 * (MaxInt + 1) <= Rounded[h]
    BY <1>1, <2>2
  <2> QED BY <1>1, <2>3, WidthIs
<1>3. 2 * (MinInt - 1) < h
  <2>1. MinInt - 1 \in -MaxUInt .. MaxUInt
    BY WidthIs
  <2>2. 2 * (MinInt - 1) \in DOMAIN Rounded /\ Rounded[2 * (MinInt - 1)] = 2 * (MinInt - 1)
    BY <1>1, <2>1
  <2>3. h <= 2 * (MinInt - 1) => Rounded[h] <= 2 * (MinInt - 1)
    BY <1>1, <2>2
  <2> QED BY <1>1, <2>3, WidthIs
<1> DEFINE n == h \div 2
<1>4. n \in Int /\ (h = 2 * n \/ h = 2 * n + 1)
  BY <1>1
<1> HIDE DEF n
<1>5. n \in -MaxUInt .. MaxUInt /\ n + 1 \in -MaxUInt .. MaxUInt
  BY <1>1, <1>2, <1>3, <1>4, WidthIs
<1>6. 2 * n <= Rounded[h]
  BY <1>1, <1>4, <1>5
<1>7. h = 2 * n => Rounded[h] = h
  BY <1>1, <1>5
<1>8. h = 2 * n + 1 => Rounded[h] <= 2 * (n + 1) /\ h % 2 = 1
  BY <1>1, <1>4, <1>5
<1> QED BY <1>1, <1>4, <1>6, <1>7, <1>8

\* A number within the limits of Int becomes a double within them.
LEMMA RoundedWithin ==
  ASSUME NEW h \in 2 * MinInt .. 2 * MaxInt
  PROVE  h \in DOMAIN Rounded /\ Rounded[h] \in 2 * MinInt .. 2 * MaxInt
<1>1. /\ h \in -2 * MaxUInt .. 2 * MaxUInt /\ h \in Int
      /\ 2 * MinInt \in -2 * MaxUInt .. 2 * MaxUInt /\ MinInt \in -MaxUInt .. MaxUInt
      /\ 2 * MaxInt \in -2 * MaxUInt .. 2 * MaxUInt /\ MaxInt \in -MaxUInt .. MaxUInt
      /\ 2 * MinInt <= h /\ h <= 2 * MaxInt
  BY WidthIs
<1>2. h \in DOMAIN Rounded /\ 2 * MinInt \in DOMAIN Rounded /\ 2 * MaxInt \in DOMAIN Rounded
  BY <1>1, DoubleAssumption
<1>3. Rounded[h] \in Int /\ Rounded[2 * MinInt] <= Rounded[h] /\ Rounded[h] <= Rounded[2 * MaxInt]
  BY <1>1, <1>2, DoubleAssumption
<1>4. Rounded[2 * MinInt] = 2 * MinInt /\ Rounded[2 * MaxInt] = 2 * MaxInt
  BY <1>1, DoubleAssumption
<1>5. 2 * MinInt <= Rounded[h] /\ Rounded[h] <= 2 * MaxInt
  BY <1>3, <1>4
<1>6. 2 * MinInt \in Int /\ 2 * MaxInt \in Int
  BY WidthIs
<1> QED BY <1>2, <1>3, <1>5, <1>6

\* The integral part of a number of halves, and the two integers next to one.
LEMMA TruncatedIs ==
  ASSUME NEW r \in Int, NEW n \in Int, r \in n - 1 .. n + 1, n % 2 = 0 => r = n
  PROVE  /\ n % 2 = 0 => 2 * Truncated(r) = n
         /\ n % 2 = 1 => 2 * Truncated(r) \in {n - 1, n + 1}
<1> DEFINE k == n \div 2
<1>1. k \in Int /\ ((n = 2 * k /\ n % 2 = 0) \/ (n = 2 * k + 1 /\ n % 2 = 1))
  OBVIOUS
<1> HIDE DEF k
<1>2. CASE n = 2 * k /\ n % 2 = 0
  <2>1. r = 2 * k
    BY <1>2
  <2>2. Truncated(r) = k
    BY <1>1, <2>1 DEF Truncated
  <2> QED BY <1>1, <1>2, <2>2
<1>3. CASE n = 2 * k + 1 /\ n % 2 = 1
  <2>1. r \in {2 * k, 2 * k + 1, 2 * k + 2}
    BY <1>1, <1>3
  <2>2. Truncated(2 * k) = k /\ Truncated(2 * k + 2) = k + 1
    BY <1>1 DEF Truncated
  <2>3. Truncated(2 * k + 1) \in {k, k + 1}
    BY <1>1 DEF Truncated
  <2>4. Truncated(r) \in {k, k + 1}
    BY <2>1, <2>2, <2>3
  <2> QED BY <1>1, <1>3, <2>4
<1> QED BY <1>1, <1>2, <1>3

\* What a real, an Int and a UInt answer.
LEMMA RealIs ==
  ASSUME NEW h \in Int
  PROVE  LET v == RealV(h) IN
         /\ v.type = "real" /\ v.half = h
         /\ AsIntThrows(v) <=> ~(2 * MinInt <= h /\ h <= 2 * MaxInt)
         /\ AsInt(v) = Truncated(h)
  BY DEF RealV, AsIntThrows, InRange, AsInt

LEMMA IntIs ==
  ASSUME NEW n \in Int
  PROVE  LET v == IntV(n) IN
         /\ v.type = "int" /\ v.int = n
         /\ AsIntThrows(v) <=> n \notin MinInt .. MaxInt
         /\ AsInt(v) = n
  BY DEF IntV, AsIntThrows, IsInt, AsInt

LEMMA UIntIs ==
  ASSUME NEW n \in Nat
  PROVE  LET v == UIntV(n) IN
         /\ v.type = "uint" /\ v.uint = n
         /\ AsIntThrows(v) <=> n > MaxInt
         /\ AsInt(v) = n
  BY WidthIs DEF UIntV, AsIntThrows, IsInt, AsInt

\* The texts of numbers are those that NumberText gives.
LEMMA NumberTextsAre ==
  ASSUME NEW t \in NumberTexts
  PROVE  t.minus \in BOOLEAN /\ t.rest \in Rests /\ t = NumberText(t.minus, chars, t.rest)
<1>1. t \in [minus : BOOLEAN, digits : {chars}, rest : Rests]
  BY DEF NumberTexts, Rests
<1>2. t.minus \in BOOLEAN /\ t.rest \in Rests /\ t.digits = chars
  BY <1>1
<1>3. t = [minus |-> t.minus, digits |-> t.digits, rest |-> t.rest]
  BY <1>1
<1> QED BY <1>2, <1>3 DEF NumberText

\* What a text means, from its digits.
LEMMA WrittenNumberIs ==
  ASSUME NEW minus \in BOOLEAN, NEW rest \in Rests, Decimal(chars) \in Nat
  PROVE  LET h == WrittenNumber(NumberText(minus, chars, rest))
         IN  /\ h \in Int
             /\ rest = ".5" <=> h % 2 = 1
             /\ rest = "" => h = 2 * (Sgn(minus) * Decimal(chars))
<1> DEFINE t == NumberText(minus, chars, rest)
           d == Decimal(chars)
<1>1. t.minus = minus /\ t.digits = chars /\ t.rest = rest
  BY DEF NumberText
<1>2. Sign(t) = Sgn(minus)
  BY <1>1 DEF Sign, Sgn
<1> HIDE DEF t, d
<1>3. CASE rest = ".5"
  <2>1. WrittenNumber(t) = Sgn(minus) * (2 * d + 1)
    BY <1>1, <1>2, <1>3 DEF WrittenNumber, d
  <2> QED BY <1>3, <2>1 DEF Sgn, t, d
<1>4. CASE rest = "e1"
  <2>1. WrittenNumber(t) = Sgn(minus) * (20 * d)
    BY <1>1, <1>2, <1>4 DEF WrittenNumber, d
  <2> QED BY <1>4, <2>1 DEF Sgn, t, d
<1>5. CASE rest \in {"", "e"}
  <2>1. WrittenNumber(t) = Sgn(minus) * (2 * d)
    BY <1>1, <1>2, <1>5 DEF WrittenNumber, d
  <2>2. d \in Nat /\ 2 * d \in Nat /\ rest # ".5"
    <3>1. d \in Nat
      BY DEF d
    <3>2. 2 * d \in Nat
      BY <3>1
    <3>3. rest # ".5"
      BY <1>5
    <3> QED BY <3>1, <3>2, <3>3
  <2>3. Sgn(minus) * (2 * d) = 2 * (Sgn(minus) * d) /\ Sgn(minus) * d \in Int
    <3>1. CASE minus
      <4>1. Sgn(minus) * (2 * d) = -(2 * d) /\ Sgn(minus) * d = -d
        BY <2>2, <3>1, SgnIs
      <4>2. -(2 * d) = 2 * (-d) /\ -d \in Int
        BY <2>2
      <4> QED BY <4>1, <4>2, Zenon
    <3>2. CASE ~minus
      BY <2>2, <3>2, SgnIs
    <3> QED BY <3>1, <3>2
  <2> DEFINE k == Sgn(minus) * d
  <2>4. k \in Int /\ WrittenNumber(t) = 2 * k
    BY <2>1, <2>3
  <2> HIDE DEF k
  <2>5. WrittenNumber(t) \in Int /\ WrittenNumber(t) % 2 # 1
    BY <2>4
  <2> QED BY <2>2, <2>4, <2>5 DEF t, d, k
<1> QED BY <1>3, <1>4, <1>5 DEF Rests

LEMMA ExactOrRefused ==
  ASSUME chars \in Seq(Digit)
  PROVE  NumberExactOrRefused
<1> SUFFICES ASSUME NEW t \in NumberTexts
             PROVE  LET read == DecodeNumber(t)
                        n    == WrittenNumber(t)
                    IN  /\ read.ok /\ ~AsIntThrows(read.value) =>
                             2 * AsInt(read.value) \in IF t.rest = ".5" THEN {n - 1, n + 1} ELSE {n}
                        /\ RightNumber(t) /\ n \in 2 * MinInt .. 2 * MaxInt =>
                             read.ok /\ ~AsIntThrows(read.value)
  BY DEF NumberExactOrRefused
<1> DEFINE minus == t.minus
           rest == t.rest
           d == Decimal(chars)
           n == WrittenNumber(t)
           read == DecodeNumber(t)
           v == read.value
           used == IF rest = ".5" THEN {n - 1, n + 1} ELSE {n}
<1> SUFFICES /\ read.ok /\ ~AsIntThrows(v) => 2 * AsInt(v) \in used
             /\ RightNumber(t) /\ n \in 2 * MinInt .. 2 * MaxInt => read.ok /\ ~AsIntThrows(v)
  OBVIOUS
<1>1. minus \in BOOLEAN /\ rest \in Rests /\ t = NumberText(minus, chars, rest)
  BY NumberTextsAre
<1> HIDE DEF minus, rest
<1>2. /\ d \in Nat
      /\ read = IF rest = "" /\ d <= Limit(minus)
                  THEN [ok |-> TRUE, value |-> Held(minus, d)] ELSE DecodeDouble(t)
  BY <1>1, DecodeIs
<1>2a. d \in Nat
  BY <1>2
<1>3. n \in Int /\ (rest = ".5" <=> n % 2 = 1) /\ (rest = "" => n = 2 * (Sgn(minus) * d))
  BY <1>1, <1>2, WrittenNumberIs
<1>3a. n \in Int
  BY <1>3
<1> HIDE DEF n, d, read
<1>4. CASE rest = "" /\ d <= Limit(minus)
  <2> DEFINE i == Sgn(minus) * d
  <2>0. i \in Int
    BY <1>1, <1>2a DEF Sgn
  <2>1. read.ok /\ v = Held(minus, d) /\ n = 2 * i /\ used = {n}
    BY <1>2, <1>3, <1>4
  <2>1a. v = Held(minus, d)
    BY <2>1
  <2> HIDE DEF v
  <2>2. (AsIntThrows(v) <=> i \notin MinInt .. MaxInt) /\ AsInt(v) = i
    <3>1. CASE minus
      <4>1. v = IntV(-d) /\ i = -d
        BY <1>1, <1>2a, <2>1a, <3>1, HeldIs, SgnIs
      <4> QED BY <1>2a, <4>1, IntIs
    <3>2. CASE ~minus /\ d <= MaxInt
      <4>1. v = IntV(d) /\ i = d
        BY <1>1, <1>2a, <2>1a, <3>2, HeldIs, SgnIs
      <4> QED BY <1>2a, <4>1, IntIs
    <3>3. CASE ~minus /\ ~(d <= MaxInt)
      <4>1. v = UIntV(d) /\ i = d
        BY <1>1, <1>2a, <2>1a, <3>3, HeldIs, SgnIs
      <4>2. i \notin MinInt .. MaxInt /\ d > MaxInt
        BY <1>2a, <3>3, <4>1, WidthIs
      <4>3. AsIntThrows(UIntV(d)) /\ AsInt(UIntV(d)) = d
        BY <1>2a, <4>2, UIntIs
      <4> QED BY <4>1, <4>2, <4>3
    <3> QED BY <1>1, <3>1, <3>2, <3>3
  <2>3. n \in 2 * MinInt .. 2 * MaxInt => i \in MinInt .. MaxInt
    <3> HIDE DEF i
    <3> QED BY <2>0, <2>1, WidthIs
  <2> QED BY <2>0, <2>1, <2>2, <2>3
<1>5. CASE ~(rest = "" /\ d <= Limit(minus))
  <2>1. read = DecodeDouble(t)
    BY <1>2, <1>5
  <2>2. ASSUME read.ok, ~AsIntThrows(v) PROVE 2 * AsInt(v) \in used
    <3> DEFINE r == Rounded[n]
    <3>1. n \in DOMAIN Rounded /\ r \in Int /\ v = RealV(r)
      BY <2>1, <2>2, DoubleIs DEF n
    <3> HIDE DEF v
    <3>2. 2 * MinInt <= r /\ r <= 2 * MaxInt /\ AsInt(v) = Truncated(r)
      <4> HIDE DEF r
      <4> QED BY <2>2, <3>1, RealIs
    <3>3. r \in n - 1 .. n + 1 /\ (n % 2 = 0 => r = n)
      <4>1. 2 * MinInt - 1 <= r /\ r <= 2 * MaxInt + 1
        <5> HIDE DEF r
        <5> QED BY <3>1, <3>2, WidthIs
      <4> QED BY <3>1, <4>1, RoundedNear
    <3> HIDE DEF r
    <3>4. /\ n % 2 = 0 => 2 * Truncated(r) = n
          /\ n % 2 = 1 => 2 * Truncated(r) \in {n - 1, n + 1}
      BY <1>3a, <3>1, <3>3, TruncatedIs
    <3>5. n % 2 = 0 \/ n % 2 = 1
      BY <1>3a
    <3>6. CASE rest = ".5"
      BY <1>3, <3>2, <3>4, <3>6
    <3>7. CASE rest # ".5"
      BY <1>3, <3>2, <3>4, <3>5, <3>7
    <3> QED BY <3>6, <3>7
  <2>3. ASSUME RightNumber(t), n \in 2 * MinInt .. 2 * MaxInt PROVE read.ok /\ ~AsIntThrows(v)
    <3> DEFINE r == Rounded[n]
    <3>1. n \in DOMAIN Rounded /\ r \in 2 * MinInt .. 2 * MaxInt
      BY <2>3, RoundedWithin
    <3>2. read.ok
      BY <2>1, <2>3, <3>1, DoubleOk DEF n
    <3>3. r \in Int /\ v = RealV(r)
      BY <2>1, <3>2, DoubleIs DEF n
    <3> HIDE DEF r, v
    <3>4. ~AsIntThrows(v)
      BY <3>1, <3>3, RealIs
    <3> QED BY <3>2, <3>4
  <2> QED BY <2>2, <2>3
<1> QED BY <1>4, <1>5

\* What valueToString writes of a number held is read as the same number.
LEMMA HeldReadsBack ==
  ASSUME NEW minus \in BOOLEAN, NEW n \in Nat, n <= Limit(minus)
  PROVE  LET v == Held(minus, n)
         IN  /\ ValueToString(v).digits # <<>>
             /\ DecodeNumber(ValueToString(v)) = [ok |-> TRUE, value |-> v]
<1> DEFINE v == Held(minus, n)
<1>1. ASSUME NEW neg \in BOOLEAN, NEW k \in Nat, k <= Limit(neg),
             ValueToString(v) = NumberText(neg, UIntToString(k), ""), Held(neg, k) = v
      PROVE  /\ ValueToString(v).digits # <<>>
             /\ DecodeNumber(ValueToString(v)) = [ok |-> TRUE, value |-> v]
  <2> DEFINE s == UIntToString(k)
  <2>1. Written(s) /\ Decimal(s) = k
    BY WrittenIs
  <2> HIDE DEF s, v
  <2>2. s # <<>>
    BY <2>1 DEF Written
  <2>3. ValueToString(v) = NumberText(neg, s, "")
    BY <1>1 DEF s
  <2>4. NumberText(neg, s, "").digits = s
    BY DEF NumberText
  <2>5. DecodeNumber(NumberText(neg, s, "")) = [ok |-> TRUE, value |-> Held(neg, k)]
    BY <1>1, <2>1, DecodeIs DEF Written
  <2> QED BY <1>1, <2>2, <2>3, <2>4, <2>5
<1>2. CASE minus /\ n # 0
  <2>1. v = IntV(-n) /\ v.type = "int" /\ v.int = -n /\ v.type # "uint"
    BY <1>2, IntIs DEF Held
  <2> HIDE DEF v
  <2>2. CASE n = MaxLargestInt + 1
    <3>1. v.int = MinLargestInt
      BY <2>1, <2>2, WidthIs
    <3>2. ValueToString(v) = NumberText(TRUE, UIntToString(MaxLargestInt + 1), "")
      BY <2>1, <3>1, Zenon DEF ValueToString
    <3> QED BY <1>1, <1>2, <2>2, <3>2 DEF v
  <2>3. CASE n # MaxLargestInt + 1
    <3>1. v.int # MinLargestInt /\ v.int < 0 /\ -v.int = n
      BY <1>2, <2>1, <2>3, WidthIs
    <3>2. ValueToString(v) = NumberText(TRUE, UIntToString(n), "")
      BY <2>1, <3>1 DEF ValueToString
    <3> QED BY <1>1, <1>2, <3>2 DEF v
  <2> QED BY <2>2, <2>3
<1>3. CASE ~minus /\ n > MaxInt
  <2>1. v = UIntV(n) /\ v.type = "uint" /\ v.uint = n
    BY <1>3, UIntIs, WidthIs DEF Held
  <2>2. ValueToString(v) = NumberText(FALSE, UIntToString(n), "")
    BY <2>1 DEF ValueToString
  <2> QED BY <1>1, <1>3, <2>2
<1>4. CASE (minus /\ n = 0) \/ (~minus /\ ~(n > MaxInt))
  <2>1. v = IntV(n) /\ v.type = "int" /\ v.int = n /\ v.type # "uint"
    BY <1>4, IntIs, WidthIs DEF Held
  <2>2. v.int # MinLargestInt /\ ~(v.int < 0)
    BY <2>1, WidthIs
  <2>3. ValueToString(v) = NumberText(FALSE, UIntToString(n), "")
    BY <2>1, <2>2 DEF ValueToString
  <2>4. n <= Limit(FALSE) /\ Held(FALSE, n) = v
    BY <1>4, <2>1, WidthIs DEF Limit, Held
  <2> QED BY <1>1, <2>3, <2>4
<1> QED BY <1>2, <1>3, <1>4

LEMMA ReadsBack ==
  ASSUME chars \in Seq(Digit)
  PROVE  NumberReadsBack
<1> SUFFICES ASSUME NEW t \in NumberTexts, DecodeNumber(t).ok, DecodeNumber(t).value.type # "real"
             PROVE  LET read == DecodeNumber(t)
                        text == ValueToString(read.value)
                    IN  text.digits # <<>> /\ DecodeNumber(text) = read
  BY DEF NumberReadsBack
<1> DEFINE minus == t.minus
           rest == t.rest
           d == Decimal(chars)
           read == DecodeNumber(t)
<1>1. minus \in BOOLEAN /\ rest \in Rests /\ t = NumberText(minus, chars, rest)
  BY NumberTextsAre
<1> HIDE DEF minus, rest
<1>2. /\ d \in Nat
      /\ read = IF rest = "" /\ d <= Limit(minus)
                  THEN [ok |-> TRUE, value |-> Held(minus, d)] ELSE DecodeDouble(t)
  BY <1>1, DecodeIs
<1>3. CASE rest = "" /\ d <= Limit(minus)
  <2> HIDE DEF d, read
  <2>1. read = [ok |-> TRUE, value |-> Held(minus, d)] /\ read.value = Held(minus, d)
    BY <1>2, <1>3
  <2>2. /\ ValueToString(Held(minus, d)).digits # <<>>
        /\ DecodeNumber(ValueToString(Held(minus, d))) = [ok |-> TRUE, value |-> Held(minus, d)]
    BY <1>1, <1>2, <1>3, HeldReadsBack
  <2>3. ValueToString(read.value).digits # <<>> /\ DecodeNumber(ValueToString(read.value)) = read
    BY <2>1, <2>2
  <2> QED BY <2>3 DEF read
<1>4. CASE ~(rest = "" /\ d <= Limit(minus))
  <2> DEFINE h == WrittenNumber(t)
  <2>1. read = DecodeDouble(t)
    BY <1>2, <1>4
  <2>2. read.value = RealV(Rounded[h])
    BY <2>1, DoubleIs
  <2>3. read.value.type = "real"
    <3> HIDE DEF read, h
    <3> QED BY <2>2 DEF RealV
  <2> QED BY <2>3
<1> QED BY <1>3, <1>4

LEMMA OtherTypes ==
  /\ Null.type = "null" /\ BoolV(FALSE).type = "boolean" /\ StrV("").type = "string"
  /\ ArrV(<<>>).type = "array" /\ ObjV(NoMembers).type = "object"
<1>1. Null.type = "null" /\ BoolV(FALSE).type = "boolean" /\ StrV("").type = "string"
  BY DEF Null, BoolV, StrV
<1>2. ArrV(<<>>).type = "array"
  BY DEF ArrV
<1>3. ObjV(NoMembers).type = "object"
  BY DEF ObjV
<1> QED BY <1>1, <1>2, <1>3

\* What a real, an Int and a UInt say beforehand and do then.
LEMMA RealConverts ==
  ASSUME NEW h \in Int
  PROVE  LET v == RealV(h) IN
         /\ ConvertsAsAsked(v)
         /\ IsInt64(v)  <=> 2 * MinLargestInt <= h /\ h < 2 * (MaxLargestInt + 1) /\ h % 2 = 0
         /\ IsUInt64(v) <=> 0 <= h /\ h < 2 * (MaxLargestUInt + 1) /\ h % 2 = 0
<1> DEFINE v == RealV(h)
<1>1. v.type = "real" /\ v.half = h
  BY DEF RealV
<1>2. v # Null /\ v # BoolV(FALSE) /\ v # StrV("") /\ v # ArrV(<<>>) /\ v # ObjV(NoMembers)
  <2> HIDE DEF v
  <2> QED BY <1>1, OtherTypes
<1> HIDE DEF v
<1>3. AsDouble(v) = h /\ (ConvertibleToNull(v) <=> h = 0)
  BY <1>1, <1>2 DEF AsDouble, ConvertibleToNull, IsNumeric
<1>4. AsInt(v) = Truncated(h) /\ (h = 0 => Truncated(h) = 0)
  BY <1>1 DEF AsInt, Truncated
<1>5. AsBool(v) <=> h # 0
  BY <1>1, <1>3 DEF AsBool
<1>6. /\ ConvertibleToInt(v)  <=> ~AsIntThrows(v)
      /\ ConvertibleToUInt(v) <=> ~AsUIntThrows(v)
      /\ IsInt(v)   => ~AsIntThrows(v)
      /\ IsUInt(v)  => ~AsUIntThrows(v)
  BY <1>1 DEF ConvertibleToInt, AsIntThrows, IsInt, InRange,
                ConvertibleToUInt, AsUIntThrows, IsUInt
<1>7. /\ ConvertibleToBool(v) <=> ~AsBoolThrows(v)
      /\ ConvertibleToString(v) <=> ~AsStringThrows(v)
  BY <1>1 DEF ConvertibleToBool, AsBoolThrows, ConvertibleToString, AsStringThrows, IsNumeric
<1>8. /\ IsInt64(v)  <=> 2 * MinLargestInt <= h /\ h < 2 * (MaxLargestInt + 1) /\ h % 2 = 0
      /\ IsUInt64(v) <=> 0 <= h /\ h < 2 * (MaxLargestUInt + 1) /\ h % 2 = 0
  BY <1>1 DEF IsInt64, IsUInt64
<1>9. /\ IsInt64(v)  => ~AsInt64Throws(v)
      /\ IsUInt64(v) => ~AsUInt64Throws(v)
  BY <1>1, <1>8, WidthIs DEF AsInt64Throws, AsUInt64Throws, InRange
<1>10. /\ IsInt(v)  => IsInt64(v)
       /\ IsUInt(v) => IsUInt64(v)
  BY <1>1, <1>8, WidthIs DEF IsInt, IsUInt, InRange
<1>11. ConvertsAsAsked(v)
  BY <1>3, <1>4, <1>5, <1>6, <1>7, <1>9, <1>10 DEF ConvertsAsAsked
<1> QED BY <1>3, <1>8, <1>11 DEF v

LEMMA IntConverts ==
  ASSUME NEW n \in MinLargestInt .. MaxLargestInt
  PROVE  LET v == IntV(n) IN
         ConvertsAsAsked(v) /\ IsInt64(v) /\ (IsUInt64(v) <=> n >= 0)
<1> DEFINE v == IntV(n)
<1>1. v.type = "int" /\ v.int = n /\ n \in Int
  BY WidthIs DEF IntV
<1>2. v # Null /\ v # BoolV(FALSE) /\ v # StrV("") /\ v # ArrV(<<>>) /\ v # ObjV(NoMembers)
  <2> HIDE DEF v
  <2> QED BY <1>1, OtherTypes
<1> HIDE DEF v
<1>4. AsInt(v) = n
  BY <1>1 DEF AsInt
<1>3. AsDouble(v) = 2 * n /\ (ConvertibleToNull(v) <=> n = 0)
  <2>1. AsDouble(v) = 2 * n
    BY <1>1, <1>4 DEF AsDouble
  <2>2. 2 * n = 0 <=> n = 0
    BY <1>1
  <2>3. IsNumeric(v)
    BY <1>1 DEF IsNumeric
  <2> QED BY <1>2, <2>1, <2>2, <2>3 DEF ConvertibleToNull
<1>5. AsBool(v) <=> n # 0
  BY <1>1, <1>3 DEF AsBool
<1>6. /\ ConvertibleToInt(v)  <=> ~AsIntThrows(v)
      /\ ConvertibleToUInt(v) <=> ~AsUIntThrows(v)
      /\ IsInt(v)   => ~AsIntThrows(v)
      /\ IsUInt(v)  => ~AsUIntThrows(v)
  BY <1>1 DEF ConvertibleToInt, AsIntThrows, IsInt, InRange,
                ConvertibleToUInt, AsUIntThrows, IsUInt
<1>7. /\ ConvertibleToBool(v) <=> ~AsBoolThrows(v)
      /\ ConvertibleToString(v) <=> ~AsStringThrows(v)
  BY <1>1 DEF ConvertibleToBool, AsBoolThrows, ConvertibleToString, AsStringThrows, IsNumeric
<1>8. IsInt64(v) /\ (IsUInt64(v) <=> n >= 0)
  BY <1>1 DEF IsInt64, IsUInt64
<1>9. /\ ~AsInt64Throws(v)
      /\ IsUInt64(v) => ~AsUInt64Throws(v)
  BY <1>1, <1>8 DEF AsInt64Throws, AsUInt64Throws
<1>10. IsUInt(v) => IsUInt64(v)
  BY <1>1, <1>8 DEF IsUInt
<1>11. ConvertsAsAsked(v)
  BY <1>1, <1>3, <1>4, <1>5, <1>6, <1>7, <1>8, <1>9, <1>10 DEF ConvertsAsAsked
<1> QED BY <1>3, <1>8, <1>11 DEF v

LEMMA UIntConverts ==
  ASSUME NEW n \in Nat
  PROVE  LET v == UIntV(n) IN
         ConvertsAsAsked(v) /\ (IsInt64(v) <=> n <= MaxLargestInt) /\ IsUInt64(v)
<1> DEFINE v == UIntV(n)
<1>1. v.type = "uint" /\ v.uint = n
  BY DEF UIntV
<1>2. v # Null /\ v # BoolV(FALSE) /\ v # StrV("") /\ v # ArrV(<<>>) /\ v # ObjV(NoMembers)
  <2> HIDE DEF v
  <2> QED BY <1>1, OtherTypes
<1> HIDE DEF v
<1>4. AsInt(v) = n
  BY <1>1 DEF AsInt
<1>3. AsDouble(v) = 2 * n /\ (ConvertibleToNull(v) <=> n = 0)
  <2>1. AsDouble(v) = 2 * n
    BY <1>1, <1>4 DEF AsDouble
  <2>2. 2 * n = 0 <=> n = 0
    BY <1>1
  <2>3. IsNumeric(v)
    BY <1>1 DEF IsNumeric
  <2> QED BY <1>2, <2>1, <2>2, <2>3 DEF ConvertibleToNull
<1>5. AsBool(v) <=> n # 0
  BY <1>1, <1>3 DEF AsBool
<1>6. /\ ConvertibleToInt(v)  <=> ~AsIntThrows(v)
      /\ ConvertibleToUInt(v) <=> ~AsUIntThrows(v)
      /\ IsInt(v)   => ~AsIntThrows(v)
      /\ IsUInt(v)  => ~AsUIntThrows(v)
  BY <1>1 DEF ConvertibleToInt, AsIntThrows, IsInt, InRange,
                ConvertibleToUInt, AsUIntThrows, IsUInt
<1>7. /\ ConvertibleToBool(v) <=> ~AsBoolThrows(v)
      /\ ConvertibleToString(v) <=> ~AsStringThrows(v)
  BY <1>1 DEF ConvertibleToBool, AsBoolThrows, ConvertibleToString, AsStringThrows, IsNumeric
<1>8. (IsInt64(v) <=> n <= MaxLargestInt) /\ IsUInt64(v)
  BY <1>1 DEF IsInt64, IsUInt64
<1>9. /\ IsInt64(v) => ~AsInt64Throws(v)
      /\ ~AsUInt64Throws(v)
  BY <1>1, <1>8, WidthIs DEF AsInt64Throws, AsUInt64Throws
<1>10. IsInt(v) => IsInt64(v)
  BY <1>1, <1>8, WidthIs DEF IsInt
<1>11. ConvertsAsAsked(v)
  BY <1>1, <1>3, <1>4, <1>5, <1>6, <1>7, <1>8, <1>9, <1>10 DEF ConvertsAsAsked
<1> QED BY <1>3, <1>8, <1>11 DEF v

LEMMA OthersConvert ==
  ASSUME NEW v \in OtherValues
  PROVE  ConvertsAsAsked(v)
<1>1. CASE v.type \in {"string", "array", "object"}
  BY <1>1 DEF ConvertsAsAsked, ConvertibleToInt, AsIntThrows, IsInt, ConvertibleToUInt,
              AsUIntThrows, IsUInt, ConvertibleToBool, AsBoolThrows, ConvertibleToString,
              AsStringThrows, IsNumeric, IsInt64, IsUInt64
<1>2. CASE v = Null
  <2>1. v.type = "null"
    BY <1>2, OtherTypes
  <2>2. AsInt(v) = 0 /\ AsDouble(v) = 0 /\ ConvertibleToNull(v)
    BY <1>2, <2>1 DEF AsInt, AsDouble, ConvertibleToNull
  <2> QED
    BY <2>1, <2>2 DEF ConvertsAsAsked, ConvertibleToInt, AsIntThrows, IsInt, ConvertibleToUInt,
              AsUIntThrows, IsUInt, ConvertibleToBool, AsBoolThrows, ConvertibleToString,
              AsStringThrows, IsNumeric, IsInt64, IsUInt64, AsBool
<1>3. ASSUME NEW b \in BOOLEAN, v = BoolV(b) PROVE ConvertsAsAsked(v)
  <2>1. v.type = "boolean" /\ v.bool = b /\ BoolV(FALSE).bool = FALSE
    BY <1>3 DEF BoolV
  <2>2. v # Null /\ v # StrV("") /\ v # ArrV(<<>>) /\ v # ObjV(NoMembers)
    BY <2>1, OtherTypes
  <2>3. v = BoolV(FALSE) <=> ~b
    BY <1>3, <2>1
  <2>4. ConvertibleToNull(v) <=> ~b
    BY <2>1, <2>2, <2>3 DEF ConvertibleToNull, IsNumeric
  <2>5. AsInt(v) = (IF b THEN 1 ELSE 0) /\ (AsBool(v) <=> b)
    BY <2>1 DEF AsInt, AsBool
  <2> QED
    BY <2>1, <2>4, <2>5 DEF ConvertsAsAsked, ConvertibleToInt, AsIntThrows, IsInt,
              ConvertibleToUInt, AsUIntThrows, IsUInt, ConvertibleToBool, AsBoolThrows,
              ConvertibleToString, AsStringThrows, IsNumeric, IsInt64, IsUInt64
<1>4. \/ v = Null \/ v = BoolV(TRUE) \/ v = BoolV(FALSE)
      \/ v.type \in {"string", "array", "object"}
  <2>1. /\ StrV("a").type = "string" /\ ArrV(<<Null>>).type = "array"
        /\ ObjV([n \in {"a"} |-> Null]).type = "object"
    BY DEF StrV, ArrV, ObjV
  <2> QED BY <2>1, OtherTypes DEF OtherValues
<1> QED BY <1>1, <1>2, <1>3, <1>4

LEMMA AsAsked ==
  ASSUME chars \in Seq(Digit), sort = "number"
  PROVE  ConvertibleAsAsked
<1> SUFFICES ASSUME NEW t \in NumberTexts
             PROVE  LET read == DecodeNumber(t)
                        v    == read.value
                        n    == WrittenNumber(t) \div 2
                    IN  /\ ConvertsAsAsked(v)
                        /\ t.rest = "" /\ read.ok /\ n >= MinLargestInt =>
                             /\ IsInt64(v)    <=> n <= MaxLargestInt
                             /\ IsUInt64(v)   <=> n \in 0 .. MaxLargestUInt
                             /\ IsIntegral(v) <=> n <= MaxLargestUInt
                             /\ IsIntegral(v) => v \in {IntV(n), UIntV(n)}
  BY OthersConvert DEF ConvertibleAsAsked
<1> DEFINE minus == t.minus
           rest == t.rest
           d == Decimal(chars)
           h == WrittenNumber(t)
           n == h \div 2
           read == DecodeNumber(t)
           v == read.value
           Said == /\ ConvertsAsAsked(v)
                   /\ rest = "" /\ read.ok /\ n >= MinLargestInt =>
                        /\ IsInt64(v)    <=> n <= MaxLargestInt
                        /\ IsUInt64(v)   <=> n \in 0 .. MaxLargestUInt
                        /\ IsIntegral(v) <=> n <= MaxLargestUInt
                        /\ IsIntegral(v) => v \in {IntV(n), UIntV(n)}
<1> SUFFICES Said
  OBVIOUS
<1>1. minus \in BOOLEAN /\ rest \in Rests /\ t = NumberText(minus, chars, rest)
  BY NumberTextsAre
<1> HIDE DEF minus, rest
<1>2. /\ d \in Nat
      /\ read = IF rest = "" /\ d <= Limit(minus)
                  THEN [ok |-> TRUE, value |-> Held(minus, d)] ELSE DecodeDouble(t)
  BY <1>1, DecodeIs
<1>2a. d \in Nat
  BY <1>2
<1>3. h \in Int /\ (rest = "" => h = 2 * (Sgn(minus) * d))
  BY <1>1, <1>2, WrittenNumberIs
<1> HIDE DEF h, d, read
<1>3a. h \in Int /\ Sgn(minus) * d \in Int
  BY <1>1, <1>2a, <1>3, SgnIs
<1>4. n \in Int /\ (rest = "" => n = Sgn(minus) * d /\ h = 2 * n)
  <2> DEFINE i == Sgn(minus) * d
  <2>1. i \in Int /\ (rest = "" => h = 2 * i)
    BY <1>3, <1>3a
  <2> HIDE DEF i
  <2>a. h \in Int /\ i \in Int
    BY <1>3a, <2>1
  <2>2. n \in Int /\ (h = 2 * i => n = i)
    BY <2>a
  <2>3. rest = "" => n = i /\ h = 2 * n
    BY <2>1, <2>2
  <2> QED BY <2>2, <2>3 DEF i
<1>4a. n \in Int
  BY <1>4
<1> HIDE DEF n, v
<1>5. CASE ~read.ok
  <2>1. read = DecodeDouble(t)
    BY <1>2, <1>5
  <2>2. v = Null
    BY <1>5, <2>1, DoubleFails DEF v
  <2>3. ConvertsAsAsked(v)
    BY <2>2, OthersConvert DEF OtherValues
  <2> QED BY <1>5, <2>3
<1>6. CASE read.ok /\ ~(rest = "" /\ d <= Limit(minus))
  <2> DEFINE r == Rounded[h]
  <2>1. read = DecodeDouble(t)
    BY <1>2, <1>6
  <2>2. h \in DOMAIN Rounded /\ r \in Int /\ v = RealV(r)
    BY <1>6, <2>1, DoubleIs DEF h, v
  <2>3. /\ ConvertsAsAsked(v)
        /\ IsInt64(v)  <=> 2 * MinLargestInt <= r /\ r < 2 * (MaxLargestInt + 1) /\ r % 2 = 0
        /\ IsUInt64(v) <=> 0 <= r /\ r < 2 * (MaxLargestUInt + 1) /\ r % 2 = 0
    <3> HIDE DEF r
    <3> QED BY <2>2, RealConverts
  <2>4. ASSUME rest = "", n >= MinLargestInt
        PROVE  ~IsInt64(v) /\ ~IsUInt64(v) /\ n > MaxLargestUInt /\ n > MaxLargestInt
    <3>0. ~(d <= Limit(minus)) /\ n = Sgn(minus) * d /\ h = 2 * n
      BY <1>4, <1>6, <2>4
    <3>1. d > Limit(minus)
      BY <1>1, <1>2a, <3>0, LimitIs
    <3>2. n > MaxLargestUInt /\ n > MaxLargestInt
      <4>1. CASE minus
        <5>1. n = -d
          BY <1>1, <1>2a, <3>0, <4>1, SgnIs
        <5>2. d > MaxLargestInt + 1
          BY <3>1, <4>1 DEF Limit
        <5>3. n >= MinLargestInt
          BY <2>4
        <5>4. FALSE
          <6> HIDE DEF n
          <6> QED BY <1>2a, <5>1, <5>2, <5>3, WidthIs
        <5> QED BY <5>4
      <4>2. CASE ~minus
        <5>1. n = d
          BY <1>1, <1>2a, <3>0, <4>2, SgnIs
        <5>2. d > 2 * MaxLargestInt + 1
          BY <3>1, <4>2 DEF Limit
        <5> QED BY <1>2a, <5>1, <5>2, WidthIs
      <4> QED BY <1>1, <4>1, <4>2
    <3>3. 2 * (MaxLargestUInt + 1) <= h
      BY <1>4a, <3>0, <3>2, WidthIs
    <3>4. 2 * (MaxLargestUInt + 1) <= r
      BY <2>2, <3>3, DoubleAssumption
    <3> HIDE DEF r
    <3>5. ~(r < 2 * (MaxLargestUInt + 1)) /\ ~(r < 2 * (MaxLargestInt + 1))
      BY <2>2, <3>4, WidthIs
    <3> QED BY <2>3, <3>2, <3>5
  <2>5. ASSUME rest = "", n >= MinLargestInt
        PROVE  /\ IsInt64(v)    <=> n <= MaxLargestInt
               /\ IsUInt64(v)   <=> n \in 0 .. MaxLargestUInt
               /\ IsIntegral(v) <=> n <= MaxLargestUInt
               /\ IsIntegral(v) => v \in {IntV(n), UIntV(n)}
    <3>1. ~IsInt64(v) /\ ~IsUInt64(v) /\ n > MaxLargestUInt /\ n > MaxLargestInt
      BY <2>4, <2>5
    <3>2. ~(n <= MaxLargestInt) /\ n \notin 0 .. MaxLargestUInt /\ ~(n <= MaxLargestUInt)
      BY <1>4a, <3>1, WidthIs
    <3> QED BY <3>1, <3>2 DEF IsIntegral
  <2> QED BY <2>3, <2>5
<1>7. CASE rest = "" /\ d <= Limit(minus)
  <2>0. read.ok /\ v = Held(minus, d) /\ n = Sgn(minus) * d
    BY <1>2, <1>4, <1>7 DEF v
  <2>0a. v = Held(minus, d) /\ n = Sgn(minus) * d /\ d <= Limit(minus)
    BY <1>7, <2>0
  <2>1. ASSUME v = IntV(n), n \in MinLargestInt .. MaxLargestInt PROVE Said
    <3>1. ConvertsAsAsked(v) /\ IsInt64(v) /\ (IsUInt64(v) <=> n >= 0)
      BY <2>1, IntConverts
    <3>2. (n >= 0 <=> n \in 0 .. MaxLargestUInt) /\ n <= MaxLargestInt /\ n <= MaxLargestUInt
      BY <2>1, WidthIs
    <3> QED BY <2>1, <3>1, <3>2 DEF IsIntegral
  <2>2. CASE minus
    <3>1. v = IntV(-d) /\ n = -d /\ n \in MinLargestInt .. MaxLargestInt
      BY <1>2a, <2>0a, <2>2, WidthIs DEF Held, Limit, Sgn
    <3> HIDE DEF Said
    <3> QED BY <2>1, <3>1
  <2>3. CASE ~minus /\ d <= MaxInt
    <3>1. v = IntV(d) /\ n = d /\ n \in MinLargestInt .. MaxLargestInt
      BY <1>2a, <2>0a, <2>3, WidthIs DEF Held, Limit, Sgn
    <3> HIDE DEF Said
    <3> QED BY <2>1, <3>1
  <2>4. CASE ~minus /\ ~(d <= MaxInt)
    <3>1. v = UIntV(d) /\ n = d /\ n \in 0 .. MaxLargestUInt
      BY <1>2a, <2>0a, <2>4, WidthIs DEF Held, Limit, Sgn
    <3>2. ConvertsAsAsked(v) /\ (IsInt64(v) <=> d <= MaxLargestInt) /\ IsUInt64(v)
      BY <1>2a, <3>1, UIntConverts
    <3>3. (d <= MaxLargestInt <=> n <= MaxLargestInt) /\ n <= MaxLargestUInt
      BY <1>2a, <3>1, WidthIs
    <3> QED BY <3>1, <3>2, <3>3 DEF IsIntegral
  <2> QED BY <1>1, <2>2, <2>3, <2>4
<1> HIDE DEF Said
<1> QED BY <1>5, <1>6, <1>7

(* Whatever number a command holds, of any length, however wide Int and
   LargestInt are and whatever doubles are (DoubleAssumption): it is used as
   it was written, a fraction as an integer next to it, or refused; it reads
   back from what FastWriter writes of it unless it is a real, and converts
   as it said beforehand (decodeNumber, decodeDouble, asInt, valueToString,
   isConvertibleTo). *)
THEOREM NumbersKeptCorrect == TextsSpec => []NumbersKept
<1> DEFINE Good == sort = "number" => chars \in Seq(Digit)
<1>1. NoText => Good
  BY DEF NoText
<1>2. Good /\ [Extend]_<<sort, chars>> => Good'
  BY AlphabetsAre DEF Extend, AlphabetsOf
<1>3. Good => NumbersKept
  <2>1. CASE sort = "number" /\ chars \in Seq(Digit)
    BY <2>1, ExactOrRefused, ReadsBack, AsAsked DEF NumbersKept
  <2>2. CASE sort # "number"
    BY <2>2 DEF NumbersKept, NumberExactOrRefused, NumberReadsBack, ConvertibleAsAsked
  <2> QED BY <2>1, <2>2
<1> QED BY <1>1, <1>2, <1>3, PTL DEF TextsSpec

-----------------------------------------------------------------------------
(* The orders of keys. *)

\* The first m characters of both are the same.
Begin(a, b, m) ==
  m \in Nat /\ m < Len(a) /\ m < Len(b) /\ \A j \in 1 .. m : a[j] = b[j]

\* m characters are the same, and the next one is another.
Parts(a, b, m) == Begin(a, b, m) /\ a[m + 1] # b[m + 1]

LEMMA AlikeIs ==
  ASSUME NEW a \in Seq(Int), NEW b \in Seq(Int)
  PROVE  Alike(a, b) <=> \A i \in DOMAIN a \cap DOMAIN b : a[i] = b[i]
<1>1. ASSUME NEW s \in Seq(Int), NEW t \in Seq(Int)
      PROVE  IsPrefix(s, t) <=> Len(s) <= Len(t) /\ \A i \in 1 .. Len(s) : s[i] = t[i]
  <2>1. Len(s) <= Len(t) => SubSeq(s, 1, Len(s)) = s /\ Len(SubSeq(t, 1, Len(s))) = Len(s)
                    /\ \A i \in 1 .. Len(s) : SubSeq(t, 1, Len(s))[i] = t[i]
    OBVIOUS
  <2>2. ASSUME Len(s) <= Len(t), \A i \in 1 .. Len(s) : s[i] = t[i]
        PROVE  SubSeq(t, 1, Len(s)) = s
    <3> DEFINE u == SubSeq(t, 1, Len(s))
    <3>1. u \in Seq(Int) /\ Len(u) = Len(s) /\ \A i \in 1 .. Len(s) : u[i] = s[i]
      BY <2>1, <2>2
    <3> HIDE DEF u
    <3>2. u = s
      BY <3>1, SeqEqual
    <3> QED BY <3>2 DEF u
  <2> QED BY <2>1, <2>2 DEF IsPrefix
<1>2. DOMAIN a = 1 .. Len(a) /\ DOMAIN b = 1 .. Len(b)
  OBVIOUS
<1>3. Len(a) \in Nat /\ Len(b) \in Nat
  OBVIOUS
<1>4. CASE Len(a) <= Len(b)
  <2>1. DOMAIN a \cap DOMAIN b = 1 .. Len(a)
    BY <1>2, <1>3, <1>4
  <2>2. IsPrefix(b, a) => IsPrefix(a, b)
    BY <1>1, <1>3, <1>4
  <2> QED BY <1>1, <1>4, <2>1, <2>2 DEF Alike
<1>5. CASE Len(b) <= Len(a)
  <2>1. DOMAIN a \cap DOMAIN b = 1 .. Len(b)
    BY <1>2, <1>3, <1>5
  <2>2. IsPrefix(a, b) => IsPrefix(b, a)
    BY <1>1, <1>3, <1>5
  <2> QED BY <1>1, <1>5, <2>1, <2>2 DEF Alike
<1> QED BY <1>3, <1>4, <1>5

LEMMA Parting ==
  ASSUME NEW a \in Seq(Int), NEW b \in Seq(Int), ~Alike(a, b)
  PROVE  \E m \in Nat : Parts(a, b, m)
<1> DEFINE Off == {i \in DOMAIN a \cap DOMAIN b : a[i] # b[i]}
<1>1. Off \in SUBSET Nat /\ Off # {}
  BY AlikeIs
<1>2. PICK i \in Off : \A j \in Off : i <= j
  BY <1>1, LeastNat
<1>3. i - 1 \in Nat /\ Parts(a, b, i - 1)
  BY <1>2 DEF Parts, Begin
<1> QED BY <1>3

\* Two that part do so at one place only, and are not alike.
LEMMA PartOnce ==
  ASSUME NEW a \in Seq(Int), NEW b \in Seq(Int), NEW m \in Nat, Parts(a, b, m)
  PROVE  /\ ~Alike(a, b)
         /\ \A k \in Nat : Parts(a, b, k) => k = m
<1>1. Len(a) \in Nat /\ Len(b) \in Nat /\ DOMAIN a = 1 .. Len(a) /\ DOMAIN b = 1 .. Len(b)
  OBVIOUS
<1>2. m + 1 \in DOMAIN a \cap DOMAIN b /\ a[m + 1] # b[m + 1]
  BY <1>1 DEF Parts, Begin
<1>3. ~Alike(a, b)
  BY <1>2, AlikeIs
<1>4. ASSUME NEW k \in Nat, Parts(a, b, k) PROVE k = m
  <2>1. ~(k < m)
    <3>1. k < m => k + 1 \in 1 .. m
      OBVIOUS
    <3> QED BY <1>4, <3>1 DEF Parts, Begin
  <2>2. ~(m < k)
    <3>1. m < k => m + 1 \in 1 .. k
      OBVIOUS
    <3> QED BY <1>4, <3>1 DEF Parts, Begin
  <2> QED BY <2>1, <2>2
<1> QED BY <1>3, <1>4

\* The one that is less where they part.
Precedes(a, b) == \E m \in Nat : Parts(a, b, m) /\ a[m + 1] < b[m + 1]

LEMMA CharIn ==
  ASSUME NEW a \in Seq(Int), NEW b \in Seq(Int), NEW m \in Nat, Begin(a, b, m)
  PROVE  a[m + 1] \in Int /\ b[m + 1] \in Int
<1>1. m + 1 \in 1 .. Len(a) /\ m + 1 \in 1 .. Len(b)
  BY DEF Begin
<1> QED BY <1>1, ElementOfSeq

LEMMA BeforeOrAfter ==
  ASSUME NEW a \in Seq(Int), NEW b \in Seq(Int)
  PROVE  /\ Alike(a, b) => ~Precedes(a, b) /\ ~Precedes(b, a)
         /\ ~Alike(a, b) => (Precedes(a, b) <=> ~Precedes(b, a))
         /\ Alike(a, b) <=> Alike(b, a)
<1>1. \A k \in Nat : Parts(b, a, k) <=> Parts(a, b, k)
  BY DEF Parts, Begin
<1>2. Alike(a, b) <=> Alike(b, a)
  BY DEF Alike
<1>3. CASE Alike(a, b)
  <2>1. \A k \in Nat : ~Parts(a, b, k)
    BY <1>3, PartOnce
  <2> QED BY <1>1, <1>2, <1>3, <2>1 DEF Precedes
<1>4. CASE ~Alike(a, b)
  <2>1. PICK m \in Nat : Parts(a, b, m)
    BY <1>4, Parting
  <2>2. \A k \in Nat : Parts(a, b, k) => k = m
    BY <2>1, PartOnce
  <2>3. a[m + 1] \in Int /\ b[m + 1] \in Int /\ a[m + 1] # b[m + 1]
    BY <2>1, CharIn DEF Parts
  <2>4. Precedes(a, b) <=> a[m + 1] < b[m + 1]
    BY <2>1, <2>2 DEF Precedes
  <2>5. Precedes(b, a) <=> b[m + 1] < a[m + 1]
    BY <1>1, <2>1, <2>2 DEF Precedes
  <2> QED BY <1>2, <1>4, <2>3, <2>4, <2>5
<1> QED BY <1>3, <1>4

LEMMA BeforeTransitive ==
  ASSUME NEW a \in Seq(Int), NEW b \in Seq(Int), NEW c \in Seq(Int), Precedes(a, b), Precedes(b, c)
  PROVE  Precedes(a, c)
<1>0. Len(a) \in Nat /\ Len(b) \in Nat /\ Len(c) \in Nat
  OBVIOUS
<1>1. PICK m \in Nat : Parts(a, b, m) /\ a[m + 1] < b[m + 1]
  BY DEF Precedes
<1>2. PICK n \in Nat : Parts(b, c, n) /\ b[n + 1] < c[n + 1]
  BY DEF Precedes
<1>3. a[m + 1] \in Int /\ b[m + 1] \in Int /\ b[n + 1] \in Int /\ c[n + 1] \in Int
  BY <1>1, <1>2, CharIn DEF Parts
<1>4. CASE m < n
  <2>1. b[m + 1] = c[m + 1]
    <3>1. m + 1 \in 1 .. n
      BY <1>4
    <3> QED BY <1>2, <3>1 DEF Parts, Begin
  <2>2. Begin(a, c, m)
    <3>1. \A j \in 1 .. m : j \in 1 .. n
      BY <1>4
    <3>2. \A j \in 1 .. m : a[j] = b[j] /\ b[j] = c[j]
      BY <1>1, <1>2, <3>1 DEF Parts, Begin
    <3>3. m < Len(a) /\ m < Len(c)
      BY <1>0, <1>1, <1>2, <1>4 DEF Parts, Begin
    <3> QED BY <3>2, <3>3 DEF Begin
  <2>3. a[m + 1] # c[m + 1]
    BY <1>1, <1>3, <2>1
  <2> QED BY <1>1, <2>1, <2>2, <2>3 DEF Precedes, Parts
<1>5. CASE n < m
  <2>1. a[n + 1] = b[n + 1]
    <3>1. n + 1 \in 1 .. m
      BY <1>5
    <3> QED BY <1>1, <3>1 DEF Parts, Begin
  <2>2. Begin(a, c, n)
    <3>1. \A j \in 1 .. n : j \in 1 .. m
      BY <1>5
    <3>2. \A j \in 1 .. n : a[j] = b[j] /\ b[j] = c[j]
      BY <1>1, <1>2, <3>1 DEF Parts, Begin
    <3>3. n < Len(a) /\ n < Len(c)
      BY <1>0, <1>1, <1>2, <1>5 DEF Parts, Begin
    <3> QED BY <3>2, <3>3 DEF Begin
  <2>3. a[n + 1] # c[n + 1]
    BY <1>2, <1>3, <2>1
  <2> QED BY <1>2, <2>1, <2>2, <2>3 DEF Precedes, Parts
<1>6. CASE m = n
  <2>1. a[m + 1] < c[m + 1]
    BY <1>1, <1>2, <1>3, <1>6
  <2>2. Parts(a, c, m)
    BY <1>1, <1>2, <1>3, <1>6, <2>1 DEF Parts, Begin
  <2> QED BY <2>1, <2>2 DEF Precedes
<1> QED BY <1>4, <1>5, <1>6

\* strncmp up to the shorter length, and with it Io_Comp.
LEMMA CompIs ==
  ASSUME NEW x, NEW y, x.ip \in Seq(Int), y.ip \in Seq(Int)
  PROVE  Comp(x, y) <=> IF Alike(x.ip, y.ip) THEN x.port < y.port ELSE Precedes(x.ip, y.ip)
<1> DEFINE a == x.ip
           b == y.ip
           n == IF Len(a) > Len(b) THEN Len(b) ELSE Len(a)
           differ == {i \in 1 .. n : a[i] # b[i]}
<1>1. Len(a) \in Nat /\ Len(b) \in Nat /\ DOMAIN a = 1 .. Len(a) /\ DOMAIN b = 1 .. Len(b)
  OBVIOUS
<1>2. 1 .. n = DOMAIN a \cap DOMAIN b
  BY <1>1
<1>3. Comp(x, y) <=> IF StrNCmp(a, b, n) = 0 THEN x.port < y.port ELSE StrNCmp(a, b, n) < 0
  BY DEF Comp
<1>4. CASE Alike(a, b)
  <2>1. differ = {}
    BY <1>2, <1>4, AlikeIs
  <2>2. StrNCmp(a, b, n) = 0
    BY <2>1 DEF StrNCmp
  <2> QED BY <1>3, <1>4, <2>2
<1>5. CASE ~Alike(a, b)
  <2>1. PICK m \in Nat : Parts(a, b, m)
    BY <1>5, Parting
  <2>2. a[m + 1] \in Int /\ b[m + 1] \in Int /\ a[m + 1] # b[m + 1]
    BY <2>1, CharIn DEF Parts
  <2>3. m + 1 \in differ /\ \A i \in differ : m + 1 <= i
    BY <1>1, <2>1 DEF Parts, Begin
  <2>4. \A i \in differ : (\A j \in differ : i <= j) => i = m + 1
    BY <2>3
  <2>5. (CHOOSE i \in differ : \A j \in differ : i <= j) = m + 1
    <3> HIDE DEF differ
    <3> QED BY <2>3, <2>4
  <2>6. StrNCmp(a, b, n) = a[m + 1] - b[m + 1]
    BY <2>3, <2>5 DEF StrNCmp
  <2>7. Precedes(a, b) <=> a[m + 1] < b[m + 1]
    BY <2>1, PartOnce DEF Precedes
  <2> QED BY <1>3, <1>5, <2>2, <2>6, <2>7
<1> QED BY <1>4, <1>5

\* A connection cache's order, on addresses of which none begins another.
LEMMA BackendOrderHolds ==
  ASSUME NEW ips, ips \subseteq Seq(Int), chars \in Seq(Int)
  PROVE  BackendOrder(ips)
<1> DEFINE keys == [ip : ips, port : {1, 2}]
<1> SUFFICES ASSUME NEW x \in [ip : {chars}, port : {1, 2}], NEW y \in keys
             PROVE  /\ ~Comp(x, y) /\ ~Comp(y, x) <=> x.port = y.port /\ Alike(x.ip, y.ip)
                    /\ ~(Comp(x, y) /\ Comp(y, x))
                    /\ \A z \in keys :
                         /\ Alike(x.ip, y.ip) => x.ip = y.ip
                         /\ Alike(y.ip, z.ip) => y.ip = z.ip
                         /\ Alike(x.ip, z.ip) => x.ip = z.ip
                         /\ Comp(x, y) /\ Comp(y, z)
                         => Comp(x, z)
  BY DEF BackendOrder
<1>1. x.ip \in Seq(Int) /\ y.ip \in Seq(Int) /\ x.port \in {1, 2} /\ y.port \in {1, 2}
  OBVIOUS
<1>2. Comp(x, y) <=> IF Alike(x.ip, y.ip) THEN x.port < y.port ELSE Precedes(x.ip, y.ip)
  BY <1>1, CompIs
<1>3. Comp(y, x) <=> IF Alike(y.ip, x.ip) THEN y.port < x.port ELSE Precedes(y.ip, x.ip)
  BY <1>1, CompIs
<1>4. /\ Alike(x.ip, y.ip) => ~Precedes(x.ip, y.ip) /\ ~Precedes(y.ip, x.ip)
      /\ ~Alike(x.ip, y.ip) => (Precedes(x.ip, y.ip) <=> ~Precedes(y.ip, x.ip))
      /\ Alike(x.ip, y.ip) <=> Alike(y.ip, x.ip)
  BY <1>1, BeforeOrAfter
<1>5. ~Comp(x, y) /\ ~Comp(y, x) <=> x.port = y.port /\ Alike(x.ip, y.ip)
  BY <1>1, <1>2, <1>3, <1>4
<1>6. ~(Comp(x, y) /\ Comp(y, x))
  BY <1>1, <1>2, <1>3, <1>4
<1>7. ASSUME NEW z \in keys,
             Alike(x.ip, y.ip) => x.ip = y.ip, Alike(y.ip, z.ip) => y.ip = z.ip,
             Alike(x.ip, z.ip) => x.ip = z.ip, Comp(x, y), Comp(y, z)
      PROVE  Comp(x, z)
  <2>1. z.ip \in Seq(Int) /\ z.port \in {1, 2}
    OBVIOUS
  <2>2. Comp(y, z) <=> IF Alike(y.ip, z.ip) THEN y.port < z.port ELSE Precedes(y.ip, z.ip)
    BY <1>1, <2>1, CompIs
  <2>3. Comp(x, z) <=> IF Alike(x.ip, z.ip) THEN x.port < z.port ELSE Precedes(x.ip, z.ip)
    BY <1>1, <2>1, CompIs
  <2>4. Precedes(x.ip, y.ip) /\ Precedes(y.ip, z.ip) => Precedes(x.ip, z.ip)
    BY <1>1, <2>1, BeforeTransitive
  <2>5. Precedes(x.ip, z.ip) => ~Alike(x.ip, z.ip)
    BY <1>1, <2>1, BeforeOrAfter
  <2>6. Precedes(x.ip, y.ip) => ~Precedes(y.ip, x.ip)
    BY <1>4
  <2>7. Alike(x.ip, x.ip)
    <3>1. \A i \in DOMAIN x.ip \cap DOMAIN x.ip : x.ip[i] = x.ip[i]
      OBVIOUS
    <3> QED BY <1>1, <3>1, AlikeIs
  <2>8. CASE Alike(x.ip, y.ip)
    <3>1. x.ip = y.ip /\ x.port < y.port
      BY <1>2, <1>7, <2>8
    <3> QED BY <1>1, <1>7, <2>1, <2>2, <2>3, <3>1
  <2>9. CASE ~Alike(x.ip, y.ip)
    <3>1. Precedes(x.ip, y.ip)
      BY <1>2, <1>7, <2>9
    <3>2. CASE Alike(y.ip, z.ip)
      <4>1. y.ip = z.ip
        BY <1>7, <3>2
      <4> QED BY <2>3, <2>9, <3>1, <4>1
    <3>3. CASE ~Alike(y.ip, z.ip)
      BY <1>7, <2>2, <2>3, <2>4, <2>5, <3>1, <3>3
    <3> QED BY <3>2, <3>3
  <2> QED BY <2>8, <2>9
<1> QED BY <1>5, <1>6, <1>7

\* The order of an object's names.
LEMMA NameLessIs ==
  ASSUME NEW a \in Seq(Int), NEW b \in Seq(Int)
  PROVE  /\ NameLess(a, b) <=> IF Alike(a, b) THEN Len(a) < Len(b) ELSE Precedes(a, b)
         /\ NameEqual(a, b) <=> a = b
<1>1. Len(a) \in Nat /\ Len(b) \in Nat /\ DOMAIN a = 1 .. Len(a) /\ DOMAIN b = 1 .. Len(b)
  OBVIOUS
<1>2. Differ(a, b) = {} <=> Alike(a, b)
  BY AlikeIs DEF Differ
<1>3. ASSUME ~Alike(a, b) PROVE NameLess(a, b) <=> Precedes(a, b)
  <2>1. PICK m \in Nat : Parts(a, b, m)
    BY <1>3, Parting
  <2>2. m + 1 \in Differ(a, b) /\ \A i \in Differ(a, b) : i \in Int /\ m + 1 <= i
    BY <1>1, <2>1 DEF Parts, Begin, Differ
  <2>3. Precedes(a, b) <=> a[m + 1] < b[m + 1]
    BY <2>1, PartOnce DEF Precedes
  <2>4. \A i \in Differ(a, b) : (\A j \in Differ(a, b) : i <= j) => i = m + 1
    BY <2>2
  <2> QED BY <1>2, <1>3, <2>2, <2>3, <2>4 DEF NameLess
<1>4. ASSUME NameEqual(a, b) PROVE a = b
  <2>1. Len(a) = Len(b) /\ Alike(a, b)
    BY <1>2, <1>4 DEF NameEqual
  <2>2. \A i \in 1 .. Len(a) : a[i] = b[i]
    BY <1>1, <2>1, AlikeIs
  <2> QED BY <2>1, <2>2, SeqEqual
<1>5. a = b => NameEqual(a, b)
  BY DEF NameEqual, Differ
<1> QED BY <1>2, <1>3, <1>4, <1>5 DEF NameLess

LEMMA NameLessThrough ==
  ASSUME NEW a \in Seq(Int), NEW b \in Seq(Int), NEW c \in Seq(Int),
         IF Alike(a, b) THEN Len(a) < Len(b) ELSE Precedes(a, b),
         IF Alike(b, c) THEN Len(b) < Len(c) ELSE Precedes(b, c)
  PROVE  IF Alike(a, c) THEN Len(a) < Len(c) ELSE Precedes(a, c)
<1>1. /\ Len(a) \in Nat /\ Len(b) \in Nat /\ Len(c) \in Nat
      /\ DOMAIN a = 1 .. Len(a) /\ DOMAIN b = 1 .. Len(b) /\ DOMAIN c = 1 .. Len(c)
  OBVIOUS
<1>2. Precedes(a, c) => ~Alike(a, c)
  BY BeforeOrAfter
<1>3. Alike(a, b) => \A i \in DOMAIN a \cap DOMAIN b : a[i] = b[i]
  BY AlikeIs
<1>4. Alike(b, c) => \A i \in DOMAIN b \cap DOMAIN c : b[i] = c[i]
  BY AlikeIs
<1>5. (\A i \in DOMAIN a \cap DOMAIN c : a[i] = c[i]) => Alike(a, c)
  BY AlikeIs
<1>6. CASE Alike(a, b) /\ Alike(b, c)
  <2>1. \A i \in DOMAIN a \cap DOMAIN c : i \in DOMAIN b /\ a[i] = b[i] /\ b[i] = c[i]
    BY <1>1, <1>3, <1>4, <1>6
  <2> QED BY <1>1, <1>5, <1>6, <2>1
<1>7. CASE Alike(a, b) /\ ~Alike(b, c)
  <2>1. PICK m \in Nat : Parts(b, c, m) /\ b[m + 1] < c[m + 1]
    BY <1>7 DEF Precedes
  <2>2. CASE m < Len(a)
    <3>1. \A i \in 1 .. m + 1 : a[i] = b[i]
      BY <1>1, <1>3, <1>7, <2>1, <2>2 DEF Parts, Begin
    <3>2. Parts(a, c, m) /\ a[m + 1] < c[m + 1]
      BY <1>1, <2>1, <2>2, <3>1 DEF Parts, Begin
    <3> QED BY <1>2, <2>1, <3>2 DEF Precedes
  <2>3. CASE ~(m < Len(a))
    <3>1. \A i \in 1 .. Len(a) : a[i] = c[i]
      BY <1>1, <1>3, <1>7, <2>1, <2>3 DEF Parts, Begin
    <3>2. Alike(a, c) /\ Len(a) < Len(c)
      BY <1>1, <1>5, <2>1, <2>3, <3>1 DEF Parts, Begin
    <3> QED BY <3>2
  <2> QED BY <2>2, <2>3
<1>8. CASE ~Alike(a, b) /\ Alike(b, c)
  <2>1. PICK m \in Nat : Parts(a, b, m) /\ a[m + 1] < b[m + 1]
    BY <1>8 DEF Precedes
  <2>2. \A i \in 1 .. m + 1 : b[i] = c[i]
    BY <1>1, <1>4, <1>8, <2>1 DEF Parts, Begin
  <2>3. Parts(a, c, m) /\ a[m + 1] < c[m + 1]
    BY <1>1, <1>8, <2>1, <2>2 DEF Parts, Begin
  <2> QED BY <1>2, <2>1, <2>3 DEF Precedes
<1>9. CASE ~Alike(a, b) /\ ~Alike(b, c)
  BY <1>2, <1>9, BeforeTransitive
<1> QED BY <1>6, <1>7, <1>8, <1>9

LEMMA NamesOrderHolds ==
  ASSUME NEW names, names \subseteq Seq(Int), chars \in Seq(Int)
  PROVE  NamesOrder(names)
<1> SUFFICES ASSUME NEW x \in names, NEW y \in names
             PROVE  /\ NameEqual(x, y) <=> x = y
                    /\ Cardinality({b \in {1, 2, 3} : \/ b = 1 /\ NameLess(x, y)
                                                      \/ b = 2 /\ NameEqual(x, y)
                                                      \/ b = 3 /\ NameLess(y, x)}) = 1
                    /\ NameLess(chars, x) /\ NameLess(x, y) => NameLess(chars, y)
  BY DEF NamesOrder
<1>1. x \in Seq(Int) /\ y \in Seq(Int)
  OBVIOUS
<1>2. /\ NameLess(x, y) <=> IF Alike(x, y) THEN Len(x) < Len(y) ELSE Precedes(x, y)
      /\ NameEqual(x, y) <=> x = y
  BY <1>1, NameLessIs
<1>3. NameLess(y, x) <=> IF Alike(y, x) THEN Len(y) < Len(x) ELSE Precedes(y, x)
  BY <1>1, NameLessIs
<1>4. /\ Alike(x, y) => ~Precedes(x, y) /\ ~Precedes(y, x)
      /\ ~Alike(x, y) => (Precedes(x, y) <=> ~Precedes(y, x))
      /\ Alike(x, y) <=> Alike(y, x)
  BY <1>1, BeforeOrAfter
<1>5. \A s \in Seq(Int) : Alike(s, s)
  <2>1. \A s \in Seq(Int) : \A i \in DOMAIN s \cap DOMAIN s : s[i] = s[i]
    OBVIOUS
  <2> QED BY <2>1, AlikeIs
<1>6. Alike(x, y) /\ Len(x) = Len(y) => x = y
  <2>1. DOMAIN x = 1 .. Len(x) /\ DOMAIN y = 1 .. Len(y)
    BY <1>1
  <2>2. ASSUME Alike(x, y), Len(x) = Len(y) PROVE \A i \in 1 .. Len(x) : x[i] = y[i]
    BY <1>1, <2>1, <2>2, AlikeIs
  <2> QED BY <1>1, <2>2, SeqEqual
<1>7. Len(x) \in Nat /\ Len(y) \in Nat
  BY <1>1
<1> DEFINE which == {b \in {1, 2, 3} : \/ b = 1 /\ NameLess(x, y)
                                       \/ b = 2 /\ NameEqual(x, y)
                                       \/ b = 3 /\ NameLess(y, x)}
<1>8. which = {1} \/ which = {2} \/ which = {3}
  <2>1. CASE x = y
    <3>1. ~NameLess(x, y) /\ ~NameLess(y, x) /\ NameEqual(x, y)
      BY <1>1, <1>2, <1>3, <1>5, <1>7, <2>1
    <3> QED BY <3>1
  <2>2. CASE x # y
    <3>1. ~NameEqual(x, y) /\ (NameLess(x, y) <=> ~NameLess(y, x))
      BY <1>2, <1>3, <1>4, <1>6, <1>7, <2>2
    <3> QED BY <3>1
  <2> QED BY <2>1, <2>2
<1>9. Cardinality(which) = 1
  <2>1. Cardinality({1}) = 1 /\ Cardinality({2}) = 1 /\ Cardinality({3}) = 1
    BY FS_Singleton
  <2> HIDE DEF which
  <2> QED BY <1>8, <2>1
<1>10. ASSUME NameLess(chars, x), NameLess(x, y) PROVE NameLess(chars, y)
  <2>1. /\ NameLess(chars, x) <=> IF Alike(chars, x) THEN Len(chars) < Len(x) ELSE Precedes(chars, x)
        /\ NameLess(chars, y) <=> IF Alike(chars, y) THEN Len(chars) < Len(y) ELSE Precedes(chars, y)
    BY <1>1, NameLessIs
  <2> QED BY <1>1, <1>2, <1>7, <1>10, <2>1, NameLessThrough
<1> QED BY <1>2, <1>9, <1>10

(* In every text of a key, the two orders are what a map needs: the one of
   names keeps all names apart, and the one of backends is strict where no
   address is the beginning of another (CZString, Io_Comp). *)
THEOREM KeyOrderCorrect == TextsSpec => []KeyOrder
<1> DEFINE Good == sort = "key" => chars \in Seq(Int)
<1>1. NoText => Good
  BY DEF NoText
<1>2. Good /\ [Extend]_<<sort, chars>> => Good'
  BY AlphabetsAre DEF Extend, AlphabetsOf
<1>3. Good => KeyOrder
  <2> SUFFICES ASSUME sort = "key", chars \in Seq(Int) PROVE KeyOrder
    BY DEF KeyOrder
  <2> DEFINE short == BoundedSeq(Alphabet["key"], 2)
  <2>1. short \subseteq Seq(Int)
    <3>1. ASSUME NEW s \in short PROVE s \in Seq(Int)
      <4>1. PICK m \in 0 .. 2 : s \in [1 .. m -> Alphabet["key"]]
        BY DEF BoundedSeq, SeqOf
      <4>2. m \in Nat /\ \A i \in 1 .. m : s[i] \in Int
        BY <4>1, AlphabetsAre DEF AlphabetsOf
      <4>3. s = [i \in 1 .. m |-> s[i]]
        BY <4>1
      <4> QED BY <4>2, <4>3, IsASeq
    <3> QED BY <3>1
  <2> HIDE DEF short
  <2>2. BackendOrder(short)
    BY <2>1, BackendOrderHolds
  <2>3. NamesOrder(short \cup {chars})
    BY <2>1, NamesOrderHolds
  <2> QED BY <2>2, <2>3 DEF KeyOrder, short
<1> QED BY <1>1, <1>2, <1>3, PTL DEF TextsSpec
-----------------------------------------------------------------------------
(* The body of a command. *)

\* What a character of a value becomes in a body: itself, a plus or a percent
\* sign with two digits that are the character again; no sign of a field.
LEMMA NibbleBack ==
  ASSUME NEW d \in 0 .. 15
  PROVE  Nibble(d) \in 48 .. 70 \ {61} /\ NibbleValue(Nibble(d)) = d
<1>1. CASE d >= 10
  BY <1>1 DEF Nibble, NibbleValue
<1>2. CASE d < 10
  BY <1>2 DEF Nibble, NibbleValue
<1> QED BY <1>1, <1>2

Coded(c) ==
  LET e == UrlEncodeOne(c)
  IN  /\ e \in Seq(Byte)
      /\ \A i \in 1 .. Len(e) : e[i] # 38 /\ e[i] # 61
      /\ \/ Len(e) = 1 /\ e[1] # 37 /\ c = (IF e[1] = 43 THEN 32 ELSE e[1])
         \/ Len(e) = 3 /\ e[1] = 37 /\ UrlDecodeOne(e[2], e[3]) = c

LEMMA CodedIs ==
  ASSUME NEW c \in Byte
  PROVE  Coded(c)
<1>1. CASE c = 32
  BY <1>1 DEF Coded, UrlEncodeOne, Space, Plus, Byte
<1>2. CASE c # 32 /\ c \in Unreserved
  <2>1. c \notin {37, 38, 43, 61}
    BY <1>2 DEF Unreserved
  <2>2. UrlEncodeOne(c) = <<c>>
    BY <1>2 DEF UrlEncodeOne, Space
  <2> QED BY <2>1, <2>2 DEF Coded
<1>3. CASE c # 32 /\ c \notin Unreserved
  <2> DEFINE h == Nibble((c \div 16) % 16)
             l == Nibble(c % 16)
  <2>1. (c \div 16) % 16 \in 0 .. 15 /\ c % 16 \in 0 .. 15 /\ 16 * ((c \div 16) % 16) + (c % 16) = c
    BY DEF Byte
  <2>2. UrlDecodeOne(h, l) = c
    BY <2>1, NibbleBack DEF UrlDecodeOne
  <2>3. h \in 48 .. 70 \ {61} /\ l \in 48 .. 70 \ {61}
    BY <2>1, NibbleBack
  <2>4. UrlEncodeOne(c) = <<37, h, l>>
    BY <1>3 DEF UrlEncodeOne, Space, Percent
  <2> HIDE DEF h, l
  <2> QED BY <2>2, <2>3, <2>4 DEF Coded, Byte
<1> QED BY <1>1, <1>2, <1>3

\* The characters of a value, each encoded.
Encoding(s) == [i \in 1 .. Len(s) |-> UrlEncodeOne(s[i])]

LEMMA EncodeIs ==
  ASSUME NEW s \in Seq(Byte)
  PROVE  \E g : Pieces(g, Encoding(s), Len(s), Byte) /\ UrlEncode(s) = g[Len(s)]
<1>1. Len(s) \in Nat /\ \A i \in 1 .. Len(s) : UrlEncodeOne(s[i]) \in Seq(Byte)
  BY CodedIs DEF Coded
<1>2. Encoding(s) \in [1 .. Len(s) -> Seq(Byte)]
  BY <1>1 DEF Encoding
<1>3. PICK g : Pieces(g, Encoding(s), Len(s), Byte)
  BY <1>1, <1>2, PiecesAre
<1>4. FlattenSeq(Encoding(s)) = g[Len(s)]
  BY <1>3, FlattenIs
<1> QED BY <1>3, <1>4 DEF UrlEncode, Encoding

\* No character of an encoded value takes a body apart.
LEMMA EncodedClean ==
  ASSUME NEW s \in Seq(Byte)
  PROVE  /\ UrlEncode(s) \in Seq(Byte)
         /\ \A i \in 1 .. Len(UrlEncode(s)) : UrlEncode(s)[i] # 38 /\ UrlEncode(s)[i] # 61
<1>1. PICK g : Pieces(g, Encoding(s), Len(s), Byte) /\ UrlEncode(s) = g[Len(s)]
  BY EncodeIs
<1> DEFINE Clean(e) == \A i \in 1 .. Len(e) : e[i] # 38 /\ e[i] # 61
           Has == {m \in Nat : m <= Len(s) => Clean(g[m])}
<1>2. Len(s) \in Nat /\ \A m \in 0 .. Len(s) : g[m] \in Seq(Byte) /\ Len(g[m]) \in Nat
  <2>1. Len(s) \in Nat /\ g \in [0 .. Len(s) -> Seq(Byte)]
    BY <1>1 DEF Pieces
  <2> QED BY <2>1
<1>3. 0 \in Has
  <2>1. g[0] = <<>>
    BY <1>1 DEF Pieces
  <2> QED BY <2>1
<1>4. ASSUME NEW m \in Has PROVE m + 1 \in Has
  <2> SUFFICES ASSUME m + 1 <= Len(s) PROVE Clean(g[m + 1])
    OBVIOUS
  <2>1. /\ m \in Nat /\ m < Len(s) /\ m \in 0 .. Len(s) /\ m + 1 \in 0 .. Len(s) /\ s[m + 1] \in Byte
    BY <1>2
  <2> DEFINE e == UrlEncodeOne(s[m + 1])
             p == g[m]
             q == g[m + 1]
  <2>2. Clean(p) /\ Clean(e)
    BY <1>2, <2>1, CodedIs DEF Coded
  <2>3. Grows(p, q, e)
    <3>1. Encoding(s)[m + 1] = e
      BY <2>1 DEF Encoding
    <3> QED BY <1>1, <2>1, <3>1, PiecesGrow
  <2> HIDE DEF e, p, q
  <2>4. ASSUME NEW i \in 1 .. Len(q) PROVE q[i] # 38 /\ q[i] # 61
    <3>1. CASE i <= Len(p)
      <4>1. i \in 1 .. Len(p)
        BY <2>3, <3>1 DEF Grows
      <4>2. q[i] = p[i]
        BY <2>3, <4>1 DEF Grows
      <4> QED BY <2>2, <4>1, <4>2
    <3>2. CASE ~(i <= Len(p))
      <4>1. i - Len(p) \in 1 .. Len(e) /\ Len(p) + (i - Len(p)) = i
        BY <2>3, <3>2 DEF Grows
      <4>2. q[i] = e[i - Len(p)]
        BY <2>3, <4>1 DEF Grows
      <4> QED BY <2>2, <4>1, <4>2
    <3> QED BY <2>3, <3>1, <3>2 DEF Grows
  <2> QED BY <2>4 DEF q
<1>5. Len(s) \in Has
  <2>1. Has \in SUBSET Nat
    OBVIOUS
  <2> HIDE DEF Has
  <2> QED BY <1>2, <1>3, <1>4, <2>1, SetInduction
<1> QED BY <1>1, <1>2, <1>5

\* What url_decode makes of the rest of a text from a position on.
DecodeAt(s, f, i) ==
  IF i = Len(s) + 1 THEN <<>>
  ELSE IF s[i] = Percent
    THEN IF i + 2 <= Len(s)
           THEN <<UrlDecodeOne(s[i + 1], s[i + 2])>> \o f[i + 3]
           ELSE f[i + 1]
  ELSE <<IF s[i] = Plus THEN Space ELSE s[i]>> \o f[i + 1]

Decodes(f, s) == \A i \in 1 .. Len(s) + 1 : f[i] = DecodeAt(s, f, i)

LEMMA DecodesIs ==
  ASSUME NEW s \in Seq(Byte)
  PROVE  \E f : Decodes(f, s) /\ UrlDecode(s) = f[1]
<1> DEFINE n == Len(s) + 1
           Eq(f, m) == f = [i \in n - m .. n |-> DecodeAt(s, f, i)]
           Has == {m \in Nat : m < n => \E f : Eq(f, m)}
<1>1. Len(s) \in Nat /\ n \in Nat
  OBVIOUS
<1>2. \A f : DecodeAt(s, f, n) = <<>>
  BY DEF DecodeAt
<1>3. 0 \in Has
  <2> DEFINE f == [i \in n - 0 .. n |-> <<>>]
  <2>1. \A i \in n - 0 .. n : i = n
    BY <1>1
  <2>2. Eq(f, 0)
    <3>1. \A h : \A i \in n - 0 .. n : DecodeAt(s, h, i) = <<>>
      BY <1>2, <2>1
    <3>2. \A h : [i \in n - 0 .. n |-> DecodeAt(s, h, i)] = f
      BY <3>1
    <3> HIDE DEF f
    <3> QED BY <3>2
  <2> HIDE DEF f, Eq
  <2> QED BY <2>2
<1>4. ASSUME NEW m \in Has PROVE m + 1 \in Has
  <2> SUFFICES ASSUME m + 1 < n PROVE \E f : Eq(f, m + 1)
    OBVIOUS
  <2>1. PICK f : Eq(f, m)
    BY <1>1
  <2> DEFINE g == [i \in n - (m + 1) .. n |-> DecodeAt(s, f, i)]
  <2>2. ASSUME NEW i \in n - m .. n PROVE g[i] = f[i]
    <3>1. i \in n - (m + 1) .. n
      BY <1>1
    <3>2. f[i] = DecodeAt(s, f, i)
      BY <2>1
    <3> QED BY <3>1, <3>2
  <2>3. ASSUME NEW i \in n - (m + 1) .. n PROVE DecodeAt(s, g, i) = DecodeAt(s, f, i)
    <3>1. CASE i = n
      BY <1>2, <3>1
    <3>2. CASE i # n
      <4>1. i + 1 \in n - m .. n /\ (i + 2 <= Len(s) => i + 3 \in n - m .. n)
        BY <1>1, <3>2
      <4>2. g[i + 1] = f[i + 1] /\ (i + 2 <= Len(s) => g[i + 3] = f[i + 3])
        <5> HIDE DEF g
        <5> QED BY <2>2, <4>1
      <4> HIDE DEF g
      <4> QED BY <4>2 DEF DecodeAt
    <3> QED BY <3>1, <3>2
  <2>4. Eq(g, m + 1)
    <3>1. g = [i \in n - (m + 1) .. n |-> DecodeAt(s, f, i)]
      OBVIOUS
    <3> HIDE DEF g
    <3> QED BY <2>3, <3>1
  <2> HIDE DEF g, Eq
  <2> QED BY <2>4
<1>5. n - 1 \in Has
  <2>1. Has \in SUBSET Nat /\ n - 1 \in Nat
    BY <1>1
  <2> HIDE DEF Has
  <2> QED BY <1>3, <1>4, <2>1, SetInduction
<1>6. PICK f : Eq(f, n - 1)
  <2> HIDE DEF Eq
  <2> QED BY <1>1, <1>5
<1> DEFINE decode == CHOOSE d : d = [i \in 1 .. n |-> DecodeAt(s, d, i)]
<1>7. f = [i \in 1 .. n |-> DecodeAt(s, f, i)]
  <2>1. n - (n - 1) = 1
    BY <1>1
  <2> QED BY <1>6, <2>1
<1>8. decode = [i \in 1 .. n |-> DecodeAt(s, decode, i)]
  BY <1>7
<1>9. UrlDecode(s) = decode[1]
  BY DEF UrlDecode, DecodeAt
<1> HIDE DEF decode
<1>10. Decodes(decode, s)
  BY <1>8 DEF Decodes
<1> QED BY <1>9, <1>10

\* A text that begins with what a character becomes is decoded to it.
LEMMA DecodeOne ==
  ASSUME NEW s \in Seq(Byte), NEW f, Decodes(f, s), NEW c \in Byte, NEW i \in 1 .. Len(s),
         i + Len(UrlEncodeOne(c)) <= Len(s) + 1,
         \A j \in 1 .. Len(UrlEncodeOne(c)) : s[(i - 1) + j] = UrlEncodeOne(c)[j]
  PROVE  f[i] = <<c>> \o f[i + Len(UrlEncodeOne(c))]
<1> DEFINE e == UrlEncodeOne(c)
<1>1. Coded(c)
  BY CodedIs
<1>2. f[i] = DecodeAt(s, f, i) /\ i # Len(s) + 1 /\ Len(s) \in Nat
  BY DEF Decodes
<1>3. \/ Len(e) = 1 /\ e[1] # 37 /\ c = (IF e[1] = 43 THEN 32 ELSE e[1])
      \/ Len(e) = 3 /\ e[1] = 37 /\ UrlDecodeOne(e[2], e[3]) = c
  BY <1>1 DEF Coded
<1>4. /\ i + Len(e) <= Len(s) + 1
      /\ \A j \in 1 .. Len(e) : s[(i - 1) + j] = e[j]
  OBVIOUS
<1> HIDE DEF e
<1>5. CASE Len(e) = 1 /\ e[1] # 37 /\ c = (IF e[1] = 43 THEN 32 ELSE e[1])
  <2>1. s[i] = e[1]
    <3>1. (i - 1) + 1 = i /\ 1 \in 1 .. Len(e)
      BY <1>5
    <3> QED BY <1>4, <3>1
  <2>2. (IF s[i] = Plus THEN Space ELSE s[i]) = c
    BY <1>5, <2>1 DEF Plus, Space
  <2>3. f[i] = <<c>> \o f[i + 1]
    BY <1>2, <1>5, <2>1, <2>2 DEF DecodeAt, Percent
  <2> QED BY <1>5, <2>3 DEF e
<1>6. CASE Len(e) = 3 /\ e[1] = 37 /\ UrlDecodeOne(e[2], e[3]) = c
  <2>1. s[i] = e[1] /\ s[i + 1] = e[2] /\ s[i + 2] = e[3]
    <3>1. (i - 1) + 1 = i /\ (i - 1) + 2 = i + 1 /\ (i - 1) + 3 = i + 2
      OBVIOUS
    <3>2. 1 \in 1 .. Len(e) /\ 2 \in 1 .. Len(e) /\ 3 \in 1 .. Len(e)
      BY <1>6
    <3> QED BY <1>4, <3>1, <3>2
  <2>2. i + 2 <= Len(s)
    BY <1>2, <1>4, <1>6
  <2>3. f[i] = <<UrlDecodeOne(s[i + 1], s[i + 2])>> \o f[i + 3]
    BY <1>2, <1>6, <2>1, <2>2 DEF DecodeAt, Percent
  <2> QED BY <1>6, <2>1, <2>3 DEF e
<1> QED BY <1>3, <1>5, <1>6

\* url_decode gives back what url_encode was given.
LEMMA DecodeEncode ==
  ASSUME NEW s \in Seq(Byte)
  PROVE  UrlDecode(UrlEncode(s)) = s
<1>1. PICK g : Pieces(g, Encoding(s), Len(s), Byte) /\ UrlEncode(s) = g[Len(s)]
  BY EncodeIs
<1> DEFINE n == Len(s)
           t == g[n]
<1>2. n \in Nat /\ \A k \in 0 .. n : g[k] \in Seq(Byte) /\ Len(g[k]) \in Nat
  <2>1. n \in Nat /\ g \in [0 .. n -> Seq(Byte)]
    BY <1>1 DEF Pieces
  <2> QED BY <2>1
<1>3. t \in Seq(Byte) /\ n \in 0 .. n
  BY <1>2
<1>4. PICK f : Decodes(f, t) /\ UrlDecode(t) = f[1]
  BY <1>3, DecodesIs
<1> DEFINE Right(k) == f[Len(g[k]) + 1] = SubSeq(s, k + 1, n)
           Has == {m \in Nat : m <= n => Right(n - m)}
<1>5. 0 \in Has
  <2>1. f[Len(t) + 1] = DecodeAt(t, f, Len(t) + 1)
    <3>1. Len(t) + 1 \in 1 .. Len(t) + 1
      BY <1>2
    <3> HIDE DEF t
    <3> QED BY <1>4, <3>1 DEF Decodes
  <2>2. f[Len(t) + 1] = <<>>
    BY <2>1 DEF DecodeAt
  <2>3. SubSeq(s, n + 1, n) = <<>>
    BY <1>2, SubSeqEmpty
  <2>4. n - 0 = n
    BY <1>2
  <2> QED BY <2>2, <2>3, <2>4
<1>6. ASSUME NEW m \in Has PROVE m + 1 \in Has
  <2> SUFFICES ASSUME m + 1 <= n PROVE Right(n - (m + 1))
    OBVIOUS
  <2> DEFINE k == n - (m + 1)
             c == s[k + 1]
             p == g[k]
             q == g[k + 1]
             e == UrlEncodeOne(c)
  <2>1. /\ k \in Nat /\ k < Len(s) /\ k \in 0 .. n /\ k + 1 \in 0 .. n /\ k + 1 \in 1 .. Len(s)
        /\ n - m = k + 1
    BY <1>2
  <2>2. Right(k + 1)
    BY <1>2, <2>1
  <2> HIDE DEF k
  <2>3. c \in Byte
    BY <2>1
  <2>4. Grows(p, q, e)
    <3>1. Encoding(s)[k + 1] = e
      BY <2>1 DEF Encoding
    <3> QED BY <1>1, <2>1, <3>1, PiecesGrow
  <2>5. /\ Len(q) <= Len(t)
        /\ \A i \in 1 .. Len(q) : t[i] = q[i]
    <3>1. k + 1 \in 0 .. Len(s)
      BY <2>1
    <3> QED BY <1>1, <3>1, PiecesBegin
  <2>6. Len(e) >= 1 /\ e \in Seq(Byte)
    <3> HIDE DEF c
    <3>1. Coded(c)
      BY <2>3, CodedIs
    <3> QED BY <3>1 DEF Coded
  <2>7. f[Len(q) + 1] = SubSeq(s, k + 2, n)
    <3>1. (k + 1) + 1 = k + 2
      BY <2>1
    <3> QED BY <2>2, <3>1
  <2>8. Len(t) \in Nat
    BY <1>3
  <2> HIDE DEF t, p, q, e, c
  <2>9. f[Len(p) + 1] = <<c>> \o f[(Len(p) + 1) + Len(e)]
    <3>1. Len(p) + 1 \in 1 .. Len(t) /\ (Len(p) + 1) + Len(e) <= Len(t) + 1
      BY <2>4, <2>5, <2>6, <2>8 DEF Grows
    <3>2. ASSUME NEW j \in 1 .. Len(e) PROVE t[((Len(p) + 1) - 1) + j] = e[j]
      <4>1. ((Len(p) + 1) - 1) + j = Len(p) + j /\ Len(p) + j \in 1 .. Len(q)
        BY <2>4 DEF Grows
      <4>2. q[Len(p) + j] = e[j]
        BY <2>4 DEF Grows
      <4> QED BY <2>5, <4>1, <4>2
    <3> QED BY <1>3, <1>4, <2>3, <3>1, <3>2, DecodeOne DEF e
  <2>10. (Len(p) + 1) + Len(e) = Len(q) + 1
    BY <2>4 DEF Grows
  <2>11. SubSeq(s, k + 1, n) = <<c>> \o SubSeq(s, k + 2, n)
    <3>1. k + 1 \in 1 .. Len(s) /\ n \in k + 1 .. Len(s) /\ (k + 1) + 1 = k + 2
      BY <1>2, <2>1
    <3> QED BY <3>1, SubSeqRecursiveFirst DEF c
  <2>12. Right(k)
    BY <2>7, <2>9, <2>10, <2>11 DEF p
  <2> QED BY <2>12 DEF k
<1>7. n \in Has
  <2>1. Has \in SUBSET Nat
    OBVIOUS
  <2> HIDE DEF Has
  <2> QED BY <1>2, <1>5, <1>6, <2>1, SetInduction
<1>8. f[Len(g[0]) + 1] = SubSeq(s, 0 + 1, n)
  <2>1. n - n = 0
    BY <1>2
  <2> QED BY <1>2, <1>7, <2>1
<1>9. Len(g[0]) = 0
  BY <1>1 DEF Pieces
<1>10. SubSeq(s, 1, n) = s
  BY SubSeqFull
<1> QED BY <1>1, <1>4, <1>8, <1>9, <1>10

\* The first character as a sequence.
LEMMA FirstIs ==
  ASSUME NEW s \in Seq(Byte), Len(s) >= 1
  PROVE  SubSeq(s, 1, 1) = <<s[1]>>
<1> DEFINE w == SubSeq(s, 1, 1)
           x == s[1]
<1>1. \A i \in 1 .. 1 : s[i] \in Byte
  OBVIOUS
<1>2. w \in Seq(Byte) /\ Len(w) = 1 - 1 + 1 /\ \A i \in 1 .. 1 - 1 + 1 : w[i] = s[1 + i - 1]
  BY <1>1, SubSeqProperties
<1>3. x \in Byte
  BY <1>1
<1> HIDE DEF w
<1>4. Len(w) = 1 /\ w[1] = x
  BY <1>2
<1> HIDE DEF x
<1>5. <<x>> \in Seq(Byte) /\ Len(<<x>>) = 1 /\ <<x>>[1] = x
  BY <1>3
<1>6. \A i \in 1 .. Len(w) : w[i] = <<x>>[i]
  BY <1>4, <1>5
<1>7. w = <<x>>
  BY <1>2, <1>4, <1>5, <1>6, SeqEqual
<1> QED BY <1>7 DEF w, x

\* The key of a field is the one character before its first equals sign.
LEMMA KeyValueIs ==
  ASSUME NEW field \in Seq(Byte), Len(field) >= 2, field[1] # 61, field[2] = 61
  PROVE  /\ Where(field, Equals) # {}
         /\ KeyValue(field) = [key |-> SubSeq(field, 1, 1), value |-> SubSeq(field, 3, Len(field))]
<1> DEFINE W == Where(field, Equals)
<1>1. Len(field) \in Nat
  OBVIOUS
<1>2. 2 \in W /\ \A j \in W : j \in Int /\ 2 <= j
  <2>1. W = {j \in 1 .. Len(field) : field[j] = 61}
    BY DEF Where, Equals
  <2>2. 2 \in W
    BY <1>1, <2>1
  <2>3. ASSUME NEW j \in W PROVE j \in Int /\ 2 <= j
    <3>1. j \in 1 .. Len(field) /\ j # 1
      BY <2>1
    <3> QED BY <1>1, <3>1
  <2> QED BY <2>2, <2>3
<1>3. \A i \in W : (\A j \in W : i <= j) => i = 2
  BY <1>2
<1> HIDE DEF W
<1>4. (CHOOSE i \in W : \A j \in W : i <= j) = 2
  BY <1>2, <1>3
<1>5. KeyValue(field) = [key |-> SubSeq(field, 1, 2 - 1), value |-> SubSeq(field, 2 + 1, Len(field))]
  BY <1>4 DEF KeyValue, W
<1> QED BY <1>2, <1>5 DEF W

\* A body of two fields, with a sign between them that is nowhere else.
LEMMA TwoFields ==
  ASSUME NEW s \in Seq(Byte), NEW m \in 1 .. Len(s), s[m] = 38,
         \A i \in 1 .. Len(s) : s[i] = 38 => i = m
  PROVE  FieldsOf(s) = {SubSeq(s, 1, m - 1), SubSeq(s, m + 1, Len(s))}
<1> DEFINE ends == Where(s, Amp) \cup {0, Len(s) + 1}
           next == {p \in ends \X ends : p[1] < p[2] /\ \A i \in ends : ~(p[1] < i /\ i < p[2])}
           n == Len(s) + 1
<1>1. Len(s) \in Nat /\ n \in Nat /\ m \in Nat /\ 0 < m /\ m < n
  OBVIOUS
<1>2. ends = {0, m, n}
  BY DEF Where, Amp
<1>3. next = {<<0, m>>, <<m, n>>}
  <2> HIDE DEF ends, n
  <2>1. <<0, m>> \in next /\ <<m, n>> \in next
    BY <1>1, <1>2
  <2>2. ASSUME NEW p \in next PROVE p = <<0, m>> \/ p = <<m, n>>
    <3>1. PICK a \in ends, b \in ends : p = <<a, b>>
      OBVIOUS
    <3>2. a < b /\ \A i \in ends : ~(a < i /\ i < b)
      BY <3>1
    <3>3. (a = 0 /\ b = m) \/ (a = m /\ b = n)
      BY <1>1, <1>2, <3>2
    <3> QED BY <3>1, <3>3
  <2> HIDE DEF next
  <2> QED BY <2>1, <2>2
<1>4. FieldsOf(s) = {SubSeq(s, p[1] + 1, p[2] - 1) : p \in next}
  BY DEF FieldsOf
<1> HIDE DEF next
<1>5. FieldsOf(s) = {SubSeq(s, 0 + 1, m - 1), SubSeq(s, m + 1, n - 1)}
  <2> DEFINE Part(p) == SubSeq(s, p[1] + 1, p[2] - 1)
             u == <<0, m>>
             w == <<m, n>>
  <2>1. FieldsOf(s) = {Part(p) : p \in next}
    BY <1>4
  <2>2. Part(u) = SubSeq(s, 0 + 1, m - 1) /\ Part(w) = SubSeq(s, m + 1, n - 1)
    OBVIOUS
  <2>3. next = {u, w}
    BY <1>3
  <2> HIDE DEF Part, u, w
  <2>4. {Part(p) : p \in {u, w}} = {Part(u), Part(w)}
    OBVIOUS
  <2> QED BY <2>1, <2>2, <2>3, <2>4
<1>6. n - 1 = Len(s) /\ 0 + 1 = 1
  BY <1>1
<1> QED BY <1>5, <1>6

\* Where the parts of two fields "a=E" and "d=V" lie.
Laid(s, E, V, e, v) ==
  /\ s \in Seq(Byte) /\ Len(s) = 5 + e + v
  /\ s[1] = 97 /\ s[2] = 61 /\ s[3 + e] = 38 /\ s[4 + e] = 100 /\ s[5 + e] = 61
  /\ \A i \in 1 .. e : s[2 + i] = E[i]
  /\ \A i \in 1 .. v : s[5 + e + i] = V[i]

LEMMA BodyParts ==
  ASSUME NEW E \in Seq(Byte), NEW V \in Seq(Byte)
  PROVE  Laid(<<97, 61>> \o E \o <<38>> \o <<100>> \o <<61>> \o V, E, V, Len(E), Len(V))
<1> DEFINE a == <<97, 61>>
           b == a \o E
           c == b \o <<38>>
           d == c \o <<100>>
           f == d \o <<61>>
           s == f \o V
           e == Len(E)
<1>1. a \in Seq(Byte) /\ Len(a) = 2 /\ a[1] = 97 /\ a[2] = 61
  BY DEF Byte
<1>2. \A x \in Byte : <<x>> \in Seq(Byte) /\ Len(<<x>>) = 1 /\ <<x>>[1] = x
  OBVIOUS
<1>3. e \in Nat /\ Len(V) \in Nat /\ 38 \in Byte /\ 100 \in Byte /\ 61 \in Byte
  BY DEF Byte
<1>4. /\ b \in Seq(Byte) /\ Len(b) = 2 + e
      /\ \A i \in 1 .. 2 + e : b[i] = IF i <= 2 THEN a[i] ELSE E[i - 2]
  <2> HIDE DEF a
  <2>1. /\ b \in Seq(Byte) /\ Len(b) = Len(a) + Len(E)
        /\ \A i \in 1 .. Len(a) + Len(E) : b[i] = IF i <= Len(a) THEN a[i] ELSE E[i - Len(a)]
    <3>1. a \in Seq(Byte) /\ E \in Seq(Byte)
      BY <1>1
    <3>2. b \in Seq(Byte)
      BY <3>1, ConcatProperties
    <3>3. Len(b) = Len(a) + Len(E)
      BY <3>1, ConcatProperties
    <3>4. \A i \in 1 .. Len(a) + Len(E) : b[i] = IF i <= Len(a) THEN a[i] ELSE E[i - Len(a)]
      BY <3>1, ConcatProperties
    <3> QED BY <3>2, <3>3, <3>4
  <2> HIDE DEF b
  <2>2. Len(a) + Len(E) = 2 + e
    BY <1>1
  <2> HIDE DEF e
  <2> QED BY <1>1, <2>1, <2>2
<1>5. /\ c \in Seq(Byte) /\ Len(c) = 3 + e
      /\ \A i \in 1 .. 3 + e : c[i] = IF i <= 2 + e THEN b[i] ELSE 38
  <2> HIDE DEF b, e
  <2>1. /\ c \in Seq(Byte) /\ Len(c) = (2 + e) + 1
        /\ \A i \in 1 .. (2 + e) + 1 : c[i] = IF i <= 2 + e THEN b[i] ELSE <<38>>[i - (2 + e)]
    BY <1>2, <1>3, <1>4, ConcatProperties
  <2> HIDE DEF c
  <2> QED BY <1>3, <2>1
<1>6. /\ d \in Seq(Byte) /\ Len(d) = 4 + e
      /\ \A i \in 1 .. 4 + e : d[i] = IF i <= 3 + e THEN c[i] ELSE 100
  <2> HIDE DEF c, e
  <2>1. /\ d \in Seq(Byte) /\ Len(d) = (3 + e) + 1
        /\ \A i \in 1 .. (3 + e) + 1 : d[i] = IF i <= 3 + e THEN c[i] ELSE <<100>>[i - (3 + e)]
    BY <1>2, <1>3, <1>5, ConcatProperties
  <2> HIDE DEF d
  <2> QED BY <1>3, <2>1
<1>7. /\ f \in Seq(Byte) /\ Len(f) = 5 + e
      /\ \A i \in 1 .. 5 + e : f[i] = IF i <= 4 + e THEN d[i] ELSE 61
  <2> HIDE DEF d, e
  <2>1. /\ f \in Seq(Byte) /\ Len(f) = (4 + e) + 1
        /\ \A i \in 1 .. (4 + e) + 1 : f[i] = IF i <= 4 + e THEN d[i] ELSE <<61>>[i - (4 + e)]
    BY <1>2, <1>3, <1>6, ConcatProperties
  <2> HIDE DEF f
  <2> QED BY <1>3, <2>1
<1>8. /\ s \in Seq(Byte) /\ Len(s) = (5 + e) + Len(V)
      /\ \A i \in 1 .. (5 + e) + Len(V) : s[i] = IF i <= 5 + e THEN f[i] ELSE V[i - (5 + e)]
  <2> HIDE DEF f, e
  <2> QED BY <1>7, ConcatProperties
<1> HIDE DEF a, b, c, d, f, s, e
<1>9. /\ s[1] = 97 /\ s[2] = 61
  BY <1>1, <1>3, <1>4, <1>5, <1>6, <1>7, <1>8
<1>10. s[3 + e] = 38
  BY <1>3, <1>5, <1>6, <1>7, <1>8
<1>11. s[4 + e] = 100
  BY <1>3, <1>6, <1>7, <1>8
<1>12. s[5 + e] = 61
  BY <1>3, <1>7, <1>8
<1>13. \A i \in 1 .. e : s[2 + i] = E[i]
  BY <1>3, <1>4, <1>5, <1>6, <1>7, <1>8
<1>14. \A i \in 1 .. Len(V) : s[5 + e + i] = V[i]
  BY <1>3, <1>8
<1>15. Len(s) = 5 + e + Len(V)
  BY <1>8
<1>16. Laid(s, E, V, e, Len(V))
  BY <1>8, <1>9, <1>10, <1>11, <1>12, <1>13, <1>14, <1>15 DEF Laid
<1> QED BY <1>16 DEF a, b, c, d, f, s, e

\* A value that a client encodes into a body comes out of it unchanged.
LEMMA BodyBack ==
  ASSUME NEW s \in Seq(Byte)
  PROVE  LET body == <<97, Equals>> \o UrlEncode(<<Equals, Amp>>) \o <<Amp>>
                       \o <<100>> \o <<Equals>> \o UrlEncode(s)
         IN  {UrlDecode(f.value) : f \in {g \in BodyMap(body) : g.key = <<100>>}} = {s}
<1> DEFINE E == UrlEncode(<<61, 38>>)
           V == UrlEncode(s)
           b == <<97, 61>> \o E \o <<38>> \o <<100>> \o <<61>> \o V
           e == Len(E)
           v == Len(V)
           body == <<97, Equals>> \o UrlEncode(<<Equals, Amp>>) \o <<Amp>>
                     \o <<100>> \o <<Equals>> \o UrlEncode(s)
           one == SubSeq(b, 1, 2 + e)
           two == SubSeq(b, 4 + e, Len(b))
           r == [key |-> <<97>>, value |-> SubSeq(one, 3, Len(one))]
           q == [key |-> <<100>>, value |-> V]
<1>1. <<61, 38>> \in Seq(Byte)
  BY DEF Byte
<1>2. /\ E \in Seq(Byte) /\ V \in Seq(Byte)
      /\ \A i \in 1 .. Len(E) : E[i] # 38
      /\ \A i \in 1 .. Len(V) : V[i] # 38
  BY <1>1, EncodedClean
<1>3. body = b
  BY DEF Equals, Amp
<1>4. UrlDecode(V) = s
  BY DecodeEncode
<1> HIDE DEF E, V
<1>5. /\ b \in Seq(Byte) /\ Len(b) = 5 + e + v
      /\ b[1] = 97 /\ b[2] = 61 /\ b[3 + e] = 38 /\ b[4 + e] = 100 /\ b[5 + e] = 61
      /\ \A i \in 1 .. e : b[2 + i] = E[i]
      /\ \A i \in 1 .. v : b[5 + e + i] = V[i]
  <2>1. Laid(b, E, V, e, v)
    BY <1>2, BodyParts
  <2> HIDE DEF b, e, v
  <2> QED BY <2>1 DEF Laid
<1>6. e \in Nat /\ v \in Nat
  BY <1>2
<1> HIDE DEF b, body
<1>7. \A i \in 1 .. Len(b) : b[i] = 38 => i = 3 + e
  <2>1. SUFFICES ASSUME NEW i \in 1 .. Len(b), i # 3 + e
                 PROVE  b[i] # 38
    OBVIOUS
  <2>2. i \in Int /\ 1 <= i /\ i <= 5 + e + v
    BY <1>5, <1>6
  <2>3. CASE i <= 2
    BY <1>5, <2>2, <2>3
  <2>4. CASE 2 < i /\ i <= 2 + e
    <3>1. i - 2 \in 1 .. e /\ 2 + (i - 2) = i
      BY <1>6, <2>2, <2>4
    <3>2. b[i] = E[i - 2]
      BY <1>5, <3>1
    <3> QED BY <1>2, <3>1, <3>2
  <2>5. CASE i = 4 + e \/ i = 5 + e
    BY <1>5, <2>5
  <2>6. CASE 5 + e < i
    <3>1. i - (5 + e) \in 1 .. v /\ 5 + e + (i - (5 + e)) = i
      BY <1>6, <2>2, <2>6
    <3>2. b[i] = V[i - (5 + e)]
      BY <1>5, <3>1
    <3> QED BY <1>2, <3>1, <3>2
  <2> HIDE DEF e
  <2> QED BY <1>6, <2>1, <2>2, <2>3, <2>4, <2>5, <2>6
<1>8. FieldsOf(b) = {one, two}
  <2> DEFINE m == 3 + e
  <2>1. m \in 1 .. Len(b) /\ m - 1 = 2 + e /\ m + 1 = 4 + e
    <3> HIDE DEF e, v
    <3> QED BY <1>5, <1>6
  <2>2. b \in Seq(Byte) /\ b[m] = 38 /\ \A i \in 1 .. Len(b) : b[i] = 38 => i = m
    BY <1>5, <1>7
  <2> HIDE DEF m
  <2>3. FieldsOf(b) = {SubSeq(b, 1, m - 1), SubSeq(b, m + 1, Len(b))}
    BY <2>1, <2>2, TwoFields
  <2> QED BY <2>1, <2>3
<1>9. /\ one \in Seq(Byte) /\ Len(one) = 2 + e
      /\ \A i \in 1 .. 2 + e : one[i] = b[i]
  <2> HIDE DEF e, v
  <2>1. 1 \in 1 .. Len(b) + 1 /\ 2 + e \in (1 - 1) .. Len(b) /\ (2 + e) - 1 + 1 = 2 + e
    BY <1>5, <1>6
  <2>2. \A i \in 1 .. 2 + e : 1 + i - 1 = i
    BY <1>6
  <2> QED BY <1>5, <1>6, <2>1, <2>2, SubSeqProperties
<1>10. /\ two \in Seq(Byte) /\ Len(two) = 2 + v
       /\ \A i \in 1 .. 2 + v : two[i] = b[3 + e + i]
  <2> HIDE DEF e, v
  <2>1. 4 + e \in 1 .. Len(b) + 1 /\ Len(b) \in ((4 + e) - 1) .. Len(b)
        /\ Len(b) - (4 + e) + 1 = 2 + v
    BY <1>5, <1>6
  <2>2. \A i \in 1 .. 2 + v : (4 + e) + i - 1 = 3 + e + i
    BY <1>6
  <2> QED BY <1>5, <1>6, <2>1, <2>2, SubSeqProperties
<1>11. /\ Where(one, Equals) # {}
       /\ KeyValue(one) = r
  <2>1. one[1] = 97 /\ one[2] = 61 /\ Len(one) >= 2
    BY <1>5, <1>6, <1>9
  <2> HIDE DEF one
  <2>2. SubSeq(one, 1, 1) = <<97>>
    BY <1>9, <2>1, FirstIs
  <2> QED BY <1>9, <2>1, <2>2, KeyValueIs
<1>12. /\ Where(two, Equals) # {}
       /\ KeyValue(two) = q
  <2>1. two[1] = 100 /\ two[2] = 61 /\ Len(two) >= 2
    <3>1. 3 + e + 1 = 4 + e /\ 3 + e + 2 = 5 + e /\ 1 \in 1 .. 2 + v /\ 2 \in 1 .. 2 + v
      BY <1>6
    <3>2. Len(two) >= 2
      BY <1>6, <1>10
    <3>3. two[1] = b[3 + e + 1] /\ two[2] = b[3 + e + 2]
      BY <1>10, <3>1
    <3> QED BY <1>5, <3>1, <3>2, <3>3
  <2>2. \A i \in 1 .. v : two[2 + i] = V[i]
    <3> SUFFICES ASSUME NEW i \in 1 .. v PROVE two[2 + i] = V[i]
      OBVIOUS
    <3>1. 2 + i \in 1 .. 2 + v /\ 3 + e + (2 + i) = 5 + e + i
      BY <1>6
    <3> QED BY <1>5, <1>10, <3>1
  <2> HIDE DEF two
  <2>3. SubSeq(two, 1, 1) = <<100>>
    BY <1>10, <2>1, FirstIs
  <2>4. SubSeq(two, 3, Len(two)) = V
    <3> DEFINE w == SubSeq(two, 3, Len(two))
    <3>1. 3 \in 1 .. Len(two) + 1 /\ Len(two) \in (3 - 1) .. Len(two) /\ Len(two) - 3 + 1 = v
      <4> HIDE DEF v
      <4> QED BY <1>6, <1>10
    <3>2. /\ w \in Seq(Byte) /\ Len(w) = v
          /\ \A i \in 1 .. v : w[i] = two[3 + i - 1]
      BY <1>10, <3>1, SubSeqProperties
    <3>3. \A i \in 1 .. v : 3 + i - 1 = 2 + i
      BY <1>6
    <3> HIDE DEF w
    <3>4. \A i \in 1 .. Len(w) : w[i] = V[i]
      BY <2>2, <3>2, <3>3
    <3>5. w = V
      BY <1>2, <3>2, <3>4, SeqEqual
    <3> QED BY <3>5 DEF w
  <2>5. /\ Where(two, Equals) # {}
        /\ KeyValue(two) = [key |-> SubSeq(two, 1, 1), value |-> SubSeq(two, 3, Len(two))]
    <3>1. two[1] # 61
      BY <2>1
    <3> QED BY <1>10, <2>1, <3>1, KeyValueIs
  <2> QED BY <2>3, <2>4, <2>5
<1> HIDE DEF one, two
<1>13. BodyMap(b) = {r, q}
  <2> HIDE DEF r, q
  <2>1. {g \in {one, two} : Where(g, Equals) # {}} = {one, two}
    BY <1>11, <1>12
  <2>2. BodyMap(b) = {KeyValue(f) : f \in {one, two}}
    BY <1>8, <2>1 DEF BodyMap
  <2>3. {KeyValue(f) : f \in {one, two}} = {KeyValue(one), KeyValue(two)}
    OBVIOUS
  <2> QED BY <1>11, <1>12, <2>2, <2>3
<1>14. {g \in BodyMap(b) : g.key = <<100>>} = {q}
  <2>1. r.key # <<100>> /\ q.key = <<100>>
    <3>1. <<97>>[1] # <<100>>[1]
      OBVIOUS
    <3> QED BY <3>1
  <2> HIDE DEF r, q
  <2> QED BY <1>13, <2>1
<1>15. q.value = V
  OBVIOUS
<1> HIDE DEF q, r
<1>16. {UrlDecode(f.value) : f \in {q}} = {s}
  BY <1>4, <1>15
<1>17. {UrlDecode(f.value) : f \in {g \in BodyMap(body) : g.key = <<100>>}} = {s}
  BY <1>3, <1>14, <1>16
<1> QED BY <1>17 DEF body

(* The value that a client encodes into a body comes out of parse_body and
   url_decode unchanged, for every text of bytes. *)
THEOREM BodyGivesValueBackCorrect == TextsSpec => []BodyGivesValueBack
<1> DEFINE Good == sort = "body" => chars \in Seq(Byte)
<1>1. NoText => Good
  BY DEF NoText
<1>2. Good /\ [Extend]_<<sort, chars>> => Good'
  <2> SUFFICES ASSUME Good, [Extend]_<<sort, chars>> PROVE Good'
    OBVIOUS
  <2>1. CASE Extend
    <3>1. PICK x \in Alphabet[sort] : chars' = Append(chars, x)
      BY <2>1 DEF Extend
    <3>2. sort' = sort
      BY <2>1 DEF Extend
    <3>3. CASE sort = "body"
      <4>1. x \in Byte
        BY <3>1, <3>3, AlphabetsAre DEF AlphabetsOf
      <4> QED BY <3>1, <3>3, <4>1
    <3> QED BY <3>2, <3>3
  <2>2. CASE UNCHANGED <<sort, chars>>
    BY <2>2
  <2> QED BY <2>1, <2>2
<1>3. Good => BodyGivesValueBack
  BY BodyBack DEF BodyGivesValueBack
<1> QED BY <1>1, <1>2, <1>3, PTL DEF TextsSpec
-----------------------------------------------------------------------------
(* The tokens of a text. *)

\* A text of characters, none of which is what stands for its end.
TextOf(s, A) == s \in Seq(A) /\ "0x00" \notin A

LEMMA CharIs ==
  ASSUME NEW A, NEW s, TextOf(s, A), NEW p \in Nat
  PROVE  /\ Len(s) \in Nat
         /\ p < Len(s) => CharAt(s, p) = s[p + 1] /\ s[p + 1] \in A /\ CharAt(s, p) # "0x00"
         /\ p >= Len(s) => CharAt(s, p) = "0x00"
<1>1. s \in Seq(A) /\ Len(s) \in Nat /\ "0x00" \notin A
  BY DEF TextOf
<1>2. CASE p < Len(s)
  <2>1. p + 1 \in 1 .. Len(s) /\ ~(p >= Len(s))
    BY <1>1, <1>2
  <2>2. s[p + 1] \in A
    BY <1>1, <2>1
  <2> QED BY <1>1, <1>2, <2>1, <2>2 DEF CharAt
<1>3. CASE ~(p < Len(s))
  BY <1>1, <1>3 DEF CharAt
<1> QED BY <1>2, <1>3

\* Where a row of characters of a set ends.
RowIn(s, p, q, set) == \A r \in p .. q - 1 : CharAt(s, r) \in set

LEMMA BehindIs ==
  ASSUME NEW A, NEW s, TextOf(s, A), NEW p \in 0 .. Len(s), NEW set, "0x00" \notin set
  PROVE  /\ Behind(s, p, set) \in p .. Len(s)
         /\ CharAt(s, Behind(s, p, set)) \notin set
         /\ RowIn(s, p, Behind(s, p, set), set)
<1> DEFINE T == {q \in p .. Len(s) : CharAt(s, q) \notin set}
           b == Behind(s, p, set)
<1>1. Len(s) \in Nat /\ p \in Nat
  BY CharIs, 0 \in Nat
<1>2. CharAt(s, Len(s)) = "0x00"
  BY <1>1, CharIs
<1>3. T \in SUBSET Nat /\ Len(s) \in T
  BY <1>1, <1>2
<1> HIDE DEF T
<1>4. \E m \in T : \A n \in T : m <= n
  BY <1>3, LeastNat
<1>5. b = CHOOSE m \in T : \A n \in T : m <= n
  BY DEF Behind, Min, T
<1>6. b \in T /\ \A n \in T : b <= n
  BY <1>4, <1>5
<1> HIDE DEF b
<1>7. b \in p .. Len(s) /\ CharAt(s, b) \notin set
  BY <1>6 DEF T
<1>8. ASSUME NEW r \in p .. b - 1, CharAt(s, r) \notin set PROVE FALSE
  <2>1. r \in T
    BY <1>1, <1>7, <1>8 DEF T
  <2> QED BY <1>1, <1>6, <1>7, <2>1
<1> QED BY <1>7, <1>8 DEF RowIn, b

LEMMA BehindOnly ==
  ASSUME NEW A, NEW s, TextOf(s, A), NEW p \in 0 .. Len(s), NEW set, "0x00" \notin set,
         NEW q \in p .. Len(s), CharAt(s, q) \notin set, RowIn(s, p, q, set)
  PROVE  Behind(s, p, set) = q
<1> DEFINE b == Behind(s, p, set)
<1>1. b \in p .. Len(s) /\ CharAt(s, b) \notin set /\ RowIn(s, p, b, set)
  BY BehindIs
<1> HIDE DEF b
<1>2. Len(s) \in Nat /\ p \in Nat
  BY CharIs, 0 \in Nat
<1>3. ~(b < q) /\ ~(q < b)
  BY <1>1, <1>2 DEF RowIn
<1>4. b = q
  BY <1>1, <1>2, <1>3
<1> QED BY <1>4 DEF b

\* What readNumber reads: digits, then a fraction, then an exponent.
SignEnd(s, point) == IF CharAt(s, point + 1) \in {"+", "-"} THEN point + 2 ELSE point + 1

IsNumberTo(s, p, whole, point, e) ==
  /\ whole \in p .. Len(s) /\ CharAt(s, whole) \notin Digits /\ RowIn(s, p, whole, Digits)
  /\ IF CharAt(s, whole) = "."
       THEN /\ point \in whole + 1 .. Len(s) /\ CharAt(s, point) \notin Digits
            /\ RowIn(s, whole + 1, point, Digits)
       ELSE point = whole
  /\ IF CharAt(s, point) = "e"
       THEN /\ SignEnd(s, point) \in Nat
            /\ e \in SignEnd(s, point) .. Len(s) /\ CharAt(s, e) \notin Digits
            /\ RowIn(s, SignEnd(s, point), e, Digits)
       ELSE e = point

LEMMA NoDigit == "0x00" \notin Digits /\ "." \notin Digits /\ "e" \notin Digits /\ "+" \notin Digits /\ "-" \notin Digits
BY DEF Digits

\* The steps of readNumber stay in the text.
LEMMA NumberInText ==
  ASSUME NEW A, NEW s, TextOf(s, A), NEW q \in 0 .. Len(s)
  PROVE  /\ Len(s) \in Nat
         /\ CharAt(s, q) = "." => q + 1 \in 0 .. Len(s)
         /\ CharAt(s, q) = "e" => SignEnd(s, q) \in 0 .. Len(s) /\ q + 1 <= SignEnd(s, q)
<1>1. Len(s) \in Nat /\ q \in Nat /\ q + 1 \in Nat
  BY CharIs, 0 \in Nat
<1>2. CharAt(s, q) \in {".", "e"} => q < Len(s)
  BY <1>1, CharIs
<1>3. CharAt(s, q + 1) \in {"+", "-"} => q + 1 < Len(s)
  BY <1>1, CharIs
<1>4. CharAt(s, q) = "." => q + 1 \in 0 .. Len(s)
  BY <1>1, <1>2
<1>5. ASSUME CharAt(s, q) = "e" PROVE SignEnd(s, q) \in 0 .. Len(s) /\ q + 1 <= SignEnd(s, q)
  <2>1. CASE CharAt(s, q + 1) \in {"+", "-"}
    <3>1. SignEnd(s, q) = q + 2
      BY <2>1 DEF SignEnd
    <3> QED BY <1>1, <1>3, <2>1, <3>1
  <2>2. CASE CharAt(s, q + 1) \notin {"+", "-"}
    <3>1. SignEnd(s, q) = q + 1
      BY <2>2 DEF SignEnd
    <3> QED BY <1>1, <1>2, <1>5, <3>1
  <2> QED BY <2>1, <2>2
<1> QED BY <1>1, <1>4, <1>5

LEMMA NumberEnds ==
  ASSUME NEW A, NEW s, TextOf(s, A), NEW p \in 0 .. Len(s)
  PROVE  \E whole, point : IsNumberTo(s, p, whole, point, ReadNumber(s, p))
<1> DEFINE whole == Behind(s, p, Digits)
           point == IF CharAt(s, whole) = "." THEN Behind(s, whole + 1, Digits) ELSE whole
           e == ReadNumber(s, p)
<1>1. Len(s) \in Nat
  BY NumberInText
<1>2. whole \in p .. Len(s) /\ CharAt(s, whole) \notin Digits /\ RowIn(s, p, whole, Digits)
  BY NoDigit, BehindIs
<1>3. e = IF CharAt(s, point) = "e" THEN Behind(s, SignEnd(s, point), Digits) ELSE point
  BY DEF ReadNumber, SignEnd
<1> HIDE DEF whole
<1>4. whole \in 0 .. Len(s)
  BY <1>1, <1>2
<1>5. IF CharAt(s, whole) = "."
        THEN /\ point \in whole + 1 .. Len(s) /\ CharAt(s, point) \notin Digits
             /\ RowIn(s, whole + 1, point, Digits)
        ELSE point = whole
  <2>1. CASE CharAt(s, whole) = "."
    <3>1. point = Behind(s, whole + 1, Digits) /\ whole + 1 \in 0 .. Len(s)
      BY <1>4, <2>1, NumberInText
    <3> QED BY <2>1, <3>1, NoDigit, BehindIs
  <2>2. CASE CharAt(s, whole) # "."
    BY <2>2
  <2> QED BY <2>1, <2>2
<1> HIDE DEF point, e
<1>6. point \in 0 .. Len(s)
  BY <1>1, <1>4, <1>5
<1>7. IF CharAt(s, point) = "e"
        THEN /\ SignEnd(s, point) \in Nat
             /\ e \in SignEnd(s, point) .. Len(s) /\ CharAt(s, e) \notin Digits
             /\ RowIn(s, SignEnd(s, point), e, Digits)
        ELSE e = point
  <2>1. CASE CharAt(s, point) = "e"
    <3>1. e = Behind(s, SignEnd(s, point), Digits) /\ SignEnd(s, point) \in 0 .. Len(s)
      BY <1>3, <1>6, <2>1, NumberInText
    <3> HIDE DEF SignEnd
    <3> QED BY <1>1, <2>1, <3>1, NoDigit, BehindIs
  <2>2. CASE CharAt(s, point) # "e"
    BY <1>3, <2>2
  <2> QED BY <2>1, <2>2
<1>8. IsNumberTo(s, p, whole, point, e)
  BY <1>2, <1>5, <1>7 DEF IsNumberTo
<1> QED BY <1>8 DEF e

LEMMA NumberOnly ==
  ASSUME NEW A, NEW s, TextOf(s, A), NEW p \in 0 .. Len(s), NEW whole, NEW point, NEW e,
         IsNumberTo(s, p, whole, point, e)
  PROVE  ReadNumber(s, p) = e
<1> DEFINE point2 == IF CharAt(s, whole) = "." THEN Behind(s, whole + 1, Digits) ELSE whole
<1>1. Len(s) \in Nat
  BY NumberInText
<1>2. whole \in p .. Len(s) /\ CharAt(s, whole) \notin Digits /\ RowIn(s, p, whole, Digits)
  BY DEF IsNumberTo
<1>3. whole = Behind(s, p, Digits)
  BY <1>2, NoDigit, BehindOnly
<1>4. whole \in 0 .. Len(s)
  BY <1>1, <1>2
<1>5. point = point2
  <2>1. CASE CharAt(s, whole) = "."
    <3>1. whole + 1 \in 0 .. Len(s)
      BY <1>4, <2>1, NumberInText
    <3>2. /\ point \in whole + 1 .. Len(s) /\ CharAt(s, point) \notin Digits
          /\ RowIn(s, whole + 1, point, Digits)
      BY <2>1 DEF IsNumberTo
    <3> QED BY <2>1, <3>1, <3>2, NoDigit, BehindOnly
  <2>2. CASE CharAt(s, whole) # "."
    BY <2>2 DEF IsNumberTo
  <2> QED BY <2>1, <2>2
<1>6. point \in 0 .. Len(s)
  BY <1>1, <1>4 DEF IsNumberTo
<1>7. e = IF CharAt(s, point) = "e" THEN Behind(s, SignEnd(s, point), Digits) ELSE point
  <2>1. CASE CharAt(s, point) = "e"
    <3>1. SignEnd(s, point) \in 0 .. Len(s)
      BY <1>6, <2>1, NumberInText
    <3>2. /\ e \in SignEnd(s, point) .. Len(s) /\ CharAt(s, e) \notin Digits
          /\ RowIn(s, SignEnd(s, point), e, Digits)
      BY <2>1 DEF IsNumberTo
    <3> HIDE DEF SignEnd
    <3> QED BY <2>1, <3>1, <3>2, NoDigit, BehindOnly
  <2>2. CASE CharAt(s, point) # "e"
    BY <2>2 DEF IsNumberTo
  <2> QED BY <2>1, <2>2
<1> QED BY <1>3, <1>5, <1>7 DEF ReadNumber, SignEnd

\* readToken once its blanks are read.
TokenAt(s, start) ==
  LET c    == CharAt(s, start)
      next == Next1(s, start)
      Token(type, r) == [type |-> IF r.ok THEN type ELSE "error", start |-> start, end |-> r.end]
  IN  IF c \in Punctuation THEN Token(c, [ok |-> TRUE, end |-> next])
      ELSE IF c \in Digits \cup {"-"} THEN Token("number", [ok |-> TRUE, end |-> ReadNumber(s, next)])
      ELSE IF c = "/" THEN Token("comment", ReadComment(s, next))
      ELSE IF c = "n" THEN Token("null", Match(s, next, <<"u", "l", "l">>))
      ELSE IF c = "0x00" THEN Token("eos", [ok |-> TRUE, end |-> next])
      ELSE Token("error", [ok |-> FALSE, end |-> next])

LEMMA TokenIs ==
  ASSUME NEW s, NEW p
  PROVE  ReadToken(s, p) = TokenAt(s, Behind(s, p, Blanks))
BY DEF ReadToken, TokenAt, Punctuation, Digits

LEMMA NoBlank ==
  /\ "0x00" \notin Blanks /\ "/" \notin Blanks
  /\ \A c \in Digits \cup {"-"} : c \notin Blanks /\ c \notin Punctuation
  /\ "/" \notin Punctuation /\ "/" \notin Digits \cup {"-"}
BY DEF Blanks, Digits, Punctuation

\* A text that begins with no blank begins with its first token.
LEMMA FirstToken ==
  ASSUME NEW A, NEW s, TextOf(s, A), Len(s) >= 1, s[1] \notin Blanks
  PROVE  /\ ReadToken(s, 0) = TokenAt(s, 0) /\ CharAt(s, 0) = s[1] /\ Next1(s, 0) = 1
<1>1. Len(s) \in Nat /\ 0 < Len(s)
  BY NumberInText, 0 \in 0 .. Len(s) DEF TextOf
<1>2. CharAt(s, 0) = s[1]
  BY <1>1 DEF CharAt
<1>3. Behind(s, 0, Blanks) = 0
  <2>1. 0 \in 0 .. Len(s) /\ RowIn(s, 0, 0, Blanks)
    BY <1>1 DEF RowIn
  <2> QED BY <1>2, <2>1, NoBlank, BehindOnly
<1>4. Next1(s, 0) = 1
  BY <1>1 DEF Next1
<1> QED BY <1>2, <1>3, <1>4, TokenIs

\* What looks like a number, by the positions of the text.
Looks(s, n) ==
  \E i, j \in 1 .. n :
    /\ i <= j /\ RowIn(s, 1, i, Digits)
    /\ i = j \/ (CharAt(s, i) = "." /\ RowIn(s, i + 1, j, Digits))
    /\ \/ j = n
       \/ /\ CharAt(s, j) = "e"
          /\ \/ RowIn(s, j + 1, n, Digits)
             \/ j + 1 < n /\ CharAt(s, j + 1) \in {"+", "-"} /\ RowIn(s, j + 2, n, Digits)

LEMMA LooksIs ==
  ASSUME NEW A, NEW s, TextOf(s, A), NEW n \in 1 .. Len(s)
  PROVE  LooksLikeNumber(SubSeq(s, 1, n)) <=> Looks(s, n)
<1> DEFINE t == SubSeq(s, 1, n)
           InRow(i, j) == \A k \in i .. j : t[k] \in Digits
<1>1. Len(s) \in Nat /\ s \in Seq(A) /\ n \in Nat
  BY NumberInText, 0 \in 0 .. Len(s) DEF TextOf
<1>2. Len(t) = n /\ \A k \in 1 .. n : t[k] = CharAt(s, k - 1)
  <2>1. \A k \in 1 .. n : s[k] \in A
    BY <1>1
  <2>2. Len(t) = n - 1 + 1 /\ \A k \in 1 .. n - 1 + 1 : t[k] = s[1 + k - 1]
    BY <1>1, <2>1, SubSeqProperties
  <2> HIDE DEF t
  <2>3. \A k \in 1 .. n : CharAt(s, k - 1) = s[k]
    BY <1>1 DEF CharAt
  <2> QED BY <1>1, <2>2, <2>3
<1> HIDE DEF t
<1>0. LooksLikeNumber(t) <=>
        \E i \in 1 .. Len(t), j \in 1 .. Len(t) :
          /\ i <= j /\ InRow(2, i)
          /\ i + 1 > j \/ (t[i + 1] = "." /\ InRow((i + 1) + 1, j))
          /\ \/ j + 1 > Len(t)
             \/ /\ t[j + 1] = "e"
                /\ \/ InRow((j + 1) + 1, Len(t))
                   \/ j + 1 < Len(t) /\ t[(j + 1) + 1] \in {"+", "-"} /\ InRow((j + 1) + 2, Len(t))
  BY Zenon DEF LooksLikeNumber
<1>3. LooksLikeNumber(t) <=>
        \E i \in 1 .. n, j \in 1 .. n :
          /\ i <= j /\ InRow(2, i)
          /\ i + 1 > j \/ (t[i + 1] = "." /\ InRow(i + 2, j))
          /\ \/ j + 1 > n
             \/ t[j + 1] = "e" /\ (InRow(j + 2, n) \/ (j + 1 < n /\ t[j + 2] \in {"+", "-"} /\ InRow(j + 3, n)))
  <2>1. \A i \in 1 .. n : (i + 1) + 1 = i + 2 /\ (i + 1) + 2 = i + 3
    BY <1>1
  <2> HIDE DEF InRow
  <2> QED BY <1>0, <1>2, <2>1
<1>4. ASSUME NEW i \in Nat, NEW j \in 0 .. n, i >= 1
      PROVE  InRow(i + 1, j) <=> RowIn(s, i, j, Digits)
  <2>1. ASSUME InRow(i + 1, j) PROVE RowIn(s, i, j, Digits)
    <3>1. ASSUME NEW r \in i .. j - 1 PROVE CharAt(s, r) \in Digits
      <4>1. r + 1 \in i + 1 .. j /\ r + 1 \in 1 .. n /\ (r + 1) - 1 = r
        BY <1>1, <1>4
      <4> QED BY <1>2, <2>1, <4>1
    <3> QED BY <3>1 DEF RowIn
  <2>2. ASSUME RowIn(s, i, j, Digits) PROVE InRow(i + 1, j)
    <3>1. ASSUME NEW k \in i + 1 .. j PROVE t[k] \in Digits
      <4>1. k - 1 \in i .. j - 1 /\ k \in 1 .. n
        BY <1>1, <1>4
      <4> QED BY <1>2, <2>2, <4>1 DEF RowIn
    <3> QED BY <3>1
  <2> QED BY <2>1, <2>2
<1> HIDE DEF InRow
<1>5. ASSUME NEW i \in 1 .. n, NEW j \in 1 .. n
      PROVE  /\ InRow(2, i) <=> RowIn(s, 1, i, Digits)
             /\ InRow(i + 2, j) <=> RowIn(s, i + 1, j, Digits)
             /\ InRow(j + 2, n) <=> RowIn(s, j + 1, n, Digits)
             /\ InRow(j + 3, n) <=> RowIn(s, j + 2, n, Digits)
             /\ i < n => t[i + 1] = CharAt(s, i)
             /\ i + 1 < n => t[i + 2] = CharAt(s, i + 1)
  <2>1. /\ i + 1 \in Nat /\ i + 1 >= 1 /\ j + 1 \in Nat /\ j + 1 >= 1 /\ j + 2 \in Nat /\ j + 2 >= 1
        /\ i \in 0 .. n /\ j \in 0 .. n /\ n \in 0 .. n /\ 1 \in Nat /\ 1 >= 1
        /\ 1 + 1 = 2 /\ (i + 1) + 1 = i + 2 /\ (j + 1) + 1 = j + 2 /\ (j + 2) + 1 = j + 3
        /\ i < n => i + 1 \in 1 .. n /\ (i + 1) - 1 = i
        /\ i + 1 < n => i + 2 \in 1 .. n /\ (i + 2) - 1 = i + 1
    BY <1>1
  <2>2. InRow(2, i) <=> RowIn(s, 1, i, Digits)
    BY <1>4, <2>1
  <2>3. InRow((i + 1) + 1, j) <=> RowIn(s, i + 1, j, Digits)
    BY <1>4, <2>1
  <2>4. InRow((j + 1) + 1, n) <=> RowIn(s, j + 1, n, Digits)
    BY <1>4, <2>1
  <2>5. InRow((j + 2) + 1, n) <=> RowIn(s, j + 2, n, Digits)
    BY <1>4, <2>1
  <2>6. i < n => t[i + 1] = CharAt(s, i)
    BY <1>2, <2>1
  <2>7. i + 1 < n => t[i + 2] = CharAt(s, i + 1)
    BY <1>2, <2>1
  <2> QED BY <2>1, <2>2, <2>3, <2>4, <2>5, <2>6, <2>7
<1>6. ASSUME NEW i \in 1 .. n, NEW j \in 1 .. n
      PROVE  (/\ i <= j /\ InRow(2, i)
              /\ i + 1 > j \/ (t[i + 1] = "." /\ InRow(i + 2, j))
              /\ \/ j + 1 > n
                 \/ t[j + 1] = "e" /\ (InRow(j + 2, n) \/ (j + 1 < n /\ t[j + 2] \in {"+", "-"} /\ InRow(j + 3, n))))
             <=>
             (/\ i <= j /\ RowIn(s, 1, i, Digits)
              /\ i = j \/ (CharAt(s, i) = "." /\ RowIn(s, i + 1, j, Digits))
              /\ \/ j = n
                 \/ /\ CharAt(s, j) = "e"
                    /\ \/ RowIn(s, j + 1, n, Digits)
                       \/ j + 1 < n /\ CharAt(s, j + 1) \in {"+", "-"} /\ RowIn(s, j + 2, n, Digits))
  <2>1. (i <= j) => (i + 1 > j <=> i = j)
    BY <1>1
  <2>2. (i <= j) /\ ~(i = j) => i < n
    BY <1>1
  <2>3. (j + 1 > n <=> j = n) /\ (~(j = n) => j < n)
    BY <1>1
  <2>4. (i <= j) => (i + 1 > j \/ (t[i + 1] = "." /\ InRow(i + 2, j)) <=> i = j \/ (CharAt(s, i) = "." /\ RowIn(s, i + 1, j, Digits)))
    BY <1>5, <2>1, <2>2
  <2>5. j < n => t[j + 1] = CharAt(s, j)
    BY <1>5
  <2>6. j + 1 < n => t[j + 2] = CharAt(s, j + 1)
    BY <1>5
  <2> QED BY <1>5, <2>3, <2>4, <2>5, <2>6
<1>7. LooksLikeNumber(t) <=> Looks(s, n)
  BY <1>3, <1>6 DEF Looks
<1> QED BY <1>7 DEF t

\* What readNumber reads looks like a number, and nothing longer does.
LEMMA NumberLooks ==
  ASSUME NEW A, NEW s, TextOf(s, A), Len(s) >= 1, NEW e, NEW whole, NEW point,
         IsNumberTo(s, 1, whole, point, e)
  PROVE  /\ e \in 1 .. Len(s) /\ Looks(s, e)
         /\ \A n \in 1 .. Len(s) : Looks(s, n) => n <= e
<1>1. Len(s) \in Nat
  BY NumberInText, 0 \in 0 .. Len(s) DEF TextOf
<1>2. whole \in 1 .. Len(s) /\ CharAt(s, whole) \notin Digits /\ RowIn(s, 1, whole, Digits)
  BY DEF IsNumberTo
<1>3. IF CharAt(s, whole) = "."
        THEN /\ point \in whole + 1 .. Len(s) /\ CharAt(s, point) \notin Digits
             /\ RowIn(s, whole + 1, point, Digits)
        ELSE point = whole
  BY DEF IsNumberTo
<1>4. point \in whole .. Len(s)
  BY <1>1, <1>2, <1>3
<1>5. /\ CharAt(s, point) # "e" => e = point
      /\ CharAt(s, point) = "e" =>
           /\ SignEnd(s, point) \in {point + 1, point + 2}
           /\ e \in SignEnd(s, point) .. Len(s) /\ CharAt(s, e) \notin Digits
           /\ RowIn(s, SignEnd(s, point), e, Digits)
  BY DEF IsNumberTo, SignEnd
<1>6. e \in point .. Len(s) /\ (CharAt(s, point) = "e" => point < e)
  BY <1>1, <1>2, <1>4, <1>5
<1>7. Looks(s, e)
  <2>1. whole \in 1 .. e /\ point \in 1 .. e /\ whole <= point
    BY <1>1, <1>2, <1>4, <1>6
  <2>2. whole = point \/ (CharAt(s, whole) = "." /\ RowIn(s, whole + 1, point, Digits))
    BY <1>3
  <2>3. \/ point = e
        \/ /\ CharAt(s, point) = "e"
           /\ \/ RowIn(s, point + 1, e, Digits)
              \/ point + 1 < e /\ CharAt(s, point + 1) \in {"+", "-"} /\ RowIn(s, point + 2, e, Digits)
    <3>1. CASE CharAt(s, point) # "e"
      BY <1>5, <3>1
    <3>2. CASE CharAt(s, point) = "e" /\ CharAt(s, point + 1) \in {"+", "-"}
      <4>1. SignEnd(s, point) = point + 2
        BY <3>2 DEF SignEnd
      <4>2. point + 1 < e
        BY <1>1, <1>2, <1>4, <1>5, <3>2, <4>1
      <4> QED BY <1>5, <3>2, <4>1, <4>2
    <3>3. CASE CharAt(s, point) = "e" /\ CharAt(s, point + 1) \notin {"+", "-"}
      <4>1. SignEnd(s, point) = point + 1
        BY <3>3 DEF SignEnd
      <4> QED BY <1>5, <3>3, <4>1
    <3> QED BY <3>1, <3>2, <3>3
  <2> QED BY <1>2, <2>1, <2>2, <2>3 DEF Looks
<1>8. ASSUME NEW n \in 1 .. Len(s), Looks(s, n) PROVE n <= e
  <2>1. PICK i \in 1 .. n, j \in 1 .. n :
          /\ i <= j /\ RowIn(s, 1, i, Digits)
          /\ i = j \/ (CharAt(s, i) = "." /\ RowIn(s, i + 1, j, Digits))
          /\ \/ j = n
             \/ /\ CharAt(s, j) = "e"
                /\ \/ RowIn(s, j + 1, n, Digits)
                   \/ j + 1 < n /\ CharAt(s, j + 1) \in {"+", "-"} /\ RowIn(s, j + 2, n, Digits)
    BY <1>8 DEF Looks
  <2>2. i \in Nat /\ j \in Nat /\ n \in Nat /\ whole \in Nat /\ point \in Nat /\ e \in Nat /\ 1 <= whole /\ 1 <= i
    BY <1>1, <1>2, <1>4, <1>6, <1>8
  <2>3. i <= whole
    <3>1. SUFFICES ASSUME whole < i PROVE FALSE
      BY <2>2
    <3>2. whole \in 1 .. i - 1
      BY <2>2, <3>1
    <3> QED BY <1>2, <2>1, <3>2 DEF RowIn
  <2>4. i < whole => CharAt(s, i) \in Digits
    <3>1. i < whole => i \in 1 .. whole - 1
      BY <2>2
    <3> QED BY <1>2, <3>1 DEF RowIn
  <2>5. j <= point
    <3>1. CASE i = j
      BY <1>4, <2>2, <2>3, <3>1
    <3>2. CASE i # j
      <4>1. CharAt(s, i) = "." /\ RowIn(s, i + 1, j, Digits)
        BY <2>1, <3>2
      <4>2. i = whole
        BY <2>2, <2>3, <2>4, <4>1, NoDigit
      <4>3. point \in whole + 1 .. Len(s) /\ CharAt(s, point) \notin Digits
        BY <1>3, <4>1, <4>2
      <4>4. SUFFICES ASSUME point < j PROVE FALSE
        BY <2>2
      <4>5. point \in i + 1 .. j - 1
        BY <2>2, <4>2, <4>3, <4>4
      <4> QED BY <4>1, <4>3, <4>5 DEF RowIn
    <3> QED BY <3>1, <3>2
  <2>6. CASE j = n
    BY <1>6, <2>2, <2>5, <2>6
  <2>7. CASE j # n
    <3>1. /\ CharAt(s, j) = "e"
          /\ \/ RowIn(s, j + 1, n, Digits)
             \/ j + 1 < n /\ CharAt(s, j + 1) \in {"+", "-"} /\ RowIn(s, j + 2, n, Digits)
      BY <2>1, <2>7
    <3>2. j = point
      <4>1. SUFFICES ASSUME j < point PROVE FALSE
        BY <2>2, <2>5
      <4>2. CASE j < whole
        <5>1. j \in 1 .. whole - 1
          BY <2>2, <4>2
        <5> QED BY <1>2, <3>1, <5>1, NoDigit DEF RowIn
      <4>3. CASE j = whole
        <5>1. CharAt(s, whole) # "."
          BY <3>1, <4>3
        <5> QED BY <1>3, <2>2, <4>1, <4>3, <5>1
      <4>4. CASE whole < j
        <5>1. j \in whole + 1 .. point - 1
          BY <2>2, <4>1, <4>4
        <5>2. RowIn(s, whole + 1, point, Digits)
          BY <1>3, <2>2, <4>1, <4>4
        <5> QED BY <3>1, <5>1, <5>2, NoDigit DEF RowIn
      <4> QED BY <2>2, <4>2, <4>3, <4>4
    <3>3. /\ SignEnd(s, point) \in {point + 1, point + 2}
          /\ e \in SignEnd(s, point) .. Len(s) /\ CharAt(s, e) \notin Digits
      BY <1>5, <3>1, <3>2
    <3>4. SUFFICES ASSUME e < n PROVE FALSE
      BY <2>2
    <3>5. CASE RowIn(s, j + 1, n, Digits)
      <4>1. e \in j + 1 .. n - 1
        BY <2>2, <3>2, <3>3, <3>4
      <4> QED BY <3>3, <3>5, <4>1 DEF RowIn
    <3>6. CASE j + 1 < n /\ CharAt(s, j + 1) \in {"+", "-"} /\ RowIn(s, j + 2, n, Digits)
      <4>1. SignEnd(s, point) = point + 2
        BY <3>2, <3>6 DEF SignEnd
      <4>2. e \in j + 2 .. n - 1
        BY <2>2, <3>2, <3>3, <3>4, <4>1
      <4> QED BY <3>3, <3>6, <4>2 DEF RowIn
    <3> QED BY <3>1, <3>5, <3>6
  <2> QED BY <2>6, <2>7
<1>9. e \in 1 .. Len(s)
  BY <1>1, <1>2, <1>4, <1>6
<1> QED BY <1>7, <1>8, <1>9

LEMMA LongestHolds ==
  ASSUME NEW A, NEW s, TextOf(s, A), s # <<>>, s[1] \in Digits \cup {"-"}
  PROVE  ReadToken(s, 0).end = Max({n \in 1 .. Len(s) : LooksLikeNumber(SubSeq(s, 1, n))})
<1> DEFINE e == ReadNumber(s, 1)
           N == {n \in 1 .. Len(s) : LooksLikeNumber(SubSeq(s, 1, n))}
<1>1. Len(s) \in Nat /\ Len(s) >= 1
  BY DEF TextOf
<1>2. ReadToken(s, 0) = TokenAt(s, 0) /\ CharAt(s, 0) = s[1] /\ Next1(s, 0) = 1
  BY <1>1, FirstToken, NoBlank
<1>3. ReadToken(s, 0).end = e
  <2>1. TokenAt(s, 0) = [type |-> "number", start |-> 0, end |-> e]
    BY <1>2, NoBlank DEF TokenAt
  <2> QED BY <1>2, <2>1
<1>4. PICK whole, point : IsNumberTo(s, 1, whole, point, e)
  BY <1>1, NumberEnds
<1> HIDE DEF e
<1>5. e \in 1 .. Len(s) /\ Looks(s, e) /\ \A n \in 1 .. Len(s) : Looks(s, n) => n <= e
  BY <1>1, <1>4, NumberLooks
<1>6. e \in N /\ \A n \in N : n \in Nat /\ n <= e
  BY <1>1, <1>5, LooksIs
<1> HIDE DEF N
<1>7. Max(N) = e
  <2>1. \A x \in N : (\A y \in N : x >= y) => x = e
    BY <1>6
  <2>2. \A y \in N : e >= y
    BY <1>6
  <2> QED BY <1>6, <2>1, <2>2 DEF Max
<1> QED BY <1>3, <1>7 DEF N

\* Where a comment of several lines ends, from behind its opening on.
LEMMA CStyleIs ==
  ASSUME NEW A, NEW s, TextOf(s, A), NEW p \in 0 .. Len(s)
  PROVE  LET closed == {q \in p .. Len(s) - 2 : CharAt(s, q) = "*" /\ CharAt(s, q + 1) = "/"}
             read   == ReadCStyle(s, p)
         IN  /\ closed # {} => /\ read.ok /\ read.end - 2 \in closed
                               /\ \A q \in closed : read.end - 2 <= q
             /\ closed = {} => read.end = Len(s)
             /\ closed = {} => (read.ok <=> p < Len(s) /\ CharAt(s, Len(s) - 1) = "/")
             /\ read.end \in p .. Len(s)
<1> DEFINE closed == {q \in p .. Len(s) - 2 : CharAt(s, q) = "*" /\ CharAt(s, q + 1) = "/"}
           read == ReadCStyle(s, p)
           least == Min(closed)
           stop == IF closed # {} THEN least + 1 ELSE IF p < Len(s) THEN Len(s) - 1 ELSE p
<1>1. Len(s) \in Nat /\ p \in Nat
  BY NumberInText
<1>2. read = [ok |-> CharAt(s, stop) = "/", end |-> Next1(s, stop)]
  BY DEF ReadCStyle
<1>3. closed \in SUBSET Nat
  BY <1>1
<1>4. closed # {} => least \in closed /\ \A q \in closed : least <= q
  <2> HIDE DEF closed
  <2>1. closed # {} => \E m \in closed : \A n \in closed : m <= n
    BY <1>3, LeastNat
  <2> QED BY <2>1 DEF Min
<1> HIDE DEF least, read
<1>5. CASE closed # {}
  <2>1. least \in p .. Len(s) - 2 /\ CharAt(s, least + 1) = "/"
    BY <1>4, <1>5
  <2> HIDE DEF closed
  <2>2. stop = least + 1
    BY <1>5
  <2>3. Next1(s, stop) = least + 2
    BY <1>1, <2>1, <2>2 DEF Next1
  <2>4. read.ok /\ read.end = least + 2
    BY <1>2, <2>1, <2>2, <2>3
  <2> HIDE DEF stop
  <2>5. read.end - 2 = least /\ read.end \in p .. Len(s)
    BY <1>1, <2>1, <2>4
  <2> QED BY <1>4, <1>5, <2>4, <2>5 DEF closed, read
<1>6. CASE closed = {}
  <2> HIDE DEF closed
  <2>1. CASE p < Len(s)
    <3>1. stop = Len(s) - 1 /\ Next1(s, stop) = Len(s)
      BY <1>1, <1>6, <2>1 DEF Next1
    <3>2. (read.ok <=> CharAt(s, Len(s) - 1) = "/") /\ read.end = Len(s)
      BY <1>2, <3>1
    <3> QED BY <1>1, <1>6, <2>1, <3>2 DEF closed, read
  <2>2. CASE ~(p < Len(s))
    <3>1. stop = p /\ p = Len(s) /\ Next1(s, stop) = Len(s)
      BY <1>1, <1>6, <2>2 DEF Next1
    <3>2. CharAt(s, stop) = "0x00"
      BY <1>1, <3>1, CharIs
    <3>3. ~read.ok /\ read.end = Len(s)
      BY <1>2, <3>1, <3>2
    <3> QED BY <1>1, <1>6, <2>2, <3>3 DEF closed, read
  <2> QED BY <2>1, <2>2
<1> QED BY <1>5, <1>6

LEMMA CommentHolds ==
  ASSUME NEW A, NEW s, TextOf(s, A), Len(s) >= 2, s[1] = "/", s[2] = "*"
  PROVE  LET ends  == {e \in 4 .. Len(s) : s[e - 1] = "*" /\ s[e] = "/"}
             token == ReadToken(s, 0)
         IN  IF ends # {} THEN token.type = "comment" /\ token.end = Min(ends)
             ELSE /\ token.end = Len(s)
                  /\ token.type = "comment" <=> Len(s) > 2 /\ s[Len(s)] = "/"
<1> DEFINE ends == {e \in 4 .. Len(s) : s[e - 1] = "*" /\ s[e] = "/"}
           token == ReadToken(s, 0)
           closed == {q \in 2 .. Len(s) - 2 : CharAt(s, q) = "*" /\ CharAt(s, q + 1) = "/"}
           read == ReadCStyle(s, 2)
<1>1. Len(s) \in Nat /\ Len(s) >= 1
  BY DEF TextOf
<1>2. ReadToken(s, 0) = TokenAt(s, 0) /\ CharAt(s, 0) = "/" /\ Next1(s, 0) = 1
  BY <1>1, FirstToken, NoBlank
<1>3. ReadComment(s, 1) = read
  <2>1. CharAt(s, 1) = "*"
    BY <1>1 DEF CharAt
  <2> QED BY <2>1 DEF ReadComment
<1>4. token.end = read.end /\ (token.type = "comment" <=> read.ok)
  <2>1. TokenAt(s, 0) = [type |-> IF read.ok THEN "comment" ELSE "error", start |-> 0, end |-> read.end]
    BY <1>2, <1>3, NoBlank DEF TokenAt
  <2> HIDE DEF read
  <2> QED BY <1>2, <2>1
<1>5. /\ closed # {} => /\ read.ok /\ read.end - 2 \in closed
                        /\ \A q \in closed : read.end - 2 <= q
      /\ closed = {} => read.end = Len(s)
      /\ closed = {} => (read.ok <=> 2 < Len(s) /\ CharAt(s, Len(s) - 1) = "/")
      /\ read.end \in 2 .. Len(s)
  <2>1. 2 \in 0 .. Len(s)
    BY <1>1
  <2> QED BY <2>1, CStyleIs
<1> HIDE DEF read, token
<1>6. \A e \in Int : e \in ends <=> e - 2 \in closed
  <2> SUFFICES ASSUME NEW e \in Int PROVE e \in ends <=> e - 2 \in closed
    OBVIOUS
  <2>1. e \in 4 .. Len(s) <=> e - 2 \in 2 .. Len(s) - 2
    BY <1>1
  <2>2. e \in 4 .. Len(s) => CharAt(s, e - 2) = s[e - 1] /\ CharAt(s, (e - 2) + 1) = s[e]
    BY <1>1 DEF CharAt
  <2> QED BY <2>1, <2>2
<1>7. CharAt(s, Len(s) - 1) = s[Len(s)]
  BY <1>1 DEF CharAt
<1>8. \A e \in ends : e \in Int
  BY <1>1
<1>9. \A q \in closed : q + 2 \in Int /\ (q + 2) - 2 = q
  BY <1>1
<1> HIDE DEF ends, closed
<1>10. ends # {} <=> closed # {}
  BY <1>6, <1>8, <1>9
<1>11. CASE ends # {}
  <2>1. read.end \in Int
    BY <1>1, <1>5
  <2>2. read.end \in ends
    BY <1>5, <1>6, <1>10, <1>11, <2>1
  <2>3. \A e \in ends : read.end <= e
    <3> SUFFICES ASSUME NEW e \in ends PROVE read.end <= e
      OBVIOUS
    <3>1. e \in Int /\ e - 2 \in closed
      BY <1>6, <1>8
    <3>2. read.end - 2 <= e - 2
      BY <1>5, <1>10, <1>11, <3>1
    <3> QED BY <2>1, <3>1, <3>2
  <2>4. Min(ends) = read.end
    <3>1. \A x \in ends : (\A y \in ends : x <= y) => x = read.end
      BY <1>8, <2>1, <2>2, <2>3
    <3> QED BY <2>2, <2>3, <3>1 DEF Min
  <2> QED BY <1>4, <1>5, <1>10, <1>11, <2>4 DEF ends, token
<1>12. CASE ends = {}
  BY <1>4, <1>5, <1>7, <1>10, <1>12 DEF ends, token
<1> QED BY <1>11, <1>12

\* Where a comment of one line ends.
LineEnd(s, q) == IF CharAt(s, q) = "\r" /\ CharAt(s, q + 1) = "\n" THEN q + 2 ELSE Next1(s, q)

SameLine(t, s, p, q, A) ==
  /\ \A r \in p .. q : CharAt(t, r) = CharAt(s, r)
  /\ CharAt(s, q) # "0x00"
  /\ TextOf(t, A) /\ Len(t) >= q

LEMMA CppIs ==
  ASSUME NEW A, NEW s, TextOf(s, A), NEW p \in 0 .. Len(s)
  PROVE  \E q \in p .. Len(s) :
           /\ ReadCppStyle(s, p) = LineEnd(s, q)
           /\ \A t : SameLine(t, s, p, q, A) => ReadCppStyle(t, p) = LineEnd(t, q)
<1> DEFINE Rest(t) == {CharAt(t, i) : i \in 0 .. Len(t) - 1} \ {"\n", "\r"}
           q == Behind(s, p, Rest(s))
<1>1. Len(s) \in Nat /\ p \in Nat
  BY NumberInText
<1>2. ASSUME NEW t, TextOf(t, A)
      PROVE  /\ Len(t) \in Nat
             /\ "0x00" \notin Rest(t)
             /\ \A r \in 0 .. Len(t) - 1 : CharAt(t, r) \in Rest(t) <=> CharAt(t, r) \notin {"\n", "\r"}
  <2>1. Len(t) \in Nat
    BY <1>2 DEF TextOf
  <2>2. \A i \in 0 .. Len(t) - 1 : CharAt(t, i) # "0x00"
    BY <1>2, <2>1, CharIs
  <2> QED BY <2>1, <2>2
<1>3. /\ Len(s) \in Nat
      /\ "0x00" \notin Rest(s)
      /\ \A r \in 0 .. Len(s) - 1 : CharAt(s, r) \in Rest(s) <=> CharAt(s, r) \notin {"\n", "\r"}
  BY <1>2
<1>4. q \in p .. Len(s) /\ CharAt(s, q) \notin Rest(s) /\ RowIn(s, p, q, Rest(s))
  <2> HIDE DEF Rest
  <2> QED BY <1>3, BehindIs
<1>5. ReadCppStyle(s, p) = LineEnd(s, q)
  BY DEF ReadCppStyle, LineEnd
<1> HIDE DEF q
<1>6. \A r \in p .. q - 1 : CharAt(s, r) \notin {"\n", "\r"}
  <2> SUFFICES ASSUME NEW r \in p .. q - 1 PROVE CharAt(s, r) \notin {"\n", "\r"}
    OBVIOUS
  <2>1. r \in 0 .. Len(s) - 1
    BY <1>1, <1>4
  <2> HIDE DEF Rest
  <2> QED BY <1>3, <1>4, <2>1 DEF RowIn
<1>7. q = Len(s) \/ CharAt(s, q) \in {"\n", "\r"}
  <2>1. q # Len(s) => q \in 0 .. Len(s) - 1
    BY <1>1, <1>4
  <2> HIDE DEF Rest
  <2> QED BY <1>3, <1>4, <2>1
<1>8. ASSUME NEW t, SameLine(t, s, p, q, A) PROVE ReadCppStyle(t, p) = LineEnd(t, q)
  <2>0. \A r \in p .. q : CharAt(t, r) = CharAt(s, r)
    BY <1>8 DEF SameLine
  <2>10. CharAt(s, q) # "0x00" /\ TextOf(t, A) /\ Len(t) >= q
    BY <1>8 DEF SameLine
  <2>1. /\ Len(t) \in Nat
        /\ "0x00" \notin Rest(t)
        /\ \A r \in 0 .. Len(t) - 1 : CharAt(t, r) \in Rest(t) <=> CharAt(t, r) \notin {"\n", "\r"}
    BY <1>2, <2>0, <2>10
  <2>2. ReadCppStyle(t, p) = LineEnd(t, Behind(t, p, Rest(t)))
    BY DEF ReadCppStyle, LineEnd
  <2>3. q \in Nat /\ q \in p .. Len(t) /\ p \in 0 .. Len(t)
    BY <1>1, <1>4, <2>0, <2>10, <2>1
  <2>4. q # Len(s)
    BY <1>1, <2>0, <2>10, CharIs
  <2>5. CharAt(t, q) \in {"\n", "\r"}
    BY <1>7, <2>0, <2>10, <2>3, <2>4
  <2>6. q < Len(t)
    BY <2>3, <2>5, <2>0, <2>10, CharIs
  <2>7. CharAt(t, q) \notin Rest(t)
    BY <2>5
  <2>8. RowIn(t, p, q, Rest(t))
    <3> SUFFICES ASSUME NEW r \in p .. q - 1 PROVE CharAt(t, r) \in Rest(t)
      BY DEF RowIn
    <3>1. r \in 0 .. Len(t) - 1 /\ r \in p .. q
      BY <1>1, <2>3
    <3> HIDE DEF Rest
    <3> QED BY <1>6, <2>0, <2>10, <2>1, <3>1
  <2> HIDE DEF Rest
  <2>9. Behind(t, p, Rest(t)) = q
    BY <2>0, <2>10, <2>1, <2>3, <2>7, <2>8, BehindOnly
  <2> QED BY <2>2, <2>9
<1> QED BY <1>4, <1>5, <1>8

\* The ends of comments, of words and of numbers stay in the text.
LEMMA CommentShape ==
  ASSUME NEW A, NEW s, TextOf(s, A), NEW p \in 0 .. Len(s)
  PROVE  ReadComment(s, p).end \in p .. Len(s)
<1>1. Len(s) \in Nat /\ p \in Nat
  BY NumberInText
<1>2. CharAt(s, p) # "0x00" => p < Len(s) /\ p + 1 \in 0 .. Len(s)
  BY <1>1, CharIs
<1>3. CASE CharAt(s, p) = "*"
  <2>1. ReadComment(s, p) = ReadCStyle(s, p + 1)
    BY <1>3 DEF ReadComment
  <2>2. ReadCStyle(s, p + 1).end \in p + 1 .. Len(s)
    BY <1>2, <1>3, CStyleIs
  <2> QED BY <1>1, <2>1, <2>2
<1>4. CASE CharAt(s, p) = "/"
  <2>1. ReadComment(s, p).end = ReadCppStyle(s, p + 1)
    BY <1>4 DEF ReadComment
  <2>2. p + 1 \in 0 .. Len(s)
    BY <1>2, <1>4
  <2>3. PICK q \in p + 1 .. Len(s) :
          ReadCppStyle(s, p + 1) = LineEnd(s, q)
    BY <2>2, CppIs
  <2>4. q \in Nat /\ q + 1 \in Nat
    BY <1>1
  <2>5. CharAt(s, q + 1) = "\n" => q + 2 <= Len(s)
    BY <1>1, <2>4, CharIs
  <2>6. Next1(s, q) \in p .. Len(s)
    BY <1>1, <2>4 DEF Next1
  <2>7. CASE CharAt(s, q) = "\r" /\ CharAt(s, q + 1) = "\n"
    <3>1. ReadCppStyle(s, p + 1) = q + 2
      BY <2>3, <2>7 DEF LineEnd
    <3> QED BY <1>1, <2>1, <2>4, <2>5, <2>7, <3>1
  <2>8. CASE ~(CharAt(s, q) = "\r" /\ CharAt(s, q + 1) = "\n")
    <3>1. ReadCppStyle(s, p + 1) = Next1(s, q)
      BY <2>3, <2>8 DEF LineEnd
    <3> QED BY <2>1, <2>6, <3>1
  <2> QED BY <2>7, <2>8
<1>5. CASE CharAt(s, p) \notin {"*", "/"}
  <2>1. ReadComment(s, p).end = Next1(s, p)
    BY <1>5 DEF ReadComment
  <2>2. Next1(s, p) \in p .. Len(s)
    BY <1>1 DEF Next1
  <2> QED BY <2>1, <2>2
<1> QED BY <1>3, <1>4, <1>5

Null3 == <<"u", "l", "l">>

LEMMA MatchShape ==
  ASSUME NEW A, NEW s, TextOf(s, A), NEW p \in 0 .. Len(s)
  PROVE  /\ Match(s, p, Null3).end \in p .. Len(s)
         /\ Match(s, p, Null3).ok <=> /\ p + 3 <= Len(s) /\ CharAt(s, p) = "u"
                                      /\ CharAt(s, p + 1) = "l" /\ CharAt(s, p + 2) = "l"
         /\ Match(s, p, Null3).ok \in BOOLEAN
         /\ Match(s, p, Null3).end = IF Match(s, p, Null3).ok THEN p + 3 ELSE p
<1> DEFINE same == /\ Len(s) - p >= Len(Null3)
                   /\ \A i \in 1 .. Len(Null3) : CharAt(s, p + i - 1) = Null3[i]
<1>1. Len(s) \in Nat /\ p \in Nat
  BY NumberInText
<1>2. Len(Null3) = 3 /\ Null3[1] = "u" /\ Null3[2] = "l" /\ Null3[3] = "l"
  BY DEF Null3
<1>3. same <=> /\ p + 3 <= Len(s) /\ CharAt(s, p) = "u"
               /\ CharAt(s, p + 1) = "l" /\ CharAt(s, p + 2) = "l"
  <2>1. (\A i \in 1 .. 3 : CharAt(s, p + i - 1) = Null3[i]) <=>
           CharAt(s, p + 1 - 1) = Null3[1] /\ CharAt(s, p + 2 - 1) = Null3[2] /\ CharAt(s, p + 3 - 1) = Null3[3]
    <3>1. \A i : i \in 1 .. 3 <=> i = 1 \/ i = 2 \/ i = 3
      OBVIOUS
    <3> QED BY <3>1
  <2>2. p + 1 - 1 = p /\ p + 2 - 1 = p + 1 /\ p + 3 - 1 = p + 2 /\ (Len(s) - p >= 3 <=> p + 3 <= Len(s))
    BY <1>1
  <2> QED BY <1>2, <2>1, <2>2
<1>4. Match(s, p, Null3) = [ok |-> same, end |-> IF same THEN p + 3 ELSE p]
  BY <1>2 DEF Match
<1> HIDE DEF same
<1>5. (Match(s, p, Null3).ok <=> same) /\ Match(s, p, Null3).end = (IF same THEN p + 3 ELSE p)
  BY <1>4
<1>6. Match(s, p, Null3).ok \in BOOLEAN
  BY <1>4 DEF same
<1> QED BY <1>1, <1>3, <1>5, <1>6

\* A token begins where it was looked for, ends behind its begin, and only the
\* end of the text is the token of its end.
LEMMA TokenAtShape ==
  ASSUME NEW A, NEW s, TextOf(s, A), NEW start \in 0 .. Len(s)
  PROVE  /\ TokenAt(s, start).start = start
         /\ TokenAt(s, start).end \in start .. Len(s)
         /\ start < Len(s) => TokenAt(s, start).end > start
         /\ TokenAt(s, start).type = "eos" <=> start = Len(s)
<1> DEFINE c == CharAt(s, start)
           next == Next1(s, start)
           t == TokenAt(s, start)
<1>1. Len(s) \in Nat /\ start \in Nat
  BY NumberInText
<1>2. /\ start < Len(s) => next = start + 1 /\ next \in 0 .. Len(s) /\ c # "0x00"
      /\ start = Len(s) => next = start /\ c = "0x00"
  BY <1>1, CharIs DEF Next1
<1>3. \A x \in Punctuation : x \notin Digits \cup {"-"} /\ x \notin {"/", "n", "0x00", "eos"}
  BY DEF Punctuation, Digits
<1>4. start < Len(s) \/ start = Len(s)
  BY <1>1
<1>5. CASE c = "0x00"
  <2>1. start = Len(s) /\ next = start
    BY <1>2, <1>4, <1>5
  <2>2. c \notin Punctuation /\ c \notin Digits \cup {"-"}
    BY <1>5 DEF Punctuation, Digits
  <2>3. t = [type |-> "eos", start |-> start, end |-> next]
    BY <1>5, <2>2 DEF TokenAt
  <2> HIDE DEF t
  <2>4. t.start = start /\ t.end = start /\ t.type = "eos"
    BY <2>1, <2>3
  <2> QED BY <1>1, <2>1, <2>4 DEF t
<1>6. CASE c # "0x00"
  <2>1. start < Len(s) /\ next = start + 1 /\ next \in 0 .. Len(s)
    BY <1>2, <1>4, <1>6
  <2> DEFINE Fine(x) == /\ x.start = start /\ x.end \in next .. Len(s) /\ x.type # "eos"
  <2>2. next \in next .. Len(s)
    BY <1>1, <2>1
  <2>3. ASSUME c \in Punctuation
       PROVE  Fine(t)
    <3>1. t = [type |-> c, start |-> start, end |-> next]
      BY <2>3 DEF TokenAt
    <3> QED BY <1>3, <2>2, <2>3, <3>1
  <2>4. ASSUME c \in Digits \cup {"-"}
       PROVE  Fine(t)
    <3>1. c \notin Punctuation
      BY <2>4, NoBlank
    <3>2. t = [type |-> "number", start |-> start, end |-> ReadNumber(s, next)]
      BY <2>4, <3>1 DEF TokenAt
    <3>3. ReadNumber(s, next) \in next .. Len(s)
      <4> DEFINE e == ReadNumber(s, next)
      <4>1. PICK whole, point : IsNumberTo(s, next, whole, point, e)
        BY <2>1, NumberEnds
      <4> HIDE DEF e, next
      <4>2. next \in Nat /\ whole \in next .. Len(s)
        BY <1>1, <2>1, <4>1 DEF IsNumberTo
      <4>3. point \in whole .. Len(s)
        BY <1>1, <4>1, <4>2 DEF IsNumberTo
      <4>4. e \in point .. Len(s)
        <5>1. CASE CharAt(s, point) = "e"
          <6>1. point \in 0 .. Len(s) /\ point \in Nat
            BY <1>1, <4>2, <4>3
          <6>2. SignEnd(s, point) \in 0 .. Len(s) /\ point + 1 <= SignEnd(s, point)
            BY <5>1, <6>1, NumberInText
          <6>3. e \in SignEnd(s, point) .. Len(s)
            BY <4>1, <5>1 DEF IsNumberTo
          <6> QED BY <1>1, <6>1, <6>2, <6>3
        <5>2. CASE CharAt(s, point) # "e"
          BY <1>1, <4>1, <4>2, <4>3, <5>2 DEF IsNumberTo
        <5> QED BY <5>1, <5>2
      <4>5. e \in next .. Len(s)
        BY <1>1, <4>2, <4>3, <4>4
      <4> QED BY <4>5 DEF e
    <3> HIDE DEF t
    <3> QED BY <3>2, <3>3
  <2>5. ASSUME c = "/"
       PROVE  Fine(t)
    <3>1. t = [type |-> IF ReadComment(s, next).ok THEN "comment" ELSE "error",
               start |-> start, end |-> ReadComment(s, next).end]
      BY <2>5, NoBlank DEF TokenAt
    <3>2. ReadComment(s, next).end \in next .. Len(s)
      BY <2>1, CommentShape
    <3> HIDE DEF t, next
    <3>3. t.type = IF ReadComment(s, next).ok THEN "comment" ELSE "error"
      BY <3>1
    <3>4. t.type # "eos"
      BY <3>3
    <3> QED BY <3>1, <3>2, <3>4
  <2>6. ASSUME c = "n"
       PROVE  Fine(t)
    <3>1. c \notin Punctuation /\ c \notin Digits \cup {"-"} /\ c # "/"
      BY <2>6 DEF Punctuation, Digits
    <3>2. t = [type |-> IF Match(s, next, Null3).ok THEN "null" ELSE "error",
               start |-> start, end |-> Match(s, next, Null3).end]
      BY <2>6, <3>1 DEF TokenAt, Null3
    <3>3. Match(s, next, Null3).end \in next .. Len(s)
      BY <2>1, MatchShape
    <3> HIDE DEF t, next
    <3>4. t.type = IF Match(s, next, Null3).ok THEN "null" ELSE "error"
      BY <3>2
    <3>5. t.type # "eos"
      BY <3>4
    <3> QED BY <3>2, <3>3, <3>5
  <2>7. ASSUME c \notin Punctuation /\ c \notin Digits \cup {"-"} /\ c # "/" /\ c # "n"
       PROVE  Fine(t)
    <3>1. t = [type |-> "error", start |-> start, end |-> next]
      BY <1>6, <2>7 DEF TokenAt
    <3> QED BY <2>2, <3>1
  <2> HIDE DEF Fine
  <2>8. Fine(t)
    <3> HIDE DEF t, next, c
    <3> QED BY <1>6, <2>3, <2>4, <2>5, <2>6, <2>7
  <2> HIDE DEF t
  <2>9. t.start = start /\ t.end \in next .. Len(s) /\ t.type # "eos"
    BY <2>8 DEF Fine
  <2> HIDE DEF next
  <2> QED BY <1>1, <2>1, <2>9 DEF t
<1> QED BY <1>5, <1>6

LEMMA TokenShape ==
  ASSUME NEW A, NEW s, TextOf(s, A), NEW p \in 0 .. Len(s)
  PROVE  LET t == ReadToken(s, p)
         IN  /\ t.start \in p .. Len(s) /\ RowIn(s, p, t.start, Blanks)
             /\ t.end \in t.start .. Len(s)
             /\ t.start < Len(s) => t.end > t.start
             /\ t.type = "eos" <=> t.start = Len(s)
             /\ t = TokenAt(s, t.start) /\ CharAt(s, t.start) \notin Blanks
<1> DEFINE start == Behind(s, p, Blanks)
<1>1. Len(s) \in Nat /\ p \in Nat
  BY NumberInText
<1>2. start \in p .. Len(s) /\ CharAt(s, start) \notin Blanks /\ RowIn(s, p, start, Blanks)
  BY NoBlank, BehindIs
<1>3. ReadToken(s, p) = TokenAt(s, start)
  BY TokenIs
<1> HIDE DEF start
<1>4. start \in 0 .. Len(s)
  BY <1>1, <1>2
<1> QED BY <1>2, <1>3, <1>4, TokenAtShape

\* A text without its last character.
CutOf(u, s, A) ==
  /\ TextOf(u, A) /\ TextOf(s, A) /\ Len(s) = Len(u) + 1
  /\ \A r \in Nat : r < Len(u) => CharAt(u, r) = CharAt(s, r)

LEMMA FrontIs ==
  ASSUME NEW A, NEW s, TextOf(s, A), s # <<>>
  PROVE  CutOf(Front(s), s, A)
<1> DEFINE u == SubSeq(s, 1, Len(s) - 1)
<1>1. Len(s) \in Nat /\ Len(s) >= 1 /\ s \in Seq(A) /\ "0x00" \notin A
  BY DEF TextOf
<1>2. /\ u \in Seq(A) /\ Len(u) = Len(s) - 1
      /\ \A i \in 1 .. Len(s) - 1 : u[i] = s[i]
  <2>1. \A i \in 1 .. Len(s) - 1 : s[i] \in A
    BY <1>1
  <2>2. /\ u \in Seq(A) /\ Len(u) = IF 1 <= Len(s) - 1 THEN (Len(s) - 1) - 1 + 1 ELSE 0
        /\ \A i \in 1 .. (Len(s) - 1) - 1 + 1 : u[i] = s[1 + i - 1]
    BY <1>1, <2>1, SubSeqProperties
  <2> DEFINE n == Len(s) - 1
  <2>3. n \in Nat
    BY <1>1
  <2> HIDE DEF u, n
  <2>4. /\ u \in Seq(A) /\ Len(u) = IF 1 <= n THEN n - 1 + 1 ELSE 0
        /\ \A i \in 1 .. n - 1 + 1 : u[i] = s[1 + i - 1]
    BY <2>2 DEF n
  <2>5. Len(u) = n /\ \A i \in 1 .. n : u[i] = s[i]
    BY <2>3, <2>4
  <2> QED BY <2>4, <2>5 DEF n
<1> HIDE DEF u
<1>3. ASSUME NEW r \in Nat, r < Len(u) PROVE CharAt(u, r) = CharAt(s, r)
  <2>1. r + 1 \in 1 .. Len(s) - 1 /\ r < Len(s)
    BY <1>1, <1>2, <1>3
  <2> QED BY <1>2, <1>3, <2>1 DEF CharAt
<1>4. CutOf(u, s, A)
  BY <1>1, <1>2, <1>3 DEF CutOf, TextOf
<1> QED BY <1>4 DEF Front, u

LEMMA RowCut ==
  ASSUME NEW A, NEW s, NEW u, CutOf(u, s, A), NEW p \in Nat, NEW q \in Int, q <= Len(u), NEW set
  PROVE  RowIn(u, p, q, set) <=> RowIn(s, p, q, set)
<1>1. Len(u) \in Nat
  BY DEF CutOf, TextOf
<1>2. \A r \in p .. q - 1 : r \in Nat /\ r < Len(u)
  BY <1>1
<1> QED BY <1>2 DEF RowIn, CutOf

LEMMA NumberCut ==
  ASSUME NEW A, NEW s, NEW u, CutOf(u, s, A), NEW p \in 0 .. Len(u), ReadNumber(s, p) < Len(s)
  PROVE  ReadNumber(u, p) = ReadNumber(s, p)
<1> DEFINE e == ReadNumber(s, p)
<1>1. /\ Len(u) \in Nat /\ Len(s) \in Nat /\ TextOf(u, A) /\ TextOf(s, A) /\ p \in Nat
      /\ Len(s) = Len(u) + 1 /\ p \in 0 .. Len(s)
  BY DEF CutOf, TextOf
<1>2. PICK whole, point : IsNumberTo(s, p, whole, point, e)
  BY <1>1, NumberEnds
<1> HIDE DEF e
<1>3. whole \in p .. Len(s) /\ whole \in Nat
  BY <1>1, <1>2 DEF IsNumberTo
<1>4. /\ CharAt(s, whole) # "." => point = whole
      /\ CharAt(s, whole) = "." => point \in whole + 1 .. Len(s)
  BY <1>2 DEF IsNumberTo
<1>5. point \in whole .. Len(s) /\ point \in Nat
  BY <1>1, <1>3, <1>4
<1>6. /\ CharAt(s, point) # "e" => e = point
      /\ CharAt(s, point) = "e" => /\ SignEnd(s, point) \in {point + 1, point + 2}
                                   /\ e \in SignEnd(s, point) .. Len(s)
  BY <1>2 DEF IsNumberTo, SignEnd
<1>7. e \in point .. Len(s) /\ (CharAt(s, point) = "e" => point < e) /\ e < Len(s) /\ e \in Nat
  BY <1>1, <1>5, <1>6 DEF e
<1>8. e <= Len(u) /\ whole <= Len(u) /\ point <= Len(u)
  BY <1>1, <1>3, <1>5, <1>7
<1>9. ASSUME NEW r \in Nat PROVE /\ r < Len(u) => CharAt(u, r) = CharAt(s, r)
                                 /\ r >= Len(u) => CharAt(u, r) = "0x00"
  BY <1>1, CharIs DEF CutOf
<1>10. /\ whole \in p .. Len(u) /\ CharAt(u, whole) \notin Digits /\ RowIn(u, p, whole, Digits)
  <2>1. RowIn(u, p, whole, Digits)
    BY <1>1, <1>2, <1>3, <1>8, RowCut DEF IsNumberTo
  <2>2. CharAt(u, whole) \notin Digits
    BY <1>1, <1>2, <1>3, <1>9, NoDigit DEF IsNumberTo
  <2> QED BY <1>1, <1>3, <1>8, <2>1, <2>2
<1>11. IF CharAt(u, whole) = "."
         THEN /\ point \in whole + 1 .. Len(u) /\ CharAt(u, point) \notin Digits
              /\ RowIn(u, whole + 1, point, Digits)
         ELSE point = whole
  <2>1. CASE CharAt(s, whole) = "."
    <3>1. /\ point \in whole + 1 .. Len(s) /\ CharAt(s, point) \notin Digits
          /\ RowIn(s, whole + 1, point, Digits)
      BY <1>2, <2>1 DEF IsNumberTo
    <3>2. whole < Len(u)
      BY <1>1, <1>3, <1>8, <3>1
    <3>3. CharAt(u, whole) = "."
      BY <1>3, <1>9, <2>1, <3>2
    <3>4. RowIn(u, whole + 1, point, Digits)
      <4>1. whole + 1 \in Nat
        BY <1>3
      <4> QED BY <1>5, <1>8, <3>1, <4>1, RowCut
    <3>5. CharAt(u, point) \notin Digits
      BY <1>1, <1>5, <1>9, <3>1, NoDigit
    <3>6. point \in whole + 1 .. Len(u)
      BY <1>1, <1>3, <1>5, <1>8, <3>1
    <3> QED BY <3>3, <3>4, <3>5, <3>6
  <2>2. CASE CharAt(s, whole) # "."
    <3>1. CharAt(u, whole) # "."
      BY <1>1, <1>3, <1>9, <2>2
    <3> QED BY <1>4, <2>2, <3>1
  <2> QED BY <2>1, <2>2
<1>12. IF CharAt(u, point) = "e"
         THEN /\ SignEnd(u, point) \in Nat
              /\ e \in SignEnd(u, point) .. Len(u) /\ CharAt(u, e) \notin Digits
              /\ RowIn(u, SignEnd(u, point), e, Digits)
         ELSE e = point
  <2>1. CASE CharAt(s, point) = "e"
    <3>1. /\ SignEnd(s, point) \in Nat
          /\ e \in SignEnd(s, point) .. Len(s) /\ CharAt(s, e) \notin Digits
          /\ RowIn(s, SignEnd(s, point), e, Digits)
      BY <1>2, <2>1 DEF IsNumberTo
    <3>2. point < Len(u) /\ point + 1 \in Nat
      BY <1>1, <1>5, <1>7, <1>8, <2>1
    <3>3. CharAt(u, point) = "e"
      BY <1>5, <1>9, <2>1, <3>2
    <3>4. SignEnd(u, point) = SignEnd(s, point)
      <4>1. CASE CharAt(s, point + 1) \in {"+", "-"}
        <5>1. SignEnd(s, point) = point + 2
          BY <4>1 DEF SignEnd
        <5>2. point + 1 < Len(u)
          BY <1>1, <1>5, <1>8, <3>1, <5>1
        <5>3. CharAt(u, point + 1) = CharAt(s, point + 1)
          BY <1>9, <3>2, <5>2
        <5> QED BY <5>3 DEF SignEnd
      <4>2. CASE CharAt(s, point + 1) \notin {"+", "-"}
        <5>1. CharAt(u, point + 1) \notin {"+", "-"}
          BY <1>1, <1>9, <3>2, <4>2
        <5> QED BY <4>2, <5>1 DEF SignEnd
      <4> QED BY <4>1, <4>2
    <3>5. RowIn(u, SignEnd(u, point), e, Digits)
      BY <1>7, <1>8, <3>1, <3>4, RowCut
    <3>6. CharAt(u, e) \notin Digits
      BY <1>1, <1>7, <1>9, <3>1, NoDigit
    <3>7. e \in SignEnd(u, point) .. Len(u)
      BY <1>1, <1>7, <1>8, <3>1, <3>4
    <3> QED BY <3>1, <3>3, <3>4, <3>5, <3>6, <3>7
  <2>2. CASE CharAt(s, point) # "e"
    <3>1. CharAt(u, point) # "e"
      BY <1>1, <1>5, <1>9, <2>2
    <3> QED BY <1>6, <2>2, <3>1
  <2> QED BY <2>1, <2>2
<1>13. IsNumberTo(u, p, whole, point, e)
  BY <1>10, <1>11, <1>12 DEF IsNumberTo
<1>14. ReadNumber(u, p) = e
  BY <1>1, <1>13, NumberOnly
<1> QED BY <1>14 DEF e

LEMMA CommentCut ==
  ASSUME NEW A, NEW s, NEW u, CutOf(u, s, A), NEW p \in 0 .. Len(u), ReadComment(s, p).end < Len(s)
  PROVE  ReadComment(u, p) = ReadComment(s, p)
<1>1. /\ Len(u) \in Nat /\ Len(s) \in Nat /\ TextOf(u, A) /\ TextOf(s, A) /\ p \in Nat
      /\ Len(s) = Len(u) + 1 /\ p \in 0 .. Len(s)
  BY DEF CutOf, TextOf
<1>2. ASSUME NEW r \in Nat PROVE /\ r < Len(u) => CharAt(u, r) = CharAt(s, r)
                                 /\ r >= Len(u) => CharAt(u, r) = "0x00"
  BY <1>1, CharIs DEF CutOf
<1>3. CASE p = Len(u)
  <2>1. ReadComment(s, p).end = Len(s)
    <3>1. Next1(s, p) = Len(s) /\ p + 1 = Len(s) /\ p + 1 \in 0 .. Len(s)
      BY <1>1, <1>3 DEF Next1
    <3>2. CASE CharAt(s, p) = "*"
      <4>1. ReadComment(s, p) = ReadCStyle(s, p + 1)
        BY <3>2 DEF ReadComment
      <4>2. ReadCStyle(s, p + 1).end \in p + 1 .. Len(s)
        BY <1>1, <3>1, CStyleIs
      <4> QED BY <1>1, <3>1, <4>1, <4>2
    <3>3. CASE CharAt(s, p) = "/"
      <4>1. ReadComment(s, p).end = ReadCppStyle(s, p + 1)
        BY <3>3 DEF ReadComment
      <4>2. PICK q \in p + 1 .. Len(s) :
              ReadCppStyle(s, p + 1) = LineEnd(s, q)
        BY <1>1, <3>1, CppIs
      <4>3. q = Len(s)
        BY <1>1, <3>1, <4>2
      <4>4. CharAt(s, q) = "0x00"
        BY <1>1, <4>3, CharIs
      <4>5. Next1(s, q) = Len(s)
        BY <1>1, <4>3 DEF Next1
      <4> QED BY <4>1, <4>2, <4>4, <4>5 DEF LineEnd
    <3>4. CASE CharAt(s, p) \notin {"*", "/"}
      BY <3>1, <3>4 DEF ReadComment
    <3> QED BY <3>2, <3>3, <3>4
  <2> QED BY <1>1, <2>1
<1>4. CASE p < Len(u)
  <2>1. CharAt(u, p) = CharAt(s, p) /\ p + 1 \in 0 .. Len(u) /\ p + 1 \in 0 .. Len(s)
        /\ Next1(u, p) = p + 1 /\ Next1(s, p) = p + 1
    BY <1>1, <1>2, <1>4 DEF Next1
  <2>2. CASE CharAt(s, p) = "*"
    <3> DEFINE In(t) == {q \in p + 1 .. Len(t) - 2 : CharAt(t, q) = "*" /\ CharAt(t, q + 1) = "/"}
               a == ReadCStyle(s, p + 1)
               b == ReadCStyle(u, p + 1)
    <3>1. ReadComment(s, p) = a /\ ReadComment(u, p) = b
      BY <2>1, <2>2 DEF ReadComment
    <3>2. /\ In(s) # {} => a.ok /\ a.end - 2 \in In(s) /\ \A q \in In(s) : a.end - 2 <= q
          /\ In(s) = {} => a.end = Len(s)
          /\ a.end \in p + 1 .. Len(s)
      BY <1>1, <2>1, CStyleIs
    <3>3. /\ In(u) # {} => b.ok /\ b.end - 2 \in In(u) /\ \A q \in In(u) : b.end - 2 <= q
          /\ b.end \in p + 1 .. Len(u)
      BY <1>1, <2>1, CStyleIs
    <3>4. \A q \in Int : q \in In(u) <=> q \in In(s) /\ q < Len(s) - 2
      <4> SUFFICES ASSUME NEW q \in Int PROVE q \in In(u) <=> q \in In(s) /\ q < Len(s) - 2
        OBVIOUS
      <4>1. q \in p + 1 .. Len(u) - 2 <=> q \in p + 1 .. Len(s) - 2 /\ q < Len(s) - 2
        BY <1>1
      <4>2. q \in p + 1 .. Len(u) - 2 => CharAt(u, q) = CharAt(s, q) /\ CharAt(u, q + 1) = CharAt(s, q + 1)
        <5>1. q \in p + 1 .. Len(u) - 2 => q \in Nat /\ q + 1 \in Nat /\ q < Len(u) /\ q + 1 < Len(u)
          BY <1>1
        <5> QED BY <1>2, <5>1
      <4> QED BY <4>1, <4>2
    <3>5. a = [ok |-> a.ok, end |-> a.end] /\ b = [ok |-> b.ok, end |-> b.end] /\ a.ok \in BOOLEAN /\ b.ok \in BOOLEAN
      BY DEF ReadCStyle
    <3>6. a.end < Len(s)
      BY <3>1
    <3>7. \A q \in In(u) : q \in Int
      BY <1>1
    <3> HIDE DEF In, a, b
    <3>8. a.ok /\ a.end - 2 \in In(s) /\ \A q \in In(s) : a.end - 2 <= q
      BY <1>1, <3>2, <3>6
    <3>9. a.end \in Int /\ a.end - 2 \in Int /\ a.end - 2 < Len(s) - 2
      BY <1>1, <3>2, <3>6
    <3>10. a.end - 2 \in In(u)
      BY <3>4, <3>8, <3>9
    <3>11. b.ok /\ b.end - 2 \in In(u) /\ b.end - 2 <= a.end - 2 /\ b.end \in Int
      BY <1>1, <3>3, <3>10
    <3>12. a.end - 2 <= b.end - 2
      BY <3>4, <3>7, <3>8, <3>11
    <3>13. a.end = b.end
      BY <3>9, <3>11, <3>12
    <3>14. a = b
      BY <3>5, <3>8, <3>11, <3>13
    <3> QED BY <3>1, <3>14
  <2>3. CASE CharAt(s, p) = "/"
    <3>1. /\ ReadComment(s, p) = [ok |-> TRUE, end |-> ReadCppStyle(s, p + 1)]
          /\ ReadComment(u, p) = [ok |-> TRUE, end |-> ReadCppStyle(u, p + 1)]
      BY <2>1, <2>3 DEF ReadComment
    <3>2. PICK q \in p + 1 .. Len(s) :
            /\ ReadCppStyle(s, p + 1) = LineEnd(s, q)
            /\ \A t : SameLine(t, s, p + 1, q, A) => ReadCppStyle(t, p + 1) = LineEnd(t, q)
      BY <1>1, <2>1, CppIs
    <3>3. q \in Nat /\ q <= Len(s) /\ ReadCppStyle(s, p + 1) < Len(s)
      BY <1>1, <3>1, <3>2
    <3>4. q < Len(u)
      <4>1. CASE CharAt(s, q) = "\r" /\ CharAt(s, q + 1) = "\n"
        BY <1>1, <3>2, <3>3, <4>1 DEF LineEnd
      <4>2. CASE ~(CharAt(s, q) = "\r" /\ CharAt(s, q + 1) = "\n")
        <5>1. Next1(s, q) < Len(s)
          BY <3>2, <3>3, <4>2 DEF LineEnd
        <5> QED BY <1>1, <3>3, <5>1 DEF Next1
      <4> QED BY <4>1, <4>2
    <3>5. \A r \in p + 1 .. q : r \in Nat /\ r < Len(u)
      BY <1>1, <3>3, <3>4
    <3>6. \A r \in p + 1 .. q : CharAt(u, r) = CharAt(s, r)
      BY <1>2, <3>5
    <3>7. CharAt(s, q) # "0x00"
      BY <1>1, <3>3, <3>4, CharIs
    <3>8. ReadCppStyle(u, p + 1) = LineEnd(u, q)
      <4>1. Len(u) >= q
        BY <1>1, <3>3, <3>4
      <4>2. SameLine(u, s, p + 1, q, A)
        BY <1>1, <3>6, <3>7, <4>1 DEF SameLine
      <4> QED BY <3>2, <4>2
    <3>9. CharAt(u, q) = CharAt(s, q) /\ Next1(u, q) = Next1(s, q)
      BY <1>1, <1>2, <3>3, <3>4 DEF Next1
    <3>10. CharAt(s, q) = "\r" => (CharAt(u, q + 1) = "\n" <=> CharAt(s, q + 1) = "\n")
      <4>1. q + 1 \in Nat
        BY <3>3
      <4>2. CASE q + 1 < Len(u)
        BY <1>2, <4>1, <4>2
      <4>3. CASE ~(q + 1 < Len(u))
        <5>1. CharAt(u, q + 1) = "0x00"
          BY <1>1, <1>2, <4>1, <4>3
        <5>2. CharAt(s, q) = "\r" /\ CharAt(s, q + 1) = "\n" => ReadCppStyle(s, p + 1) = q + 2
          BY <3>2 DEF LineEnd
        <5>3. q + 2 >= Len(s)
          BY <1>1, <3>3, <3>4, <4>3
        <5>4. ~(CharAt(s, q) = "\r" /\ CharAt(s, q + 1) = "\n")
          BY <1>1, <3>3, <5>2, <5>3
        <5> QED BY <5>1, <5>4
      <4> QED BY <4>2, <4>3
    <3>11. ReadCppStyle(u, p + 1) = ReadCppStyle(s, p + 1)
      BY <3>2, <3>8, <3>9, <3>10 DEF LineEnd
    <3> QED BY <3>1, <3>11
  <2>4. CASE CharAt(s, p) \notin {"*", "/"}
    BY <2>1, <2>4 DEF ReadComment
  <2> QED BY <2>2, <2>3, <2>4
<1> QED BY <1>1, <1>3, <1>4

LEMMA MatchCut ==
  ASSUME NEW A, NEW s, NEW u, CutOf(u, s, A), NEW p \in 0 .. Len(u), Match(s, p, Null3).end < Len(s)
  PROVE  Match(u, p, Null3) = Match(s, p, Null3)
<1> DEFINE a == Match(s, p, Null3)
           b == Match(u, p, Null3)
<1>1. /\ Len(u) \in Nat /\ Len(s) \in Nat /\ TextOf(u, A) /\ TextOf(s, A) /\ p \in Nat
      /\ Len(s) = Len(u) + 1 /\ p \in 0 .. Len(s)
  BY DEF CutOf, TextOf
<1>2. /\ a.ok <=> /\ p + 3 <= Len(s) /\ CharAt(s, p) = "u"
                  /\ CharAt(s, p + 1) = "l" /\ CharAt(s, p + 2) = "l"
      /\ a.ok \in BOOLEAN /\ a.end = IF a.ok THEN p + 3 ELSE p
  BY <1>1, MatchShape
<1>3. /\ b.ok <=> /\ p + 3 <= Len(u) /\ CharAt(u, p) = "u"
                  /\ CharAt(u, p + 1) = "l" /\ CharAt(u, p + 2) = "l"
      /\ b.ok \in BOOLEAN /\ b.end = IF b.ok THEN p + 3 ELSE p
  BY <1>1, MatchShape
<1>4. a = [ok |-> a.ok, end |-> a.end] /\ b = [ok |-> b.ok, end |-> b.end]
  BY DEF Match
<1>5. a.end < Len(s)
  OBVIOUS
<1> HIDE DEF a, b
<1>6. a.ok => p + 3 <= Len(u)
  BY <1>1, <1>2, <1>5
<1>7. p + 3 <= Len(u) => /\ CharAt(u, p) = CharAt(s, p) /\ CharAt(u, p + 1) = CharAt(s, p + 1)
                         /\ CharAt(u, p + 2) = CharAt(s, p + 2) /\ p + 3 <= Len(s)
  <2>1. p + 3 <= Len(u) => /\ p \in Nat /\ p + 1 \in Nat /\ p + 2 \in Nat
                           /\ p < Len(u) /\ p + 1 < Len(u) /\ p + 2 < Len(u) /\ p + 3 <= Len(s)
    BY <1>1
  <2> QED BY <2>1 DEF CutOf
<1>8. a.ok <=> b.ok
  BY <1>2, <1>3, <1>6, <1>7
<1>9. a = b
  BY <1>2, <1>3, <1>4, <1>8
<1> QED BY <1>9 DEF a, b

\* A token that ends before the last character is the same without it.
LEMMA TokenCut ==
  ASSUME NEW A, NEW s, NEW u, CutOf(u, s, A), NEW p \in 0 .. Len(u), ReadToken(s, p).end < Len(s)
  PROVE  ReadToken(u, p) = ReadToken(s, p)
<1> DEFINE t == ReadToken(s, p)
           start == t.start
           c == CharAt(s, start)
<1>1. /\ Len(u) \in Nat /\ Len(s) \in Nat /\ TextOf(u, A) /\ TextOf(s, A) /\ p \in Nat
      /\ Len(s) = Len(u) + 1 /\ p \in 0 .. Len(s)
  BY DEF CutOf, TextOf
<1>2. /\ start \in p .. Len(s) /\ RowIn(s, p, start, Blanks)
      /\ t.end \in start .. Len(s)
      /\ start < Len(s) => t.end > start
      /\ t = TokenAt(s, start) /\ CharAt(s, start) \notin Blanks
  BY <1>1, TokenShape
<1>3. t.end < Len(s)
  OBVIOUS
<1> HIDE DEF t
<1>4. start \in Nat /\ start < Len(u)
  BY <1>1, <1>2, <1>3
<1>5. CharAt(u, start) = c
  BY <1>4 DEF CutOf
<1>6. Behind(u, p, Blanks) = start
  <2>1. RowIn(u, p, start, Blanks)
    BY <1>1, <1>2, <1>4, RowCut
  <2>2. p \in 0 .. Len(u) /\ start \in p .. Len(u) /\ CharAt(u, start) \notin Blanks
    BY <1>1, <1>2, <1>4, <1>5
  <2> QED BY <1>1, <2>1, <2>2, NoBlank, BehindOnly
<1>7. ReadToken(u, p) = TokenAt(u, start)
  BY <1>6, TokenIs
<1> DEFINE next == start + 1
<1>8. Next1(s, start) = next /\ Next1(u, start) = next /\ next \in 0 .. Len(u)
  BY <1>1, <1>4 DEF Next1
<1>9. TokenAt(u, start) = TokenAt(s, start)
  <2>1. c # "0x00"
    BY <1>1, <1>4, CharIs
  <2>2. CASE c \in Punctuation
    BY <1>5, <1>8, <2>2 DEF TokenAt
  <2>3. CASE c \in Digits \cup {"-"}
    <3>1. c \notin Punctuation
      BY <2>3, NoBlank
    <3>2. /\ TokenAt(s, start) = [type |-> "number", start |-> start, end |-> ReadNumber(s, next)]
          /\ TokenAt(u, start) = [type |-> "number", start |-> start, end |-> ReadNumber(u, next)]
      BY <1>5, <1>8, <2>3, <3>1 DEF TokenAt
    <3>3. ReadNumber(s, next) < Len(s)
      BY <1>2, <1>3, <3>2
    <3> HIDE DEF next
    <3>4. ReadNumber(u, next) = ReadNumber(s, next)
      BY <1>8, <3>3, NumberCut
    <3> QED BY <3>2, <3>4
  <2>4. CASE c = "/"
    <3>1. /\ TokenAt(s, start) = [type |-> IF ReadComment(s, next).ok THEN "comment" ELSE "error",
                                  start |-> start, end |-> ReadComment(s, next).end]
          /\ TokenAt(u, start) = [type |-> IF ReadComment(u, next).ok THEN "comment" ELSE "error",
                                  start |-> start, end |-> ReadComment(u, next).end]
      BY <1>5, <1>8, <2>4, NoBlank DEF TokenAt
    <3>2. ReadComment(s, next).end < Len(s)
      BY <1>2, <1>3, <3>1
    <3> HIDE DEF next
    <3>3. ReadComment(u, next) = ReadComment(s, next)
      BY <1>8, <3>2, CommentCut
    <3> QED BY <3>1, <3>3
  <2>5. CASE c = "n"
    <3>1. c \notin Punctuation /\ c \notin Digits \cup {"-"} /\ c # "/"
      BY <2>5 DEF Punctuation, Digits
    <3>2. /\ TokenAt(s, start) = [type |-> IF Match(s, next, Null3).ok THEN "null" ELSE "error",
                                  start |-> start, end |-> Match(s, next, Null3).end]
          /\ TokenAt(u, start) = [type |-> IF Match(u, next, Null3).ok THEN "null" ELSE "error",
                                  start |-> start, end |-> Match(u, next, Null3).end]
      BY <1>5, <1>8, <2>5, <3>1 DEF TokenAt, Null3
    <3>3. Match(s, next, Null3).end < Len(s)
      BY <1>2, <1>3, <3>2
    <3> HIDE DEF next
    <3>4. Match(u, next, Null3) = Match(s, next, Null3)
      BY <1>8, <3>3, MatchCut
    <3> QED BY <3>2, <3>4
  <2>6. CASE c \notin Punctuation /\ c \notin Digits \cup {"-"} /\ c # "/" /\ c # "n"
    BY <1>5, <1>8, <2>1, <2>6 DEF TokenAt
  <2> QED BY <2>2, <2>3, <2>4, <2>5, <2>6
<1> QED BY <1>2, <1>7, <1>9 DEF t

\* One token after another.
LEMMA TokensAre ==
  ASSUME NEW A, NEW s, TextOf(s, A)
  PROVE  /\ TokensFrom(s, 0)[1] = ReadToken(s, 0)
         /\ \A i \in 2 .. Len(s) + 1 : TokensFrom(s, 0)[i] = ReadToken(s, TokensFrom(s, 0)[i - 1].end)
         /\ \A i \in 1 .. Len(s) + 1 : TokensFrom(s, 0)[i].end \in 0 .. Len(s)
<1> DEFINE n == Len(s) + 1
           N == Len(s)
           S == {ReadToken(s, p) : p \in 0 .. N} \cup {[type |-> "", start |-> 0, end |-> 0]}
           c == [type |-> "", start |-> 0, end |-> 0]
           step == [x \in S \X (1 .. n) |-> ReadToken(s, x[1].end)]
           token == CHOOSE token : token = [i \in 1 .. n |-> ReadToken(s, IF i = 1 THEN 0 ELSE token[i - 1].end)]
<1>1. N \in Nat /\ n \in Nat /\ 1 \in 1 .. n
  BY DEF TextOf
<1>2. \A t \in S : t.end \in 0 .. N
  <2>1. \A p \in 0 .. N : ReadToken(s, p).end \in 0 .. N
    <3> SUFFICES ASSUME NEW p \in 0 .. N PROVE ReadToken(s, p).end \in 0 .. N
      OBVIOUS
    <3>1. ReadToken(s, p).start \in p .. N /\ ReadToken(s, p).end \in ReadToken(s, p).start .. N
      BY TokenShape
    <3> HIDE DEF N
    <3> QED BY <1>1, <3>1
  <2>2. c.end \in 0 .. N
    BY <1>1
  <2> HIDE DEF N
  <2> QED BY <2>1, <2>2
<1>3. c \in S
  OBVIOUS
<1>4. step \in [S \X (1 .. n) -> S]
  <2> SUFFICES ASSUME NEW x \in S \X (1 .. n) PROVE ReadToken(s, x[1].end) \in S
    OBVIOUS
  <2>1. x[1].end \in 0 .. N
    <3> HIDE DEF S, N
    <3> QED BY <1>2
  <2> HIDE DEF N
  <2> QED BY <2>1
<1> HIDE DEF S, N, c
<1>5. PICK f : Runs(f, n, S, c, step)
  <2> HIDE DEF step, n
  <2> QED BY <1>1, <1>3, <1>4, Recursion
<1>6. f \in [0 .. n -> S] /\ f[0] = c /\ \A i \in 1 .. n : f[i] = ReadToken(s, f[i - 1].end)
  <2>1. f \in [0 .. n -> S] /\ f[0] = c /\ \A i \in 1 .. n : f[i] = step[<<f[i - 1], i>>]
    <3> HIDE DEF step, n
    <3> QED BY <1>5 DEF Runs
  <2>2. ASSUME NEW i \in 1 .. n PROVE f[i] = ReadToken(s, f[i - 1].end)
    <3>1. i - 1 \in 0 .. n
      BY <1>1
    <3>2. <<f[i - 1], i>> \in S \X (1 .. n)
      <4> HIDE DEF n
      <4> QED BY <2>1, <3>1
    <3>3. step[<<f[i - 1], i>>] = ReadToken(s, f[i - 1].end)
      BY <3>2
    <3> HIDE DEF step
    <3> QED BY <2>1, <3>3
  <2> QED BY <2>1, <2>2
<1>7. c.end = 0
  BY DEF c
<1> DEFINE g == [i \in 1 .. n |-> f[i]]
<1>8. g = [i \in 1 .. n |-> ReadToken(s, IF i = 1 THEN 0 ELSE g[i - 1].end)]
  <2>1. ASSUME NEW i \in 1 .. n PROVE f[i] = ReadToken(s, IF i = 1 THEN 0 ELSE g[i - 1].end)
    <3>1. CASE i = 1
      <4>1. f[i] = ReadToken(s, f[0].end)
        BY <1>6, <3>1
      <4> QED BY <1>6, <1>7, <3>1, <4>1
    <3>2. CASE i # 1
      <4>1. i - 1 \in 1 .. n
        BY <1>1, <3>2
      <4>2. g[i - 1] = f[i - 1]
        BY <4>1
      <4> QED BY <1>6, <3>2, <4>2
    <3> QED BY <3>1, <3>2
  <2> QED BY <2>1
<1> HIDE DEF g
<1>9. token = [i \in 1 .. n |-> ReadToken(s, IF i = 1 THEN 0 ELSE token[i - 1].end)]
  BY <1>8
<1>10. TokensFrom(s, 0) = token
  BY DEF TokensFrom
<1> HIDE DEF token
<1>11. ASSUME NEW i \in 1 .. n PROVE token[i] = ReadToken(s, IF i = 1 THEN 0 ELSE token[i - 1].end)
  BY <1>9
<1>12. token[1] = ReadToken(s, 0)
  BY <1>1, <1>11
<1>13. \A i \in 2 .. n : token[i] = ReadToken(s, token[i - 1].end)
  <2> SUFFICES ASSUME NEW i \in 2 .. n PROVE token[i] = ReadToken(s, token[i - 1].end)
    OBVIOUS
  <2>1. i \in 1 .. n /\ i # 1
    BY <1>1
  <2> QED BY <1>11, <2>1
<1> DEFINE Has == {m \in Nat : m + 1 \in 1 .. n => token[m + 1].end \in 0 .. N}
<1>14. \A p \in 0 .. N : ReadToken(s, p).end \in 0 .. N
  BY <1>2 DEF S
<1>15. 0 \in Has
  BY <1>1, <1>12, <1>14
<1>16. ASSUME NEW m \in Has PROVE m + 1 \in Has
  <2> SUFFICES ASSUME (m + 1) + 1 \in 1 .. n PROVE token[(m + 1) + 1].end \in 0 .. N
    OBVIOUS
  <2>1. m \in Nat /\ m + 1 \in 1 .. n /\ (m + 1) + 1 \in 2 .. n /\ ((m + 1) + 1) - 1 = m + 1
    BY <1>1
  <2>2. token[m + 1].end \in 0 .. N
    BY <2>1
  <2> HIDE DEF Has, n
  <2> QED BY <1>13, <1>14, <2>1, <2>2
<1>17. \A m \in Nat : m \in Has
  <2>1. Has \in SUBSET Nat
    OBVIOUS
  <2> HIDE DEF Has
  <2> QED BY <1>15, <1>16, <2>1, SetInduction
<1>18. \A i \in 1 .. n : token[i].end \in 0 .. N
  <2> SUFFICES ASSUME NEW i \in 1 .. n PROVE token[i].end \in 0 .. N
    OBVIOUS
  <2>1. i - 1 \in Nat /\ (i - 1) + 1 = i
    BY <1>1
  <2> QED BY <1>17, <2>1
<1> QED BY <1>10, <1>12, <1>13, <1>18 DEF N

LEMMA CutHolds ==
  ASSUME NEW A, NEW s, TextOf(s, A)
  PROVE  LET tokens == TokensFrom(s, 0)
             End(i) == IF i = 0 THEN 0 ELSE tokens[i].end
         IN  /\ tokens[Len(s) + 1].type = "eos"
             /\ \A i \in 1 .. Len(s) + 1 :
                  /\ tokens[i].type = "eos" \/ tokens[i].end > End(i - 1)
                  /\ \A p \in End(i - 1) .. tokens[i].start - 1 : CharAt(s, p) \in Blanks
             /\ s # <<>> =>
                  LET cut == TokensFrom(Front(s), 0)
                  IN  \A i \in 1 .. Len(s) :
                        tokens[i].end < Len(s) => cut[i] = tokens[i]
<1> DEFINE tokens == TokensFrom(s, 0)
           N == Len(s)
           n == Len(s) + 1
           End(i) == IF i = 0 THEN 0 ELSE tokens[i].end
<1>1. N \in Nat /\ n = N + 1 /\ 1 \in 1 .. n
  BY DEF TextOf
<1>2. /\ tokens[1] = ReadToken(s, 0)
      /\ \A i \in 2 .. n : tokens[i] = ReadToken(s, tokens[i - 1].end)
      /\ \A i \in 1 .. n : tokens[i].end \in 0 .. N
  BY TokensAre
<1> HIDE DEF tokens
<1>3. ASSUME NEW i \in 1 .. n
      PROVE  End(i - 1) \in 0 .. N /\ tokens[i] = ReadToken(s, End(i - 1)) /\ End(i) = tokens[i].end
  <2>1. CASE i = 1
    BY <1>1, <1>2, <2>1
  <2>2. CASE i # 1
    <3>1. i - 1 \in 1 .. n /\ i \in 2 .. n /\ i - 1 # 0 /\ i # 0
      BY <1>1, <2>2
    <3> HIDE DEF n, N
    <3> QED BY <1>2, <3>1
  <2> QED BY <2>1, <2>2
<1> HIDE DEF End, n
<1>4. ASSUME NEW i \in 1 .. n
      PROVE  /\ tokens[i].start \in End(i - 1) .. N /\ RowIn(s, End(i - 1), tokens[i].start, Blanks)
             /\ End(i) \in tokens[i].start .. N
             /\ tokens[i].start < N => End(i) > tokens[i].start
             /\ tokens[i].type = "eos" <=> tokens[i].start = N
  <2>1. End(i - 1) \in 0 .. N /\ tokens[i] = ReadToken(s, End(i - 1)) /\ End(i) = tokens[i].end
    BY <1>3
  <2> QED BY <2>1, TokenShape
<1>5. \A i \in 1 .. n : End(i - 1) \in 0 .. N
  BY <1>3
<1> HIDE DEF N
<1>6. ASSUME NEW i \in 1 .. n
      PROVE  tokens[i].type = "eos" \/ tokens[i].end > End(i - 1)
  <2>1. End(i - 1) \in Nat /\ tokens[i].start \in Nat /\ End(i) \in Nat /\ tokens[i].start <= N
        /\ End(i - 1) <= tokens[i].start
    BY <1>1, <1>4, <1>5
  <2>2. End(i) = tokens[i].end
    BY <1>3
  <2> QED BY <1>1, <1>4, <2>1, <2>2
<1>7. tokens[n].type = "eos"
  <2> DEFINE Has == {m \in Nat : m <= N => End(m) >= m}
  <2>1. 0 \in Has
    BY DEF End
  <2>2. ASSUME NEW m \in Has PROVE m + 1 \in Has
    <3> SUFFICES ASSUME m + 1 <= N PROVE End(m + 1) >= m + 1
      OBVIOUS
    <3>1. m \in Nat /\ m + 1 \in 1 .. n /\ (m + 1) - 1 = m /\ End(m) >= m
      BY <1>1
    <3>2. End(m) \in 0 .. N
      BY <1>5, <3>1
    <3> DEFINE st == tokens[m + 1].start
    <3>3. /\ st \in End(m) .. N
          /\ End(m + 1) \in st .. N
          /\ st < N => End(m + 1) > st
      BY <1>4, <3>1
    <3> HIDE DEF st, Has
    <3> QED BY <1>1, <3>1, <3>2, <3>3
  <2>3. N \in Has
    <3>1. Has \in SUBSET Nat
      OBVIOUS
    <3> HIDE DEF Has
    <3> QED BY <1>1, <2>1, <2>2, <3>1, SetInduction
  <2>4. n \in 1 .. n /\ n - 1 = N
    BY <1>1
  <2>5. End(N) \in 0 .. N /\ End(N) >= N
    BY <1>1, <1>5, <2>3, <2>4
  <2>6. tokens[n].start \in End(N) .. N
    BY <1>4, <2>4
  <2>7. tokens[n].start = N
    BY <1>1, <2>5, <2>6
  <2> QED BY <1>4, <2>4, <2>7
<1>8. ASSUME s # <<>>, NEW i \in 1 .. N, tokens[i].end < N
      PROVE  TokensFrom(Front(s), 0)[i] = tokens[i]
  <2> DEFINE u == Front(s)
             cut == TokensFrom(u, 0)
             Has == {m \in Nat : m + 1 <= N => (tokens[m + 1].end < N => cut[m + 1] = tokens[m + 1])}
  <2>1. CutOf(u, s, A)
    BY <1>8, FrontIs
  <2> HIDE DEF u
  <2>2. TextOf(u, A) /\ Len(u) \in Nat /\ N = Len(u) + 1
    BY <2>1 DEF CutOf, TextOf, N
  <2>3. /\ cut[1] = ReadToken(u, 0)
        /\ \A k \in 2 .. N : cut[k] = ReadToken(u, cut[k - 1].end)
    BY <2>2, TokensAre
  <2> HIDE DEF cut
  <2>4. ASSUME NEW p \in 0 .. Len(u), ReadToken(s, p).end < N PROVE ReadToken(u, p) = ReadToken(s, p)
    BY <2>1, <2>4, TokenCut DEF N
  <2>5. 0 \in Has
    <3> SUFFICES ASSUME tokens[1].end < N PROVE cut[1] = tokens[1]
      OBVIOUS
    <3>1. 0 \in 0 .. Len(u)
      BY <2>2
    <3> QED BY <1>2, <2>3, <2>4, <3>1
  <2>6. ASSUME NEW m \in Has PROVE m + 1 \in Has
    <3> SUFFICES ASSUME (m + 1) + 1 <= N, tokens[(m + 1) + 1].end < N
                 PROVE  cut[(m + 1) + 1] = tokens[(m + 1) + 1]
      OBVIOUS
    <3> DEFINE k == (m + 1) + 1
    <3>1. /\ m \in Nat /\ k \in 2 .. N /\ k \in 1 .. n /\ k - 1 = m + 1 /\ m + 1 # 0 /\ m + 1 <= N
          /\ m + 1 \in 1 .. n
      BY <1>1
    <3> HIDE DEF k
    <3>2. End(m + 1) \in 0 .. N /\ tokens[k] = ReadToken(s, End(m + 1)) /\ End(k) = tokens[k].end
      BY <1>3, <3>1
    <3>3. tokens[k].start \in End(m + 1) .. N /\ End(k) \in tokens[k].start .. N
      BY <1>4, <3>1
    <3>4. tokens[k].end < N
      BY DEF k
    <3>5. End(m + 1) < N
      BY <1>1, <3>2, <3>3, <3>4
    <3>6. tokens[m + 1].end = End(m + 1)
      BY <3>1 DEF End
    <3>7. cut[m + 1] = tokens[m + 1]
      BY <3>1, <3>5, <3>6
    <3>8. End(m + 1) \in 0 .. Len(u)
      BY <1>1, <2>2, <3>2, <3>5
    <3>9. cut[k] = ReadToken(u, End(m + 1))
      BY <2>3, <3>1, <3>6, <3>7
    <3>10. ReadToken(u, End(m + 1)) = ReadToken(s, End(m + 1))
      BY <2>4, <3>2, <3>4, <3>8
    <3> QED BY <3>2, <3>9, <3>10 DEF k
  <2>7. \A m \in Nat : m \in Has
    <3>1. Has \in SUBSET Nat
      OBVIOUS
    <3> HIDE DEF Has
    <3> QED BY <2>5, <2>6, <3>1, SetInduction
  <2>8. i - 1 \in Nat /\ (i - 1) + 1 = i /\ i <= N
    BY <1>1
  <2>9. cut[i] = tokens[i]
    <3>1. (i - 1) + 1 <= N => (tokens[(i - 1) + 1].end < N => cut[(i - 1) + 1] = tokens[(i - 1) + 1])
      BY <2>7, <2>8
    <3> QED BY <1>8, <2>8, <3>1
  <2> QED BY <2>9 DEF cut, u
<1>9. \A i \in 1 .. n : \A p \in End(i - 1) .. tokens[i].start - 1 : CharAt(s, p) \in Blanks
  BY <1>4 DEF RowIn
<1> QED BY <1>6, <1>7, <1>8, <1>9 DEF N, n, tokens, End

(* A text falls into its tokens, whole or cut: a number token is the longest
   beginning that looks like a number, a comment ends with its first end, and
   a text without its last character has the same tokens up to the cut one,
   for every text (readToken, readNumber, readCStyleComment). *)
THEOREM TokensKeptCorrect == TextsSpec => []TokensKept
<1> DEFINE Good == Lexical => TextOf(chars, Alphabet[sort])
<1>1. NoText => Good
  BY AlphabetsAre DEF NoText, TextOf, AlphabetsOf, Lexical
<1>2. Good /\ [Extend]_<<sort, chars>> => Good'
  <2> SUFFICES ASSUME Good, [Extend]_<<sort, chars>> PROVE Good'
    OBVIOUS
  <2>1. CASE Extend
    <3>1. PICK x \in Alphabet[sort] : chars' = Append(chars, x)
      BY <2>1 DEF Extend
    <3>2. sort' = sort
      BY <2>1 DEF Extend
    <3> QED BY <3>1, <3>2 DEF TextOf, Lexical
  <2>2. CASE UNCHANGED <<sort, chars>>
    BY <2>2 DEF Lexical
  <2> QED BY <2>1, <2>2
<1>3. Good => TokensKept
  <2> SUFFICES ASSUME Good PROVE TokensKept
    OBVIOUS
  <2>1. CASE Lexical
    <3> DEFINE A == Alphabet[sort]
    <3>1. TextOf(chars, A)
      BY <2>1
    <3> HIDE DEF A
    <3>2. LongestNumber
      BY <3>1, LongestHolds DEF LongestNumber
    <3>3. CommentCloses
      BY <3>1, CommentHolds DEF CommentCloses
    <3>4. CutKeepsTokens
      BY <3>1, CutHolds DEF CutKeepsTokens
    <3> QED BY <3>2, <3>3, <3>4 DEF TokensKept
  <2>2. CASE ~Lexical
    BY <2>2 DEF TokensKept, LongestNumber, CommentCloses, CutKeepsTokens
  <2> QED BY <2>1, <2>2
<1> QED BY <1>1, <1>2, <1>3, PTL DEF TextsSpec
-----------------------------------------------------------------------------
(* Strings. *)

\* A text has the characters e behind position p.
Lies(s, p, e) ==
  /\ Len(s) \in Nat /\ p \in Nat /\ Len(e) \in Nat
  /\ p + Len(e) <= Len(s)
  /\ \A j \in 1 .. Len(e) : s[p + j] = e[j]

LEMMA HexBack ==
  ASSUME NEW x \in 0 .. 15
  PROVE  HexDigit(x) \in 48 .. 70 /\ HexValue(HexDigit(x)) = x
<1>1. CASE x < 10
  <2>1. HexDigit(x) = 48 + x /\ 48 + x \in 48 .. 57
    BY <1>1 DEF HexDigit
  <2> QED BY <1>1, <2>1 DEF HexValue
<1>2. CASE ~(x < 10)
  <2>1. HexDigit(x) = 55 + x /\ 55 + x \in 65 .. 70
    BY <1>2 DEF HexDigit
  <2> QED BY <1>2, <2>1 DEF HexValue
<1> QED BY <1>1, <1>2

LEMMA DivMod ==
  ASSUME NEW u \in Nat, NEW b \in Nat \ {0}
  PROVE  u \div b \in Nat /\ u % b \in 0 .. b - 1 /\ u = b * (u \div b) + (u % b)
  OBVIOUS

LEMMA DigitsOfCode ==
  ASSUME NEW u \in Code
  PROVE  /\ (u \div 4096) % 16 \in 0 .. 15
         /\ (u \div 256) % 16 \in 0 .. 15
         /\ (u \div 16) % 16 \in 0 .. 15
         /\ u % 16 \in 0 .. 15
<1>1. \A m \in Nat : m % 16 \in 0 .. 15
  OBVIOUS
<1>2. u \in Nat
  BY DEF Code
<1>3. u \div 4096 \in Nat
  BY <1>2, DivMod, 4096 \in Nat \ {0}
<1>4. u \div 256 \in Nat
  BY <1>2, DivMod, 256 \in Nat \ {0}
<1>5. u \div 16 \in Nat
  BY <1>2, DivMod, 16 \in Nat \ {0}
<1> QED BY <1>1, <1>2, <1>3, <1>4, <1>5

\* The four digits of an escape.
LEMMA EscapeOf ==
  ASSUME NEW u \in Code
  PROVE  /\ UnicodeEscape(u) \in Seq(Byte) /\ Len(UnicodeEscape(u)) = 6
         /\ UnicodeEscape(u)[1] = 92 /\ UnicodeEscape(u)[2] = 117
         /\ \A j \in 3 .. 6 : UnicodeEscape(u)[j] \in 48 .. 70
         /\ UnicodeEscape(u)[3] = HexDigit((u \div 4096) % 16)
         /\ UnicodeEscape(u)[4] = HexDigit((u \div 256) % 16)
         /\ UnicodeEscape(u)[5] = HexDigit((u \div 16) % 16)
         /\ UnicodeEscape(u)[6] = HexDigit(u % 16)
<1> DEFINE a == HexDigit((u \div 4096) % 16)
           b == HexDigit((u \div 256) % 16)
           c == HexDigit((u \div 16) % 16)
           f == HexDigit(u % 16)
<1>1. (u \div 4096) % 16 \in 0 .. 15 /\ (u \div 256) % 16 \in 0 .. 15 /\ (u \div 16) % 16 \in 0 .. 15 /\ u % 16 \in 0 .. 15
  BY DigitsOfCode
<1>2. a \in 48 .. 70 /\ b \in 48 .. 70 /\ c \in 48 .. 70 /\ f \in 48 .. 70
  BY <1>1, HexBack
<1>3. UnicodeEscape(u) = <<92, 117>> \o <<a, b, c, f>>
  BY DEF UnicodeEscape, Hex4, Backslash, LetterU
<1> HIDE DEF a, b, c, f
<1> DEFINE h == <<92, 117>>
           t == <<a, b, c, f>>
           e == h \o t
<1>4. h \in Seq(Byte) /\ Len(h) = 2 /\ h[1] = 92 /\ h[2] = 117
  BY DEF Byte
<1>5. t \in Seq(Byte) /\ Len(t) = 4 /\ t[1] = a /\ t[2] = b /\ t[3] = c /\ t[4] = f
  BY <1>2 DEF Byte
<1> HIDE DEF h, t
<1>6. e \in Seq(Byte)
  BY <1>4, <1>5, ConcatProperties
<1>7. Grows(h, e, t)
  BY <1>4, <1>5, ConcatGrows
<1> HIDE DEF e
<1>8. Len(e) = 6 /\ e[1] = 92 /\ e[2] = 117
  BY <1>4, <1>5, <1>7 DEF Grows
<1>9. e[2 + 1] = a /\ e[2 + 2] = b /\ e[2 + 3] = c /\ e[2 + 4] = f
  BY <1>4, <1>5, <1>7 DEF Grows
<1>10. e[3] = a /\ e[4] = b /\ e[5] = c /\ e[6] = f
  BY <1>9
<1>11. \A j \in 3 .. 6 : e[j] \in 48 .. 70
  <2>1. \A j \in 3 .. 6 : j = 3 \/ j = 4 \/ j = 5 \/ j = 6
    OBVIOUS
  <2> QED BY <1>2, <1>10, <2>1
<1>12. UnicodeEscape(u) = e
  BY <1>3 DEF e, h, t
<1> QED BY <1>6, <1>8, <1>10, <1>11, <1>12 DEF a, b, c, f

LEMMA FourDigits ==
  ASSUME NEW u \in Code
  PROVE  16 * (16 * (16 * ((u \div 4096) % 16) + ((u \div 256) % 16)) + ((u \div 16) % 16)) + (u % 16) = u
<1> DEFINE q == u \div 16
           r == q \div 16
           t == r \div 16
           x == u % 16
           y == q % 16
           z == r % 16
<1>0. u \in Nat /\ u <= 65535
  BY DEF Code
<1>1. q \in Nat /\ x \in 0 .. 15 /\ u = 16 * q + x
  BY <1>0, DivMod, 16 \in Nat \ {0}
<1>2. r \in Nat /\ y \in 0 .. 15 /\ q = 16 * r + y
  <2> HIDE DEF q
  <2>1. q \in Nat /\ 16 \in Nat \ {0}
    BY <1>1
  <2>2. q \div 16 \in Nat /\ q % 16 \in 0 .. 16 - 1 /\ q = 16 * (q \div 16) + (q % 16)
    BY <2>1, DivMod
  <2> QED BY <2>2
<1>3. t \in Nat /\ z \in 0 .. 15 /\ r = 16 * t + z
  <2> HIDE DEF r
  <2>1. r \in Nat /\ 16 \in Nat \ {0}
    BY <1>2
  <2>2. r \div 16 \in Nat /\ r % 16 \in 0 .. 16 - 1 /\ r = 16 * (r \div 16) + (r % 16)
    BY <2>1, DivMod
  <2> QED BY <2>2
<1>5. u \div 256 = r
  <2> HIDE DEF q, r, x, y
  <2>1. 256 * r <= u /\ u < 256 * r + 256
    BY <1>1, <1>2
  <2> QED BY <1>0, <1>2, <2>1
<1>6. u \div 4096 = t
  <2> HIDE DEF q, r, t, x, y, z
  <2>1. 4096 * t <= u /\ u < 4096 * t + 4096
    BY <1>1, <1>2, <1>3
  <2> QED BY <1>0, <1>3, <2>1
<1>7. t % 16 = t
  <2> HIDE DEF q, r, t, x, y, z
  <2>1. t <= 15
    BY <1>0, <1>1, <1>2, <1>3
  <2> QED BY <1>3, <2>1
<1>8. 16 * (16 * (16 * t + z) + y) + x = u
  <2> HIDE DEF q, r, t, x, y, z
  <2> QED BY <1>1, <1>2, <1>3
<1> QED BY <1>5, <1>6, <1>7, <1>8

\* They are read back as the number.
LEMMA HexAtIs ==
  ASSUME NEW u \in Code, NEW s, NEW p \in Nat, Lies(s, p, UnicodeEscape(u))
  PROVE  /\ p + 6 <= Len(s) /\ s[p + 1] = 92 /\ s[p + 2] = 117
         /\ \A j \in 3 .. 6 : s[p + j] \in 48 .. 70
         /\ HexAt(s, p + 2) = u
<1> DEFINE e == UnicodeEscape(u)
<1>1. /\ Len(e) = 6 /\ e[1] = 92 /\ e[2] = 117
      /\ \A j \in 3 .. 6 : e[j] \in 48 .. 70
      /\ e[3] = HexDigit((u \div 4096) % 16) /\ e[4] = HexDigit((u \div 256) % 16)
      /\ e[5] = HexDigit((u \div 16) % 16) /\ e[6] = HexDigit(u % 16)
  BY EscapeOf
<1>2. Len(s) \in Nat /\ p + Len(e) <= Len(s) /\ \A j \in 1 .. Len(e) : s[p + j] = e[j]
  BY DEF Lies
<1> HIDE DEF e
<1>3. s[p + 1] = e[1] /\ s[p + 2] = e[2] /\ s[p + 3] = e[3] /\ s[p + 4] = e[4] /\ s[p + 5] = e[5] /\ s[p + 6] = e[6]
  BY <1>1, <1>2
<1>4. ASSUME NEW j \in 3 .. 6 PROVE s[p + j] \in 48 .. 70
  <2>1. j \in 1 .. Len(e)
    BY <1>1
  <2>2. e[j] \in 48 .. 70
    BY <1>1
  <2> QED BY <1>2, <2>1, <2>2
<1> DEFINE a == (u \div 4096) % 16
           b == (u \div 256) % 16
           c == (u \div 16) % 16
           f == u % 16
<1>5. a \in 0 .. 15 /\ b \in 0 .. 15 /\ c \in 0 .. 15 /\ f \in 0 .. 15
  BY DigitsOfCode
<1>6. 16 * (16 * (16 * a + b) + c) + f = u
  BY FourDigits
<1>7. s[p + 3] = HexDigit(a) /\ s[p + 4] = HexDigit(b) /\ s[p + 5] = HexDigit(c) /\ s[p + 6] = HexDigit(f)
  BY <1>1, <1>3
<1> HIDE DEF a, b, c, f
<1> DEFINE v(i) == HexValue(s[p + 2 + i])
<1>8. v(1) = a /\ v(2) = b /\ v(3) = c /\ v(4) = f
  <2>1. p + 2 + 1 = p + 3 /\ p + 2 + 2 = p + 4 /\ p + 2 + 3 = p + 5 /\ p + 2 + 4 = p + 6
    OBVIOUS
  <2> QED BY <1>5, <1>7, <2>1, HexBack
<1>9. \A i \in 1 .. 4 : v(i) # -1
  BY <1>5, <1>8
<1>10. ~(Len(s) - (p + 2) < 4)
  BY <1>1, <1>2
<1>11. HexAt(s, p + 2) = IF Len(s) - (p + 2) < 4 \/ \E i \in 1 .. 4 : v(i) = -1 THEN -1
                         ELSE 16 * (16 * (16 * v(1) + v(2)) + v(3)) + v(4)
  BY DEF HexAt
<1> HIDE DEF v
<1>12. HexAt(s, p + 2) = u
  BY <1>6, <1>8, <1>9, <1>10, <1>11
<1> QED BY <1>1, <1>2, <1>3, <1>4, <1>12

\* The letters of the escapes, each of one character.
LEMMA LetterIs ==
  ASSUME NEW a, NEW b, <<a, b>> \in Letters
  PROVE  /\ a \in 0 .. 255 /\ b \in 0 .. 255 /\ b \notin {47, 117}
         /\ HasLetter(a) /\ LetterOf(a) = b
         /\ \E e \in Letters : e[2] = b
         /\ (CHOOSE c \in 0 .. 255 : <<c, b>> \in Letters) = a
<1> DEFINE pair == <<a, b>>
<1>0. \A x, y : <<x, y>> \in Letters <=>
           \/ (x = 34 /\ y = 34)
           \/ (x = 92 /\ y = 92)
           \/ (x = 8 /\ y = 98)
           \/ (x = 12 /\ y = 102)
           \/ (x = 10 /\ y = 110)
           \/ (x = 13 /\ y = 114)
           \/ (x = 9 /\ y = 116)
  <2> TAKE x, y
  <2> DEFINE m == <<x, y>>
  <2>1. m \in Letters <=> \/ m = <<34, 34>> \/ m = <<92, 92>>   \/ m = <<8, 98>> \/ m = <<12, 102>>
                          \/ m = <<10, 110>> \/ m = <<13, 114>> \/ m = <<9, 116>>
    <3> HIDE DEF m
    <3> QED BY DEF Letters
  <2>2. /\ m = <<34, 34>> <=> x = 34 /\ y = 34
        /\ m = <<92, 92>> <=> x = 92 /\ y = 92
        /\ m = <<8, 98>> <=> x = 8 /\ y = 98
        /\ m = <<12, 102>> <=> x = 12 /\ y = 102
        /\ m = <<10, 110>> <=> x = 10 /\ y = 110
        /\ m = <<13, 114>> <=> x = 13 /\ y = 114
        /\ m = <<9, 116>> <=> x = 9 /\ y = 116
    OBVIOUS
  <2> HIDE DEF m
  <2>3. m \in Letters <=>
           \/ (x = 34 /\ y = 34)
           \/ (x = 92 /\ y = 92)
           \/ (x = 8 /\ y = 98)
           \/ (x = 12 /\ y = 102)
           \/ (x = 10 /\ y = 110)
           \/ (x = 13 /\ y = 114)
           \/ (x = 9 /\ y = 116)
    BY <2>1, <2>2
  <2> QED BY <2>3 DEF m
<1>1. \/ (a = 34 /\ b = 34)
      \/ (a = 92 /\ b = 92)
      \/ (a = 8 /\ b = 98)
      \/ (a = 12 /\ b = 102)
      \/ (a = 10 /\ b = 110)
      \/ (a = 13 /\ b = 114)
      \/ (a = 9 /\ b = 116)
  BY <1>0
<1>2. \A x : <<a, x>> \in Letters => x = b
  BY <1>0, <1>1
<1>3. \A x : <<x, b>> \in Letters => x = a
  BY <1>0, <1>1
<1>4. a \in 0 .. 255 /\ b \in 0 .. 255 /\ b \notin {47, 117}
  BY <1>1
<1>5. pair \in Letters /\ pair[1] = a /\ pair[2] = b
  OBVIOUS
<1>6. LetterOf(a) = b
  BY <1>2, <1>4 DEF LetterOf
<1>7. (CHOOSE c \in 0 .. 255 : <<c, b>> \in Letters) = a
  BY <1>3, <1>4
<1>8. HasLetter(a) /\ \E e \in Letters : e[2] = b
  <2> HIDE DEF pair
  <2> QED BY <1>5 DEF HasLetter
<1> QED BY <1>4, <1>6, <1>7, <1>8

\* What is written of a character.
Plain(c)   == Escape(c) = <<c>> /\ c \notin {34, 92}
Lettered(c) == Escape(c) = <<92, LetterOf(c)>> /\ <<c, LetterOf(c)>> \in Letters
ByCode(c)  == Escape(c) = UnicodeEscape(c) /\ c \in 0 .. 31

LEMMA EscapeIs ==
  ASSUME NEW c \in Byte
  PROVE  Plain(c) \/ Lettered(c) \/ ByCode(c)
<1>1. CASE HasLetter(c)
  <2>1. PICK e \in Letters : e[1] = c
    BY <1>1 DEF HasLetter
  <2>2. e = <<c, e[2]>>
    BY <2>1 DEF Letters
  <2>3. <<c, LetterOf(c)>> \in Letters
    <3> DEFINE b == e[2]
    <3>1. <<c, b>> \in Letters
      BY <2>2
    <3> HIDE DEF b
    <3>2. LetterOf(c) = b
      BY <3>1, LetterIs
    <3> QED BY <3>1, <3>2
  <2> QED BY <1>1, <2>3 DEF Lettered, Escape, Backslash
<1>2. CASE ~HasLetter(c) /\ c <= 31
  <2>1. c \in 0 .. 31
    BY <1>2 DEF Byte
  <2> QED BY <1>2, <2>1 DEF ByCode, Escape
<1>3. CASE ~HasLetter(c) /\ ~(c <= 31)
  <2>1. c \notin {34, 92}
    <3>1. <<34, 34>> \in Letters /\ <<92, 92>> \in Letters
      BY DEF Letters
    <3>2. HasLetter(34) /\ HasLetter(92)
      BY <3>1, LetterIs
    <3> QED BY <1>3, <3>2
  <2> QED BY <1>3, <2>1 DEF Plain, Escape
<1> QED BY <1>1, <1>2, <1>3

LEMMA EscapeBytes ==
  ASSUME NEW c \in Byte
  PROVE  Escape(c) \in Seq(Byte) /\ Len(Escape(c)) \in 1 .. 6
<1>1. CASE Plain(c)
  BY <1>1 DEF Plain
<1>2. CASE Lettered(c)
  <2> DEFINE b == LetterOf(c)
  <2>1. b \in Byte
    BY <1>2, LetterIs DEF Lettered, Byte
  <2> HIDE DEF b
  <2>2. <<92, b>> \in Seq(Byte) /\ Len(<<92, b>>) = 2
    BY <2>1 DEF Byte
  <2> QED BY <1>2, <2>2 DEF Lettered, b
<1>3. CASE ByCode(c)
  <2>1. c \in Code
    BY DEF Byte, Code
  <2> QED BY <1>3, <2>1, EscapeOf DEF ByCode
<1> QED BY <1>1, <1>2, <1>3, EscapeIs

\* What readString makes of the rest of a text from a position on.
ReadAt(s, read, i) ==
  IF i = Len(s) THEN [ok |-> FALSE, end |-> i]
  ELSE IF s[i + 1] = Backslash
    THEN IF i + 1 = Len(s) THEN [ok |-> FALSE, end |-> i + 1] ELSE read[i + 2]
  ELSE IF s[i + 1] = Quote THEN [ok |-> TRUE, end |-> i + 1]
  ELSE read[i + 1]

Reads(read, s) == \A i \in 0 .. Len(s) : read[i] = ReadAt(s, read, i)

LEMMA ReadsIs ==
  ASSUME NEW s, Len(s) \in Nat
  PROVE  \E read : Reads(read, s) /\ ReadString(s) = read[0]
<1> DEFINE n == Len(s)
           Eq(f, m) == f = [i \in n - m .. n |-> ReadAt(s, f, i)]
           Has == {m \in Nat : m <= n => \E f : Eq(f, m)}
<1>1. \A f : ReadAt(s, f, n) = [ok |-> FALSE, end |-> n]
  BY DEF ReadAt
<1>2. 0 \in Has
  <2> DEFINE f == [i \in n - 0 .. n |-> [ok |-> FALSE, end |-> n]]
  <2>1. \A i \in n - 0 .. n : i = n
    OBVIOUS
  <2>2. Eq(f, 0)
    <3>1. \A h : \A i \in n - 0 .. n : ReadAt(s, h, i) = [ok |-> FALSE, end |-> n]
      BY <1>1, <2>1
    <3>2. \A h : [i \in n - 0 .. n |-> ReadAt(s, h, i)] = f
      BY <3>1
    <3> HIDE DEF f
    <3> QED BY <3>2
  <2> HIDE DEF f, Eq
  <2> QED BY <2>2
<1>3. ASSUME NEW m \in Has PROVE m + 1 \in Has
  <2> SUFFICES ASSUME m + 1 <= n PROVE \E f : Eq(f, m + 1)
    OBVIOUS
  <2>1. PICK f : Eq(f, m)
    OBVIOUS
  <2> DEFINE g == [i \in n - (m + 1) .. n |-> ReadAt(s, f, i)]
  <2>2. ASSUME NEW i \in n - m .. n PROVE g[i] = f[i]
    <3>1. i \in n - (m + 1) .. n
      OBVIOUS
    <3>2. f[i] = ReadAt(s, f, i)
      BY <2>1
    <3> QED BY <3>1, <3>2
  <2>3. ASSUME NEW i \in n - (m + 1) .. n PROVE ReadAt(s, g, i) = ReadAt(s, f, i)
    <3>1. CASE i = n
      BY <1>1, <3>1
    <3>2. CASE i # n
      <4>1. i + 1 \in n - m .. n /\ (i + 1 # n => i + 2 \in n - m .. n)
        BY <3>2
      <4>2. g[i + 1] = f[i + 1] /\ (i + 1 # n => g[i + 2] = f[i + 2])
        <5> HIDE DEF g
        <5> QED BY <2>2, <4>1
      <4> HIDE DEF g
      <4> QED BY <4>2 DEF ReadAt
    <3> QED BY <3>1, <3>2
  <2>4. Eq(g, m + 1)
    <3>1. g = [i \in n - (m + 1) .. n |-> ReadAt(s, f, i)]
      OBVIOUS
    <3> HIDE DEF g
    <3> QED BY <2>3, <3>1
  <2> HIDE DEF g, Eq
  <2> QED BY <2>4
<1>4. n \in Has
  <2>1. Has \in SUBSET Nat
    OBVIOUS
  <2> HIDE DEF Has
  <2> QED BY <1>2, <1>3, <2>1, SetInduction
<1>5. PICK f : Eq(f, n)
  <2> HIDE DEF Eq
  <2> QED BY <1>4
<1> DEFINE read == CHOOSE d : d = [i \in 0 .. n |-> ReadAt(s, d, i)]
<1>6. f = [i \in 0 .. n |-> ReadAt(s, f, i)]
  <2>1. n - n = 0
    OBVIOUS
  <2> QED BY <1>5, <2>1
<1>7. read = [i \in 0 .. n |-> ReadAt(s, read, i)]
  BY <1>6
<1>8. ReadString(s) = read[0]
  BY DEF ReadString, ReadAt
<1> HIDE DEF read
<1>9. Reads(read, s)
  BY <1>7 DEF Reads
<1> QED BY <1>8, <1>9

\* What is written of a character is read to its end.
LEMMA ReadOne ==
  ASSUME NEW s, NEW read, Reads(read, s), NEW c \in Byte, NEW p, Lies(s, p, Escape(c))
  PROVE  read[p] = read[p + Len(Escape(c))]
<1>1. /\ Len(s) \in Nat /\ p \in Nat
      /\ \A i \in 0 .. Len(s) : read[i] = ReadAt(s, read, i)
  BY DEF Reads, Lies
<1>2. CASE Plain(c)
  <2>1. Len(Escape(c)) = 1 /\ Escape(c)[1] = c
    BY <1>2 DEF Plain
  <2>2. s[p + 1] = c /\ p \in 0 .. Len(s) /\ p # Len(s)
    BY <1>1, <2>1 DEF Lies
  <2>3. read[p] = read[p + 1]
    BY <1>1, <1>2, <2>2 DEF ReadAt, Plain, Quote, Backslash
  <2> QED BY <2>1, <2>3
<1>3. CASE Lettered(c)
  <2>1. Len(Escape(c)) = 2 /\ Escape(c)[1] = 92
    BY <1>3 DEF Lettered
  <2>2. s[p + 1] = 92 /\ p \in 0 .. Len(s) /\ p # Len(s) /\ p + 1 # Len(s)
    BY <1>1, <2>1 DEF Lies
  <2>3. read[p] = read[p + 2]
    BY <1>1, <2>2 DEF ReadAt, Quote, Backslash
  <2> QED BY <2>1, <2>3
<1>4. CASE ByCode(c)
  <2>1. Escape(c) = UnicodeEscape(c) /\ c \in Code
    BY <1>4 DEF ByCode, Byte, Code
  <2>2. /\ p + 6 <= Len(s) /\ s[p + 1] = 92
        /\ \A j \in 3 .. 6 : s[p + j] \in 48 .. 70
    BY <1>1, <2>1, HexAtIs
  <2>3. Len(Escape(c)) = 6
    BY <2>1, EscapeOf
  <2>4. read[p] = read[p + 2]
    <3>1. p \in 0 .. Len(s) /\ p # Len(s) /\ p + 1 # Len(s)
      BY <1>1, <2>2
    <3> QED BY <1>1, <2>2, <3>1 DEF ReadAt, Quote, Backslash
  <2>5. ASSUME NEW j \in 2 .. 5 PROVE read[p + j] = read[(p + j) + 1]
    <3>1. j + 1 \in 3 .. 6 /\ p + (j + 1) = (p + j) + 1
      BY <1>1
    <3>2. s[(p + j) + 1] \notin {34, 92}
      <4>1. s[p + (j + 1)] \in 48 .. 70
        BY <2>2, <3>1
      <4> QED BY <3>1, <4>1
    <3>3. p + j \in 0 .. Len(s) /\ p + j # Len(s)
      BY <1>1, <2>2
    <3> QED BY <1>1, <3>2, <3>3 DEF ReadAt, Quote, Backslash
  <2>6. (p + 2) + 1 = p + 3 /\ (p + 3) + 1 = p + 4 /\ (p + 4) + 1 = p + 5 /\ (p + 5) + 1 = p + 6
    BY <1>1
  <2>7. read[p + 2] = read[p + 3] /\ read[p + 3] = read[p + 4] /\ read[p + 4] = read[p + 5] /\ read[p + 5] = read[p + 6]
    BY <2>5, <2>6
  <2> QED BY <2>3, <2>4, <2>7
<1> QED BY <1>2, <1>3, <1>4, EscapeIs

\* What decodeString makes of the rest of a text from a position on.
Leading(c, rest) == [rest EXCEPT !.str = c \o @]

UnescapeAt(s, d, i) ==
  IF i = Len(s) THEN [ok |-> TRUE, str |-> <<>>]
  ELSE IF s[i + 1] # Backslash THEN Leading(<<s[i + 1]>>, d[i + 1])
  ELSE IF i + 1 = Len(s) THEN Failed
  ELSE IF s[i + 2] = LetterU
    THEN IF CodePointAt(s, i + 2).code = -1 THEN Failed
         ELSE Leading(CodePointToUTF8(CodePointAt(s, i + 2).code), d[CodePointAt(s, i + 2).end])
  ELSE IF s[i + 2] = 47 THEN Leading(<<47>>, d[i + 2])
  ELSE IF \E e \in Letters : e[2] = s[i + 2]
    THEN Leading(<<CHOOSE c \in 0 .. 255 : <<c, s[i + 2]>> \in Letters>>, d[i + 2])
  ELSE Failed

Unescapes(d, s) == \A i \in 0 .. Len(s) : d[i] = UnescapeAt(s, d, i)

\* The second half of a pair, and what the two make.
SecondAt(s, p) ==
  IF Len(s) - (p + 4) >= 6 /\ s[p + 5] = Backslash /\ s[p + 6] = LetterU THEN HexAt(s, p + 6) ELSE -1

Alone(u, p)   == [code |-> u, end |-> p + 4]
Pair(u, x, p) == IF x = -1 THEN [code |-> -1, end |-> p + 4]
                 ELSE [code |-> 65536 + 1024 * (u % 1024) + (x % 1024), end |-> p + 10]

LEMMA CodeIs ==
  ASSUME NEW s, NEW p
  PROVE  CodePointAt(s, p) = IF ~High(HexAt(s, p)) THEN Alone(HexAt(s, p), p)
                             ELSE Pair(HexAt(s, p), SecondAt(s, p), p)
  BY DEF CodePointAt, SecondAt, High, Alone, Pair

LEMMA CodeEnd ==
  ASSUME NEW s, Len(s) \in Nat, NEW p \in Nat, CodePointAt(s, p).code # -1
  PROVE  CodePointAt(s, p).end \in p + 4 .. Len(s)
<1> DEFINE first  == HexAt(s, p)
           second == SecondAt(s, p)
<1>1. first # -1 => p + 4 <= Len(s)
  BY DEF HexAt
<1>2. second # -1 => p + 10 <= Len(s)
  BY DEF SecondAt
<1> HIDE DEF first, second
<1>3. CodePointAt(s, p) = IF ~High(first) THEN Alone(first, p) ELSE Pair(first, second, p)
  BY CodeIs DEF first, second
<1>4. CASE ~High(first)
  BY <1>1, <1>3, <1>4 DEF Alone
<1>5. CASE High(first)
  BY <1>2, <1>3, <1>5 DEF Pair
<1> QED BY <1>4, <1>5

LEMMA UnescapesIs ==
  ASSUME NEW s, Len(s) \in Nat
  PROVE  \E d : Unescapes(d, s) /\ DecodeString(s) = d[0]
<1> DEFINE n == Len(s)
           Eq(f, m) == f = [i \in n - m .. n |-> UnescapeAt(s, f, i)]
           Has == {m \in Nat : m <= n => \E f : Eq(f, m)}
<1>1. \A f : UnescapeAt(s, f, n) = [ok |-> TRUE, str |-> <<>>]
  BY DEF UnescapeAt
<1>2. 0 \in Has
  <2> DEFINE f == [i \in n - 0 .. n |-> [ok |-> TRUE, str |-> <<>>]]
  <2>1. \A i \in n - 0 .. n : i = n
    OBVIOUS
  <2>2. Eq(f, 0)
    <3>1. \A h : \A i \in n - 0 .. n : UnescapeAt(s, h, i) = [ok |-> TRUE, str |-> <<>>]
      BY <1>1, <2>1
    <3>2. \A h : [i \in n - 0 .. n |-> UnescapeAt(s, h, i)] = f
      BY <3>1
    <3> HIDE DEF f
    <3> QED BY <3>2
  <2> HIDE DEF f, Eq
  <2> QED BY <2>2
<1>3. ASSUME NEW m \in Has PROVE m + 1 \in Has
  <2> SUFFICES ASSUME m + 1 <= n PROVE \E f : Eq(f, m + 1)
    OBVIOUS
  <2>1. PICK f : Eq(f, m)
    OBVIOUS
  <2> DEFINE g == [i \in n - (m + 1) .. n |-> UnescapeAt(s, f, i)]
  <2>2. ASSUME NEW i \in n - m .. n PROVE g[i] = f[i]
    <3>1. i \in n - (m + 1) .. n
      OBVIOUS
    <3>2. f[i] = UnescapeAt(s, f, i)
      BY <2>1
    <3> QED BY <3>1, <3>2
  <2>3. ASSUME NEW i \in n - (m + 1) .. n PROVE UnescapeAt(s, g, i) = UnescapeAt(s, f, i)
    <3>1. CASE i = n
      BY <1>1, <3>1
    <3>2. CASE i # n
      <4> DEFINE end == CodePointAt(s, i + 2).end
                 bad == CodePointAt(s, i + 2).code = -1
      <4>1. i + 1 \in n - m .. n /\ (i + 1 # n => i + 2 \in n - m .. n)
        BY <3>2
      <4>2. ~bad => end \in n - m .. n
        <5>1. i + 2 \in Nat /\ i + 2 + 4 >= n - m /\ n - m \in Nat
          OBVIOUS
        <5>2. ~bad => end \in i + 2 + 4 .. n
          BY <5>1, CodeEnd
        <5> HIDE DEF end, bad
        <5> QED BY <5>1, <5>2
      <4>3. g[i + 1] = f[i + 1] /\ (i + 1 # n => g[i + 2] = f[i + 2]) /\ (~bad => g[end] = f[end])
        <5> HIDE DEF g, end, bad
        <5> QED BY <2>2, <4>1, <4>2
      <4> HIDE DEF g
      <4> QED BY <4>3 DEF UnescapeAt
    <3> QED BY <3>1, <3>2
  <2>4. Eq(g, m + 1)
    <3>1. g = [i \in n - (m + 1) .. n |-> UnescapeAt(s, f, i)]
      OBVIOUS
    <3> HIDE DEF g
    <3> QED BY <2>3, <3>1
  <2> HIDE DEF g, Eq
  <2> QED BY <2>4
<1>4. n \in Has
  <2>1. Has \in SUBSET Nat
    OBVIOUS
  <2> HIDE DEF Has
  <2> QED BY <1>2, <1>3, <2>1, SetInduction
<1>5. PICK f : Eq(f, n)
  <2> HIDE DEF Eq
  <2> QED BY <1>4
<1> DEFINE decode == CHOOSE d : d = [i \in 0 .. n |-> UnescapeAt(s, d, i)]
<1>6. f = [i \in 0 .. n |-> UnescapeAt(s, f, i)]
  <2>1. n - n = 0
    OBVIOUS
  <2> QED BY <1>5, <2>1
<1>7. decode = [i \in 0 .. n |-> UnescapeAt(s, decode, i)]
  BY <1>6
<1>8. DecodeString(s) = decode[0]
  BY DEF DecodeString, UnescapeAt, Leading
<1> HIDE DEF decode
<1>9. Unescapes(decode, s)
  BY <1>7 DEF Unescapes
<1> QED BY <1>8, <1>9

\* What is written of a character is decoded to it.
LEMMA UnescapeOne ==
  ASSUME NEW s, NEW d, Unescapes(d, s), NEW c \in Byte, NEW p, Lies(s, p, Escape(c))
  PROVE  d[p] = Leading(<<c>>, d[p + Len(Escape(c))])
<1>1. /\ Len(s) \in Nat /\ p \in Nat
      /\ \A i \in 0 .. Len(s) : d[i] = UnescapeAt(s, d, i)
  BY DEF Unescapes, Lies
<1>2. CASE Plain(c)
  <2>1. Len(Escape(c)) = 1 /\ Escape(c)[1] = c
    BY <1>2 DEF Plain
  <2>2. s[p + 1] = c /\ p \in 0 .. Len(s) /\ p # Len(s)
    BY <1>1, <2>1 DEF Lies
  <2>3. d[p] = Leading(<<c>>, d[p + 1])
    BY <1>1, <1>2, <2>2 DEF UnescapeAt, Plain, Backslash
  <2> QED BY <2>1, <2>3
<1>3. CASE Lettered(c)
  <2> DEFINE b == LetterOf(c)
  <2>1. Len(Escape(c)) = 2 /\ Escape(c)[1] = 92 /\ Escape(c)[2] = b
    BY <1>3 DEF Lettered
  <2>2. /\ b \notin {47, 117} /\ (\E e \in Letters : e[2] = b)
        /\ (CHOOSE x \in 0 .. 255 : <<x, b>> \in Letters) = c
    BY <1>3, LetterIs DEF Lettered
  <2> HIDE DEF b
  <2>3. s[p + 1] = 92 /\ s[p + 2] = b /\ p \in 0 .. Len(s) /\ p # Len(s) /\ p + 1 # Len(s)
    BY <1>1, <2>1 DEF Lies
  <2>4. d[p] = UnescapeAt(s, d, p)
    BY <1>1, <2>3
  <2>5. UnescapeAt(s, d, p) = Leading(<<CHOOSE x \in 0 .. 255 : <<x, b>> \in Letters>>, d[p + 2])
    BY <2>2, <2>3 DEF UnescapeAt, Backslash, LetterU
  <2> QED BY <2>1, <2>2, <2>4, <2>5
<1>4. CASE ByCode(c)
  <2>1. Escape(c) = UnicodeEscape(c) /\ c \in Code /\ c \in 0 .. 31
    BY <1>4 DEF ByCode, Byte, Code
  <2>2. p + 6 <= Len(s) /\ s[p + 1] = 92 /\ s[p + 2] = 117 /\ HexAt(s, p + 2) = c
    BY <1>1, <2>1, HexAtIs
  <2>3. Len(Escape(c)) = 6
    BY <2>1, EscapeOf
  <2>4. CodePointAt(s, p + 2) = [code |-> c, end |-> (p + 2) + 4]
    <3>1. ~High(c)
      <4>1. c \in Int /\ c <= 31
        BY <2>1
      <4> QED BY <4>1 DEF High
    <3>2. CodePointAt(s, p + 2) = Alone(c, p + 2)
      BY <2>2, <3>1, CodeIs
    <3> QED BY <3>2 DEF Alone
  <2>5. CodePointToUTF8(c) = <<c>> /\ c # -1
    BY <2>1 DEF CodePointToUTF8
  <2>6. p \in 0 .. Len(s) /\ p # Len(s) /\ p + 1 # Len(s) /\ (p + 2) + 4 = p + 6
    BY <1>1, <2>2
  <2>7. UnescapeAt(s, d, p) = Leading(<<c>>, d[p + 6])
    BY <2>2, <2>4, <2>5, <2>6 DEF UnescapeAt, Backslash, LetterU
  <2> QED BY <1>1, <2>3, <2>6, <2>7
<1> QED BY <1>2, <1>3, <1>4, EscapeIs

\* A text that begins with the pieces has each of them where it lies.
Starts(t, x) == Len(t) \in Nat /\ Len(x) <= Len(t) /\ \A i \in 1 .. Len(x) : t[i] = x[i]

PieceAt(t, g, w, k) == Lies(t, Len(g[k]), w[k + 1]) /\ Len(g[k]) + Len(w[k + 1]) = Len(g[k + 1])

LEMMA PieceLies ==
  ASSUME NEW n, NEW S, NEW w, NEW g, Pieces(g, w, n, S),
         NEW k \in Nat, k < n, NEW t, Starts(t, g[n])
  PROVE  PieceAt(t, g, w, k)
<1> DEFINE a == Len(g[k])
           b == Len(w[k + 1])
           x == Len(g[n])
<1>1. Inside(g[k], g[k + 1], w[k + 1], g[n])
  BY PieceIn
<1>2. /\ a \in Nat /\ b \in Nat /\ x \in Nat /\ Len(g[k + 1]) = a + b /\ a + b <= x
      /\ \A i \in 1 .. b : g[n][a + i] = w[k + 1][i]
  BY <1>1 DEF Inside
<1>3. Len(t) \in Nat /\ x <= Len(t) /\ \A i \in 1 .. x : t[i] = g[n][i]
  BY DEF Starts
<1> HIDE DEF a, b, x
<1>4. ASSUME NEW i \in 1 .. b PROVE t[a + i] = w[k + 1][i]
  <2>1. a + i \in 1 .. x
    BY <1>2
  <2> QED BY <1>2, <1>3, <2>1
<1>5. a + b <= Len(t)
  BY <1>2, <1>3
<1>6. Lies(t, a, w[k + 1])
  BY <1>2, <1>3, <1>4, <1>5 DEF Lies, b
<1> QED BY <1>2, <1>6 DEF a, b, PieceAt

\* The characters of a string, written.
EscapesOf(s) == [i \in 1 .. Len(s) |-> Escape(s[i])]

LEMMA WrittenBytes ==
  ASSUME NEW s \in Seq(Byte)
  PROVE  Len(s) \in Nat /\ EscapesOf(s) \in [1 .. Len(s) -> Seq(Byte)]
  BY EscapeBytes DEF EscapesOf

\* The reader finds the quote behind them.
LEMMA QuoteFound ==
  ASSUME NEW s \in Seq(Byte), NEW g, Pieces(g, EscapesOf(s), Len(s), Byte),
         NEW t, Starts(t, g[Len(s)]), Len(g[Len(s)]) < Len(t), t[Len(g[Len(s)]) + 1] = 34
  PROVE  ReadString(t) = [ok |-> TRUE, end |-> Len(g[Len(s)]) + 1]
<1> DEFINE n == Len(s)
           w == EscapesOf(s)
           x == Len(g[n])
           R == [ok |-> TRUE, end |-> x + 1]
<1>1. n \in Nat /\ w \in [1 .. n -> Seq(Byte)] /\ n \in 0 .. n
  BY WrittenBytes
<1>2. Pieces(g, w, n, Byte)
  OBVIOUS
<1>3. g[n] \in Seq(Byte) /\ x \in Nat
  <2>1. g[n] \in Seq(Byte)
    <3> HIDE DEF n, w
    <3> QED BY <1>1, <1>2 DEF Pieces
  <2> QED BY <2>1
<1>4. PICK read : Reads(read, t) /\ ReadString(t) = read[0]
  BY ReadsIs DEF Starts
<1>5. read[x] = R
  <2>1. x \in 0 .. Len(t) /\ x # Len(t) /\ t[x + 1] = 34
    BY <1>3 DEF Starts
  <2> HIDE DEF x
  <2>2. read[x] = ReadAt(t, read, x)
    BY <1>4, <2>1 DEF Reads
  <2> QED BY <2>1, <2>2 DEF ReadAt, Quote, Backslash
<1>6. Starts(t, g[n])
  OBVIOUS
<1> DEFINE Has == {m \in Nat : m <= n => read[Len(g[n - m])] = R}
<1> HIDE DEF n, w, R
<1>7. 0 \in Has
  <2>1. n - 0 = n
    BY <1>1
  <2> QED BY <1>5, <2>1
<1>8. ASSUME NEW m \in Has PROVE m + 1 \in Has
  <2> SUFFICES ASSUME m + 1 <= n PROVE read[Len(g[n - (m + 1)])] = R
    OBVIOUS
  <2> DEFINE k == n - (m + 1)
  <2>1. k \in Nat /\ k < n /\ k + 1 = n - m /\ k + 1 \in 1 .. n
    BY <1>1
  <2>2. read[Len(g[k + 1])] = R
    <3>1. m <= n
      BY <1>1
    <3> QED BY <2>1, <3>1
  <2> HIDE DEF k
  <2>3. Lies(t, Len(g[k]), w[k + 1]) /\ Len(g[k]) + Len(w[k + 1]) = Len(g[k + 1])
    <3>1. PieceAt(t, g, w, k)
      BY <1>2, <1>6, <2>1, PieceLies
    <3> QED BY <3>1 DEF PieceAt
  <2>4. w[k + 1] = Escape(s[k + 1]) /\ s[k + 1] \in Byte
    BY <2>1 DEF w, n, EscapesOf
  <2>5. read[Len(g[k])] = read[Len(g[k]) + Len(w[k + 1])]
    <3> DEFINE c == s[k + 1]
               p == Len(g[k])
    <3>1. c \in Byte /\ Lies(t, p, Escape(c)) /\ Reads(read, t)
      BY <1>4, <2>3, <2>4
    <3> HIDE DEF c, p
    <3>2. read[p] = read[p + Len(Escape(c))]
      BY <3>1, ReadOne
    <3> QED BY <2>4, <3>2 DEF c, p
  <2> QED BY <2>2, <2>3, <2>5 DEF k
<1>9. n \in Has
  <2>1. Has \in SUBSET Nat
    OBVIOUS
  <2> HIDE DEF Has
  <2> QED BY <1>1, <1>7, <1>8, <2>1, SetInduction
<1>10. read[Len(g[0])] = R
  <2>1. n - n = 0
    BY <1>1
  <2> QED BY <1>1, <1>9, <2>1
<1>11. Len(g[0]) = 0
  BY <1>2 DEF Pieces
<1> QED BY <1>4, <1>10, <1>11 DEF R, n

LEMMA LeadingIs ==
  ASSUME NEW e, NEW y
  PROVE  Leading(e, [ok |-> TRUE, str |-> y]) = [ok |-> TRUE, str |-> e \o y]
<1> DEFINE z    == e \o y
           R    == [ok : BOOLEAN, str : {y, z}]
           rest == [ok |-> TRUE, str |-> y]
           all  == [rest EXCEPT !.str = z]
           want == [ok |-> TRUE, str |-> z]
<1>1. Leading(e, rest) = all
  BY DEF Leading
<1> HIDE DEF z
<1>2. rest \in R /\ want \in R /\ want.ok = TRUE /\ want.str = z /\ rest.ok = TRUE
  OBVIOUS
<1>3. all \in R /\ all.ok = rest.ok /\ all.str = z
  <2> HIDE DEF rest
  <2> QED BY <1>2
<1> HIDE DEF rest, all, want
<1>4. \A u, v \in R : u.ok = v.ok /\ u.str = v.str => u = v
  OBVIOUS
<1>5. all = want
  BY <1>2, <1>3, <1>4
<1> QED BY <1>1, <1>5 DEF rest, want, z

\* The decoder finds the characters again.
LEMMA UnescapesBack ==
  ASSUME NEW s \in Seq(Byte), NEW g, Pieces(g, EscapesOf(s), Len(s), Byte)
  PROVE  DecodeString(g[Len(s)]) = [ok |-> TRUE, str |-> s]
<1> DEFINE n == Len(s)
           w == EscapesOf(s)
           t == g[n]
           R(k) == [ok |-> TRUE, str |-> SubSeq(s, k + 1, n)]
<1>1. n \in Nat /\ w \in [1 .. n -> Seq(Byte)] /\ n \in 0 .. n
  BY WrittenBytes
<1>2. Pieces(g, w, n, Byte)
  OBVIOUS
<1>3. t \in Seq(Byte) /\ Len(t) \in Nat
  BY <1>1, <1>2 DEF Pieces
<1>4. PICK d : Unescapes(d, t) /\ DecodeString(t) = d[0]
  BY <1>3, UnescapesIs
<1>5. d[Len(t)] = R(n)
  <2>1. Len(t) \in 0 .. Len(t)
    BY <1>3
  <2>2. SubSeq(s, n + 1, n) = <<>>
    BY <1>1
  <2>3. d[Len(t)] = [ok |-> TRUE, str |-> <<>>]
    <3> HIDE DEF t
    <3> QED BY <1>4, <2>1 DEF Unescapes, UnescapeAt
  <2> QED BY <2>2, <2>3
<1> DEFINE Has == {m \in Nat : m <= n => d[Len(g[n - m])] = R(n - m)}
<1>6. 0 \in Has
  <2>1. n - 0 = n
    BY <1>1
  <2> HIDE DEF R
  <2> QED BY <1>5, <2>1
<1>7. ASSUME NEW m \in Has PROVE m + 1 \in Has
  <2> SUFFICES ASSUME m + 1 <= n PROVE d[Len(g[n - (m + 1)])] = R(n - (m + 1))
    <3> HIDE DEF R, n, t
    <3> QED OBVIOUS
  <2> DEFINE k == n - (m + 1)
             c == s[k + 1]
  <2>1. k \in Nat /\ k < n /\ k + 1 = n - m /\ k + 1 \in 1 .. n
    BY <1>1
  <2>2. d[Len(g[k + 1])] = R(k + 1)
    <3>1. m <= n
      BY <1>1
    <3> HIDE DEF R
    <3> QED BY <2>1, <3>1
  <2>3. c \in Byte /\ w[k + 1] = Escape(c)
    BY <2>1 DEF EscapesOf
  <2>4. SubSeq(s, k + 1, n) = <<c>> \o SubSeq(s, (k + 1) + 1, n)
    <3>1. k + 1 \in 1 .. Len(s) /\ n \in k + 1 .. Len(s)
      BY <1>1, <2>1
    <3> QED BY <3>1, SubSeqRecursiveFirst
  <2> HIDE DEF k
  <2>5. Lies(t, Len(g[k]), w[k + 1]) /\ Len(g[k]) + Len(w[k + 1]) = Len(g[k + 1])
    <3>1. Starts(t, g[n])
      BY <1>3 DEF Starts
    <3> HIDE DEF t, n, w
    <3>2. PieceAt(t, g, w, k)
      BY <1>2, <2>1, <3>1, PieceLies
    <3> QED BY <3>2 DEF PieceAt
  <2>6. d[Len(g[k])] = Leading(<<c>>, d[Len(g[k + 1])])
    <3> DEFINE p == Len(g[k])
    <3>1. Lies(t, p, Escape(c)) /\ p + Len(Escape(c)) = Len(g[k + 1])
      BY <2>3, <2>5
    <3> HIDE DEF t, n, w, c, p
    <3>2. d[p] = Leading(<<c>>, d[p + Len(Escape(c))])
      BY <1>4, <2>3, <3>1, UnescapeOne
    <3> QED BY <3>1, <3>2 DEF p
  <2>7. Leading(<<c>>, R(k + 1)) = [ok |-> TRUE, str |-> <<c>> \o SubSeq(s, (k + 1) + 1, n)]
    <3> DEFINE y == SubSeq(s, (k + 1) + 1, n)
               e == <<c>>
    <3>1. R(k + 1) = [ok |-> TRUE, str |-> y]
      OBVIOUS
    <3> HIDE DEF y, R, e
    <3>2. Leading(e, [ok |-> TRUE, str |-> y]) = [ok |-> TRUE, str |-> e \o y]
      BY LeadingIs
    <3> QED BY <3>1, <3>2 DEF y, e
  <2>8. d[Len(g[k])] = R(k)
    BY <2>2, <2>4, <2>6, <2>7
  <2> QED BY <2>8 DEF k
<1>8. n \in Has
  <2>1. Has \in SUBSET Nat
    OBVIOUS
  <2> HIDE DEF Has
  <2> QED BY <1>1, <1>6, <1>7, <2>1, SetInduction
<1>9. d[Len(g[0])] = R(0)
  <2>1. n - n = 0 /\ n <= n
    BY <1>1
  <2> HIDE DEF R
  <2> QED BY <1>1, <1>8, <2>1
<1>10. Len(g[0]) = 0
  BY <1>2 DEF Pieces
<1>11. SubSeq(s, 0 + 1, n) = s
  BY SubSeqFull
<1> QED BY <1>4, <1>9, <1>10, <1>11

\* A string that is written is read and decoded as the same again.
LEMMA QuotedBack ==
  ASSUME NEW s \in Seq(Byte)
  PROVE  LET quoted == QuotedString(s)
             read   == ReadString(Tail(quoted) \o <<Quote, Backslash>>)
         IN  /\ read = [ok |-> TRUE, end |-> Len(quoted) - 1]
             /\ DecodeString(SubSeq(quoted, 2, Len(quoted) - 1)) = [ok |-> TRUE, str |-> s]
<1> DEFINE n == Len(s)
           w == EscapesOf(s)
           one == <<34>>
           two == <<34, 92>>
           quoted == QuotedString(s)
<1>1. n \in Nat /\ w \in [1 .. n -> Seq(Byte)] /\ n \in 0 .. n
  BY WrittenBytes
<1>2. PICK g : Pieces(g, w, n, Byte)
  <2> HIDE DEF n, w
  <2> QED BY <1>1, PiecesAre
<1> DEFINE f == g[n]
           a == one \o f
           q == a \o one
           r == Tail(q)
           t == r \o two
           x == Len(f)
<1>3. f \in Seq(Byte) /\ x \in Nat
  BY <1>1, <1>2 DEF Pieces
<1>4. quoted = q
  <2>1. FlattenSeq(w) = f
    <3> HIDE DEF n, w
    <3> QED BY <1>2, FlattenIs
  <2> QED BY <2>1 DEF QuotedString, Quote, EscapesOf
<1>5. one \in Seq(Byte) /\ Len(one) = 1 /\ one[1] = 34
  BY DEF Byte
<1>6. two \in Seq(Byte) /\ Len(two) = 2 /\ two[1] = 34
  BY DEF Byte
<1>7. ReadString(t) = [ok |-> TRUE, end |-> x + 1] /\ Len(q) = x + 2 /\ SubSeq(q, 2, x + 1) = f
  <2> HIDE DEF f, one, two
  <2>1. a \in Seq(Byte) /\ Grows(one, a, f)
    BY <1>3, <1>5, ConcatGrows, ConcatProperties
  <2> HIDE DEF a
  <2>2. q \in Seq(Byte) /\ Grows(a, q, one)
    BY <1>5, <2>1, ConcatGrows, ConcatProperties
  <2> HIDE DEF q
  <2>3. Len(a) = 1 + x /\ \A i \in 1 .. x : a[1 + i] = f[i]
    BY <1>5, <2>1 DEF Grows
  <2>4. Len(q) = x + 2 /\ (\A i \in 1 .. 1 + x : q[i] = a[i]) /\ q[(1 + x) + 1] = 34
    BY <1>3, <1>5, <2>2, <2>3 DEF Grows
  <2>5. r \in Seq(Byte) /\ Len(r) = x + 1 /\ \A i \in 1 .. x + 1 : r[i] = q[i + 1]
    BY <1>3, <2>2, <2>4
  <2> HIDE DEF r
  <2>6. t \in Seq(Byte) /\ Grows(r, t, two)
    BY <1>6, <2>5, ConcatGrows, ConcatProperties
  <2> HIDE DEF t
  <2>7. Len(t) = x + 3 /\ \A i \in 1 .. x + 1 : t[i] = r[i]
    BY <1>3, <1>6, <2>5, <2>6 DEF Grows
  <2> HIDE DEF x
  <2>8. \A i \in 1 .. x : q[i + 1] = f[i]
    <3> TAKE i \in 1 .. x
    <3>1. i + 1 \in 1 .. 1 + x /\ 1 + i = i + 1
      BY <1>3
    <3> QED BY <2>3, <2>4, <3>1
  <2>9. \A i \in 1 .. x : t[i] = f[i]
    <3> TAKE i \in 1 .. x
    <3>1. i \in 1 .. x + 1
      BY <1>3
    <3> QED BY <2>5, <2>7, <2>8, <3>1
  <2>10. t[x + 1] = 34
    <3>1. x + 1 \in 1 .. x + 1 /\ (x + 1) + 1 = (1 + x) + 1
      BY <1>3
    <3> QED BY <2>4, <2>5, <2>7, <3>1
  <2>11. ReadString(t) = [ok |-> TRUE, end |-> x + 1]
    <3>1. Len(t) \in Nat /\ x < Len(t)
      BY <1>3, <2>7
    <3> HIDE DEF n, w
    <3>2. Pieces(g, EscapesOf(s), Len(s), Byte)
      BY <1>2 DEF n, w
    <3>3. Len(g[Len(s)]) = x /\ g[Len(s)] = f
      BY DEF n, f, x
    <3> HIDE DEF f, x
    <3>4. Starts(t, g[Len(s)]) /\ Len(g[Len(s)]) < Len(t) /\ t[Len(g[Len(s)]) + 1] = 34
      BY <2>9, <2>10, <3>1, <3>3 DEF Starts
    <3>5. ReadString(t) = [ok |-> TRUE, end |-> Len(g[Len(s)]) + 1]
      BY <3>2, <3>4, QuoteFound
    <3> QED BY <3>3, <3>5
  <2>12. SubSeq(q, 2, x + 1) = f
    <3> DEFINE v == SubSeq(q, 2, x + 1)
    <3>1. 2 \in 1 .. Len(q) + 1 /\ x + 1 \in (2 - 1) .. Len(q) /\ (x + 1) - 2 + 1 = x
      BY <1>3, <2>4
    <3>2. v \in Seq(Byte) /\ Len(v) = x /\ \A i \in 1 .. x : v[i] = q[2 + i - 1]
      BY <2>2, <3>1, SubSeqProperties
    <3>3. \A i \in 1 .. x : 2 + i - 1 = i + 1
      BY <1>3
    <3> HIDE DEF v
    <3>4. \A i \in 1 .. Len(v) : v[i] = f[i]
      BY <2>8, <3>2, <3>3
    <3>5. v = f
      BY <1>3, <3>2, <3>4, SeqEqual DEF x
    <3> QED BY <3>5 DEF v
  <2> QED BY <2>4, <2>11, <2>12
<1>8. DecodeString(f) = [ok |-> TRUE, str |-> s]
  BY <1>2, UnescapesBack
<1>9. ReadString(Tail(quoted) \o <<Quote, Backslash>>) = [ok |-> TRUE, end |-> Len(quoted) - 1]
  <2>1. (x + 2) - 1 = x + 1
    BY <1>3
  <2> HIDE DEF q, x, quoted
  <2> QED BY <1>4, <1>7, <2>1 DEF Quote, Backslash
<1>10. DecodeString(SubSeq(quoted, 2, Len(quoted) - 1)) = [ok |-> TRUE, str |-> s]
  <2>1. (x + 2) - 1 = x + 1
    BY <1>3
  <2> HIDE DEF q, x, quoted, f
  <2> QED BY <1>4, <1>7, <1>8, <2>1
<1> HIDE DEF quoted
<1> QED BY <1>9, <1>10 DEF quoted

\* The backslashes right before a character.
SlashesAt(s, i) == {j \in 1 .. i - 1 : \A k \in j .. i - 1 : s[k] = Backslash}
Slashes(s, i)   == Cardinality(SlashesAt(s, i))

LEMMA SlashesAre ==
  ASSUME NEW s
  PROVE  /\ Slashes(s, 1) = 0
         /\ \A i \in Nat \ {0} : /\ Slashes(s, i) \in Nat
                                 /\ Slashes(s, i + 1) = IF s[i] = 92 THEN Slashes(s, i) + 1 ELSE 0
<1>1. Slashes(s, 1) = 0
  <2>1. SlashesAt(s, 1) = {}
    BY DEF SlashesAt
  <2> QED BY <2>1, FS_EmptySet DEF Slashes
<1>2. ASSUME NEW i \in Nat \ {0}
      PROVE  /\ Slashes(s, i) \in Nat
             /\ Slashes(s, i + 1) = IF s[i] = 92 THEN Slashes(s, i) + 1 ELSE 0
  <2> DEFINE A == SlashesAt(s, i)
             B == SlashesAt(s, i + 1)
  <2>1. IsFiniteSet(A)
    <3>1. IsFiniteSet(1 .. i - 1)
      BY FS_Interval
    <3>2. A \subseteq 1 .. i - 1
      BY DEF SlashesAt
    <3> HIDE DEF A
    <3> QED BY <3>1, <3>2, FS_Subset
  <2>2. Cardinality(A) \in Nat
    BY <2>1, FS_CardinalityType
  <2>3. CASE s[i] = 92
    <3>1. B = A \cup {i}
      <4>1. ASSUME NEW j \in B PROVE j \in A \/ j = i
        BY DEF SlashesAt
      <4>2. ASSUME NEW j \in A PROVE j \in B
        <5>1. j \in 1 .. (i + 1) - 1
          BY DEF SlashesAt
        <5>2. ASSUME NEW k \in j .. (i + 1) - 1 PROVE s[k] = Backslash
          <6>1. k = i \/ k \in j .. i - 1
            BY <5>1
          <6>2. k \in j .. i - 1 => s[k] = Backslash
            BY DEF SlashesAt
          <6> QED BY <2>3, <6>1, <6>2 DEF Backslash
        <5> QED BY <5>1, <5>2 DEF SlashesAt
      <4>3. i \in B
        <5>1. \A k \in i .. (i + 1) - 1 : k = i
          OBVIOUS
        <5>2. i \in 1 .. (i + 1) - 1
          OBVIOUS
        <5> QED BY <2>3, <5>1, <5>2 DEF SlashesAt, Backslash
      <4> HIDE DEF A, B
      <4> QED BY <4>1, <4>2, <4>3
    <3>2. i \notin A
      BY DEF SlashesAt
    <3> HIDE DEF A, B
    <3>3. Cardinality(B) = Cardinality(A) + 1
      BY <2>1, <3>1, <3>2, FS_AddElement
    <3> QED BY <2>2, <2>3, <3>3 DEF Slashes, A, B
  <2>4. CASE s[i] # 92
    <3>1. B = {}
      <4> SUFFICES ASSUME NEW j \in B PROVE FALSE
        OBVIOUS
      <4>1. i \in j .. (i + 1) - 1
        BY DEF SlashesAt
      <4> QED BY <2>4, <4>1 DEF SlashesAt, Backslash
    <3>2. Slashes(s, i + 1) = 0
      BY <3>1, FS_EmptySet DEF Slashes
    <3> QED BY <2>2, <2>4, <3>2 DEF Slashes
  <2> QED BY <2>3, <2>4
<1> QED BY <1>1, <1>2

\* The quotes that may end a string from a position on, and the one that does.
EndsFrom(s, i) == {e \in 1 .. Len(s) : e > i /\ s[e] = Quote /\ Slashes(s, e) % 2 = 0}

EndsAt(s, r, i) ==
  /\ r.ok <=> EndsFrom(s, i) # {}
  /\ r.ok => r.end \in EndsFrom(s, i) /\ \A e \in EndsFrom(s, i) : r.end <= e

LEMMA EndsSkip ==
  ASSUME NEW s, Len(s) \in Nat, NEW i \in Nat, ~(s[i + 1] = Quote /\ Slashes(s, i + 1) % 2 = 0)
  PROVE  EndsFrom(s, i) = EndsFrom(s, i + 1)
<1>1. ASSUME NEW e \in EndsFrom(s, i) PROVE e \in EndsFrom(s, i + 1)
  <2>1. e \in 1 .. Len(s) /\ e > i /\ s[e] = Quote /\ Slashes(s, e) % 2 = 0
    BY DEF EndsFrom
  <2>2. e # i + 1
    BY <2>1
  <2> QED BY <2>1, <2>2 DEF EndsFrom
<1>2. ASSUME NEW e \in EndsFrom(s, i + 1) PROVE e \in EndsFrom(s, i)
  BY DEF EndsFrom
<1> QED BY <1>1, <1>2

\* The reader is never behind an odd row of backslashes.
LEMMA ReadStep ==
  ASSUME NEW s, Len(s) \in Nat, NEW read, Reads(read, s), NEW i \in 0 .. Len(s), Slashes(s, i + 1) % 2 = 0,
         \A j \in i + 1 .. Len(s) : Slashes(s, j + 1) % 2 = 0 => EndsAt(s, read[j], j)
  PROVE  EndsAt(s, read[i], i)
<1>1. read[i] = ReadAt(s, read, i)
  BY DEF Reads
<1>2. Slashes(s, i + 1) \in Nat /\ Slashes(s, i + 2) \in Nat
  <2>1. i + 1 \in Nat \ {0} /\ i + 2 \in Nat \ {0}
    OBVIOUS
  <2> QED BY <2>1, SlashesAre
<1>3. /\ Slashes(s, i + 2) = IF s[i + 1] = 92 THEN Slashes(s, i + 1) + 1 ELSE 0
      /\ Slashes(s, i + 3) = IF s[i + 2] = 92 THEN Slashes(s, i + 2) + 1 ELSE 0
  <2>1. i + 1 \in Nat \ {0} /\ i + 2 \in Nat \ {0} /\ (i + 1) + 1 = i + 2 /\ (i + 2) + 1 = i + 3
    OBVIOUS
  <2>2. /\ Slashes(s, (i + 1) + 1) = IF s[i + 1] = 92 THEN Slashes(s, i + 1) + 1 ELSE 0
        /\ Slashes(s, (i + 2) + 1) = IF s[i + 2] = 92 THEN Slashes(s, i + 2) + 1 ELSE 0
    BY <2>1, SlashesAre
  <2> QED BY <2>1, <2>2
<1>4. CASE i = Len(s)
  <2>1. EndsFrom(s, i) = {}
    BY <1>4 DEF EndsFrom
  <2>2. read[i] = [ok |-> FALSE, end |-> i]
    BY <1>1, <1>4 DEF ReadAt
  <2> QED BY <2>1, <2>2 DEF EndsAt
<1>5. CASE i # Len(s) /\ s[i + 1] = Backslash
  <2>1. EndsFrom(s, i) = EndsFrom(s, i + 1)
    <3>1. s[i + 1] # Quote
      BY <1>5 DEF Backslash, Quote
    <3> QED BY <3>1, EndsSkip
  <2>2. CASE i + 1 = Len(s)
    <3>1. EndsFrom(s, i + 1) = {}
      BY <2>2 DEF EndsFrom
    <3>2. read[i] = [ok |-> FALSE, end |-> i + 1]
      BY <1>1, <1>5, <2>2 DEF ReadAt
    <3> QED BY <2>1, <3>1, <3>2 DEF EndsAt
  <2>3. CASE i + 1 # Len(s)
    <3>1. read[i] = read[i + 2]
      BY <1>1, <1>5, <2>3 DEF ReadAt
    <3>2. Slashes(s, i + 2) = Slashes(s, i + 1) + 1
      BY <1>3, <1>5 DEF Backslash
    <3>3. Slashes(s, i + 2) % 2 # 0
      BY <1>2, <3>2
    <3>4. EndsFrom(s, i + 1) = EndsFrom(s, i + 2)
      <4>1. i + 1 \in Nat /\ (i + 1) + 1 = i + 2
        OBVIOUS
      <4>2. ~(s[(i + 1) + 1] = Quote /\ Slashes(s, (i + 1) + 1) % 2 = 0)
        BY <3>3, <4>1
      <4>3. EndsFrom(s, i + 1) = EndsFrom(s, (i + 1) + 1)
        BY <4>1, <4>2, EndsSkip
      <4> QED BY <4>1, <4>3
    <3>5. Slashes(s, i + 3) % 2 = 0
      BY <1>2, <1>3, <3>2
    <3>6. EndsAt(s, read[i + 2], i + 2)
      <4>1. i + 2 \in i + 1 .. Len(s) /\ (i + 2) + 1 = i + 3
        BY <1>5, <2>3
      <4> QED BY <3>5, <4>1
    <3> QED BY <2>1, <3>1, <3>4, <3>6 DEF EndsAt
  <2> QED BY <2>2, <2>3
<1>6. CASE i # Len(s) /\ s[i + 1] = Quote
  <2>1. read[i] = [ok |-> TRUE, end |-> i + 1]
    BY <1>1, <1>6 DEF ReadAt, Quote, Backslash
  <2>2. i + 1 \in EndsFrom(s, i)
    BY <1>6 DEF EndsFrom
  <2>3. \A e \in EndsFrom(s, i) : i + 1 <= e
    BY DEF EndsFrom
  <2> QED BY <2>1, <2>2, <2>3 DEF EndsAt
<1>7. CASE i # Len(s) /\ s[i + 1] # Backslash /\ s[i + 1] # Quote
  <2>1. read[i] = read[i + 1]
    BY <1>1, <1>7 DEF ReadAt
  <2>2. EndsFrom(s, i) = EndsFrom(s, i + 1)
    BY <1>7, EndsSkip
  <2>3. Slashes(s, i + 2) % 2 = 0
    BY <1>3, <1>7 DEF Backslash
  <2>4. EndsAt(s, read[i + 1], i + 1)
    <3>1. i + 1 \in i + 1 .. Len(s) /\ (i + 1) + 1 = i + 2
      BY <1>7
    <3> QED BY <2>3, <3>1
  <2> QED BY <2>1, <2>2, <2>4 DEF EndsAt
<1> QED BY <1>4, <1>5, <1>6, <1>7

LEMMA EndsHold ==
  ASSUME NEW s, Len(s) \in Nat
  PROVE  EndsAt(s, ReadString(s), 0)
<1>1. PICK read : Reads(read, s) /\ ReadString(s) = read[0]
  BY ReadsIs
<1> DEFINE n == Len(s)
           Good(j) == Slashes(s, j + 1) % 2 = 0 => EndsAt(s, read[j], j)
           Has == {m \in Nat : m <= n + 1 => \A j \in n + 1 - m .. n : Good(j)}
<1>2. 0 \in Has
  OBVIOUS
<1>3. ASSUME NEW m \in Has PROVE m + 1 \in Has
  <2> SUFFICES ASSUME m + 1 <= n + 1, NEW j \in n + 1 - (m + 1) .. n PROVE Good(j)
    <3> HIDE DEF Good
    <3> QED OBVIOUS
  <2>1. CASE j \in n + 1 - m .. n
    <3> HIDE DEF Good
    <3> QED BY <2>1
  <2>2. CASE j = n - m
    <3>1. j \in 0 .. Len(s) /\ \A k \in j + 1 .. Len(s) : k \in n + 1 - m .. n
      BY <2>2
    <3>2. \A k \in j + 1 .. Len(s) : Good(k)
      <4> HIDE DEF Good
      <4> QED BY <3>1
    <3> SUFFICES ASSUME Slashes(s, j + 1) % 2 = 0 PROVE EndsAt(s, read[j], j)
      OBVIOUS
    <3> QED BY <1>1, <3>1, <3>2, ReadStep
  <2> QED BY <2>1, <2>2
<1>4. n + 1 \in Has
  <2>1. Has \in SUBSET Nat /\ n + 1 \in Nat
    OBVIOUS
  <2> HIDE DEF Has
  <2> QED BY <1>2, <1>3, <2>1, SetInduction
<1>5. Good(0)
  <2>1. 0 \in n + 1 - (n + 1) .. n
    OBVIOUS
  <2> HIDE DEF Good
  <2> QED BY <1>4, <2>1
<1>6. Slashes(s, 0 + 1) % 2 = 0
  BY SlashesAre
<1> QED BY <1>1, <1>5, <1>6

LEMMA EndsHolds ==
  ASSUME chars \in Seq(Byte)
  PROVE  StringEndsAtQuote
<1> DEFINE ends == {i \in 1 .. Len(chars) : chars[i] = Quote /\ Slashes(chars, i) % 2 = 0}
           read == ReadString(chars)
<1>1. ends = EndsFrom(chars, 0)
  BY DEF EndsFrom
<1>2. EndsAt(chars, read, 0)
  BY EndsHold
<1>3. read.ok <=> ends # {}
  BY <1>1, <1>2 DEF EndsAt
<1>4. ASSUME read.ok PROVE read.end = Min(ends)
  <2> DEFINE e == read.end
  <2>1. e \in ends /\ \A x \in ends : e <= x
    BY <1>1, <1>2, <1>4 DEF EndsAt
  <2>2. \A x \in ends : x \in Int
    OBVIOUS
  <2> HIDE DEF ends, e
  <2>3. \A x \in ends : (\A y \in ends : x <= y) => x = e
    BY <2>1, <2>2
  <2>4. (CHOOSE x \in ends : \A y \in ends : x <= y) = e
    BY <2>1, <2>3
  <2> QED BY <2>4 DEF Min, e
<1> HIDE DEF read
<1> QED BY <1>3, <1>4 DEF StringEndsAtQuote, Slashes, SlashesAt, read

\* The bytes of a character, and the character that a row of them means.
Width(cp) == IF cp < 128 THEN 1 ELSE IF cp < 2048 THEN 2 ELSE IF cp < 65536 THEN 3 ELSE 4

PointAt(bytes, i) ==
  LET b(j) == bytes[j] % 64
  IN  CASE BytesOf(bytes[i]) = 1 -> bytes[i]
        [] BytesOf(bytes[i]) = 2 -> 64 * (bytes[i] - 192) + b(i + 1)
        [] BytesOf(bytes[i]) = 3 -> 64 * (64 * (bytes[i] - 224) + b(i + 1)) + b(i + 2)
        [] OTHER -> 64 * (64 * (64 * (bytes[i] - 240) + b(i + 1)) + b(i + 2)) + b(i + 3)

Encodes(e, cp) ==
  /\ e \in Seq(Byte) /\ Len(e) = Width(cp) /\ Width(cp) \in 1 .. 4
  /\ \A s, p : Lies(s, p, e) => PointAt(s, p + 1) = cp /\ BytesOf(s[p + 1]) = Width(cp)

LEMMA Sixty ==
  ASSUME NEW r \in 0 .. 63
  PROVE  (128 + r) % 64 = r /\ 128 + r \in Byte
  BY DEF Byte

LEMMA Sixties ==
  ASSUME NEW u \in Nat
  PROVE  /\ u \div 64 \in Nat /\ u % 64 \in 0 .. 63 /\ u = 64 * (u \div 64) + (u % 64)
         /\ u \div 4096 = (u \div 64) \div 64
         /\ u \div 262144 = ((u \div 64) \div 64) \div 64
<1> DEFINE q == u \div 64
           r == q \div 64
           t == r \div 64
<1>1. q \in Nat /\ u % 64 \in 0 .. 63 /\ u = 64 * q + (u % 64)
  <2>1. 64 \in Nat \ {0}
    OBVIOUS
  <2>2. u \div 64 \in Nat /\ u % 64 \in 0 .. 64 - 1 /\ u = 64 * (u \div 64) + (u % 64)
    BY <2>1, DivMod
  <2> QED BY <2>2
<1>2. r \in Nat /\ q % 64 \in 0 .. 63 /\ q = 64 * r + (q % 64)
  <2> HIDE DEF q
  <2>1. q \in Nat /\ 64 \in Nat \ {0}
    BY <1>1
  <2>2. q \div 64 \in Nat /\ q % 64 \in 0 .. 64 - 1 /\ q = 64 * (q \div 64) + (q % 64)
    BY <2>1, DivMod
  <2> QED BY <2>2
<1>3. t \in Nat /\ r % 64 \in 0 .. 63 /\ r = 64 * t + (r % 64)
  <2> HIDE DEF r
  <2>1. r \in Nat /\ 64 \in Nat \ {0}
    BY <1>2
  <2>2. r \div 64 \in Nat /\ r % 64 \in 0 .. 64 - 1 /\ r = 64 * (r \div 64) + (r % 64)
    BY <2>1, DivMod
  <2> QED BY <2>2
<1> DEFINE a == u % 64
           b == q % 64
           c == r % 64
<1>4. u \div 4096 = r
  <2> HIDE DEF q, r, a, b
  <2>1. 4096 * r <= u /\ u < 4096 * r + 4096
    <3>1. a \in 0 .. 63 /\ b \in 0 .. 63 /\ u = 64 * q + a /\ q = 64 * r + b
      BY <1>1, <1>2 DEF a, b
    <3> QED BY <1>1, <1>2, <3>1
  <2> QED BY <1>2, <2>1
<1>5. u \div 262144 = t
  <2>1. 262144 * t <= u /\ u < 262144 * t + 262144
    <3>1. a \in 0 .. 63 /\ b \in 0 .. 63 /\ c \in 0 .. 63 /\ u = 64 * q + a /\ q = 64 * r + b /\ r = 64 * t + c
      BY <1>1, <1>2, <1>3
    <3> HIDE DEF q, r, t, a, b, c
    <3> QED BY <1>1, <1>2, <1>3, <3>1, SMT
  <2> HIDE DEF t
  <2> QED BY <1>3, <2>1, SMT
<1> QED BY <1>1, <1>4, <1>5, SMT

Points == {n \in Nat : n <= 1114111}

LEMMA EncodesIs ==
  ASSUME NEW cp \in Points
  PROVE  Encodes(CodePointToUTF8(cp), cp)
<1> DEFINE e == CodePointToUTF8(cp)
           q == cp \div 64
           r == q \div 64
           t == r \div 64
           a == cp % 64
           b == q % 64
           c == r % 64
<1>0. cp \in Nat /\ cp <= 1114111
  BY SMT DEF Points
<1>1. /\ q \in Nat /\ a \in 0 .. 63 /\ cp = 64 * q + a
      /\ cp \div 4096 = r /\ cp \div 262144 = t
  BY <1>0, Sixties, SMT
<1>2. /\ r \in Nat /\ b \in 0 .. 63 /\ q = 64 * r + b
  <2> HIDE DEF q
  <2> QED BY <1>1, Sixties
<1>3. t \in Nat /\ c \in 0 .. 63 /\ r = 64 * t + c
  <2> HIDE DEF r
  <2> QED BY <1>2, Sixties
<1>4. Continuation(cp) = 128 + a /\ Continuation(cp \div 64) = 128 + b /\ Continuation(cp \div 4096) = 128 + c
  BY <1>1 DEF Continuation
<1>5. e = IF cp <= 127 THEN <<cp>>
          ELSE IF cp <= 2047 THEN <<192 + (q % 32), 128 + a>>
          ELSE IF cp <= 65535 THEN <<224 + (r % 16), 128 + b, 128 + a>>
          ELSE <<240 + (t % 8), 128 + c, 128 + b, 128 + a>>
  BY <1>1, <1>4, SMT DEF CodePointToUTF8
<1> HIDE DEF e, q, r, t, a, b, c
<1>6. CASE cp <= 127
  <2>1. e = <<cp>> /\ Width(cp) = 1
    BY <1>0, <1>5, <1>6, SMT DEF Width
  <2>2. e \in Seq(Byte) /\ Len(e) = 1 /\ e[1] = cp
    BY <1>0, <1>6, <2>1, SMT DEF Byte
  <2>3. ASSUME NEW s, NEW p, Lies(s, p, e) PROVE PointAt(s, p + 1) = cp /\ BytesOf(s[p + 1]) = 1
    <3>1. s[p + 1] = cp
      BY <2>2, <2>3 DEF Lies
    <3>2. BytesOf(s[p + 1]) = 1
      BY <1>0, <1>6, <3>1, SMT DEF BytesOf
    <3> QED BY <3>1, <3>2 DEF PointAt
  <2> QED BY <2>1, <2>2, <2>3 DEF Encodes, e
<1>7. CASE ~(cp <= 127) /\ cp <= 2047
  <2>1. q \in 2 .. 31
    BY <1>0, <1>1, <1>7, SMT
  <2>2. q % 32 = q
    BY <2>1
  <2>3. e = <<192 + q, 128 + a>> /\ Width(cp) = 2
    BY <1>0, <1>5, <1>7, <2>2, SMT DEF Width
  <2>4. e \in Seq(Byte) /\ Len(e) = 2 /\ e[1] = 192 + q /\ e[2] = 128 + a
    BY <1>1, <2>1, <2>3 DEF Byte
  <2>5. ASSUME NEW s, NEW p, Lies(s, p, e) PROVE PointAt(s, p + 1) = cp /\ BytesOf(s[p + 1]) = 2
    <3>1. s[p + 1] = 192 + q /\ s[p + 2] = 128 + a /\ (p + 1) + 1 = p + 2
      BY <2>4, <2>5 DEF Lies
    <3>2. BytesOf(s[p + 1]) = 2
      BY <2>1, <3>1 DEF BytesOf
    <3>3. PointAt(s, p + 1) = 64 * (s[p + 1] - 192) + (s[p + 2] % 64)
      BY <3>1, <3>2 DEF PointAt
    <3>4. s[p + 2] % 64 = a
      BY <1>1, <3>1, Sixty
    <3> QED BY <1>1, <3>1, <3>2, <3>3, <3>4
  <2> QED BY <2>3, <2>4, <2>5 DEF Encodes, e
<1>8. CASE ~(cp <= 2047) /\ cp <= 65535
  <2>1. r \in 0 .. 15
    BY <1>0, <1>1, <1>2, <1>8, SMT
  <2>2. r % 16 = r
    BY <2>1
  <2>3. e = <<224 + r, 128 + b, 128 + a>> /\ Width(cp) = 3
    BY <1>0, <1>5, <1>8, <2>2, SMT DEF Width
  <2>4. e \in Seq(Byte) /\ Len(e) = 3 /\ e[1] = 224 + r /\ e[2] = 128 + b /\ e[3] = 128 + a
    BY <1>1, <1>2, <2>1, <2>3 DEF Byte
  <2>5. ASSUME NEW s, NEW p, Lies(s, p, e) PROVE PointAt(s, p + 1) = cp /\ BytesOf(s[p + 1]) = 3
    <3>1. /\ s[p + 1] = 224 + r /\ s[p + 2] = 128 + b /\ s[p + 3] = 128 + a
          /\ (p + 1) + 1 = p + 2 /\ (p + 1) + 2 = p + 3
      BY <2>4, <2>5 DEF Lies
    <3>2. BytesOf(s[p + 1]) = 3
      BY <2>1, <3>1 DEF BytesOf
    <3>3. PointAt(s, p + 1) = 64 * (64 * (s[p + 1] - 224) + (s[p + 2] % 64)) + (s[p + 3] % 64)
      BY <3>1, <3>2 DEF PointAt
    <3>4. s[p + 3] % 64 = a /\ s[p + 2] % 64 = b
      BY <1>1, <1>2, <3>1, Sixty
    <3> QED BY <1>1, <1>2, <3>1, <3>2, <3>3, <3>4
  <2> QED BY <2>3, <2>4, <2>5 DEF Encodes, e
<1>9. CASE ~(cp <= 65535)
  <2>1. t \in 0 .. 4
    BY <1>0, <1>1, <1>2, <1>3, <1>9, SMT
  <2>2. t % 8 = t
    BY <2>1
  <2>3. e = <<240 + t, 128 + c, 128 + b, 128 + a>> /\ Width(cp) = 4
    BY <1>0, <1>5, <1>9, <2>2, SMT DEF Width
  <2>4. e \in Seq(Byte) /\ Len(e) = 4 /\ e[1] = 240 + t /\ e[2] = 128 + c /\ e[3] = 128 + b /\ e[4] = 128 + a
    BY <1>1, <1>2, <1>3, <2>1, <2>3 DEF Byte
  <2>5. ASSUME NEW s, NEW p, Lies(s, p, e) PROVE PointAt(s, p + 1) = cp /\ BytesOf(s[p + 1]) = 4
    <3>1. /\ s[p + 1] = 240 + t /\ s[p + 2] = 128 + c /\ s[p + 3] = 128 + b /\ s[p + 4] = 128 + a
          /\ (p + 1) + 1 = p + 2 /\ (p + 1) + 2 = p + 3 /\ (p + 1) + 3 = p + 4
      BY <2>4, <2>5 DEF Lies
    <3>2. BytesOf(s[p + 1]) = 4
      BY <2>1, <3>1 DEF BytesOf
    <3>3. PointAt(s, p + 1) = 64 * (64 * (64 * (s[p + 1] - 240) + (s[p + 2] % 64)) + (s[p + 3] % 64)) + (s[p + 4] % 64)
      BY <3>1, <3>2 DEF PointAt
    <3>4. s[p + 4] % 64 = a /\ s[p + 3] % 64 = b /\ s[p + 2] % 64 = c
      BY <1>1, <1>2, <1>3, <3>1, Sixty
    <3> QED BY <1>1, <1>2, <1>3, <3>1, <3>2, <3>3, <3>4
  <2> QED BY <2>3, <2>4, <2>5 DEF Encodes, e
<1> QED BY <1>0, <1>6, <1>7, <1>8, <1>9, SMT

\* The whole from a piece on is the piece and the whole from the next one on.
LEMMA PieceRest ==
  ASSUME NEW n, NEW S, NEW w, NEW g, Pieces(g, w, n, S), NEW k \in Nat, k < n
  PROVE  SubSeq(g[n], Len(g[k]) + 1, Len(g[n]))
           = w[k + 1] \o SubSeq(g[n], Len(g[k + 1]) + 1, Len(g[n]))
<1> DEFINE B == g[n]
           e == w[k + 1]
           x == Len(B)
           a == Len(g[k])
           b == Len(e)
           c == Len(g[k + 1])
           L == SubSeq(B, a + 1, x)
           T == SubSeq(B, c + 1, x)
           R == e \o T
<1>1. B \in Seq(S) /\ e \in Seq(S)
  <2>1. n \in Nat /\ n \in 0 .. n /\ k + 1 \in 1 .. n
    BY DEF Pieces
  <2> QED BY <2>1 DEF Pieces
<1>2. Inside(g[k], g[k + 1], e, B)
  BY PieceIn
<1>3. /\ a \in Nat /\ b \in Nat /\ x \in Nat /\ c = a + b /\ c <= x
      /\ \A i \in 1 .. b : B[a + i] = e[i]
  BY <1>2 DEF Inside
<1> HIDE DEF B, e, a, c
<1>4. L \in Seq(S) /\ Len(L) = x - (a + 1) + 1 /\ \A i \in 1 .. x - (a + 1) + 1 : L[i] = B[a + 1 + i - 1]
  <2>1. a + 1 \in 1 .. Len(B) + 1 /\ x \in (a + 1) - 1 .. Len(B)
    BY <1>3
  <2> QED BY <1>1, <2>1, SubSeqProperties
<1>5. T \in Seq(S) /\ Len(T) = x - (c + 1) + 1 /\ \A i \in 1 .. x - (c + 1) + 1 : T[i] = B[c + 1 + i - 1]
  <2>1. c + 1 \in 1 .. Len(B) + 1 /\ x \in (c + 1) - 1 .. Len(B)
    BY <1>3
  <2> QED BY <1>1, <2>1, SubSeqProperties
<1> HIDE DEF L, T
<1>6. R \in Seq(S) /\ Len(R) = b + Len(T)
  BY <1>1, <1>5, ConcatProperties
<1>7. \A i \in 1 .. b + Len(T) : R[i] = IF i <= b THEN e[i] ELSE T[i - b]
  BY <1>1, <1>5, ConcatProperties
<1> HIDE DEF R, x, b
<1>8. Len(L) = Len(R) /\ Len(L) \in Nat
  BY <1>3, <1>4, <1>5, <1>6
<1>9. ASSUME NEW i \in 1 .. Len(L) PROVE L[i] = R[i]
  <2>1. L[i] = B[a + i]
    <3>1. i \in 1 .. x - (a + 1) + 1 /\ a + 1 + i - 1 = a + i
      BY <1>3, <1>4
    <3> QED BY <1>4, <3>1
  <2>2. R[i] = IF i <= b THEN e[i] ELSE T[i - b]
    BY <1>6, <1>7, <1>8
  <2>3. CASE i <= b
    <3>1. i \in 1 .. b
      BY <1>3, <2>3
    <3> QED BY <1>3, <2>1, <2>2, <2>3, <3>1
  <2>4. CASE ~(i <= b)
    <3>1. i - b \in 1 .. x - (c + 1) + 1 /\ c + 1 + (i - b) - 1 = a + i
      BY <1>3, <1>4, <2>4
    <3>2. T[i - b] = B[a + i]
      BY <1>5, <3>1
    <3> QED BY <2>1, <2>2, <2>4, <3>2
  <2> QED BY <2>3, <2>4
<1>10. L = R
  BY <1>4, <1>6, <1>8, <1>9, SeqEqual
<1> QED BY <1>10 DEF L, R, T, B, e, x, a, c

\* The units of the rest of a row of bytes.
UnitsAre(cp) == IF cp < 65536 THEN <<cp>>
                ELSE <<55296 + ((cp - 65536) \div 1024), 56320 + ((cp - 65536) % 1024)>>

FromAt(bytes, from, i) ==
  IF i > Len(bytes) THEN <<>> ELSE UnitsAre(PointAt(bytes, i)) \o from[i + BytesOf(bytes[i])]

Froms(from, bytes) == \A i \in 1 .. Len(bytes) + 4 : from[i] = FromAt(bytes, from, i)

LEMMA BytesOfIs ==
  ASSUME NEW x
  PROVE  BytesOf(x) \in 1 .. 4
  BY DEF BytesOf

LEMMA FromsIs ==
  ASSUME NEW s, Len(s) \in Nat
  PROVE  \E from : Froms(from, s) /\ UnitsOf(s) = from[1]
<1> DEFINE n == Len(s) + 4
           Eq(f, m) == f = [i \in n - m .. n |-> FromAt(s, f, i)]
           Has == {m \in Nat : m < n => \E f : Eq(f, m)}
<1>1. \A f : FromAt(s, f, n) = <<>>
  BY DEF FromAt
<1>2. 0 \in Has
  <2> DEFINE f == [i \in n - 0 .. n |-> <<>>]
  <2>1. \A i \in n - 0 .. n : i = n
    OBVIOUS
  <2>2. Eq(f, 0)
    <3>1. \A h : \A i \in n - 0 .. n : FromAt(s, h, i) = <<>>
      BY <1>1, <2>1
    <3>2. \A h : [i \in n - 0 .. n |-> FromAt(s, h, i)] = f
      BY <3>1
    <3> HIDE DEF f
    <3> QED BY <3>2
  <2> HIDE DEF f, Eq
  <2> QED BY <2>2
<1>3. ASSUME NEW m \in Has PROVE m + 1 \in Has
  <2> SUFFICES ASSUME m + 1 < n PROVE \E f : Eq(f, m + 1)
    OBVIOUS
  <2>1. PICK f : Eq(f, m)
    OBVIOUS
  <2> DEFINE g == [i \in n - (m + 1) .. n |-> FromAt(s, f, i)]
  <2>2. ASSUME NEW i \in n - m .. n PROVE g[i] = f[i]
    <3>1. i \in n - (m + 1) .. n
      OBVIOUS
    <3>2. f[i] = FromAt(s, f, i)
      BY <2>1
    <3> QED BY <3>1, <3>2
  <2>3. ASSUME NEW i \in n - (m + 1) .. n PROVE FromAt(s, g, i) = FromAt(s, f, i)
    <3>1. CASE i > Len(s)
      BY <3>1 DEF FromAt
    <3>2. CASE ~(i > Len(s))
      <4> DEFINE j == i + BytesOf(s[i])
      <4>1. j \in n - m .. n
        <5> DEFINE y == BytesOf(s[i])
        <5>1. y \in 1 .. 4
          BY BytesOfIs
        <5> HIDE DEF y
        <5>2. i + y \in n - m .. n
          BY <3>2, <5>1
        <5> QED BY <5>2 DEF y
      <4>2. g[j] = f[j]
        <5> HIDE DEF g, j
        <5> QED BY <2>2, <4>1
      <4> HIDE DEF g
      <4> QED BY <3>2, <4>2 DEF FromAt
    <3> QED BY <3>1, <3>2
  <2>4. Eq(g, m + 1)
    <3>1. g = [i \in n - (m + 1) .. n |-> FromAt(s, f, i)]
      OBVIOUS
    <3> HIDE DEF g
    <3> QED BY <2>3, <3>1
  <2> HIDE DEF g, Eq
  <2> QED BY <2>4
<1>4. n - 1 \in Has
  <2>1. Has \in SUBSET Nat /\ n - 1 \in Nat
    OBVIOUS
  <2> HIDE DEF Has
  <2> QED BY <1>2, <1>3, <2>1, SetInduction
<1>5. PICK f : Eq(f, n - 1)
  <2> HIDE DEF Eq
  <2> QED BY <1>4
<1> DEFINE from == CHOOSE d : d = [i \in 1 .. n |-> FromAt(s, d, i)]
<1>6. f = [i \in 1 .. n |-> FromAt(s, f, i)]
  <2>1. n - (n - 1) = 1
    OBVIOUS
  <2> QED BY <1>5, <2>1
<1>7. from = [i \in 1 .. n |-> FromAt(s, from, i)]
  BY <1>6
<1>8. UnitsOf(s) = from[1]
  BY DEF UnitsOf, FromAt, PointAt, UnitsAre
<1> HIDE DEF from
<1>9. Froms(from, s)
  BY <1>7 DEF Froms
<1> QED BY <1>8, <1>9

\* The bytes of a character lie before the rest of them.
LEMMA FromOne ==
  ASSUME NEW s, NEW from, Froms(from, s), NEW cp \in Points, NEW p, Lies(s, p, CodePointToUTF8(cp))
  PROVE  from[p + 1] = UnitsAre(cp) \o from[(p + Len(CodePointToUTF8(cp))) + 1]
<1> DEFINE e == CodePointToUTF8(cp)
           W == Width(cp)
<1>1. Len(e) = W /\ W \in 1 .. 4 /\ PointAt(s, p + 1) = cp /\ BytesOf(s[p + 1]) = W
  BY EncodesIs DEF Encodes
<1>2. Len(s) \in Nat /\ p \in Nat /\ p + Len(e) <= Len(s)
  BY DEF Lies
<1> HIDE DEF e, W
<1>3. p + 1 \in 1 .. Len(s) + 4 /\ ~(p + 1 > Len(s)) /\ (p + 1) + W = (p + W) + 1
  BY <1>1, <1>2
<1>4. from[p + 1] = FromAt(s, from, p + 1)
  BY <1>3 DEF Froms
<1>5. FromAt(s, from, p + 1) = UnitsAre(cp) \o from[(p + 1) + W]
  BY <1>1, <1>3 DEF FromAt
<1> QED BY <1>1, <1>3, <1>4, <1>5 DEF e

\* The character that a pair of surrogates is, and a number by itself.
PairOf(u, x) == 65536 + 1024 * (u % 1024) + (x % 1024)

LEMMA PairIs ==
  ASSUME NEW u \in Code, NEW x \in Code, High(u), Low(x)
  PROVE  PairOf(u, x) \in Points /\ UnitsAre(PairOf(u, x)) = <<u, x>> /\ Width(PairOf(u, x)) = 4
<1> DEFINE a == u % 1024
           b == x % 1024
           c == 1024 * a + b
<1>1. u \in Nat /\ 55296 <= u /\ u <= 56319
  BY SMT DEF High
<1>2. x \in Nat /\ 56320 <= x /\ x <= 57343
  BY SMT DEF Low
<1>3. u = 55296 + a /\ a \in Nat /\ a < 1024
  BY <1>1, SMT
<1>4. x = 56320 + b /\ b \in Nat /\ b < 1024
  BY <1>2, SMT
<1>5. PairOf(u, x) = 65536 + c
  BY <1>3, <1>4, SMT DEF PairOf
<1> HIDE DEF a, b
<1>6. c \in Nat /\ c <= 1048575 /\ c \div 1024 = a /\ c % 1024 = b
  BY <1>3, <1>4, SMT
<1> HIDE DEF c
<1>7. PairOf(u, x) \in Points /\ Width(PairOf(u, x)) = 4
  BY <1>5, <1>6, SMT DEF Points, Width
<1>8. UnitsAre(PairOf(u, x)) = <<55296 + a, 56320 + b>>
  BY <1>5, <1>6, SMT DEF UnitsAre
<1> QED BY <1>3, <1>4, <1>7, <1>8, SMT

LEMMA AloneIs ==
  ASSUME NEW u \in Code
  PROVE  u \in Points /\ UnitsAre(u) = <<u>>
<1>1. u \in Nat /\ u <= 65535
  BY SMT DEF Code
<1> QED BY <1>1, SMT DEF Points, UnitsAre

\* An escape that is no half of a pair, and two that are.
LEMMA UnescapeAlone ==
  ASSUME NEW s, NEW d, Unescapes(d, s), NEW p, NEW u \in Code, ~High(u), Lies(s, p, UnicodeEscape(u))
  PROVE  d[p] = Leading(CodePointToUTF8(u), d[p + 6])
<1>1. Len(s) \in Nat /\ p \in Nat
  BY DEF Lies
<1>2. p + 6 <= Len(s) /\ s[p + 1] = 92 /\ s[p + 2] = 117 /\ HexAt(s, p + 2) = u
  BY <1>1, HexAtIs
<1>3. CodePointAt(s, p + 2) = Alone(u, p + 2)
  BY <1>2, CodeIs
<1>4. p \in 0 .. Len(s) /\ p # Len(s) /\ p + 1 # Len(s) /\ (p + 2) + 4 = p + 6
  BY <1>1, <1>2
<1>5. CodePointAt(s, p + 2).code = u /\ CodePointAt(s, p + 2).end = p + 6 /\ u # -1
  <2>1. u \in Nat
    BY SMT DEF Code
  <2> QED BY <1>3, <1>4, <2>1, SMT DEF Alone
<1>6. d[p] = UnescapeAt(s, d, p)
  BY <1>4 DEF Unescapes
<1> QED BY <1>2, <1>4, <1>5, <1>6, SMT DEF UnescapeAt, Backslash, LetterU

LEMMA UnescapePair ==
  ASSUME NEW s, NEW d, Unescapes(d, s), NEW p, NEW u \in Code, NEW x \in Code, High(u),
         Lies(s, p, UnicodeEscape(u)), Lies(s, p + 6, UnicodeEscape(x))
  PROVE  d[p] = Leading(CodePointToUTF8(PairOf(u, x)), d[p + 12])
<1>1. Len(s) \in Nat /\ p \in Nat
  BY DEF Lies
<1>2. p + 6 <= Len(s) /\ s[p + 1] = 92 /\ s[p + 2] = 117 /\ HexAt(s, p + 2) = u
  BY <1>1, HexAtIs
<1>3. p + 12 <= Len(s) /\ s[p + 7] = 92 /\ s[p + 8] = 117 /\ HexAt(s, p + 8) = x
  <2>1. p + 6 \in Nat /\ (p + 6) + 6 = p + 12 /\ (p + 6) + 1 = p + 7 /\ (p + 6) + 2 = p + 8
    BY <1>1
  <2>2. (p + 6) + 6 <= Len(s) /\ s[(p + 6) + 1] = 92 /\ s[(p + 6) + 2] = 117 /\ HexAt(s, (p + 6) + 2) = x
    BY <2>1, HexAtIs
  <2> QED BY <2>1, <2>2
<1>4. SecondAt(s, p + 2) = x
  <2>1. (p + 2) + 5 = p + 7 /\ (p + 2) + 6 = p + 8 /\ Len(s) - ((p + 2) + 4) >= 6
    BY <1>1, <1>3
  <2> QED BY <1>3, <2>1 DEF SecondAt, Backslash, LetterU
<1>5. x \in Nat /\ u \in Nat
  BY SMT DEF Code
<1>6. CodePointAt(s, p + 2) = [code |-> PairOf(u, x), end |-> (p + 2) + 10]
  <2>1. CodePointAt(s, p + 2) = Pair(u, x, p + 2)
    BY <1>2, <1>4, CodeIs
  <2>2. x # -1
    BY <1>5
  <2> QED BY <2>1, <2>2 DEF Pair, PairOf
<1>7. PairOf(u, x) # -1
  BY <1>5, SMT DEF PairOf
<1>8. p \in 0 .. Len(s) /\ p # Len(s) /\ p + 1 # Len(s) /\ (p + 2) + 10 = p + 12
  BY <1>1, <1>2
<1>9. d[p] = UnescapeAt(s, d, p)
  BY <1>8 DEF Unescapes
<1>10. CodePointAt(s, p + 2).code = PairOf(u, x) /\ CodePointAt(s, p + 2).end = p + 12
  BY <1>6, <1>8
<1> QED BY <1>2, <1>7, <1>8, <1>9, <1>10 DEF UnescapeAt, Backslash, LetterU

\* The bytes of the characters that units of UTF-16 mean, those of a pair at
\* its second half.
Meaning(us, i) ==
  IF High(us[i]) THEN <<>>
  ELSE IF Low(us[i]) THEN CodePointToUTF8(PairOf(us[i - 1], us[i]))
  ELSE CodePointToUTF8(us[i])

Escaped(us) == [i \in 1 .. Len(us) |-> UnicodeEscape(us[i])]
Meant(us)   == [i \in 1 .. Len(us) |-> Meaning(us, i)]

RightUnits(us) == us \in Seq(Code) /\ RightUTF16(us)

LEMMA HighOrLow ==
  ASSUME NEW u, High(u)
  PROVE  ~Low(u)
<1>1. u \in Int /\ u <= 56319
  BY SMT DEF High
<1>2. Low(u) => u >= 56320
  BY SMT DEF Low
<1> QED BY <1>1, <1>2, SMT

UnitMeans(us, i) ==
  /\ us[i] \in Code
  /\ Meaning(us, i) \in Seq(Byte)
  /\ High(us[i]) => ~Low(us[i]) /\ Meaning(us, i) = <<>> /\ i + 1 \in 1 .. Len(us) /\ Low(us[i + 1])
  /\ Low(us[i]) => /\ i - 1 \in 1 .. Len(us) /\ High(us[i - 1])
                   /\ Meaning(us, i) = CodePointToUTF8(PairOf(us[i - 1], us[i]))
                   /\ Len(Meaning(us, i)) = 4
  /\ ~High(us[i]) /\ ~Low(us[i]) => /\ Meaning(us, i) = CodePointToUTF8(us[i])
                                    /\ Len(Meaning(us, i)) = Width(us[i])

LEMMA UnitMeansIs ==
  ASSUME NEW us, RightUnits(us), NEW i \in 1 .. Len(us)
  PROVE  UnitMeans(us, i)
<1>1. us[i] \in Code /\ Len(us) \in Nat
  BY DEF RightUnits
<1>2. High(us[i]) => i < Len(us) /\ Low(us[i + 1])
  BY DEF RightUnits, RightUTF16
<1>3. Low(us[i]) => i > 1 /\ High(us[i - 1])
  BY DEF RightUnits, RightUTF16
<1>4. CASE High(us[i])
  <2>1. ~Low(us[i]) /\ Meaning(us, i) = <<>> /\ i + 1 \in 1 .. Len(us)
    BY <1>1, <1>2, <1>4, HighOrLow DEF Meaning
  <2> QED BY <1>1, <1>2, <1>4, <2>1 DEF UnitMeans
<1>5. CASE Low(us[i])
  <2>1. ~High(us[i]) /\ i - 1 \in 1 .. Len(us)
    BY <1>1, <1>3, <1>5, HighOrLow
  <2> DEFINE x == us[i - 1]
             c == PairOf(x, us[i])
  <2>2. x \in Code /\ High(x)
    BY <1>3, <1>5, <2>1 DEF RightUnits
  <2>3. Meaning(us, i) = CodePointToUTF8(c)
    BY <1>5, <2>1 DEF Meaning
  <2> HIDE DEF x
  <2>4. c \in Points /\ Width(c) = 4
    BY <1>1, <1>5, <2>2, PairIs
  <2> HIDE DEF c
  <2>5. Encodes(CodePointToUTF8(c), c)
    BY <2>4, EncodesIs
  <2>6. CodePointToUTF8(c) \in Seq(Byte) /\ Len(CodePointToUTF8(c)) = 4
    BY <2>4, <2>5 DEF Encodes
  <2> QED BY <1>1, <1>3, <1>5, <2>1, <2>3, <2>6 DEF UnitMeans, c, x
<1>6. CASE ~High(us[i]) /\ ~Low(us[i])
  <2> DEFINE c == us[i]
  <2>1. Meaning(us, i) = CodePointToUTF8(c)
    BY <1>6 DEF Meaning
  <2>2. c \in Points
    BY <1>1, AloneIs
  <2> HIDE DEF c
  <2>3. Encodes(CodePointToUTF8(c), c)
    BY <2>2, EncodesIs
  <2>4. CodePointToUTF8(c) \in Seq(Byte) /\ Len(CodePointToUTF8(c)) = Width(c)
    BY <2>3 DEF Encodes
  <2> QED BY <1>1, <1>6, <2>1, <2>4 DEF UnitMeans, c
<1> QED BY <1>4, <1>5, <1>6

LEMMA RowsAre ==
  ASSUME NEW us, RightUnits(us)
  PROVE  /\ Len(us) \in Nat
         /\ Escaped(us) \in [1 .. Len(us) -> Seq(Byte)]
         /\ Meant(us) \in [1 .. Len(us) -> Seq(Byte)]
<1>1. \A i \in 1 .. Len(us) : us[i] \in Code
  BY DEF RightUnits
<1>2. \A i \in 1 .. Len(us) : UnicodeEscape(us[i]) \in Seq(Byte)
  BY <1>1, EscapeOf
<1>3. \A i \in 1 .. Len(us) : Meaning(us, i) \in Seq(Byte)
  BY UnitMeansIs DEF UnitMeans
<1> QED BY <1>2, <1>3 DEF RightUnits, Escaped, Meant

\* What holds behind the last unit and before a character if it does behind
\* it holds before the first one.
Beyond(us, G, k) ==
  /\ High(us[k + 1]) /\ Low(us[k + 2]) /\ k + 2 <= Len(us) /\ k + 2 \in G => k \in G
  /\ ~High(us[k + 1]) /\ ~Low(us[k + 1]) /\ k + 1 \in G => k \in G

LEMMA Backwards ==
  ASSUME NEW us, RightUnits(us), NEW G, Len(us) \in G,
         \A k \in 0 .. Len(us) - 1 : Beyond(us, G, k)
  PROVE  0 \in G
<1> DEFINE n == Len(us)
           Good(k) == (k = n \/ ~Low(us[k + 1])) => k \in G
           Has == {m \in Nat : m <= n => \A k \in n - m .. n : Good(k)}
<1>1. n \in Nat
  BY DEF RightUnits
<1>2. 0 \in Has
  <2>1. \A k \in n - 0 .. n : k = n
    BY <1>1
  <2> QED BY <2>1
<1>3. ASSUME NEW m \in Has PROVE m + 1 \in Has
  <2> SUFFICES ASSUME m + 1 <= n, NEW k \in n - (m + 1) .. n PROVE Good(k)
    <3> HIDE DEF Good, n
    <3> QED OBVIOUS
  <2>1. \A j \in n - m .. n : Good(j)
    <3>1. m <= n
      BY <1>1
    <3> HIDE DEF Good, n
    <3> QED BY <3>1
  <2>2. CASE k \in n - m .. n
    <3> HIDE DEF Good, n
    <3> QED BY <2>1, <2>2
  <2>3. CASE k = n - (m + 1)
    <3> SUFFICES ASSUME ~Low(us[k + 1]) PROVE k \in G
      <4>1. k # n
        BY <1>1, <2>3
      <4> QED BY <4>1
    <3>1. k \in 0 .. n - 1 /\ k + 1 \in 1 .. Len(us) /\ k + 1 \in n - m .. n
      BY <1>1, <2>3
    <3>2. UnitMeans(us, k + 1)
      BY <3>1, UnitMeansIs
    <3>3. Beyond(us, G, k)
      BY <3>1
    <3>4. CASE High(us[k + 1])
      <4>1. (k + 1) + 1 \in 1 .. Len(us) /\ Low(us[(k + 1) + 1])
        BY <3>2, <3>4 DEF UnitMeans
      <4>2. (k + 1) + 1 = k + 2 /\ k + 2 \in n - m .. n
        BY <1>1, <3>1, <4>1
      <4>3. k + 2 = n \/ ~Low(us[(k + 2) + 1])
        <5> SUFFICES ASSUME k + 2 # n, Low(us[(k + 2) + 1]) PROVE FALSE
          OBVIOUS
        <5>1. (k + 2) + 1 \in 1 .. Len(us) /\ ((k + 2) + 1) - 1 = k + 2
          BY <1>1, <3>1, <4>2
        <5>2. High(us[k + 2])
          BY <5>1, UnitMeansIs DEF UnitMeans
        <5> QED BY <4>1, <4>2, <5>2, HighOrLow
      <4>4. k + 2 \in G
        BY <2>1, <4>2, <4>3
      <4>5. k + 2 <= Len(us)
        BY <1>1, <4>2
      <4> QED BY <3>3, <3>4, <4>1, <4>2, <4>4, <4>5 DEF Beyond
    <3>5. CASE ~High(us[k + 1])
      <4>1. k + 1 = n \/ ~Low(us[(k + 1) + 1])
        <5> SUFFICES ASSUME k + 1 # n, Low(us[(k + 1) + 1]) PROVE FALSE
          OBVIOUS
        <5>1. (k + 1) + 1 \in 1 .. Len(us) /\ ((k + 1) + 1) - 1 = k + 1
          BY <1>1, <3>1
        <5>2. High(us[k + 1])
          BY <5>1, UnitMeansIs DEF UnitMeans
        <5> QED BY <3>5, <5>2
      <4>2. k + 1 \in G
        BY <2>1, <3>1, <4>1
      <4> QED BY <3>3, <3>5, <4>2 DEF Beyond
    <3> QED BY <3>4, <3>5
  <2>4. k \in n - m .. n \/ k = n - (m + 1)
    BY <1>1
  <2> QED BY <2>2, <2>3, <2>4
<1>4. n \in Has
  <2>1. Has \in SUBSET Nat
    OBVIOUS
  <2> HIDE DEF Has
  <2> QED BY <1>1, <1>2, <1>3, <2>1, SetInduction
<1>5. Good(0)
  <2>1. 0 \in n - n .. n /\ n <= n
    BY <1>1
  <2> HIDE DEF Good, n
  <2> QED BY <1>4, <2>1
<1>6. 0 = n \/ ~Low(us[0 + 1])
  <2> SUFFICES ASSUME 0 # n, Low(us[1]) PROVE FALSE
    OBVIOUS
  <2>1. 1 \in 1 .. Len(us)
    BY <1>1
  <2>2. 1 - 1 \in 1 .. Len(us)
    BY <2>1, UnitMeansIs DEF UnitMeans
  <2> QED BY <2>2
<1> QED BY <1>5, <1>6

\* The decoder makes those bytes of the escapes of the units.
Rest(h, n, k) == SubSeq(h[n], Len(h[k]) + 1, Len(h[n]))

LEMMA RestIs ==
  ASSUME NEW us, RightUnits(us), NEW h, Pieces(h, Meant(us), Len(us), Byte), NEW k \in 0 .. Len(us) - 1
  PROVE  /\ Rest(h, Len(us), k + 1) \in Seq(Byte)
         /\ Rest(h, Len(us), k) = Meaning(us, k + 1) \o Rest(h, Len(us), k + 1)
         /\ High(us[k + 1]) => Rest(h, Len(us), k) = Rest(h, Len(us), k + 1)
<1> DEFINE n == Len(us)
           w == Meant(us)
<1>1. n \in Nat /\ k \in Nat /\ k < n /\ k + 1 \in 0 .. n /\ k + 1 \in 1 .. Len(us)
  BY RowsAre
<1>2. w[k + 1] = Meaning(us, k + 1)
  BY <1>1 DEF Meant
<1>3. Pieces(h, w, n, Byte)
  OBVIOUS
<1>4. UnitMeans(us, k + 1)
  BY <1>1, UnitMeansIs
<1> HIDE DEF n, w
<1>5. h[n] \in Seq(Byte) /\ h[k + 1] \in Seq(Byte) /\ Len(h[k + 1]) <= Len(h[n])
  <2> DEFINE j == k + 1
  <2>1. j \in 0 .. n
    BY <1>1
  <2> HIDE DEF j
  <2>2. h[j] \in Seq(Byte) /\ h[n] \in Seq(Byte) /\ Len(h[j]) <= Len(h[n])
    BY <1>3, <2>1, PiecesBegin
  <2> QED BY <2>2 DEF j
<1>6. Rest(h, n, k + 1) \in Seq(Byte)
  <2> DEFINE B == h[n]
             a == Len(h[k + 1])
  <2>1. B \in Seq(Byte) /\ a \in Nat /\ a <= Len(B) /\ Len(B) \in Nat
    BY <1>5
  <2> HIDE DEF B, a
  <2>2. a + 1 \in 1 .. Len(B) + 1 /\ Len(B) \in (a + 1) - 1 .. Len(B)
    BY <2>1
  <2>3. SubSeq(B, a + 1, Len(B)) \in Seq(Byte)
    BY <2>1, <2>2, SubSeqProperties
  <2> QED BY <2>3 DEF Rest, B, a
<1>7. Rest(h, n, k) = w[k + 1] \o Rest(h, n, k + 1)
  <2>1. SubSeq(h[n], Len(h[k]) + 1, Len(h[n]))
          = w[k + 1] \o SubSeq(h[n], Len(h[k + 1]) + 1, Len(h[n]))
    <3>1. k \in Nat /\ k < n
      BY <1>1
    <3> QED BY <1>3, <3>1, PieceRest, Zenon
  <2> QED BY <2>1 DEF Rest
<1>8. High(us[k + 1]) => Rest(h, n, k) = Rest(h, n, k + 1)
  <2> SUFFICES ASSUME High(us[k + 1]) PROVE Rest(h, n, k) = Rest(h, n, k + 1)
    OBVIOUS
  <2>1. w[k + 1] = <<>>
    BY <1>2, <1>4 DEF UnitMeans
  <2> QED BY <1>6, <1>7, <2>1, ConcatEmptySeq
<1> QED BY <1>2, <1>6, <1>7, <1>8 DEF n

\* Where an escape lies.
LEMMA EscapeLies ==
  ASSUME NEW us, RightUnits(us), NEW g, Pieces(g, Escaped(us), Len(us), Byte), NEW k \in 0 .. Len(us) - 1
  PROVE  /\ Lies(g[Len(us)], Len(g[k]), UnicodeEscape(us[k + 1]))
         /\ Len(g[k]) \in Nat
         /\ Len(g[k + 1]) = Len(g[k]) + 6
<1> DEFINE n == Len(us)
           w == Escaped(us)
           t == g[n]
<1>1. n \in Nat /\ k \in Nat /\ k < n /\ k + 1 \in 1 .. Len(us)
  BY RowsAre
<1>2. w[k + 1] = UnicodeEscape(us[k + 1]) /\ us[k + 1] \in Code
  BY <1>1 DEF Escaped, RightUnits
<1>3. Pieces(g, w, n, Byte)
  OBVIOUS
<1>4. Len(w[k + 1]) = 6
  BY <1>2, EscapeOf
<1> HIDE DEF n, w
<1>5. t \in Seq(Byte)
  BY <1>1, <1>3 DEF Pieces
<1>6. Starts(t, g[n])
  BY <1>5 DEF Starts
<1> HIDE DEF t
<1>7. PieceAt(t, g, w, k)
  BY <1>1, <1>3, <1>6, PieceLies
<1>8. Lies(t, Len(g[k]), w[k + 1]) /\ Len(g[k]) + Len(w[k + 1]) = Len(g[k + 1])
  BY <1>7 DEF PieceAt
<1>9. Len(g[k]) \in Nat
  BY <1>8 DEF Lies
<1> QED BY <1>2, <1>4, <1>8, <1>9 DEF t, n

LEMMA UnitsDecoded ==
  ASSUME NEW us, RightUnits(us), NEW g, Pieces(g, Escaped(us), Len(us), Byte),
         NEW h, Pieces(h, Meant(us), Len(us), Byte)
  PROVE  DecodeString(g[Len(us)]) = [ok |-> TRUE, str |-> h[Len(us)]]
<1> DEFINE n == Len(us)
           t == g[n]
           B == h[n]
           R(k) == [ok |-> TRUE, str |-> Rest(h, n, k)]
<1>1. n \in Nat /\ n \in 0 .. n /\ 0 \in 0 .. n
  BY RowsAre
<1>2. t \in Seq(Byte) /\ Len(t) \in Nat /\ B \in Seq(Byte) /\ Len(B) \in Nat
  <2>1. t \in Seq(Byte) /\ B \in Seq(Byte)
    <3> HIDE DEF n
    <3> QED BY <1>1 DEF Pieces, n
  <2> QED BY <2>1
<1>3. PICK d : Unescapes(d, t) /\ DecodeString(t) = d[0]
  BY <1>2, UnescapesIs
<1> DEFINE G == {k \in 0 .. n : d[Len(g[k])] = R(k)}
<1>4. n \in G
  <2>1. Len(t) \in 0 .. Len(t)
    BY <1>2
  <2>2. Rest(h, n, n) = <<>>
    BY <1>2 DEF Rest
  <2>3. d[Len(t)] = [ok |-> TRUE, str |-> <<>>]
    <3> HIDE DEF t
    <3> QED BY <1>3, <2>1 DEF Unescapes, UnescapeAt
  <2> QED BY <1>1, <2>2, <2>3
<1>5. ASSUME NEW k \in 0 .. n - 1 PROVE Beyond(us, G, k)
  <2> DEFINE p == Len(g[k])
             u == us[k + 1]
             x == us[k + 2]
  <2>1. k \in 0 .. n /\ k + 1 \in 1 .. Len(us)
    BY <1>1
  <2>2. Lies(t, p, UnicodeEscape(u)) /\ p \in Nat /\ Len(g[k + 1]) = p + 6
    <3> HIDE DEF p
    <3> QED BY EscapeLies DEF p
  <2>3. Rest(h, n, k) = Meaning(us, k + 1) \o Rest(h, n, k + 1)
    BY RestIs
  <2>4. u \in Code /\ UnitMeans(us, k + 1)
    BY <2>1, UnitMeansIs DEF UnitMeans
  <2>5. ASSUME High(u), Low(x), k + 2 <= n, k + 2 \in G PROVE k \in G
    <3>1. k + 1 \in 0 .. Len(us) - 1 /\ (k + 1) + 1 = k + 2 /\ k + 2 \in 1 .. Len(us)
      BY <1>1, <2>5
    <3>2. x \in Code /\ UnitMeans(us, k + 2)
      BY <3>1, UnitMeansIs DEF UnitMeans
    <3>3. Lies(t, p + 6, UnicodeEscape(x)) /\ Len(g[k + 2]) = p + 12
      <4>1. /\ Lies(g[Len(us)], Len(g[k + 1]), UnicodeEscape(us[(k + 1) + 1]))
            /\ Len(g[(k + 1) + 1]) = Len(g[k + 1]) + 6
        BY <3>1, EscapeLies
      <4> HIDE DEF p
      <4>2. Len(g[k + 2]) = (p + 6) + 6
        BY <2>2, <3>1, <4>1
      <4> QED BY <2>2, <3>1, <4>1, <4>2
    <3>4. Rest(h, n, k) = Meaning(us, k + 2) \o Rest(h, n, k + 2)
      <4>1. High(us[k + 1])
        BY <2>5
      <4>2. Rest(h, Len(us), k + 1) = Meaning(us, (k + 1) + 1) \o Rest(h, Len(us), (k + 1) + 1)
        BY <3>1, RestIs
      <4>3. Rest(h, Len(us), k) = Rest(h, Len(us), k + 1)
        BY <4>1, RestIs
      <4> QED BY <3>1, <4>2, <4>3
    <3>5. Meaning(us, k + 2) = CodePointToUTF8(PairOf(u, x))
      <4>1. (k + 2) - 1 = k + 1
        BY <2>1
      <4> QED BY <2>5, <3>2, <4>1 DEF UnitMeans
    <3>6. d[p + 12] = R(k + 2)
      <4> HIDE DEF R
      <4> QED BY <2>5, <3>3
    <3>7. d[p] = Leading(CodePointToUTF8(PairOf(u, x)), d[p + 12])
      <4> HIDE DEF t, p, u, x
      <4> QED BY <1>3, <2>2, <2>4, <2>5, <3>2, <3>3, UnescapePair
    <3>8. d[p] = [ok |-> TRUE, str |-> CodePointToUTF8(PairOf(u, x)) \o Rest(h, n, k + 2)]
      <4> DEFINE e == CodePointToUTF8(PairOf(u, x))
                 y == Rest(h, n, k + 2)
      <4>1. d[p] = Leading(e, [ok |-> TRUE, str |-> y])
        BY <3>6, <3>7
      <4> HIDE DEF e, y
      <4>2. Leading(e, [ok |-> TRUE, str |-> y]) = [ok |-> TRUE, str |-> e \o y]
        BY LeadingIs
      <4> QED BY <4>1, <4>2 DEF e, y
    <3>9. d[p] = R(k)
      BY <3>4, <3>5, <3>8
    <3> QED BY <2>1, <3>9
  <2>6. ASSUME ~High(u), ~Low(u), k + 1 \in G PROVE k \in G
    <3>1. d[p + 6] = R(k + 1)
      <4> HIDE DEF R
      <4> QED BY <2>2, <2>6
    <3>2. Meaning(us, k + 1) = CodePointToUTF8(u)
      BY <2>4, <2>6 DEF UnitMeans
    <3>3. d[p] = Leading(CodePointToUTF8(u), d[p + 6])
      <4> HIDE DEF t, p, u
      <4> QED BY <1>3, <2>2, <2>4, <2>6, UnescapeAlone
    <3>4. d[p] = [ok |-> TRUE, str |-> CodePointToUTF8(u) \o Rest(h, n, k + 1)]
      <4> DEFINE e == CodePointToUTF8(u)
                 y == Rest(h, n, k + 1)
      <4>1. d[p] = Leading(e, [ok |-> TRUE, str |-> y])
        BY <3>1, <3>3
      <4> HIDE DEF e, y
      <4>2. Leading(e, [ok |-> TRUE, str |-> y]) = [ok |-> TRUE, str |-> e \o y]
        BY LeadingIs
      <4> QED BY <4>1, <4>2 DEF e, y
    <3>5. d[p] = R(k)
      BY <2>3, <3>2, <3>4
    <3> QED BY <2>1, <3>5
  <2> HIDE DEF G
  <2> QED BY <2>5, <2>6 DEF Beyond
<1>6. 0 \in G
  <2> HIDE DEF G
  <2>1. Len(us) \in G /\ \A k \in 0 .. Len(us) - 1 : Beyond(us, G, k)
    BY <1>4, <1>5
  <2> QED BY <2>1, Backwards
<1>7. d[Len(g[0])] = R(0)
  <2> HIDE DEF R
  <2> QED BY <1>6
<1>8. Len(g[0]) = 0 /\ Len(h[0]) = 0
  BY DEF Pieces
<1>9. Rest(h, n, 0) = B
  <2>1. SubSeq(B, 0 + 1, Len(B)) = B
    BY <1>2, SubSeqFull
  <2> QED BY <1>8, <2>1 DEF Rest
<1> QED BY <1>3, <1>7, <1>8, <1>9

\* And the bytes are those of these units.
LEMMA MeaningLies ==
  ASSUME NEW us, RightUnits(us), NEW h, Pieces(h, Meant(us), Len(us), Byte), NEW k \in 0 .. Len(us) - 1
  PROVE  /\ Lies(h[Len(us)], Len(h[k]), Meaning(us, k + 1))
         /\ Len(h[k]) \in Nat
         /\ Len(h[k + 1]) = Len(h[k]) + Len(Meaning(us, k + 1))
         /\ High(us[k + 1]) => Len(h[k + 1]) = Len(h[k])
<1> DEFINE n == Len(us)
           w == Meant(us)
           t == h[n]
<1>1. n \in Nat /\ k \in Nat /\ k < n /\ k + 1 \in 1 .. Len(us)
  BY RowsAre
<1>2. w[k + 1] = Meaning(us, k + 1)
  BY <1>1 DEF Meant
<1>3. Pieces(h, w, n, Byte)
  OBVIOUS
<1>4. High(us[k + 1]) => Len(w[k + 1]) = 0
  BY <1>1, <1>2, UnitMeansIs DEF UnitMeans
<1> HIDE DEF n, w
<1>5. t \in Seq(Byte)
  BY <1>1, <1>3 DEF Pieces
<1>6. Starts(t, h[n])
  BY <1>5 DEF Starts
<1> HIDE DEF t
<1>7. PieceAt(t, h, w, k)
  BY <1>1, <1>3, <1>6, PieceLies
<1>8. Lies(t, Len(h[k]), w[k + 1]) /\ Len(h[k]) + Len(w[k + 1]) = Len(h[k + 1])
  BY <1>7 DEF PieceAt
<1>9. Len(h[k]) \in Nat
  BY <1>8 DEF Lies
<1>10. High(us[k + 1]) => Len(h[k + 1]) = Len(h[k])
  <2> SUFFICES ASSUME High(us[k + 1]) PROVE Len(h[k + 1]) = Len(h[k])
    OBVIOUS
  <2>1. Len(w[k + 1]) = 0
    BY <1>4
  <2> QED BY <1>8, <1>9, <2>1
<1> QED BY <1>2, <1>8, <1>9, <1>10 DEF t, n

LEMMA UnitsBack ==
  ASSUME NEW us, RightUnits(us), NEW h, Pieces(h, Meant(us), Len(us), Byte)
  PROVE  UnitsOf(h[Len(us)]) = us
<1> DEFINE n == Len(us)
           t == h[n]
           R(k) == SubSeq(us, k + 1, n)
<1>1. n \in Nat /\ n \in 0 .. n /\ 0 \in 0 .. n /\ us \in Seq(Code)
  BY RowsAre DEF RightUnits
<1>2. t \in Seq(Byte) /\ Len(t) \in Nat
  BY <1>1 DEF Pieces
<1>3. PICK from : Froms(from, t) /\ UnitsOf(t) = from[1]
  BY <1>2, FromsIs
<1> DEFINE G == {k \in 0 .. n : from[Len(h[k]) + 1] = R(k)}
<1>4. n \in G
  <2>1. Len(t) + 1 \in 1 .. Len(t) + 4 /\ Len(t) + 1 > Len(t)
    BY <1>2
  <2>2. R(n) = <<>>
    BY <1>1
  <2>3. from[Len(t) + 1] = <<>>
    <3> HIDE DEF t
    <3> QED BY <1>3, <2>1 DEF Froms, FromAt
  <2> QED BY <1>1, <2>2, <2>3
<1>5. ASSUME NEW k \in 0 .. n - 1 PROVE Beyond(us, G, k)
  <2> DEFINE p == Len(h[k])
             u == us[k + 1]
             x == us[k + 2]
  <2>1. k \in 0 .. n /\ k + 1 \in 1 .. Len(us)
    BY <1>1
  <2>2. /\ Lies(t, p, Meaning(us, k + 1)) /\ p \in Nat
        /\ Len(h[k + 1]) = p + Len(Meaning(us, k + 1))
        /\ High(u) => Len(h[k + 1]) = p
    <3> HIDE DEF p
    <3> QED BY MeaningLies DEF p
  <2>3. R(k) = <<u>> \o R(k + 1)
    <3>1. k + 1 \in 1 .. Len(us) /\ n \in k + 1 .. Len(us)
      BY <1>1, <2>1
    <3> QED BY <1>1, <3>1, SubSeqRecursiveFirst
  <2>4. u \in Code /\ UnitMeans(us, k + 1)
    BY <2>1, UnitMeansIs DEF UnitMeans
  <2>5. ASSUME High(u), Low(x), k + 2 <= n, k + 2 \in G PROVE k \in G
    <3> DEFINE c == PairOf(u, x)
               e == CodePointToUTF8(c)
    <3>1. k + 1 \in 0 .. Len(us) - 1 /\ (k + 1) + 1 = k + 2 /\ k + 2 \in 1 .. Len(us)
      BY <1>1, <2>5
    <3>2. x \in Code /\ UnitMeans(us, k + 2)
      BY <3>1, UnitMeansIs DEF UnitMeans
    <3>3. Meaning(us, k + 2) = e
      <4>1. (k + 2) - 1 = k + 1
        BY <2>1
      <4> QED BY <2>5, <3>2, <4>1 DEF UnitMeans
    <3>4. Lies(t, p, e) /\ Len(h[k + 2]) = p + Len(e)
      <4>1. /\ Lies(h[Len(us)], Len(h[k + 1]), Meaning(us, (k + 1) + 1))
            /\ Len(h[(k + 1) + 1]) = Len(h[k + 1]) + Len(Meaning(us, (k + 1) + 1))
        BY <3>1, MeaningLies
      <4>2. Len(h[k + 1]) = p
        BY <2>2, <2>5
      <4> HIDE DEF p, e
      <4> QED BY <3>1, <3>3, <4>1, <4>2
    <3>5. c \in Points /\ UnitsAre(c) = <<u, x>>
      <4> HIDE DEF u, x
      <4> QED BY <2>4, <2>5, <3>2, PairIs
    <3>6. from[p + 1] = <<u, x>> \o from[(p + Len(e)) + 1]
      <4>0. Froms(from, t) /\ Lies(t, p, CodePointToUTF8(c))
        BY <1>3, <3>4
      <4> HIDE DEF t, p, c, u, x, G, R
      <4>1. from[p + 1] = UnitsAre(c) \o from[(p + Len(CodePointToUTF8(c))) + 1]
        BY <3>5, <4>0, FromOne
      <4> QED BY <3>5, <4>1
    <3>7. from[(p + Len(e)) + 1] = R(k + 2)
      <4> HIDE DEF R, p, e
      <4> QED BY <2>5, <3>4
    <3>8. R(k + 1) = <<x>> \o R(k + 2)
      <4>1. k + 2 \in 1 .. Len(us) /\ n \in k + 2 .. Len(us) /\ (k + 1) + 1 = k + 2
        BY <1>1, <3>1
      <4>2. SubSeq(us, k + 2, n) = <<us[k + 2]>> \o SubSeq(us, (k + 2) + 1, n)
        BY <1>1, <4>1, SubSeqRecursiveFirst
      <4> QED BY <4>1, <4>2
    <3>9. <<u, x>> \o R(k + 2) = <<u>> \o (<<x>> \o R(k + 2))
      <4> DEFINE y == R(k + 2)
                 one == <<u>>
                 two == <<x>>
      <4>1. y \in Seq(Code)
        <5>1. k + 3 \in 1 .. Len(us) + 1 /\ n \in (k + 3) - 1 .. Len(us) /\ (k + 2) + 1 = k + 3
          BY <1>1, <3>1
        <5>2. SubSeq(us, k + 3, n) \in Seq(Code)
          BY <1>1, <5>1, SubSeqProperties
        <5> QED BY <5>1, <5>2
      <4>2. one \in Seq(Code) /\ two \in Seq(Code) /\ one \o two = <<u, x>>
        <5>1. u \in Code /\ x \in Code
          BY <2>4, <3>2
        <5> HIDE DEF u, x
        <5>2. one \in Seq(Code) /\ two \in Seq(Code)
          BY <5>1
        <5>3. one \o two = <<u, x>>
          <6> DEFINE both == one \o two
                     pair == <<u, x>>
          <6>1. pair \in Seq(Code) /\ Len(pair) = 2 /\ pair[1] = u /\ pair[2] = x
            BY <5>1
          <6>2. Len(one) = 1 /\ Len(two) = 1 /\ one[1] = u /\ two[1] = x
            OBVIOUS
          <6> HIDE DEF one, two, pair
          <6>3. both \in Seq(Code) /\ Grows(one, both, two)
            BY <5>2, ConcatGrows, ConcatProperties
          <6> HIDE DEF both
          <6>4. Len(both) = 2 /\ both[1] = u /\ both[1 + 1] = x
            BY <6>2, <6>3 DEF Grows
          <6>5. \A i \in 1 .. Len(both) : both[i] = pair[i]
            BY <6>1, <6>4
          <6> QED BY <6>1, <6>3, <6>4, <6>5, SeqEqual DEF both, pair
        <5> QED BY <5>2, <5>3
      <4> HIDE DEF one, two, y, R
      <4>3. (one \o two) \o y = one \o (two \o y)
        <5>1. \A a, b, c1 \in Seq(Code) : (a \o b) \o c1 = a \o (b \o c1)
          BY ConcatAssociative
        <5> QED BY <4>1, <4>2, <5>1
      <4> QED BY <4>2, <4>3 DEF one, two, y
    <3>10. from[p + 1] = R(k)
      <4> HIDE DEF R, u, x, p, e
      <4> QED BY <2>3, <3>6, <3>7, <3>8, <3>9
    <3> QED BY <2>1, <3>10
  <2>6. ASSUME ~High(u), ~Low(u), k + 1 \in G PROVE k \in G
    <3> DEFINE e == CodePointToUTF8(u)
    <3>1. Meaning(us, k + 1) = e
      BY <2>4, <2>6 DEF UnitMeans
    <3>2. from[(p + Len(e)) + 1] = R(k + 1)
      <4> HIDE DEF R, p, e
      <4> QED BY <2>2, <2>6, <3>1
    <3>3. u \in Points /\ UnitsAre(u) = <<u>>
      <4> HIDE DEF u
      <4> QED BY <2>4, AloneIs
    <3>4. from[p + 1] = <<u>> \o from[(p + Len(e)) + 1]
      <4>1. Froms(from, t) /\ Lies(t, p, CodePointToUTF8(u))
        BY <1>3, <2>2, <3>1
      <4> HIDE DEF t, p, u, G, R
      <4>2. from[p + 1] = UnitsAre(u) \o from[(p + Len(CodePointToUTF8(u))) + 1]
        BY <3>3, <4>1, FromOne
      <4> QED BY <3>3, <4>2
    <3>5. from[p + 1] = R(k)
      <4> HIDE DEF R, u, p, e
      <4> QED BY <2>3, <3>2, <3>4
    <3> QED BY <2>1, <3>5
  <2> HIDE DEF G
  <2> QED BY <2>5, <2>6 DEF Beyond
<1>6. 0 \in G
  <2> HIDE DEF G
  <2>1. Len(us) \in G /\ \A k \in 0 .. Len(us) - 1 : Beyond(us, G, k)
    BY <1>4, <1>5
  <2> QED BY <2>1, Backwards
<1>7. from[Len(h[0]) + 1] = R(0)
  <2> HIDE DEF R
  <2> QED BY <1>6
<1>8. Len(h[0]) = 0
  BY DEF Pieces
<1>9. R(0) = us
  BY <1>1, SubSeqFull
<1> QED BY <1>3, <1>7, <1>8, <1>9

\* The shortest UTF-8 of the units, half of a pair for each of its halves.
ShortestOf(u) == IF u < 128 THEN 1 ELSE IF u < 2048 THEN 2
                 ELSE IF High(u) \/ Low(u) THEN 2 ELSE 3

LengthAt(us, f, i) == IF i = 0 THEN 0 ELSE f[i - 1] + ShortestOf(us[i])

Lengths(f, us) == \A i \in 0 .. Len(us) : f[i] \in Nat /\ f[i] = LengthAt(us, f, i)

LEMMA LengthsAre ==
  ASSUME NEW us, Len(us) \in Nat
  PROVE  Lengths(CHOOSE f : f = [i \in 0 .. Len(us) |-> LengthAt(us, f, i)], us)
<1> DEFINE n == Len(us)
           step == [p \in Nat \X (1 .. n) |-> p[1] + ShortestOf(us[p[2]])]
           length == CHOOSE f : f = [i \in 0 .. n |-> LengthAt(us, f, i)]
<1>1. \A u : ShortestOf(u) \in Nat
  BY DEF ShortestOf
<1>2. step \in [Nat \X (1 .. n) -> Nat]
  BY <1>1
<1>3. PICK f : Runs(f, n, Nat, 0, step)
  <2> HIDE DEF step
  <2> QED BY <1>2, Recursion
<1>4. f \in [0 .. n -> Nat] /\ f[0] = 0 /\ \A i \in 1 .. n : f[i] = step[<<f[i - 1], i>>]
  <2> HIDE DEF step
  <2> QED BY <1>3 DEF Runs
<1>5. ASSUME NEW i \in 0 .. n PROVE f[i] = LengthAt(us, f, i)
  <2>1. CASE i = 0
    BY <1>4, <2>1 DEF LengthAt
  <2>2. CASE i # 0
    <3>1. i \in 1 .. n /\ i - 1 \in 0 .. n
      BY <2>2
    <3>2. f[i - 1] \in Nat /\ f[i] = step[<<f[i - 1], i>>]
      <4> HIDE DEF step
      <4> QED BY <1>4, <3>1
    <3>3. step[<<f[i - 1], i>>] = f[i - 1] + ShortestOf(us[i])
      BY <3>1, <3>2
    <3> QED BY <2>2, <3>2, <3>3 DEF LengthAt
  <2> QED BY <2>1, <2>2
<1>6. f = [i \in 0 .. n |-> LengthAt(us, f, i)]
  <2>1. f = [i \in 0 .. n |-> f[i]]
    BY <1>4
  <2> QED BY <1>5, <2>1
<1>7. length = [i \in 0 .. n |-> LengthAt(us, length, i)]
  BY <1>6
<1> HIDE DEF length
<1> DEFINE Has == {m \in Nat : m <= n => length[m] \in Nat}
<1>8. 0 \in Has
  BY <1>7 DEF LengthAt
<1>9. ASSUME NEW m \in Has PROVE m + 1 \in Has
  <2> SUFFICES ASSUME m + 1 <= n PROVE length[m + 1] \in Nat
    OBVIOUS
  <2>1. m + 1 \in 0 .. n /\ (m + 1) - 1 = m /\ m + 1 # 0
    OBVIOUS
  <2>2. length[m + 1] = length[m] + ShortestOf(us[m + 1])
    <3>1. length[m + 1] = LengthAt(us, length, m + 1)
      BY <1>7, <2>1
    <3> QED BY <2>1, <3>1 DEF LengthAt
  <2>3. length[m] \in Nat
    OBVIOUS
  <2> QED BY <1>1, <2>2, <2>3
<1>10. \A m \in 0 .. n : length[m] \in Nat
  <2>1. Has \in SUBSET Nat
    OBVIOUS
  <2>2. \A m \in Nat : m \in Has
    <3> HIDE DEF Has
    <3> QED BY <1>8, <1>9, <2>1, SetInduction
  <2> QED BY <2>2
<1>11. Lengths(length, us)
  BY <1>7, <1>10 DEF Lengths
<1> QED BY <1>11 DEF length

LEMMA ShortestIs ==
  ASSUME NEW u \in Code
  PROVE  /\ High(u) => ShortestOf(u) = 2
         /\ Low(u) => ShortestOf(u) = 2
         /\ ~High(u) /\ ~Low(u) => ShortestOf(u) = Width(u) /\ Width(u) \in Nat
<1>1. u \in Nat /\ u <= 65535
  BY SMT DEF Code
<1>2. High(u) => u >= 55296
  BY SMT DEF High
<1>3. Low(u) => u >= 56320
  BY SMT DEF Low
<1>4. ~High(u) /\ ~Low(u) => ShortestOf(u) = Width(u) /\ Width(u) \in Nat
  BY <1>1, SMT DEF ShortestOf, Width
<1>5. High(u) => ShortestOf(u) = 2
  BY <1>1, <1>2, SMT DEF ShortestOf
<1>6. Low(u) => ShortestOf(u) = 2
  BY <1>1, <1>3, SMT DEF ShortestOf
<1> QED BY <1>4, <1>5, <1>6

\* Between the halves of a pair two bytes are to come.
Due(us, k) == IF k > 0 /\ High(us[k]) THEN 2 ELSE 0

LEMMA UnitsLength ==
  ASSUME NEW us, RightUnits(us), NEW h, Pieces(h, Meant(us), Len(us), Byte), NEW f, Lengths(f, us)
  PROVE  Len(h[Len(us)]) = f[Len(us)]
<1> DEFINE n == Len(us)
           Good(k) == Len(h[k]) + Due(us, k) = f[k]
           Has == {k \in Nat : k <= n => Good(k)}
<1>1. n \in Nat
  BY RowsAre
<1>2. 0 \in Has
  <2>1. Len(h[0]) = 0
    BY DEF Pieces
  <2>2. f[0] = 0
    BY <1>1 DEF Lengths, LengthAt
  <2> QED BY <2>1, <2>2 DEF Due
<1>3. ASSUME NEW k \in Has PROVE k + 1 \in Has
  <2> SUFFICES ASSUME k + 1 <= n PROVE Good(k + 1)
    OBVIOUS
  <2> DEFINE u == us[k + 1]
             p == Len(h[k])
             q == Len(h[k + 1])
             x == f[k]
             e == Meaning(us, k + 1)
  <2>1. k \in 0 .. n - 1 /\ k + 1 \in 1 .. n /\ k + 1 \in 0 .. n /\ (k + 1) - 1 = k /\ k + 1 # 0
    BY <1>1
  <2>2. Good(k)
    BY <1>1
  <2>3. p \in Nat /\ q = p + Len(e) /\ (High(u) => q = p)
    <3>1. k \in 0 .. Len(us) - 1
      BY <2>1
    <3> QED BY <3>1, MeaningLies
  <2>4. UnitMeans(us, k + 1)
    BY <2>1, UnitMeansIs
  <2>5. f[k + 1] = x + ShortestOf(u) /\ x \in Nat
    BY <2>1 DEF Lengths, LengthAt
  <2>6. u \in Code
    BY <2>4 DEF UnitMeans
  <2>7. k > 0 /\ High(us[k]) => Low(u)
    <3> SUFFICES ASSUME k > 0, High(us[k]) PROVE Low(u)
      OBVIOUS
    <3>1. k \in 1 .. Len(us)
      BY <2>1
    <3> QED BY <3>1, UnitMeansIs DEF UnitMeans
  <2>8. p + Due(us, k) = x
    BY <2>2
  <2>9. Due(us, k + 1) = IF High(u) THEN 2 ELSE 0
    BY <2>1 DEF Due
  <2>10. CASE High(u)
    <3>1. Due(us, k) = 0
      BY <2>7, <2>10, HighOrLow DEF Due
    <3>2. ShortestOf(u) = 2 /\ q = p /\ Due(us, k + 1) = 2
      BY <2>3, <2>6, <2>9, <2>10, ShortestIs
    <3> HIDE DEF u, p, q, x, e
    <3>3. q + 2 = x + 2
      BY <2>3, <2>5, <2>8, <3>1, <3>2
    <3>4. q + Due(us, k + 1) = f[k + 1]
      BY <2>5, <3>2, <3>3
    <3> QED BY <3>4 DEF q
  <2>11. CASE Low(u)
    <3>1. ~High(u) /\ High(us[k]) /\ k > 0 /\ Len(e) = 4
      <4>1. ~High(u)
        BY <2>11, HighOrLow
      <4>2. (k + 1) - 1 \in 1 .. Len(us) /\ High(us[(k + 1) - 1]) /\ Len(e) = 4
        BY <2>4, <2>11 DEF UnitMeans
      <4> HIDE DEF e, u
      <4> QED BY <2>1, <4>1, <4>2
    <3>2. Due(us, k) = 2 /\ Due(us, k + 1) = 0
      BY <2>9, <3>1 DEF Due
    <3>3. ShortestOf(u) = 2
      BY <2>6, <2>11, ShortestIs
    <3> HIDE DEF u, p, q, x, e
    <3>4. q + 0 = x + 2
      BY <2>3, <2>5, <2>8, <3>1, <3>2
    <3>5. q + Due(us, k + 1) = f[k + 1]
      BY <2>5, <3>2, <3>3, <3>4
    <3> QED BY <3>5 DEF q
  <2>12. CASE ~High(u) /\ ~Low(u)
    <3>1. Due(us, k) = 0 /\ Due(us, k + 1) = 0
      BY <2>7, <2>9, <2>12 DEF Due
    <3>2. Len(e) = Width(u)
      BY <2>4, <2>12 DEF UnitMeans
    <3>3. ShortestOf(u) = Width(u) /\ Width(u) \in Nat
      BY <2>6, <2>12, ShortestIs
    <3> HIDE DEF u, p, q, x, e
    <3>4. q + 0 = x + ShortestOf(u)
      BY <2>3, <2>5, <2>8, <3>1, <3>2, <3>3
    <3>5. q + Due(us, k + 1) = f[k + 1]
      BY <2>5, <3>1, <3>4
    <3> QED BY <3>5 DEF q
  <2> QED BY <2>10, <2>11, <2>12
<1>4. Good(n)
  <2>1. Has \in SUBSET Nat
    OBVIOUS
  <2>2. n \in Has
    <3> HIDE DEF Has
    <3> QED BY <1>1, <1>2, <1>3, <2>1, SetInduction
  <2> QED BY <1>1, <2>2
<1>5. Due(us, n) = 0
  <2> SUFFICES ASSUME n > 0, High(us[n]) PROVE FALSE
    BY DEF Due
  <2>1. n \in 1 .. Len(us)
    BY <1>1
  <2>2. n + 1 \in 1 .. Len(us)
    BY <2>1, UnitMeansIs DEF UnitMeans
  <2> QED BY <1>1, <2>2
<1>6. Len(h[n]) \in Nat
  <2>1. h[n] \in Seq(Byte)
    <3>1. n \in 0 .. n
      BY <1>1
    <3> HIDE DEF n
    <3> QED BY <3>1 DEF Pieces, n
  <2> QED BY <2>1
<1>7. Len(h[n]) + 0 = f[n]
  <2> HIDE DEF n
  <2> QED BY <1>4, <1>5
<1> QED BY <1>6, <1>7

LEMMA UnicodeHolds ==
  ASSUME chars \in Seq(Code)
  PROVE  UnicodeIsUTF8
<1> SUFFICES ASSUME sort = "unicode", RightUTF16(chars) PROVE UnicodeIsUTF8
  BY DEF UnicodeIsUTF8
<1> DEFINE n == Len(chars)
           decoded == DecodeString(FlattenSeq([i \in 1 .. n |-> UnicodeEscape(chars[i])]))
           length == CHOOSE f : f = [i \in 0 .. n |-> LengthAt(chars, f, i)]
<1>1. RightUnits(chars)
  BY DEF RightUnits
<1>2. n \in Nat /\ Escaped(chars) \in [1 .. n -> Seq(Byte)] /\ Meant(chars) \in [1 .. n -> Seq(Byte)]
  BY <1>1, RowsAre
<1>3. PICK g : Pieces(g, Escaped(chars), n, Byte)
  <2> HIDE DEF n
  <2> QED BY <1>2, PiecesAre
<1>4. PICK h : Pieces(h, Meant(chars), n, Byte)
  <2> HIDE DEF n
  <2> QED BY <1>2, PiecesAre
<1>5. FlattenSeq(Escaped(chars)) = g[n]
  <2> HIDE DEF n
  <2> QED BY <1>3, FlattenIs
<1>6. decoded = [ok |-> TRUE, str |-> h[n]]
  <2>1. DecodeString(g[n]) = [ok |-> TRUE, str |-> h[n]]
    BY <1>1, <1>3, <1>4, UnitsDecoded
  <2>2. decoded = DecodeString(FlattenSeq(Escaped(chars)))
    BY DEF Escaped
  <2> HIDE DEF decoded
  <2> QED BY <1>5, <2>1, <2>2
<1>7. UnitsOf(h[n]) = chars
  BY <1>1, <1>4, UnitsBack
<1>8. Lengths(length, chars)
  BY <1>2, LengthsAre
<1>9. Len(h[n]) = length[n]
  <2> HIDE DEF length
  <2> QED BY <1>1, <1>4, <1>8, UnitsLength
<1> HIDE DEF decoded, length
<1>10. decoded.ok /\ UnitsOf(decoded.str) = chars /\ Len(decoded.str) = length[n]
  BY <1>6, <1>7, <1>9
<1> QED BY <1>10 DEF UnicodeIsUTF8, decoded, length, LengthAt, ShortestOf

\* Strings of any length are kept: what FastWriter writes of one the reader
\* finds the end of and decodes to the same bytes, a string ends at its first
\* quote behind an even row of backslashes, and the escapes of right UTF-16
\* become the shortest UTF-8 of the same characters.
THEOREM StringsKeptCorrect == TextsSpec => []StringsKept
<1> DEFINE Good == /\ sort = "string" => chars \in Seq(Byte)
                   /\ sort = "unicode" => chars \in Seq(Code)
<1>0. Alphabet["string"] \subseteq Byte /\ Alphabet["unicode"] \subseteq Code
  BY AlphabetsAre DEF AlphabetsOf
<1>1. NoText => Good
  BY DEF NoText
<1>2. Good /\ [Extend]_<<sort, chars>> => Good'
  <2> SUFFICES ASSUME Good, [Extend]_<<sort, chars>> PROVE Good'
    OBVIOUS
  <2>1. CASE Extend
    <3>1. PICK x \in Alphabet[sort] : chars' = Append(chars, x)
      BY <2>1 DEF Extend
    <3>2. sort' = sort
      BY <2>1 DEF Extend
    <3>3. ASSUME sort = "string" PROVE chars' \in Seq(Byte)
      <4>1. x \in Byte
        BY <1>0, <3>1, <3>3
      <4> QED BY <3>1, <3>3, <4>1
    <3>4. ASSUME sort = "unicode" PROVE chars' \in Seq(Code)
      <4>1. x \in Code
        BY <1>0, <3>1, <3>4
      <4> QED BY <3>1, <3>4, <4>1
    <3> QED BY <3>2, <3>3, <3>4
  <2>2. CASE UNCHANGED <<sort, chars>>
    BY <2>2
  <2> QED BY <2>1, <2>2
<1>3. Good => StringsKept
  <2> SUFFICES ASSUME Good PROVE StringsKept
    OBVIOUS
  <2>1. QuotedReadsBack
    <3> SUFFICES ASSUME sort = "string" PROVE QuotedReadsBack
      BY DEF QuotedReadsBack
    <3> QED BY QuotedBack DEF QuotedReadsBack
  <2>2. StringEndsAtQuote
    <3> SUFFICES ASSUME sort = "string" PROVE StringEndsAtQuote
      BY DEF StringEndsAtQuote
    <3> QED BY EndsHolds
  <2>3. UnicodeIsUTF8
    <3> SUFFICES ASSUME sort = "unicode" PROVE UnicodeIsUTF8
      BY DEF UnicodeIsUTF8
    <3> QED BY UnicodeHolds
  <2> QED BY <2>1, <2>2, <2>3 DEF StringsKept
<1> QED BY <1>1, <1>2, <1>3, PTL DEF TextsSpec
=============================================================================
