--------------------------- MODULE JsonHeapProofs ---------------------------
(***************************************************************************)
(* Every block of memory that a Json::Value uses has one owner, and the    *)
(* reader's pointers point to Values that exist, for any names, any size   *)
(* of the arrays, any depth and any amount of memory.                      *)
(***************************************************************************)
EXTENDS JsonHeap, FiniteSetTheorems, WellFoundedInduction, TLAPS

(* What the memory consists of. *)
Values ==
  {v \in [type : {"null", "number", "string", "object", "array"}, ptr : Nat,
          allocated : BOOLEAN, comments : Nat] :
     IsContainer(v) => v.ptr # Nil /\ ~v.allocated}

Keys == [ptr : Nat, policy : {"noDuplication", "duplicate"}]

IsMap(b) ==
  /\ b.kind = "map"
  /\ b = [kind |-> "map", key |-> b.key, val |-> b.val]
  /\ b.key \in [DOMAIN b.key -> Keys] /\ b.val \in [DOMAIN b.key -> Values]

IsComments(b) ==
  /\ b.kind = "comments"
  /\ b = [kind |-> "comments", at |-> b.at]
  /\ b.at \in [Placements -> Nat]

IsBlock(b) == b = Chars \/ IsComments(b) \/ IsMap(b)

\* What a pointer points to.
KindAt(b, p) ==
  CASE p[2] \in {"text", "key"} -> "chars"
    [] p[2] = "comments"        -> "comments"
    [] p[2] = "value"           -> IF IsContainer(b.val[p[1]]) THEN "map" ELSE "chars"

(* The memory m, in which the blocks of O have no owner for the moment. *)
Linked(m, O, b) ==
  /\ \A p \in Pointers(b) :
       Owns(b, p) # Nil => Owns(b, p) \in Blocks(m) \ O /\ m[Owns(b, p)].kind = KindAt(b, p)
  /\ SeparatePointers(b)

Closed(S, m) == \A id \in S : Inside(m[id]) \subseteq S

Reached(m, O) ==
  \A S \in SUBSET Blocks(m) : Inside(m[Nil]) \cup O \subseteq S /\ Closed(S, m) => S = Blocks(m)

Apart(m) ==
  \A id, jd \in DOMAIN m : id # jd => Inside(m[id]) \cap Inside(m[jd]) = {}

Shape(m) ==
  /\ IsFiniteSet(DOMAIN m) /\ DOMAIN m \subseteq Nat
  /\ Nil \in DOMAIN m /\ m[Nil].kind = "map"
  /\ m = [id \in DOMAIN m |-> m[id]]
  /\ \A id \in DOMAIN m : IsBlock(m[id])

HeapOK(m, O) ==
  /\ Shape(m)
  /\ O \subseteq Blocks(m)
  /\ \A id \in DOMAIN m : Linked(m, O, m[id])
  /\ Apart(m)
  /\ Reached(m, O)
-----------------------------------------------------------------------------
(* Naturals. *)

\* Every set of naturals that is not empty has a least element.
LEMMA LeastNat ==
  ASSUME NEW T \in SUBSET Nat, T # {}
  PROVE  \E m \in T : \A n \in T : m <= n
<1>1. \A R, S : IsWellFoundedOn(R, S) =>
       \A U \in SUBSET S : U # {} => \E m \in U : \A n \in U : <<n, m>> \notin R
  BY WFMin
<1>2. IsWellFoundedOn({ss \in Nat \X Nat : ss[1] < ss[2]}, Nat)
  BY NatLessThanWellFounded DEF OpToRel
<1>3. PICK m \in T : \A n \in T : <<n, m>> \notin {ss \in Nat \X Nat : ss[1] < ss[2]}
  BY <1>1, <1>2
<1>4. \A n \in T : ~(n < m)
  BY <1>3
<1> QED BY <1>4

\* A set of naturals that holds 0 and with a number the next holds them all.
LEMMA SetInduction ==
  ASSUME NEW T \in SUBSET Nat, 0 \in T, \A n \in T : n + 1 \in T
  PROVE  \A n \in Nat : n \in T
<1> SUFFICES ASSUME Nat \ T # {} PROVE FALSE
  OBVIOUS
<1>1. PICK m \in Nat \ T : \A n \in Nat \ T : m <= n
  BY LeastNat
<1>2. m - 1 \in Nat /\ m - 1 \in T
  BY <1>1
<1> QED
  BY <1>1, <1>2
-----------------------------------------------------------------------------
(* The three ways in which memory changes: a block is changed, allocated, or
   some are freed. *)

LEMMA InsideIs ==
  ASSUME NEW m, NEW O, NEW b, Linked(m, O, b)
  PROVE  Inside(b) \subseteq Blocks(m) \ O
BY DEF Linked, Inside

LEMMA Changed ==
  ASSUME NEW m, NEW O, HeapOK(m, O), NEW id \in DOMAIN m, NEW b,
         IsBlock(b), b.kind = m[id].kind, NEW N \in SUBSET O, NEW Out \in SUBSET Inside(m[id]),
         Inside(b) = (Inside(m[id]) \ Out) \cup N, Linked(m, O \ N, b),
         id = Nil \/ (id \notin N /\ \A n \in N : Inside(m[n]) = {})
  PROVE  HeapOK([m EXCEPT ![id] = b], (O \ N) \cup Out)
<1> DEFINE m2 == [m EXCEPT ![id] = b]
           O2 == (O \ N) \cup Out
<1>1. /\ Shape(m) /\ O \subseteq Blocks(m) /\ Apart(m) /\ Reached(m, O)
      /\ \A i \in DOMAIN m : Linked(m, O, m[i])
  BY DEF HeapOK
<1>2. /\ DOMAIN m2 = DOMAIN m /\ Blocks(m2) = Blocks(m) /\ m2[id] = b
      /\ \A i \in DOMAIN m : i # id => m2[i] = m[i]
      /\ \A i \in DOMAIN m : m2[i].kind = m[i].kind
  BY DEF Blocks
<1>3. \A i \in DOMAIN m : Inside(m[i]) \subseteq Blocks(m) \ O
  BY <1>1, InsideIs
<1>4. Shape(m2)
  <2>1. m2 = [i \in DOMAIN m2 |-> m2[i]]
    OBVIOUS
  <2> HIDE DEF m2
  <2> QED BY <1>1, <1>2, <2>1 DEF Shape
<1> HIDE DEF m2
<1>5. O2 \subseteq Blocks(m2)
  BY <1>1, <1>2, <1>3
<1>6. \A i \in DOMAIN m : i # id => Inside(m[i]) \cap (N \cup Out) = {}
  BY <1>1, <1>3 DEF Apart
<1>7. Apart(m2)
  <2>1. ASSUME NEW i \in DOMAIN m, i # id PROVE Inside(m2[i]) \cap Inside(m2[id]) = {}
    BY <1>1, <1>2, <1>6, <2>1 DEF Apart
  <2> QED BY <1>1, <1>2, <2>1 DEF Apart
<1>8. ASSUME NEW i \in DOMAIN m2 PROVE Linked(m2, O2, m2[i])
  <2>1. CASE i = id
    <3>1. ASSUME NEW p \in Pointers(b), Owns(b, p) # Nil
          PROVE  Owns(b, p) \in Blocks(m2) \ O2 /\ m2[Owns(b, p)].kind = KindAt(b, p)
      <4>1. Owns(b, p) \in Blocks(m) \ (O \ N) /\ m[Owns(b, p)].kind = KindAt(b, p)
        BY <3>1 DEF Linked
      <4>2. Owns(b, p) \in Inside(b)
        BY <3>1 DEF Inside
      <4>3. Owns(b, p) \notin Out
        BY <1>3, <4>2
      <4> QED BY <1>2, <4>1, <4>3 DEF Blocks
    <3>2. SeparatePointers(b)
      BY DEF Linked
    <3> QED BY <1>2, <2>1, <3>1, <3>2 DEF Linked
  <2>2. CASE i # id
    <3>1. i \in DOMAIN m /\ m2[i] = m[i]
      BY <1>2, <2>2
    <3>2. ASSUME NEW p \in Pointers(m[i]), Owns(m[i], p) # Nil
          PROVE  Owns(m[i], p) \in Blocks(m2) \ O2 /\ m2[Owns(m[i], p)].kind = KindAt(m[i], p)
      <4>1. Owns(m[i], p) \in Blocks(m) \ O /\ m[Owns(m[i], p)].kind = KindAt(m[i], p)
        BY <1>1, <3>1, <3>2 DEF Linked
      <4>2. Owns(m[i], p) \in Inside(m[i])
        BY <3>2 DEF Inside
      <4>3. Owns(m[i], p) \notin Out
        BY <1>6, <2>2, <3>1, <4>2
      <4> QED BY <1>2, <4>1, <4>3 DEF Blocks
    <3>3. SeparatePointers(m[i])
      BY <1>1, <3>1 DEF Linked
    <3> QED BY <3>1, <3>2, <3>3 DEF Linked
  <2> QED BY <2>1, <2>2
<1>9. Reached(m2, O2)
  <2> SUFFICES ASSUME NEW S \in SUBSET Blocks(m2), Inside(m2[Nil]) \cup O2 \subseteq S, Closed(S, m2)
               PROVE  S = Blocks(m2)
    BY DEF Reached
  <2> DEFINE T == S \cup N
  <2>1. \A i \in DOMAIN m : Inside(m[i]) \subseteq Inside(m2[i]) \cup Out
    BY <1>2
  <2>2. \A i \in S \cup {Nil} : Inside(m[i]) \subseteq T
    <3>1. \A i \in S \cup {Nil} : i \in DOMAIN m /\ Inside(m2[i]) \subseteq S
      BY <1>1, <1>2 DEF Closed, Blocks, Shape
    <3> QED BY <2>1, <3>1
  <2>3. CASE id = Nil
    <3>1. N \subseteq S
      BY <1>2, <2>3
    <3>2. T = S
      BY <3>1
    <3>3. T \in SUBSET Blocks(m) /\ Inside(m[Nil]) \cup O \subseteq T /\ Closed(T, m)
      BY <1>1, <1>2, <2>2, <3>2 DEF Closed
    <3> QED BY <1>1, <1>2, <3>2, <3>3 DEF Reached
  <2>4. CASE id # Nil
    <3>1. \A n \in N : Inside(m[n]) = {}
      BY <2>4
    <3>2. T \in SUBSET Blocks(m) /\ Inside(m[Nil]) \cup O \subseteq T /\ Closed(T, m)
      BY <1>1, <1>2, <2>2, <3>1 DEF Closed
    <3> HIDE DEF T
    <3>3. T = Blocks(m)
      BY <1>1, <3>2 DEF Reached
    <3>4. id \in S
      BY <2>4, <3>3 DEF Blocks, T
    <3>5. N \subseteq S
      BY <1>2, <3>4 DEF Closed
    <3> QED BY <1>2, <3>3, <3>5 DEF T
  <2> QED BY <2>3, <2>4
<1> QED BY <1>4, <1>5, <1>7, <1>8, <1>9 DEF HeapOK, m2

LEMMA UnusedIs ==
  ASSUME NEW m, IsFiniteSet(DOMAIN m), DOMAIN m \subseteq Nat, Nil \in DOMAIN m
  PROVE  Unused(m) \in Nat /\ Unused(m) # Nil /\ Unused(m) \notin DOMAIN m
<1> DEFINE n == Cardinality(DOMAIN m)
           T == {i \in 1 .. n : i \notin DOMAIN m}
<1>1. n \in Nat
  BY FS_CardinalityType
<1>2. T # {}
  <2> SUFFICES ASSUME T = {} PROVE FALSE
    OBVIOUS
  <2>1. 0 .. n \subseteq DOMAIN m
    BY <1>1 DEF Nil
  <2>2. Cardinality(0 .. n) = n + 1
    BY <1>1, FS_Interval
  <2>3. Cardinality(0 .. n) <= n
    BY <2>1, FS_Subset
  <2> QED BY <1>1, <2>2, <2>3
<1>3. T \in SUBSET Nat
  BY <1>1
<1>4. PICK u \in T : \A i \in T : u <= i
  BY <1>2, <1>3, LeastNat
<1>5. \A low \in 1 .. u - 1 : low \in DOMAIN m
  BY <1>1, <1>4
<1>6. u \in 1 .. n /\ u \notin DOMAIN m /\ \A low \in 1 .. u - 1 : low \in DOMAIN m
  BY <1>4, <1>5
<1> HIDE DEF n
<1>7. Unused(m) \in 1 .. n /\ Unused(m) \notin DOMAIN m
  BY <1>6 DEF Unused, n
<1> QED BY <1>1, <1>7 DEF Nil

LEMMA Allocated ==
  ASSUME NEW m, NEW O, HeapOK(m, O), NEW b, IsBlock(b), Inside(b) = {}
  PROVE  /\ HeapOK(Allocate(m, b), O \cup {Unused(m)})
         /\ Unused(m) \in Nat /\ Unused(m) # Nil /\ Unused(m) \notin DOMAIN m
         /\ DOMAIN Allocate(m, b) = DOMAIN m \cup {Unused(m)}
         /\ Allocate(m, b)[Unused(m)] = b
         /\ \A i \in DOMAIN m : Allocate(m, b)[i] = m[i]
<1> DEFINE u == Unused(m)
           m2 == Allocate(m, b)
           O2 == O \cup {u}
<1>1. /\ Shape(m) /\ O \subseteq Blocks(m) /\ Apart(m) /\ Reached(m, O)
      /\ \A i \in DOMAIN m : Linked(m, O, m[i])
  BY DEF HeapOK
<1>2. u \in Nat /\ u # Nil /\ u \notin DOMAIN m
  BY <1>1, UnusedIs DEF Shape
<1>3. /\ m2 = [i \in DOMAIN m2 |-> m2[i]] /\ DOMAIN m2 = DOMAIN m \cup {u} /\ m2[u] = b
      /\ \A i \in DOMAIN m : m2[i] = m[i]
  BY <1>2 DEF Allocate, With
<1> HIDE DEF u, m2
<1>4. Blocks(m2) = Blocks(m) \cup {u}
  BY <1>2, <1>3 DEF Blocks
<1>5. \A i \in DOMAIN m : Inside(m[i]) \subseteq Blocks(m) \ O
  BY <1>1, InsideIs
<1>6. u \notin Blocks(m)
  BY <1>2 DEF Blocks
<1>7. Shape(m2)
  <2>1. IsFiniteSet(DOMAIN m2)
    BY <1>1, <1>3, FS_AddElement DEF Shape
  <2> QED BY <1>1, <1>2, <1>3, <2>1 DEF Shape
<1>8. Apart(m2)
  BY <1>1, <1>3 DEF Apart
<1>9. ASSUME NEW i \in DOMAIN m2 PROVE Linked(m2, O2, m2[i])
  <2>1. CASE i = u
    BY <1>3, <2>1 DEF Linked, Inside, SeparatePointers
  <2>2. CASE i # u
    <3>1. i \in DOMAIN m /\ m2[i] = m[i]
      BY <1>3, <2>2
    <3>2. Linked(m, O, m[i])
      BY <1>1, <3>1
    <3>3. Blocks(m) \subseteq DOMAIN m
      BY DEF Blocks
    <3> QED BY <1>3, <1>4, <1>6, <3>1, <3>2, <3>3 DEF Linked
  <2> QED BY <2>1, <2>2
<1>10. Reached(m2, O2)
  <2> SUFFICES ASSUME NEW S \in SUBSET Blocks(m2), Inside(m2[Nil]) \cup O2 \subseteq S, Closed(S, m2)
               PROVE  S = Blocks(m2)
    BY DEF Reached
  <2> DEFINE T == S \ {u}
  <2>1. \A i \in T \cup {Nil} : i \in DOMAIN m /\ Inside(m[i]) \subseteq T
    <3>1. \A i \in T \cup {Nil} : i \in DOMAIN m
      BY <1>1, <1>4 DEF Blocks, Shape
    <3>2. \A i \in T \cup {Nil} : Inside(m2[i]) \subseteq S
      BY DEF Closed
    <3> QED BY <1>3, <1>5, <1>6, <3>1, <3>2
  <2>2. T \in SUBSET Blocks(m) /\ Inside(m[Nil]) \cup O \subseteq T /\ Closed(T, m)
    BY <1>1, <1>4, <1>6, <2>1 DEF Closed
  <2> HIDE DEF T
  <2>3. T = Blocks(m)
    BY <1>1, <2>2 DEF Reached
  <2> QED BY <1>4, <2>3 DEF T
<1>11. O2 \subseteq Blocks(m2)
  BY <1>1, <1>4
<1> QED BY <1>2, <1>3, <1>7, <1>8, <1>9, <1>10, <1>11 DEF HeapOK, u, m2

\* m2 is m without some blocks.
Cut(m, m2) ==
  /\ DOMAIN m2 \subseteq DOMAIN m
  /\ \A i \in DOMAIN m2 : m2[i] = m[i]

LEMMA Freed ==
  ASSUME NEW m, NEW O, HeapOK(m, O), NEW I \in SUBSET O, NEW D \in SUBSET Blocks(m),
         I \subseteq D, Closed(D, m),
         \A d \in D : d \in I \/ \E e \in D : d \in Inside(m[e])
  PROVE  /\ HeapOK(Free(m, D), O \ I) /\ Cut(m, Free(m, D))
         /\ DOMAIN Free(m, D) = DOMAIN m \ D
<1> DEFINE m2 == Free(m, D)
           O2 == O \ I
<1>1. /\ Shape(m) /\ O \subseteq Blocks(m) /\ Apart(m) /\ Reached(m, O)
      /\ \A i \in DOMAIN m : Linked(m, O, m[i])
  BY DEF HeapOK
<1>2. Nil \notin D /\ D \subseteq DOMAIN m
  BY DEF Blocks
<1>3. /\ m2 = [i \in DOMAIN m2 |-> m2[i]] /\ DOMAIN m2 = DOMAIN m \ D
      /\ \A i \in DOMAIN m2 : m2[i] = m[i]
  BY <1>2 DEF Free
<1> HIDE DEF m2
<1>4. Blocks(m2) = Blocks(m) \ D
  BY <1>3 DEF Blocks
<1>5. \A i \in DOMAIN m : Inside(m[i]) \subseteq Blocks(m) \ O
  BY <1>1, InsideIs
<1>6. D \cap O = I
  <2>1. \A d \in D : d \in O => d \in I
    BY <1>2, <1>5
  <2> QED BY <2>1
<1>7. Shape(m2)
  <2>1. IsFiniteSet(DOMAIN m2)
    BY <1>1, <1>3, FS_Subset DEF Shape
  <2> QED BY <1>1, <1>2, <1>3, <2>1 DEF Shape
<1>8. O2 \subseteq Blocks(m2)
  BY <1>1, <1>4, <1>6
<1>9. Apart(m2)
  BY <1>1, <1>3 DEF Apart
\* What stays owns nothing that goes.
<1>10. ASSUME NEW i \in DOMAIN m2 PROVE Inside(m[i]) \cap D = {}
  <2> SUFFICES ASSUME NEW d \in D, d \in Inside(m[i]) PROVE FALSE
    OBVIOUS
  <2>1. i \in DOMAIN m /\ i \notin D
    BY <1>3
  <2>2. d \notin I
    BY <1>5, <2>1
  <2>3. PICK e \in D : d \in Inside(m[e])
    BY <2>2
  <2>4. e \in DOMAIN m /\ e # i
    BY <1>2, <2>1
  <2> QED BY <1>1, <2>1, <2>3, <2>4 DEF Apart
<1>11. ASSUME NEW i \in DOMAIN m2 PROVE Linked(m2, O2, m2[i])
  <2>1. i \in DOMAIN m /\ m2[i] = m[i] /\ Linked(m, O, m[i])
    BY <1>1, <1>3
  <2>2. ASSUME NEW p \in Pointers(m[i]), Owns(m[i], p) # Nil
        PROVE  Owns(m[i], p) \in Blocks(m2) \ O2 /\ m2[Owns(m[i], p)].kind = KindAt(m[i], p)
    <3>1. Owns(m[i], p) \in Blocks(m) \ O /\ m[Owns(m[i], p)].kind = KindAt(m[i], p)
      BY <2>1, <2>2 DEF Linked
    <3>2. Owns(m[i], p) \in Inside(m[i])
      BY <2>2 DEF Inside
    <3>3. Owns(m[i], p) \in Blocks(m2)
      BY <1>4, <1>10, <3>1, <3>2
    <3> QED BY <1>3, <3>1, <3>3 DEF Blocks
  <2> QED BY <2>1, <2>2 DEF Linked
<1>12. Reached(m2, O2)
  <2> SUFFICES ASSUME NEW S \in SUBSET Blocks(m2), Inside(m2[Nil]) \cup O2 \subseteq S, Closed(S, m2)
               PROVE  S = Blocks(m2)
    BY DEF Reached
  <2> DEFINE T == S \cup D
  <2>1. \A i \in S \cup {Nil} : Inside(m[i]) \subseteq S
    <3>1. \A i \in S \cup {Nil} : i \in DOMAIN m2
      BY <1>1, <1>2, <1>3 DEF Blocks, Shape
    <3> QED BY <1>3, <3>1 DEF Closed
  <2>2. T \in SUBSET Blocks(m) /\ Inside(m[Nil]) \cup O \subseteq T /\ Closed(T, m)
    BY <1>4, <2>1 DEF Closed
  <2> HIDE DEF T
  <2>3. T = Blocks(m)
    BY <1>1, <2>2 DEF Reached
  <2> QED BY <1>4, <2>3 DEF T
<1> QED BY <1>3, <1>7, <1>8, <1>9, <1>11, <1>12 DEF HeapOK, Cut, m2

LEMMA Destroyed ==
  ASSUME NEW m, NEW O, HeapOK(m, O), NEW I \in SUBSET O
  PROVE  HeapOK(Destroy(m, I), O \ I) /\ Cut(m, Destroy(m, I)) /\ Nil \in DOMAIN Destroy(m, I)
<1> DEFINE D == AllOf(I, m)
           IsClosed(S) == I \subseteq S /\ \A id \in S : Inside(m[id]) \subseteq S
<1>1. /\ O \subseteq Blocks(m) /\ \A i \in DOMAIN m : Linked(m, O, m[i])
      /\ Nil \in DOMAIN m
  BY DEF HeapOK, Shape
<1>2. D = {id \in Blocks(m) : \A S \in SUBSET Blocks(m) : IsClosed(S) => id \in S}
  BY DEF AllOf
<1> HIDE DEF D
<1>3. D \in SUBSET Blocks(m) /\ I \subseteq D
  BY <1>1, <1>2
<1>4. \A S \in SUBSET Blocks(m) : IsClosed(S) => D \subseteq S
  BY <1>2
<1>5. Closed(D, m)
  <2> SUFFICES ASSUME NEW d \in D, NEW x \in Inside(m[d]) PROVE x \in D
    BY DEF Closed
  <2>1. Linked(m, O, m[d])
    BY <1>1, <1>3 DEF Blocks
  <2>2. x \in Blocks(m)
    BY <2>1, InsideIs
  <2>3. \A S \in SUBSET Blocks(m) : IsClosed(S) => x \in S
    BY <1>4
  <2> QED BY <1>2, <2>2, <2>3
<1>6. \A d \in D : d \in I \/ \E e \in D : d \in Inside(m[e])
  <2> DEFINE R == {d \in D : d \in I \/ \E e \in D : d \in Inside(m[e])}
  <2>1. R \in SUBSET Blocks(m) /\ I \subseteq R
    BY <1>3
  <2>2. \A id \in R : Inside(m[id]) \subseteq R
    BY <1>5 DEF Closed
  <2>3. D \subseteq R
    BY <1>4, <2>1, <2>2
  <2> QED BY <2>3
<1>7. Destroy(m, I) = Free(m, D)
  BY DEF Destroy, D
<1>8. Nil \notin D
  BY <1>3 DEF Blocks
<1>9. HeapOK(Free(m, D), O \ I) /\ Cut(m, Free(m, D)) /\ DOMAIN Free(m, D) = DOMAIN m \ D
  BY <1>3, <1>5, <1>6, Freed
<1> QED BY <1>1, <1>7, <1>8, <1>9

\* The pointers in X, of the block b that takes the place of m[id], are null or
\* point to blocks without an owner, which own nothing unless id is the stack.
TakesUp(m, O, id, b, X) ==
  /\ \A p \in X : Owns(b, p) # Nil =>
       /\ Owns(b, p) \in O /\ m[Owns(b, p)].kind = KindAt(b, p)
       /\ id # Nil => Owns(b, p) # id /\ Inside(m[Owns(b, p)]) = {}
  /\ \A p, q \in X : Owns(b, p) = Owns(b, q) => p = q \/ Owns(b, p) = Nil

\* The pointers in Y are given up for those in X, and all others stay.
Redirects(b, c, Y, X) ==
  /\ Y \subseteq Pointers(b) /\ X \subseteq Pointers(c) /\ Pointers(b) \ Y = Pointers(c) \ X
  /\ \A p \in Pointers(b) \ Y : Owns(c, p) = Owns(b, p) /\ KindAt(c, p) = KindAt(b, p)

Targets(b, X) == {Owns(b, p) : p \in X} \ {Nil}

LEMMA Redirected ==
  ASSUME NEW m, NEW O, HeapOK(m, O), NEW id \in DOMAIN m, NEW c, IsBlock(c), c.kind = m[id].kind,
         NEW Y, NEW X, Redirects(m[id], c, Y, X), TakesUp(m, O, id, c, X)
  PROVE  HeapOK([m EXCEPT ![id] = c], (O \ Targets(c, X)) \cup Targets(m[id], Y))
<1> DEFINE b == m[id]
           N == Targets(c, X)
           Out == Targets(b, Y)
<1>1. Linked(m, O, b) /\ Inside(b) \subseteq Blocks(m) \ O
  BY InsideIs DEF HeapOK
<1>2. /\ Y \subseteq Pointers(b) /\ X \subseteq Pointers(c) /\ Pointers(b) \ Y = Pointers(c) \ X
      /\ \A p \in Pointers(b) \ Y : Owns(c, p) = Owns(b, p) /\ KindAt(c, p) = KindAt(b, p)
  BY DEF Redirects
<1>3. /\ \A p \in X : Owns(c, p) # Nil =>
           /\ Owns(c, p) \in O /\ m[Owns(c, p)].kind = KindAt(c, p)
           /\ id # Nil => Owns(c, p) # id /\ Inside(m[Owns(c, p)]) = {}
      /\ \A p, q \in X : Owns(c, p) = Owns(c, q) => p = q \/ Owns(c, p) = Nil
  BY DEF TakesUp
<1>4. /\ \A p \in Pointers(b) : Owns(b, p) # Nil =>
           Owns(b, p) \in Blocks(m) \ O /\ m[Owns(b, p)].kind = KindAt(b, p)
      /\ \A p, q \in Pointers(b) : Owns(b, p) = Owns(b, q) => p = q \/ Owns(b, p) = Nil
  BY <1>1 DEF Linked, SeparatePointers
<1>5. O \subseteq Blocks(m)
  BY DEF HeapOK
<1>6. N \subseteq O
  BY <1>3 DEF Targets
<1>7. Out \subseteq Inside(b)
  BY <1>2 DEF Targets, Inside
<1> HIDE DEF b
<1>8. Inside(c) = (Inside(b) \ Out) \cup N
  <2>1. ASSUME NEW p \in Pointers(c), Owns(c, p) # Nil
        PROVE  Owns(c, p) \in (Inside(b) \ Out) \cup N
    <3>1. CASE p \in X
      BY <2>1, <3>1 DEF Targets
    <3>2. CASE p \notin X
      <4>1. p \in Pointers(b) \ Y /\ Owns(c, p) = Owns(b, p)
        BY <1>2, <3>2
      <4>2. Owns(c, p) \in Inside(b)
        BY <2>1, <4>1 DEF Inside
      <4>3. ASSUME Owns(c, p) \in Out PROVE FALSE
        <5>1. PICK q \in Y : Owns(b, q) = Owns(b, p)
          BY <4>1, <4>3 DEF Targets
        <5> QED BY <1>2, <1>4, <2>1, <4>1, <5>1
      <4> QED BY <4>2, <4>3
    <3> QED BY <3>1, <3>2
  <2>2. N \subseteq Inside(c)
    BY <1>2 DEF Targets, Inside
  <2>3. ASSUME NEW p \in Pointers(b), Owns(b, p) # Nil, Owns(b, p) \notin Out
        PROVE  Owns(b, p) \in Inside(c)
    <3>1. p \notin Y
      BY <2>3 DEF Targets
    <3>2. p \in Pointers(c) /\ Owns(c, p) = Owns(b, p)
      BY <1>2, <3>1
    <3> QED BY <2>3, <3>2 DEF Inside
  <2>4. Inside(c) \subseteq (Inside(b) \ Out) \cup N
    BY <2>1 DEF Inside
  <2>5. Inside(b) \ Out \subseteq Inside(c)
    BY <2>3 DEF Inside
  <2> QED BY <2>2, <2>4, <2>5
<1>9. Linked(m, O \ N, c)
  <2>1. ASSUME NEW p \in Pointers(c), Owns(c, p) # Nil
        PROVE  Owns(c, p) \in Blocks(m) \ (O \ N) /\ m[Owns(c, p)].kind = KindAt(c, p)
    <3>1. CASE p \in X
      BY <1>3, <1>5, <2>1, <3>1 DEF Targets
    <3>2. CASE p \notin X
      BY <1>2, <1>4, <2>1, <3>2
    <3> QED BY <3>1, <3>2
  <2>2. ASSUME NEW p \in Pointers(c), NEW q \in Pointers(c), Owns(c, p) = Owns(c, q)
        PROVE  p = q \/ Owns(c, p) = Nil
    <3>1. CASE p \in X /\ q \in X
      BY <1>3, <2>2, <3>1
    <3>2. CASE p \notin X /\ q \notin X
      BY <1>2, <1>4, <2>2, <3>2
    <3>3. CASE (p \in X) # (q \in X)
      BY <1>2, <1>3, <1>4, <2>2, <3>3
    <3> QED BY <3>1, <3>2, <3>3
  <2> QED BY <2>1, <2>2 DEF Linked, SeparatePointers
<1>10. id = Nil \/ (id \notin N /\ \A n \in N : Inside(m[n]) = {})
  BY <1>3 DEF Targets
<1>11. N \in SUBSET O /\ Out \in SUBSET Inside(m[id])
  BY <1>6, <1>7 DEF b
<1>12. Inside(c) = (Inside(m[id]) \ Out) \cup N
  BY <1>8 DEF b
<1> HIDE DEF N, Out
<1>13. HeapOK([m EXCEPT ![id] = c], (O \ N) \cup Out)
  BY <1>9, <1>10, <1>11, <1>12, Changed
<1> QED BY <1>13 DEF N, Out, b
-----------------------------------------------------------------------------
(* Values in maps. *)

LEMMA MapIs ==
  ASSUME NEW m, Shape(m), NEW id \in DOMAIN m, m[id].kind = "map"
  PROVE  /\ IsMap(m[id])
         /\ Pointers(m[id]) = (DOMAIN m[id].key) \X {"key", "value", "comments"}
<1>1. IsBlock(m[id])
  BY DEF Shape
<1> QED BY <1>1 DEF IsBlock, Chars, IsComments, Pointers

\* The map at a.map with v in the place of the Value at a.
PutIn(m, a, v) == [m[a.map] EXCEPT !.val = [@ EXCEPT ![a.key] = v]]

Stored(b, c, k, v) ==
  /\ IsMap(c) /\ c.kind = "map" /\ c.key = b.key
  /\ c.val[k] = v /\ \A j \in DOMAIN b.key : j # k => c.val[j] = b.val[j]
  /\ Pointers(c) = Pointers(b)

LEMMA PutIs ==
  ASSUME NEW m, Shape(m), NEW a, Alive(m, a), NEW v \in Values
  PROVE  /\ Put(m, a, v) = [m EXCEPT ![a.map] = PutIn(m, a, v)]
         /\ Stored(m[a.map], PutIn(m, a, v), a.key, v)
<1> DEFINE b == m[a.map]
           k == a.key
           w == [b.val EXCEPT ![k] = v]
           c == PutIn(m, a, v)
<1>1. a.map \in DOMAIN m /\ b.kind = "map" /\ k \in DOMAIN b.key
  BY DEF Alive
<1>2. /\ b = [kind |-> "map", key |-> b.key, val |-> b.val]
      /\ b.key \in [DOMAIN b.key -> Keys] /\ b.val \in [DOMAIN b.key -> Values]
  BY <1>1, MapIs DEF IsMap
<1>3. c = [b EXCEPT !.val = w]
  BY DEF PutIn
<1>4. Put(m, a, v) = [m EXCEPT ![a.map] = c]
  BY <1>1 DEF Put, PutIn
<1> HIDE DEF b, c
<1>5. /\ w \in [DOMAIN b.key -> Values] /\ w[k] = v
      /\ \A j \in DOMAIN b.key : j # k => w[j] = b.val[j]
  BY <1>1, <1>2
<1> HIDE DEF w
<1>6. c = [kind |-> "map", key |-> b.key, val |-> w]
  BY <1>2, <1>3
<1>7. c.kind = "map" /\ c.key = b.key /\ c.val = w
  BY <1>6
<1>8. IsMap(c)
  BY <1>2, <1>5, <1>6, <1>7 DEF IsMap
<1>9. Pointers(c) = Pointers(b)
  BY <1>1, <1>7 DEF Pointers
<1>10. Stored(b, c, k, v)
  BY <1>5, <1>7, <1>8, <1>9 DEF Stored
<1> QED BY <1>4, <1>10 DEF b, c

\* A payload that nothing owns is put in, and the one before has no owner.
LEMMA PayloadPut ==
  ASSUME NEW m, NEW O, HeapOK(m, O), NEW a, Alive(m, a), NEW v \in Values,
         v.comments = At(m, a).comments,
         ValueOwns(v) # Nil =>
           /\ ValueOwns(v) \in O /\ a.map # ValueOwns(v)
           /\ m[ValueOwns(v)].kind = IF IsContainer(v) THEN "map" ELSE "chars"
           /\ Inside(m[ValueOwns(v)]) = {}
  PROVE  HeapOK(Put(m, a, v), (O \ {ValueOwns(v)}) \cup ({ValueOwns(At(m, a))} \ {Nil}))
<1> DEFINE b == m[a.map]
           k == a.key
           c == PutIn(m, a, v)
           X == {<<k, "value">>}
<1>1. Shape(m) /\ a.map \in DOMAIN m /\ b.kind = "map" /\ k \in DOMAIN b.key
  BY DEF Alive, HeapOK
<1>2. Put(m, a, v) = [m EXCEPT ![a.map] = c] /\ Stored(b, c, k, v)
  BY <1>1, PutIs
<1>3. Pointers(b) = (DOMAIN b.key) \X {"key", "value", "comments"}
  BY <1>1, MapIs
<1> HIDE DEF c
<1>4. O \subseteq Nat \ {Nil}
  BY DEF HeapOK, Blocks, Shape
<1>5. Owns(c, <<k, "value">>) = ValueOwns(v) /\ Owns(b, <<k, "value">>) = ValueOwns(b.val[k])
  BY <1>2 DEF Owns, Stored
<1>6. KindAt(c, <<k, "value">>) = IF IsContainer(v) THEN "map" ELSE "chars"
  BY <1>2 DEF KindAt, Stored
<1>7. TakesUp(m, O, a.map, c, X)
  BY <1>5, <1>6 DEF TakesUp
<1>8. Redirects(b, c, X, X)
  <2>1. Pointers(c) = Pointers(b) /\ X \subseteq Pointers(b)
    BY <1>1, <1>2, <1>3 DEF Stored
  <2>2. ASSUME NEW p \in Pointers(b) \ X
        PROVE  Owns(c, p) = Owns(b, p) /\ KindAt(c, p) = KindAt(b, p)
    <3>1. PICK j \in DOMAIN b.key, f \in {"key", "value", "comments"} : p = <<j, f>>
      BY <1>3, <2>2
    <3>2. c.key = b.key /\ c.val[k] = v /\ (j # k => c.val[j] = b.val[j])
      BY <1>2 DEF Stored
    <3>3. CASE f = "key"
      BY <3>1, <3>2, <3>3 DEF Owns, KindAt
    <3>4. CASE f = "value"
      <4>1. j # k
        BY <2>2, <3>1, <3>4
      <4> QED BY <3>1, <3>2, <3>4, <4>1 DEF Owns, KindAt
    <3>5. CASE f = "comments"
      <4>1. c.val[j].comments = b.val[j].comments
        BY <3>2 DEF At
      <4> QED BY <3>1, <3>5, <4>1 DEF Owns, KindAt
    <3> QED BY <3>3, <3>4, <3>5
  <2> QED BY <2>1, <2>2 DEF Redirects
<1>9. IsBlock(c) /\ c.kind = m[a.map].kind
  BY <1>1, <1>2 DEF IsBlock, Stored
<1>10. HeapOK([m EXCEPT ![a.map] = c], (O \ Targets(c, X)) \cup Targets(m[a.map], X))
  BY <1>1, <1>7, <1>8, <1>9, Redirected
<1>11. Targets(c, X) = {ValueOwns(v)} \ {Nil} /\ Targets(b, X) = {ValueOwns(At(m, a))} \ {Nil}
  BY <1>5 DEF Targets, At
<1>12. (O \ Targets(c, X)) \cup Targets(b, X)
         = (O \ {ValueOwns(v)}) \cup ({ValueOwns(At(m, a))} \ {Nil})
  BY <1>4, <1>11
<1> QED BY <1>2, <1>10, <1>12

LEMMA CommentsPut ==
  ASSUME NEW m, NEW O, HeapOK(m, O), NEW a, Alive(m, a), NEW n \in Nat,
         n # Nil => n \in O /\ a.map # n /\ m[n].kind = "comments" /\ Inside(m[n]) = {}
  PROVE  HeapOK(Put(m, a, [At(m, a) EXCEPT !.comments = n]),
                (O \ {n}) \cup ({At(m, a).comments} \ {Nil}))
<1> DEFINE b == m[a.map]
           k == a.key
           v == [At(m, a) EXCEPT !.comments = n]
           c == PutIn(m, a, v)
           X == {<<k, "comments">>}
<1>1. Shape(m) /\ a.map \in DOMAIN m /\ b.kind = "map" /\ k \in DOMAIN b.key
  BY DEF Alive, HeapOK
<1>2. b.val[k] \in Values /\ At(m, a) = b.val[k]
  BY <1>1, MapIs DEF IsMap, At
<1>3. v \in Values /\ v.comments = n /\ ValueOwns(v) = ValueOwns(b.val[k])
      /\ (IsContainer(v) <=> IsContainer(b.val[k]))
  BY <1>2 DEF Values, ValueOwns, IsContainer
<1> HIDE DEF v
<1>4. Put(m, a, v) = [m EXCEPT ![a.map] = c] /\ Stored(b, c, k, v)
  BY <1>1, <1>3, PutIs
<1>5. Pointers(b) = (DOMAIN b.key) \X {"key", "value", "comments"}
  BY <1>1, MapIs
<1> HIDE DEF c
<1>6. O \subseteq Nat \ {Nil}
  BY DEF HeapOK, Blocks, Shape
<1>7. Owns(c, <<k, "comments">>) = n /\ Owns(b, <<k, "comments">>) = b.val[k].comments
  BY <1>3, <1>4 DEF Owns, Stored
<1>8. KindAt(c, <<k, "comments">>) = "comments"
  BY DEF KindAt
<1>9. TakesUp(m, O, a.map, c, X)
  BY <1>7, <1>8 DEF TakesUp
<1>10. Redirects(b, c, X, X)
  <2>1. Pointers(c) = Pointers(b) /\ X \subseteq Pointers(b)
    BY <1>1, <1>4, <1>5 DEF Stored
  <2>2. ASSUME NEW p \in Pointers(b) \ X
        PROVE  Owns(c, p) = Owns(b, p) /\ KindAt(c, p) = KindAt(b, p)
    <3>1. PICK j \in DOMAIN b.key, f \in {"key", "value", "comments"} : p = <<j, f>>
      BY <1>5, <2>2
    <3>2. c.key = b.key /\ c.val[k] = v /\ (j # k => c.val[j] = b.val[j])
      BY <1>4 DEF Stored
    <3>3. CASE f = "key"
      BY <3>1, <3>2, <3>3 DEF Owns, KindAt
    <3>4. CASE f = "value"
      <4>1. ValueOwns(c.val[j]) = ValueOwns(b.val[j])
            /\ (IsContainer(c.val[j]) <=> IsContainer(b.val[j]))
        BY <1>3, <3>2
      <4> QED BY <3>1, <3>4, <4>1 DEF Owns, KindAt
    <3>5. CASE f = "comments"
      <4>1. j # k
        BY <2>2, <3>1, <3>5
      <4> QED BY <3>1, <3>2, <3>5, <4>1 DEF Owns, KindAt
    <3> QED BY <3>3, <3>4, <3>5
  <2> QED BY <2>1, <2>2 DEF Redirects
<1>11. IsBlock(c) /\ c.kind = m[a.map].kind
  BY <1>1, <1>4 DEF IsBlock, Stored
<1>12. HeapOK([m EXCEPT ![a.map] = c], (O \ Targets(c, X)) \cup Targets(m[a.map], X))
  BY <1>1, <1>9, <1>10, <1>11, Redirected
<1>13. Targets(c, X) = {n} \ {Nil} /\ Targets(b, X) = {At(m, a).comments} \ {Nil}
  BY <1>2, <1>7 DEF Targets
<1>14. (O \ Targets(c, X)) \cup Targets(b, X) = (O \ {n}) \cup ({At(m, a).comments} \ {Nil})
  BY <1>6, <1>13
<1> QED BY <1>4, <1>12, <1>14 DEF v

\* What a Value that is in the memory points to.
LEMMA ValueIs ==
  ASSUME NEW m, NEW O, HeapOK(m, O), NEW a, Alive(m, a)
  PROVE  /\ At(m, a) \in Values
         /\ ValueOwns(At(m, a)) # Nil =>
              /\ ValueOwns(At(m, a)) \in Blocks(m) \ O
              /\ m[ValueOwns(At(m, a))].kind = IF IsContainer(At(m, a)) THEN "map" ELSE "chars"
         /\ At(m, a).comments # Nil =>
              /\ At(m, a).comments \in Blocks(m) \ O
              /\ m[At(m, a).comments].kind = "comments"
<1> DEFINE b == m[a.map]
           k == a.key
<1>1. Shape(m) /\ a.map \in DOMAIN m /\ b.kind = "map" /\ k \in DOMAIN b.key
  BY DEF Alive, HeapOK
<1>2. b.val[k] \in Values /\ At(m, a) = b.val[k]
  BY <1>1, MapIs DEF IsMap, At
<1>3. <<k, "value">> \in Pointers(b) /\ <<k, "comments">> \in Pointers(b)
  BY <1>1, MapIs
<1>4. Linked(m, O, b)
  BY <1>1 DEF HeapOK
<1>5. Owns(b, <<k, "comments">>) = b.val[k].comments /\ Owns(b, <<k, "value">>) = ValueOwns(b.val[k])
  BY DEF Owns
<1>6. KindAt(b, <<k, "comments">>) = "comments"
      /\ KindAt(b, <<k, "value">>) = IF IsContainer(b.val[k]) THEN "map" ELSE "chars"
  BY DEF KindAt
<1> HIDE DEF b, k
<1> QED BY <1>2, <1>3, <1>4, <1>5, <1>6 DEF Linked

\* The maps of m are maps of m2, with the same payloads in the same places.
KeepsMaps(m, m2) ==
  \A i \in DOMAIN m : m[i].kind = "map" =>
    /\ i \in DOMAIN m2 /\ m2[i].kind = "map"
    /\ DOMAIN m[i].key \subseteq DOMAIN m2[i].key
    /\ \A k \in DOMAIN m[i].key : m2[i].val[k].type = m[i].val[k].type
                                   /\ m2[i].val[k].ptr = m[i].val[k].ptr

LEMMA TextPut ==
  ASSUME NEW m, NEW O, HeapOK(m, O), NEW c \in DOMAIN m, m[c].kind = "comments",
         NEW placement \in Placements, NEW n \in Nat,
         n # Nil => n \in O /\ c # n /\ m[n].kind = "chars" /\ Inside(m[n]) = {}
  PROVE  HeapOK([m EXCEPT ![c].at[placement] = n],
                (O \ {n}) \cup ({m[c].at[placement]} \ {Nil}))
<1> DEFINE b == m[c]
           t == [b.at EXCEPT ![placement] = n]
           d == [b EXCEPT !.at = t]
           X == {<<placement, "text">>}
<1>1. b = [kind |-> "comments", at |-> b.at] /\ b.at \in [Placements -> Nat]
  BY DEF HeapOK, Shape, IsBlock, Chars, IsMap, IsComments
<1>2. [m EXCEPT ![c].at[placement] = n] = [m EXCEPT ![c] = d]
  OBVIOUS
<1>3. c # Nil /\ O \subseteq Nat \ {Nil}
  BY DEF HeapOK, Blocks, Shape
<1> HIDE DEF b
<1>4. t \in [Placements -> Nat] /\ t[placement] = n /\ \A q \in Placements : q # placement => t[q] = b.at[q]
  BY <1>1
<1> HIDE DEF t
<1>5. d = [kind |-> "comments", at |-> t]
  BY <1>1
<1> HIDE DEF d
<1>6. d.kind = "comments" /\ d.at = t /\ IsBlock(d)
  BY <1>4, <1>5 DEF IsBlock, IsComments
<1>7. Pointers(b) = Placements \X {"text"} /\ Pointers(d) = Placements \X {"text"}
  BY <1>1, <1>6 DEF Pointers
<1>8. Owns(d, <<placement, "text">>) = n /\ Owns(b, <<placement, "text">>) = b.at[placement]
  BY <1>4, <1>6 DEF Owns
<1>9. TakesUp(m, O, c, d, X)
  BY <1>8 DEF TakesUp, KindAt
<1>10. Redirects(b, d, X, X)
  BY <1>4, <1>6, <1>7 DEF Redirects, Owns, KindAt
<1>11. Redirects(m[c], d, X, X) /\ d.kind = m[c].kind
  BY <1>1, <1>6, <1>10 DEF b
<1>12. HeapOK([m EXCEPT ![c] = d], (O \ Targets(d, X)) \cup Targets(m[c], X))
  BY <1>6, <1>9, <1>11, Redirected
<1>13. Targets(d, X) = {n} \ {Nil} /\ Targets(m[c], X) = {m[c].at[placement]} \ {Nil}
  BY <1>8 DEF Targets, b
<1>14. (O \ Targets(d, X)) \cup Targets(m[c], X) = (O \ {n}) \cup ({m[c].at[placement]} \ {Nil})
  BY <1>3, <1>13
<1> QED BY <1>2, <1>12, <1>14

LEMMA CharsAre == IsBlock(Chars) /\ Chars.kind = "chars" /\ Inside(Chars) = {}
BY DEF IsBlock, Chars, Inside, Pointers

LEMMA TextSet ==
  ASSUME NEW m, HeapOK(m, {}), NEW c \in DOMAIN m, m[c].kind = "comments",
         NEW placement \in Placements
  PROVE  /\ HeapOK(SetText(m, c, placement), {})
         /\ \A i \in DOMAIN m : m[i].kind = "map" =>
              i \in DOMAIN SetText(m, c, placement) /\ SetText(m, c, placement)[i] = m[i]
\* As if the pointer were null while there is no text.
<1> DEFINE t == m[c].at[placement]
           m1 == [m EXCEPT ![c].at[placement] = Nil]
           m2 == Free(m1, {t})
           left == Free(m, {t})
           u == Unused(left)
           m3 == Allocate(m2, Chars)
           m4 == [m3 EXCEPT ![c].at[placement] = u]
<1>1. m[c] = [kind |-> "comments", at |-> m[c].at] /\ m[c].at \in [Placements -> Nat]
  BY DEF HeapOK, Shape, IsBlock, Chars, IsMap, IsComments
<1>2. <<placement, "text">> \in Pointers(m[c]) /\ Owns(m[c], <<placement, "text">>) = t
      /\ KindAt(m[c], <<placement, "text">>) = "chars"
  BY DEF Pointers, Owns, KindAt
<1>3. t # Nil => t \in Blocks(m) /\ m[t].kind = "chars"
  BY <1>2 DEF HeapOK, Linked
<1>4. t \in Nat /\ c # Nil /\ c # t
  BY <1>1, <1>3 DEF HeapOK, Shape
<1> HIDE DEF t
<1>5. HeapOK(m1, {t} \ {Nil})
  <2>1. HeapOK(m1, ({} \ {Nil}) \cup ({t} \ {Nil}))
    BY TextPut DEF t, Nil
  <2>2. ({} \ {Nil}) \cup ({t} \ {Nil}) = {t} \ {Nil}
    OBVIOUS
  <2> QED BY <2>1, <2>2
<1>6. /\ DOMAIN m1 = DOMAIN m /\ m1[c].kind = "comments"
      /\ m1[c] = [m[c] EXCEPT !.at = [@ EXCEPT ![placement] = Nil]]
      /\ \A i \in DOMAIN m : i # c => m1[i] = m[i]
  BY <1>1
<1> HIDE DEF m1, m2
<1>7. HeapOK(m2, {}) /\ DOMAIN m2 = DOMAIN m \ ({t} \ {Nil}) /\ \A i \in DOMAIN m2 : m2[i] = m1[i]
  <2> DEFINE D == {t} \ {Nil}
  <2>1. D \in SUBSET Blocks(m1)
    BY <1>3, <1>6 DEF Blocks
  <2>2. Closed(D, m1)
    <3>1. t # Nil => m1[t] = Chars
      BY <1>3, <1>4, <1>6 DEF HeapOK, Shape, IsBlock, IsComments, IsMap, Blocks
    <3> QED BY <3>1, CharsAre DEF Closed
  <2>6. HeapOK(m1, D) /\ D \in SUBSET D
    BY <1>5
  <2> HIDE DEF D
  <2>3. HeapOK(Free(m1, D), D \ D) /\ Cut(m1, Free(m1, D)) /\ DOMAIN Free(m1, D) = DOMAIN m1 \ D
    BY <2>1, <2>2, <2>6, Freed
  <2>4. Free(m1, D) = m2
    BY DEF Free, D, m2
  <2>5. D \ D = {}
    OBVIOUS
  <2> QED BY <1>6, <2>3, <2>4, <2>5 DEF Cut, D
<1>8. DOMAIN left = DOMAIN m2 /\ \A i \in DOMAIN left : left[i] = m[i]
  BY <1>6, <1>7 DEF Free
<1>9. Unused(m2) = u
  BY <1>8 DEF Unused
<1> HIDE DEF left
<1>10. /\ HeapOK(m3, {u}) /\ u \in Nat /\ u # Nil /\ u \notin DOMAIN m2
       /\ DOMAIN m3 = DOMAIN m2 \cup {u} /\ m3[u] = Chars /\ \A i \in DOMAIN m2 : m3[i] = m2[i]
  <2>1. {} \cup {u} = {u}
    OBVIOUS
  <2> DEFINE w == Unused(m2)
  <2>2. /\ HeapOK(m3, {} \cup {w}) /\ w \in Nat /\ w # Nil /\ w \notin DOMAIN m2
        /\ DOMAIN m3 = DOMAIN m2 \cup {w} /\ m3[w] = Chars /\ \A i \in DOMAIN m2 : m3[i] = m2[i]
    <3>1. HeapOK(m2, {})
      BY <1>7
    <3> QED BY <3>1, CharsAre, Allocated
  <2> HIDE DEF m3
  <2> QED BY <1>9, <2>1, <2>2
<1> HIDE DEF u, m3
<1>11. c \in DOMAIN m2 /\ c \in DOMAIN m3 /\ m3[c] = m1[c] /\ c # u
  BY <1>4, <1>7, <1>10
<1>12. HeapOK(m4, {})
  <2>1. HeapOK(m4, ({u} \ {u}) \cup ({m3[c].at[placement]} \ {Nil}))
    BY <1>6, <1>10, <1>11, CharsAre, TextPut
  <2>2. m3[c].at[placement] = Nil
    BY <1>1, <1>6, <1>11
  <2>3. ({u} \ {u}) \cup ({Nil} \ {Nil}) = {}
    OBVIOUS
  <2> QED BY <2>1, <2>2, <2>3
<1>13. m4 = SetText(m, c, placement)
  <2> DEFINE e == [left EXCEPT ![c].at[placement] = u]
  <2>1. SetText(m, c, placement) = With(e, u, Chars)
    <3>1. DOMAIN e = DOMAIN left
      OBVIOUS
    <3>2. Unused(e) = Unused(left)
      BY <3>1 DEF Unused
    <3>3. SetText(m, c, placement) = Allocate(e, Chars)
      BY DEF SetText, left, u, t
    <3> QED BY <3>2, <3>3 DEF Allocate, u
  <2>2. c \in DOMAIN left /\ left[c] = m[c]
    BY <1>8, <1>11
  <2>3. DOMAIN e = DOMAIN left /\ e[c] = [m[c] EXCEPT !.at = [@ EXCEPT ![placement] = u]]
        /\ \A i \in DOMAIN left : i # c => e[i] = m[i]
    BY <1>8, <2>2
  <2> HIDE DEF e
  <2>4. /\ DOMAIN m4 = DOMAIN m3 /\ m4 = [i \in DOMAIN m4 |-> m4[i]]
        /\ m4[c] = [m3[c] EXCEPT !.at = [@ EXCEPT ![placement] = u]]
        /\ \A i \in DOMAIN m3 : i # c => m4[i] = m3[i]
    BY <1>11
  <2> HIDE DEF m4
  <2>5. m4[c] = e[c]
    <3> DEFINE f == m[c].at
               f1 == [f EXCEPT ![placement] = Nil]
               f2 == [f1 EXCEPT ![placement] = u]
               f3 == [f EXCEPT ![placement] = u]
    <3>1. m[c] = [kind |-> "comments", at |-> f] /\ f2 = f3
      BY <1>1
    <3>2. m1[c] = [m[c] EXCEPT !.at = f1] /\ e[c] = [m[c] EXCEPT !.at = f3]
      BY <1>6, <2>3
    <3> HIDE DEF f, f1
    <3>3. m1[c] = [kind |-> "comments", at |-> f1]
      BY <3>1, <3>2
    <3>4. m4[c] = [m3[c] EXCEPT !.at = f2]
      BY <1>11, <2>4, <3>3
    <3> HIDE DEF f2, f3
    <3> QED BY <1>11, <3>1, <3>2, <3>3, <3>4
  <2>6. \A i \in DOMAIN left : i # u => m4[i] = e[i]
    BY <1>6, <1>7, <1>8, <1>10, <2>3, <2>4, <2>5
  <2>7. DOMAIN m4 = DOMAIN e \cup {u} /\ m4[u] = Chars
    BY <1>8, <1>10, <1>11, <2>3, <2>4
  <2> QED BY <2>1, <2>3, <2>4, <2>6, <2>7 DEF With
<1>14. ASSUME NEW i \in DOMAIN m, m[i].kind = "map"
       PROVE  i \in DOMAIN m4 /\ m4[i] = m[i]
  <2>1. i # c /\ i \notin {t} \ {Nil}
    BY <1>3, <1>14
  <2>2. i \in DOMAIN m2
    BY <1>7, <2>1
  <2> QED BY <1>6, <1>7, <1>10, <2>1, <2>2
<1> QED BY <1>12, <1>13, <1>14

LEMMA CommentsAre == IsBlock(NoComments) /\ NoComments.kind = "comments" /\ Inside(NoComments) = {}
<1>1. NoComments.kind = "comments" /\ NoComments.at = [p \in Placements |-> Nil]
  BY DEF NoComments
<1>2. IsBlock(NoComments)
  BY <1>1 DEF IsBlock, IsComments, NoComments, Nil
<1>3. \A p \in Pointers(NoComments) : Owns(NoComments, p) = Nil
  BY <1>1 DEF Pointers, Owns
<1> QED BY <1>1, <1>2, <1>3 DEF Inside

\* m2 has the maps of m, or some of them, as they were but for the Value at a.
Pruned(m, m2, a) ==
  /\ DOMAIN m2 \subseteq DOMAIN m
  /\ \A i \in DOMAIN m2 :
       /\ m2[i].kind = m[i].kind
       /\ m[i].kind = "map" =>
            /\ m2[i].key = m[i].key
            /\ \A k \in DOMAIN m[i].key : i # a.map \/ k # a.key => m2[i].val[k] = m[i].val[k]

LEMMA PutPrunes ==
  ASSUME NEW m, Shape(m), NEW a, Alive(m, a), NEW v \in Values
  PROVE  /\ Pruned(m, Put(m, a, v), a)
         /\ DOMAIN Put(m, a, v) = DOMAIN m
         /\ Alive(Put(m, a, v), a) /\ At(Put(m, a, v), a) = v
         /\ \A i \in DOMAIN m : i # a.map => Put(m, a, v)[i] = m[i]
<1> DEFINE c == PutIn(m, a, v)
           m2 == Put(m, a, v)
<1>1. m2 = [m EXCEPT ![a.map] = c] /\ Stored(m[a.map], c, a.key, v)
  BY PutIs
<1>2. a.map \in DOMAIN m /\ m[a.map].kind = "map" /\ a.key \in DOMAIN m[a.map].key
  BY DEF Alive
<1> HIDE DEF c, m2
<1>3. DOMAIN m2 = DOMAIN m /\ m2[a.map] = c /\ \A i \in DOMAIN m : i # a.map => m2[i] = m[i]
  BY <1>1, <1>2
<1>4. c.kind = "map" /\ c.key = m[a.map].key /\ c.val[a.key] = v
      /\ \A k \in DOMAIN m[a.map].key : k # a.key => c.val[k] = m[a.map].val[k]
  BY <1>1 DEF Stored
<1>5. Pruned(m, m2, a)
  BY <1>2, <1>3, <1>4 DEF Pruned
<1>6. Alive(m2, a) /\ At(m2, a) = v
  BY <1>2, <1>3, <1>4 DEF Alive, At
<1> QED BY <1>3, <1>5, <1>6 DEF m2

LEMMA CommentSet ==
  ASSUME NEW m, HeapOK(m, {}), NEW a, Alive(m, a), NEW placement \in Placements
  PROVE  /\ HeapOK(SetComment(m, a, placement), {})
         /\ KeepsMaps(m, SetComment(m, a, placement))
         /\ SetComment(m, a, placement)[Nil].key = m[Nil].key
<1> DEFINE v == At(m, a)
           u == Unused(m)
           m1 == Allocate(m, NoComments)
           w == [v EXCEPT !.comments = u]
           m2 == IF v.comments # Nil THEN m ELSE Put(m1, a, w)
           c == At(m2, a).comments
           m3 == SetText(m2, c, placement)
\* The Value has a comment's block.
<1>1. HeapOK(m2, {}) /\ c \in DOMAIN m2 /\ m2[c].kind = "comments"
      /\ KeepsMaps(m, m2) /\ m2[Nil].key = m[Nil].key
  <2>1. CASE v.comments # Nil
    <3>1. c = v.comments /\ m2 = m
      BY <2>1
    <3>2. v.comments \in Blocks(m) /\ m[v.comments].kind = "comments"
      BY <2>1, ValueIs
    <3> QED BY <3>1, <3>2 DEF KeepsMaps, Blocks
  <2>2. CASE v.comments = Nil
    <3>1. /\ HeapOK(m1, {} \cup {u}) /\ u \in Nat /\ u # Nil /\ u \notin DOMAIN m
          /\ DOMAIN m1 = DOMAIN m \cup {u} /\ m1[u] = NoComments
          /\ \A i \in DOMAIN m : m1[i] = m[i]
      BY CommentsAre, Allocated
    <3>2. m2 = Put(m1, a, w)
      BY <2>2
    <3> HIDE DEF u, m1, m2
    <3>3. a.map \in DOMAIN m /\ Alive(m1, a) /\ At(m1, a) = v /\ a.map # u
      BY <3>1 DEF Alive, At
    <3>4. HeapOK(m1, {u}) /\ m1[u].kind = "comments" /\ Inside(m1[u]) = {}
      <4>1. {} \cup {u} = {u}
        OBVIOUS
      <4> QED BY <3>1, <4>1, CommentsAre
    <3> HIDE DEF v
    <3>5. HeapOK(m2, {})
      <4>1. HeapOK(m2, ({u} \ {u}) \cup ({v.comments} \ {Nil}))
        BY <3>1, <3>2, <3>3, <3>4, CommentsPut
      <4>2. ({u} \ {u}) \cup ({v.comments} \ {Nil}) = {}
        BY <2>2
      <4> QED BY <4>1, <4>2
    <3>6. v \in Values /\ w \in Values /\ w.type = v.type /\ w.ptr = v.ptr /\ w.comments = u
      <4>1. v \in Values
        BY ValueIs DEF v
      <4> QED BY <3>1, <4>1 DEF Values, IsContainer
    <3> HIDE DEF w
    <3>7. /\ Pruned(m1, m2, a) /\ DOMAIN m2 = DOMAIN m1 /\ At(m2, a) = w
          /\ \A i \in DOMAIN m1 : i # a.map => m2[i] = m1[i]
      BY <3>2, <3>3, <3>4, <3>6, PutPrunes DEF HeapOK
    <3>8. c = u
      BY <3>6, <3>7
    <3>9. m2[u] = m1[u] /\ u \in DOMAIN m2
      BY <3>1, <3>3, <3>7
    <3>10. KeepsMaps(m, m2)
      <4> SUFFICES ASSUME NEW i \in DOMAIN m, m[i].kind = "map"
                   PROVE  /\ i \in DOMAIN m2 /\ m2[i].kind = "map"
                          /\ DOMAIN m[i].key \subseteq DOMAIN m2[i].key
                          /\ \A k \in DOMAIN m[i].key : m2[i].val[k].type = m[i].val[k].type
                                                         /\ m2[i].val[k].ptr = m[i].val[k].ptr
        BY DEF KeepsMaps
      <4>1. i \in DOMAIN m2 /\ m1[i] = m[i]
        BY <3>1, <3>7
      <4>2. m2[i].kind = "map" /\ m2[i].key = m[i].key
            /\ \A k \in DOMAIN m[i].key : i # a.map \/ k # a.key => m2[i].val[k] = m[i].val[k]
        BY <3>7, <4>1 DEF Pruned
      <4>3. m2[a.map].val[a.key] = w /\ m[a.map].val[a.key] = v
        BY <3>7 DEF At, v
      <4> QED BY <3>6, <4>1, <4>2, <4>3
    <3>11. m2[Nil].key = m[Nil].key
      <4>1. Nil \in DOMAIN m /\ m[Nil].kind = "map"
        BY DEF HeapOK, Shape
      <4> QED BY <3>1, <3>7, <4>1 DEF Pruned
    <3> QED BY <3>4, <3>5, <3>8, <3>9, <3>10, <3>11
  <2> QED BY <2>1, <2>2
<1>2. SetComment(m, a, placement) = m3
  BY DEF SetComment
<1> HIDE DEF m2, c
<1>3. /\ HeapOK(m3, {})
      /\ \A i \in DOMAIN m2 : m2[i].kind = "map" => i \in DOMAIN m3 /\ m3[i] = m2[i]
  BY <1>1, TextSet
<1> HIDE DEF m3
<1>4. KeepsMaps(m, m3)
  BY <1>1, <1>3 DEF KeepsMaps
<1>5. m3[Nil] = m2[Nil]
  BY <1>1, <1>3 DEF HeapOK, Shape
<1> QED BY <1>1, <1>2, <1>3, <1>4, <1>5

\* A payload that a Value may take over: it is null or in O and owns nothing.
Fresh(m, O, a, v) ==
  ValueOwns(v) # Nil =>
    /\ ValueOwns(v) \in O /\ a.map # ValueOwns(v)
    /\ m[ValueOwns(v)].kind = IF IsContainer(v) THEN "map" ELSE "chars"
    /\ Inside(m[ValueOwns(v)]) = {}

\* What SwapPayload leaves in s, where old is what was at a.
IsSwapped(m, O, a, v, s, old) ==
  /\ s.other \in Values /\ s.other.comments = Nil
  /\ IsContainer(s.other) <=> IsContainer(old)
  /\ ValueOwns(s.other) = ValueOwns(old)
  /\ OwnBlocks(s.other) = {ValueOwns(old)} \ {Nil}
  /\ HeapOK(s.memory, (O \ {ValueOwns(v)}) \cup ({ValueOwns(old)} \ {Nil}))
  /\ s.memory = Put(m, a, [v EXCEPT !.comments = old.comments])
  /\ Pruned(m, s.memory, a) /\ DOMAIN s.memory = DOMAIN m
  /\ At(s.memory, a) = [v EXCEPT !.comments = old.comments]

LEMMA Swapped ==
  ASSUME NEW m, NEW O, HeapOK(m, O), NEW a, Alive(m, a), NEW v \in Values,
         v.comments = Nil, Fresh(m, O, a, v)
  PROVE  IsSwapped(m, O, a, v, SwapPayload(m, a, v), At(m, a))
<1> DEFINE swapped == SwapPayload(m, a, v)
           old == At(m, a)
           w == [v EXCEPT !.comments = old.comments]
           other == [old EXCEPT !.comments = Nil]
<1>1. swapped.memory = Put(m, a, w) /\ swapped.other = other
  BY DEF SwapPayload
<1>2. old \in Values
  BY ValueIs
<1> HIDE DEF swapped, old
<1>3. /\ w \in Values /\ w.comments = old.comments /\ ValueOwns(w) = ValueOwns(v)
      /\ (IsContainer(w) <=> IsContainer(v))
  BY <1>2 DEF Values, ValueOwns, IsContainer
<1>4. /\ other \in Values /\ other.comments = Nil /\ ValueOwns(other) = ValueOwns(old)
      /\ (IsContainer(other) <=> IsContainer(old))
  BY <1>2 DEF Values, ValueOwns, IsContainer, Nil
<1>5. OwnBlocks(other) = {ValueOwns(old)} \ {Nil}
  BY <1>4 DEF OwnBlocks
<1> HIDE DEF other
<1> DEFINE m2 == Put(m, a, w)
<1>6. HeapOK(m2, (O \ {ValueOwns(v)}) \cup ({ValueOwns(old)} \ {Nil}))
  <2>1. HeapOK(m2, (O \ {ValueOwns(w)}) \cup ({ValueOwns(At(m, a))} \ {Nil}))
    BY <1>3, PayloadPut DEF Fresh, old
  <2> QED BY <1>3, <2>1 DEF old
<1>7. Pruned(m, m2, a) /\ DOMAIN m2 = DOMAIN m /\ At(m2, a) = w
  BY <1>3, PutPrunes DEF HeapOK
<1> HIDE DEF w, m2
<1>8. IsSwapped(m, O, a, v, swapped, old)
  BY <1>1, <1>4, <1>5, <1>6, <1>7 DEF IsSwapped, w, m2
<1> QED BY <1>8 DEF swapped, old

LEMMA CutPrunes ==
  ASSUME NEW m, NEW m1, NEW m2, NEW a, Pruned(m, m1, a), Cut(m1, m2)
  PROVE  Pruned(m, m2, a)
BY DEF Pruned, Cut

LEMMA PayloadSet ==
  ASSUME NEW m, NEW O, HeapOK(m, O), NEW a, Alive(m, a), NEW v \in Values,
         v.comments = Nil, Fresh(m, O, a, v)
  PROVE  /\ HeapOK(SetPayload(m, a, v), O \ {ValueOwns(v)})
         /\ Pruned(m, SetPayload(m, a, v), a)
<1> DEFINE swapped == SwapPayload(m, a, v)
           I == {ValueOwns(At(m, a))} \ {Nil}
           O2 == (O \ {ValueOwns(v)}) \cup I
           m2 == Destroy(swapped.memory, I)
<1>1. OwnBlocks(swapped.other) = I /\ HeapOK(swapped.memory, O2) /\ Pruned(m, swapped.memory, a)
  <2>1. IsSwapped(m, O, a, v, swapped, At(m, a))
    BY Swapped
  <2> HIDE DEF swapped
  <2> QED BY <2>1 DEF IsSwapped
<1>2. SetPayload(m, a, v) = m2
  BY <1>1 DEF SetPayload
<1>3. I \cap O = {}
  BY ValueIs
<1>4. O2 \ I = O \ {ValueOwns(v)}
  BY <1>3
<1>5. I \in SUBSET O2
  OBVIOUS
<1> HIDE DEF swapped, I, O2
<1>6. HeapOK(m2, O2 \ I) /\ Cut(swapped.memory, m2)
  BY <1>1, <1>5, Destroyed
<1> HIDE DEF m2
<1>7. Pruned(m, m2, a)
  BY <1>1, <1>6, CutPrunes
<1> QED BY <1>2, <1>4, <1>6, <1>7

LEMMA Assigned ==
  ASSUME NEW m, NEW O, HeapOK(m, O), NEW a, Alive(m, a), NEW v \in Values,
         v.comments = Nil, Fresh(m, O, a, v)
  PROVE  /\ HeapOK(Assign(m, a, v), O \ {ValueOwns(v)})
         /\ Pruned(m, Assign(m, a, v), a)
         /\ Alive(Assign(m, a, v), a) => At(Assign(m, a, v), a) = v
<1> DEFINE old == At(m, a)
           w == [v EXCEPT !.comments = old.comments]
           m1 == Put(m, a, w)
           m2 == Put(m, a, v)
           I == {ValueOwns(old), old.comments} \ {Nil}
           O1 == (O \ {ValueOwns(v)}) \cup ({ValueOwns(old)} \ {Nil})
           O2 == (O \ {ValueOwns(v)}) \cup I
           m3 == Destroy(m2, I)
<1>1. HeapOK(m1, O1) /\ At(m1, a) = w /\ Pruned(m, m1, a) /\ DOMAIN m1 = DOMAIN m
  <2>1. IsSwapped(m, O, a, v, SwapPayload(m, a, v), old)
    BY Swapped
  <2> HIDE DEF old
  <2> QED BY <2>1 DEF IsSwapped
<1>2. old \in Values /\ I \cap O = {}
  BY ValueIs
<1>3. a.map \in DOMAIN m /\ m[a.map].kind = "map" /\ a.key \in DOMAIN m[a.map].key
  BY DEF Alive
<1>4. Alive(m1, a)
  BY <1>1, <1>3 DEF Pruned, Alive
<1>5. [w EXCEPT !.comments = Nil] = v /\ w.comments = old.comments /\ w \in Values
  BY <1>2 DEF Values, IsContainer
<1>6. Put(m1, a, v) = m2
  <2> DEFINE c == PutIn(m, a, w)
             d == PutIn(m1, a, v)
             e == PutIn(m, a, v)
  <2>1. m1 = [m EXCEPT ![a.map] = c] /\ m2 = [m EXCEPT ![a.map] = e]
    BY <1>3, <1>5, PutIs DEF HeapOK
  <2>2. Put(m1, a, v) = [m1 EXCEPT ![a.map] = d]
    BY <1>1, <1>4, PutIs DEF HeapOK
  <2>3. m1[a.map] = c
    BY <1>3, <2>1
  <2>4. IsMap(m[a.map])
    BY <1>3, MapIs DEF HeapOK
  <2>5. d = e
    <3> DEFINE f == m[a.map].val
    <3>1. m[a.map] = [kind |-> "map", key |-> m[a.map].key, val |-> f]
      BY <2>4 DEF IsMap
    <3>2. c = [kind |-> "map", key |-> m[a.map].key, val |-> [f EXCEPT ![a.key] = w]]
      BY <3>1 DEF PutIn
    <3>3. d = [c EXCEPT !.val = [@ EXCEPT ![a.key] = v]]
      BY <2>3 DEF PutIn
    <3>4. e = [kind |-> "map", key |-> m[a.map].key, val |-> [f EXCEPT ![a.key] = v]]
      BY <3>1 DEF PutIn
    <3>5. [[f EXCEPT ![a.key] = w] EXCEPT ![a.key] = v] = [f EXCEPT ![a.key] = v]
      OBVIOUS
    <3> HIDE DEF f, c, d, e
    <3> QED BY <3>2, <3>3, <3>4, <3>5
  <2> HIDE DEF c, d, e, m1, m2
  <2>6. [m1 EXCEPT ![a.map] = e] = m2
    BY <2>1
  <2> QED BY <2>2, <2>5, <2>6
<1>7. HeapOK(m2, O2)
  <2>1. HeapOK(Put(m1, a, [At(m1, a) EXCEPT !.comments = Nil]),
               (O1 \ {Nil}) \cup ({At(m1, a).comments} \ {Nil}))
    <3> HIDE DEF m1, O1, w, old
    <3>1. HeapOK(m1, O1) /\ Nil \in Nat
      BY <1>1 DEF Nil
    <3> QED BY <1>4, <3>1, CommentsPut
  <2>2. O \subseteq Blocks(m)
    BY DEF HeapOK
  <2>3. (O1 \ {Nil}) \cup ({old.comments} \ {Nil}) = O2
    BY <2>2 DEF Blocks
  <2> HIDE DEF m1, m2, O1, O2, w, old
  <2> QED BY <1>1, <1>5, <1>6, <2>1, <2>3
<1>8. Pruned(m, m2, a) /\ At(m2, a) = v
  BY PutPrunes DEF HeapOK
<1>9. OwnBlocks(old) = I /\ Assign(m, a, v) = m3
  BY DEF OwnBlocks, Assign
<1>10. O2 \ I = O \ {ValueOwns(v)} /\ I \in SUBSET O2
  BY <1>2
<1> HIDE DEF I, O2, m2
<1>11. HeapOK(m3, O2 \ I) /\ Cut(m2, m3)
  BY <1>7, <1>10, Destroyed
<1> HIDE DEF m3
<1>12. Pruned(m, m3, a)
  BY <1>8, <1>11, CutPrunes
<1>13. Alive(m3, a) => At(m3, a) = v
  BY <1>8, <1>11 DEF Alive, Cut, At
<1> QED BY <1>9, <1>10, <1>11, <1>12, <1>13
-----------------------------------------------------------------------------
(* One more Value in a map. *)

LEMMA KindIs ==
  ASSUME NEW m, NEW O, HeapOK(m, O), NEW id \in DOMAIN m, m[id].kind = "chars"
  PROVE  m[id] = Chars
BY DEF HeapOK, Shape, IsBlock, IsComments, IsMap

\* c is the map b with v at k.
Extended(b, c, k, key, v) ==
  /\ IsMap(c) /\ c.kind = "map" /\ DOMAIN c.key = DOMAIN b.key \cup {k}
  /\ c.key[k] = key /\ c.val[k] = v
  /\ \A j \in DOMAIN b.key : c.key[j] = b.key[j] /\ c.val[j] = b.val[j]

LEMMA ChildIs ==
  ASSUME NEW b, IsMap(b), NEW k, k \notin DOMAIN b.key, NEW key \in Keys, NEW v \in Values
  PROVE  Extended(b, WithChild(b, k, key, v), k, key, v)
<1> DEFINE f == With(b.key, k, key)
           g == With(b.val, k, v)
           c == WithChild(b, k, key, v)
<1>1. b = [kind |-> "map", key |-> b.key, val |-> b.val] /\ DOMAIN b.val = DOMAIN b.key
  BY DEF IsMap
<1>2. b.key \in [DOMAIN b.key -> Keys] /\ b.val \in [DOMAIN b.key -> Values]
  BY DEF IsMap
<1>3. c = [b EXCEPT !.key = f, !.val = g]
  BY DEF WithChild
<1>4. /\ f \in [DOMAIN b.key \cup {k} -> Keys] /\ f[k] = key
      /\ \A j \in DOMAIN b.key : f[j] = b.key[j]
  BY <1>2 DEF With
<1>5. /\ g \in [DOMAIN b.key \cup {k} -> Values] /\ g[k] = v
      /\ \A j \in DOMAIN b.key : g[j] = b.val[j]
  BY <1>1, <1>2 DEF With
<1> HIDE DEF f, g, c
<1>6. c = [kind |-> "map", key |-> f, val |-> g]
  <2>1. PICK x, y : b = [kind |-> "map", key |-> x, val |-> y]
    BY <1>1
  <2>2. c = [[kind |-> "map", key |-> x, val |-> y] EXCEPT !.key = f, !.val = g]
    BY <1>3, <2>1
  <2> QED BY <2>2
<1>7. c.kind = "map" /\ c.key = f /\ c.val = g
  BY <1>6
<1>8. DOMAIN f = DOMAIN b.key \cup {k}
  BY <1>4
<1>9. IsMap(c)
  BY <1>4, <1>5, <1>6, <1>7, <1>8 DEF IsMap
<1>10. Extended(b, c, k, key, v)
  BY <1>4, <1>5, <1>7, <1>8, <1>9 DEF Extended
<1> QED BY <1>10 DEF c

LEMMA ChildAdded ==
  ASSUME NEW m, NEW O, HeapOK(m, O), NEW id \in DOMAIN m, m[id].kind = "map",
         NEW k, k \notin DOMAIN m[id].key, NEW key \in Keys, NEW v \in Values, v.comments = Nil,
         KeyOwns(key) = Nil \/ ValueOwns(v) = Nil,
         KeyOwns(key) # Nil => KeyOwns(key) \in O /\ m[KeyOwns(key)].kind = "chars",
         ValueOwns(v) # Nil =>
           /\ id = Nil /\ ValueOwns(v) \in O
           /\ m[ValueOwns(v)].kind = IF IsContainer(v) THEN "map" ELSE "chars"
  PROVE  HeapOK([m EXCEPT ![id] = WithChild(m[id], k, key, v)], O \ {KeyOwns(key), ValueOwns(v)})
<1> DEFINE b == m[id]
           c == WithChild(b, k, key, v)
           X == {<<k, "key">>, <<k, "value">>, <<k, "comments">>}
           N == {KeyOwns(key), ValueOwns(v)} \ {Nil}
<1>1. IsMap(b) /\ Pointers(b) = (DOMAIN b.key) \X {"key", "value", "comments"}
  BY MapIs DEF HeapOK
<1>2. Extended(b, c, k, key, v)
  BY <1>1, ChildIs
<1> HIDE DEF c
<1>3. Pointers(c) = (DOMAIN c.key) \X {"key", "value", "comments"}
  BY <1>2 DEF Extended, Pointers
<1>4. Owns(c, <<k, "key">>) = KeyOwns(key) /\ Owns(c, <<k, "value">>) = ValueOwns(v)
      /\ Owns(c, <<k, "comments">>) = Nil
  BY <1>2 DEF Owns, Extended
<1>5. KindAt(c, <<k, "key">>) = "chars"
      /\ KindAt(c, <<k, "value">>) = IF IsContainer(v) THEN "map" ELSE "chars"
  BY <1>2 DEF KindAt, Extended
<1>6. KeyOwns(key) # Nil => KeyOwns(key) # id /\ Inside(m[KeyOwns(key)]) = {}
  <2> SUFFICES ASSUME KeyOwns(key) # Nil PROVE KeyOwns(key) # id /\ Inside(m[KeyOwns(key)]) = {}
    OBVIOUS
  <2>1. KeyOwns(key) \in DOMAIN m
    BY DEF HeapOK, Blocks
  <2>2. m[KeyOwns(key)] = Chars
    BY <2>1, KindIs
  <2> QED BY <2>2, CharsAre
<1>7. TakesUp(m, O, id, c, X)
  <2>1. ASSUME NEW p \in X, Owns(c, p) # Nil
        PROVE  /\ Owns(c, p) \in O /\ m[Owns(c, p)].kind = KindAt(c, p)
               /\ id # Nil => Owns(c, p) # id /\ Inside(m[Owns(c, p)]) = {}
    <3>1. CASE p = <<k, "key">>
      BY <1>4, <1>5, <1>6, <2>1, <3>1
    <3>2. CASE p = <<k, "value">>
      BY <1>4, <1>5, <2>1, <3>2
    <3>3. CASE p = <<k, "comments">>
      BY <1>4, <2>1, <3>3
    <3> QED BY <3>1, <3>2, <3>3
  <2>2. \A p, q \in X : Owns(c, p) = Owns(c, q) => p = q \/ Owns(c, p) = Nil
    BY <1>4
  <2> QED BY <2>1, <2>2 DEF TakesUp
<1>8. Redirects(b, c, {}, X)
  <2>1. X \subseteq Pointers(c) /\ Pointers(b) \ {} = Pointers(c) \ X
    <3>1. DOMAIN c.key = DOMAIN b.key \cup {k}
      BY <1>2 DEF Extended
    <3> QED BY <1>1, <1>3, <3>1
  <2>2. ASSUME NEW p \in Pointers(b)
        PROVE  Owns(c, p) = Owns(b, p) /\ KindAt(c, p) = KindAt(b, p)
    <3>1. PICK j \in DOMAIN b.key, f \in {"key", "value", "comments"} : p = <<j, f>>
      BY <1>1, <2>2
    <3>2. c.key[j] = b.key[j] /\ c.val[j] = b.val[j]
      BY <1>2 DEF Extended
    <3> QED BY <3>1, <3>2 DEF Owns, KindAt
  <2> QED BY <2>1, <2>2 DEF Redirects
<1>9. IsBlock(c) /\ c.kind = m[id].kind
  BY <1>2 DEF Extended, IsBlock
<1> HIDE DEF X
<1>10. HeapOK([m EXCEPT ![id] = c], (O \ Targets(c, X)) \cup Targets(m[id], {}))
  BY <1>7, <1>8, <1>9, Redirected
<1>11. Targets(c, X) = N /\ Targets(m[id], {}) = {}
  BY <1>4 DEF Targets, X
<1>12. (O \ N) \cup {} = O \ {KeyOwns(key), ValueOwns(v)}
  BY DEF HeapOK, Blocks
<1> QED BY <1>10, <1>11, <1>12 DEF c

\* The stack has the caller's root and the locals of n calls.
Stack(m, n) == m[Nil].key = [i \in 0 .. n |-> IndexKey]

LEMMA LocalAdded ==
  ASSUME NEW m, NEW O, HeapOK(m, O), NEW n \in Nat, Stack(m, n),
         NEW v \in Values, v.comments = Nil,
         ValueOwns(v) # Nil =>
           /\ ValueOwns(v) \in O
           /\ m[ValueOwns(v)].kind = IF IsContainer(v) THEN "map" ELSE "chars"
  PROVE  /\ HeapOK(AddLocal(m, n + 1, v), O \ {ValueOwns(v)})
         /\ KeepsMaps(m, AddLocal(m, n + 1, v))
         /\ Stack(AddLocal(m, n + 1, v), n + 1)
<1> DEFINE b == m[Nil]
           i == n + 1
           c == WithChild(b, i, IndexKey, v)
           m2 == [m EXCEPT ![Nil] = c]
<1>1. Nil \in DOMAIN m /\ b.kind = "map" /\ Shape(m) /\ O \subseteq Blocks(m)
      /\ i \notin DOMAIN b.key
  BY DEF HeapOK, Shape, Stack
<1>2. IndexKey \in Keys /\ KeyOwns(IndexKey) = Nil
  BY DEF IndexKey, Keys, KeyOwns, Nil
<1>3. AddLocal(m, n + 1, v) = m2
  BY DEF AddLocal
<1>4. HeapOK(m2, O \ {Nil, ValueOwns(v)})
  <2> HIDE DEF m2
  <2>1. HeapOK(m2, O \ {KeyOwns(IndexKey), ValueOwns(v)})
    BY <1>1, <1>2, ChildAdded DEF m2
  <2> QED BY <1>2, <2>1
<1>5. O \ {Nil, ValueOwns(v)} = O \ {ValueOwns(v)}
  BY <1>1 DEF Blocks
<1>6. Extended(b, c, i, IndexKey, v)
  BY <1>1, <1>2, MapIs, ChildIs
<1> HIDE DEF c
<1>7. DOMAIN m2 = DOMAIN m /\ m2[Nil] = c /\ \A j \in DOMAIN m : j # Nil => m2[j] = m[j]
  BY <1>1
<1> HIDE DEF m2
<1>8. Stack(m2, i)
  <2>1. c.key = [j \in DOMAIN c.key |-> c.key[j]]
    BY <1>6 DEF Extended, IsMap
  <2>2. DOMAIN c.key = 0 .. i /\ \A j \in 0 .. i : c.key[j] = IndexKey
    BY <1>6 DEF Extended, Stack
  <2> QED BY <1>7, <2>1, <2>2 DEF Stack
<1>9. KeepsMaps(m, m2)
  BY <1>6, <1>7 DEF KeepsMaps, Extended
<1> QED BY <1>3, <1>4, <1>5, <1>8, <1>9
-----------------------------------------------------------------------------
(* What goes: the locals of calls that end, and the members of the root. *)

\* The Values at the addresses of m, unless they are among those, are where they were.
KeepsOthers(m, m2, gone) ==
  \A a : Alive(m, a) /\ a.map \in DOMAIN m2 /\ (a.map = Nil => a.key \notin gone) =>
    Alive(m2, a) /\ At(m2, a) = At(m, a)

LEMMA LocalsDropped ==
  ASSUME NEW m, HeapOK(m, {}), NEW n \in Nat, NEW j \in 0 .. n, Stack(m, n)
  PROVE  /\ HeapOK(DropLocals(m, j + 1 .. n), {})
         /\ Stack(DropLocals(m, j + 1 .. n), j)
         /\ KeepsOthers(m, DropLocals(m, j + 1 .. n), j + 1 .. n)
<1> DEFINE gone == j + 1 .. n
           b == m[Nil]
           kept == DOMAIN b.key \ gone
           f == [i \in kept |-> b.key[i]]
           g == [i \in kept |-> b.val[i]]
           c == [b EXCEPT !.key = f, !.val = g]
           I == UNION {OwnBlocks(b.val[i]) : i \in gone}
           Y == gone \X {"key", "value", "comments"}
           left == [m EXCEPT ![Nil] = c]
           m2 == Destroy(left, I)
<1>1. Nil \in DOMAIN m /\ b.kind = "map" /\ Shape(m)
  BY DEF HeapOK, Shape
<1>2. /\ IsMap(b) /\ Pointers(b) = (DOMAIN b.key) \X {"key", "value", "comments"}
      /\ DOMAIN b.key = 0 .. n /\ \A i \in 0 .. n : b.key[i] = IndexKey
  BY <1>1, MapIs DEF Stack
<1>3. kept = 0 .. j /\ gone \subseteq 0 .. n
  BY <1>2
<1>4. DropLocals(m, gone) = m2
  <2>1. [m EXCEPT ![Nil].key = f, ![Nil].val = g] = left
    BY <1>1
  <2> QED BY <2>1 DEF DropLocals
<1>5. f \in [0 .. j -> Keys] /\ g \in [0 .. j -> Values]
      /\ \A i \in 0 .. j : f[i] = b.key[i] /\ g[i] = b.val[i]
  BY <1>2, <1>3 DEF IsMap
<1>6. c = [kind |-> "map", key |-> f, val |-> g]
  <2> HIDE DEF f, g, b
  <2>1. PICK x, y : b = [kind |-> "map", key |-> x, val |-> y]
    BY <1>2 DEF IsMap
  <2>2. c = [[kind |-> "map", key |-> x, val |-> y] EXCEPT !.key = f, !.val = g]
    BY <2>1
  <2> HIDE DEF c
  <2> QED BY <2>2
<1> HIDE DEF f, g, c, kept
<1>7. c.kind = "map" /\ c.key = f /\ c.val = g /\ IsMap(c)
  BY <1>5, <1>6 DEF IsMap
<1>8. Pointers(c) = (0 .. j) \X {"key", "value", "comments"}
  BY <1>5, <1>7 DEF Pointers
<1>9. Redirects(b, c, Y, {})
  <2>1. Y \subseteq Pointers(b) /\ Pointers(b) \ Y = Pointers(c) \ {}
    BY <1>2, <1>3, <1>8
  <2>2. ASSUME NEW p \in Pointers(b) \ Y
        PROVE  Owns(c, p) = Owns(b, p) /\ KindAt(c, p) = KindAt(b, p)
    <3>1. PICK i \in 0 .. j, fld \in {"key", "value", "comments"} : p = <<i, fld>>
      BY <1>8, <2>1, <2>2
    <3>2. c.key[i] = b.key[i] /\ c.val[i] = b.val[i]
      BY <1>5, <1>7
    <3> QED BY <3>1, <3>2 DEF Owns, KindAt
  <2> QED BY <2>1, <2>2 DEF Redirects
<1>10. Targets(b, Y) = I /\ Targets(c, {}) = {}
  <2>1. \A i \in gone : Owns(b, <<i, "key">>) = Nil /\ Owns(b, <<i, "value">>) = ValueOwns(b.val[i])
                        /\ Owns(b, <<i, "comments">>) = b.val[i].comments
    BY <1>2, <1>3 DEF Owns, KeyOwns, IndexKey
  <2>2. I \subseteq Targets(b, Y)
    BY <2>1 DEF Targets, OwnBlocks
  <2>3. ASSUME NEW p \in Y, Owns(b, p) # Nil PROVE Owns(b, p) \in I
    <3>1. PICK i \in gone, fld \in {"key", "value", "comments"} : p = <<i, fld>>
      OBVIOUS
    <3>2. Owns(b, p) \in OwnBlocks(b.val[i])
      BY <2>1, <2>3, <3>1 DEF OwnBlocks
    <3> QED BY <3>2
  <2>4. Targets(b, Y) \subseteq I
    BY <2>3 DEF Targets
  <2> QED BY <2>2, <2>4 DEF Targets
<1>11. HeapOK(left, I)
  <2>1. TakesUp(m, {}, Nil, c, {})
    BY DEF TakesUp
  <2>2. IsBlock(c)
    BY <1>7 DEF IsBlock
  <2> HIDE DEF Y, I, b
  <2>3. HeapOK([m EXCEPT ![Nil] = c], ({} \ Targets(c, {})) \cup Targets(m[Nil], Y))
    BY <1>1, <1>7, <1>9, <2>1, <2>2, Redirected DEF b
  <2>4. ({} \ Targets(c, {})) \cup Targets(m[Nil], Y) = I
    BY <1>10 DEF b
  <2> QED BY <2>3, <2>4
<1>12. DOMAIN left = DOMAIN m /\ left[Nil] = c /\ \A i \in DOMAIN m : i # Nil => left[i] = m[i]
  BY <1>1
<1> HIDE DEF left, I
<1>13. HeapOK(m2, I \ I) /\ Cut(left, m2) /\ Nil \in DOMAIN m2
  BY <1>11, Destroyed
<1>14. I \ I = {}
  OBVIOUS
<1> HIDE DEF m2
<1>15. m2[Nil] = c /\ \A i \in DOMAIN m2 : i # Nil => m2[i] = m[i]
  BY <1>12, <1>13 DEF Cut
<1>16. Stack(m2, j)
  <2>1. f = [i \in 0 .. j |-> IndexKey]
    BY <1>2, <1>5
  <2> QED BY <1>7, <1>15, <2>1 DEF Stack
<1>17. KeepsOthers(m, m2, gone)
  <2> SUFFICES ASSUME NEW a, Alive(m, a), a.map \in DOMAIN m2, a.map = Nil => a.key \notin gone
               PROVE  Alive(m2, a) /\ At(m2, a) = At(m, a)
    BY DEF KeepsOthers
  <2>1. CASE a.map # Nil
    BY <1>15, <2>1 DEF Alive, At
  <2>2. CASE a.map = Nil
    <3>1. a.key \in 0 .. j
      BY <1>2, <2>2 DEF Alive
    <3>2. c.val[a.key] = b.val[a.key] /\ DOMAIN c.key = 0 .. j
      BY <1>5, <1>7, <3>1
    <3> QED BY <1>7, <1>15, <2>2, <3>1, <3>2 DEF Alive, At
  <2> QED BY <2>1, <2>2
<1> QED BY <1>4, <1>13, <1>14, <1>16, <1>17

LEMMA MapCleared ==
  ASSUME NEW m, HeapOK(m, {}), NEW id \in Blocks(m), m[id].kind = "map"
  PROVE  LET m2 == Destroy([m EXCEPT ![id] = NewMap], Inside(m[id]))
         IN  HeapOK(m2, {}) /\ Nil \in DOMAIN m2 /\ m2[Nil] = m[Nil]
<1> DEFINE b == m[id]
           left == [m EXCEPT ![id] = NewMap]
           I == Inside(b)
           m2 == Destroy(left, I)
<1>1. id \in DOMAIN m /\ id # Nil /\ Nil \in DOMAIN m
  BY DEF Blocks, HeapOK, Shape
<1>2. NewMap.kind = "map" /\ DOMAIN NewMap.key = {} /\ DOMAIN NewMap.val = {}
  BY DEF NewMap
<1>3. IsBlock(NewMap)
  BY DEF IsBlock, IsMap, NewMap
<1>4. Pointers(NewMap) = {}
  BY <1>2 DEF Pointers
<1>5. Targets(b, Pointers(b)) = I /\ Targets(NewMap, {}) = {}
  BY DEF Targets, Inside
<1>6. Redirects(b, NewMap, Pointers(b), {}) /\ TakesUp(m, {}, id, NewMap, {})
  BY <1>4 DEF Redirects, TakesUp
<1>7. HeapOK(left, I)
  <2> HIDE DEF I
  <2>1. HeapOK([m EXCEPT ![id] = NewMap], ({} \ Targets(NewMap, {})) \cup Targets(m[id], Pointers(m[id])))
    BY <1>1, <1>2, <1>3, <1>6, Redirected
  <2> QED BY <1>5, <2>1
<1>8. DOMAIN left = DOMAIN m /\ left[Nil] = m[Nil]
  BY <1>1
<1> HIDE DEF left, I
<1>9. HeapOK(m2, I \ I) /\ Cut(left, m2) /\ Nil \in DOMAIN m2
  BY <1>7, Destroyed
<1>10. I \ I = {}
  OBVIOUS
<1>11. HeapOK(m2, {}) /\ Nil \in DOMAIN m2 /\ m2[Nil] = m[Nil]
  BY <1>8, <1>9, <1>10 DEF Cut
<1> QED BY <1>11 DEF m2, left, I
-----------------------------------------------------------------------------
(* operator[]: a key is copied into the pair, and from there into the map. *)

\* left is m with the characters of key, which nothing owns yet.
Copied(m, left, key) ==
  /\ key \in Keys
  /\ HeapOK(left, {KeyOwns(key)} \ {Nil})
  /\ KeyOwns(key) # Nil => left[KeyOwns(key)].kind = "chars"
  /\ \A i \in DOMAIN m : i \in DOMAIN left /\ left[i] = m[i]

LEMMA NameCopied ==
  ASSUME NEW m, HeapOK(m, {})
  PROVE  LET pair == CopyKey(NameKey, m)
             node == CopyKey(pair.key, pair.memory)
         IN  Copied(m, Free(node.memory, {KeyOwns(pair.key)}), node.key)
<1> DEFINE u == Unused(m)
           m1 == Allocate(m, Chars)
           w == Unused(m1)
           m2 == Allocate(m1, Chars)
           left == Free(m2, {u})
           first == [ptr |-> u, policy |-> "duplicate"]
           second == [ptr |-> w, policy |-> "duplicate"]
<1>1. CopyKey(NameKey, m) = [key |-> first, memory |-> m1]
  BY DEF CopyKey, NameKey, Caller, Nil
<1>2. /\ HeapOK(m1, {} \cup {u}) /\ u \in Nat /\ u # Nil /\ u \notin DOMAIN m
      /\ DOMAIN m1 = DOMAIN m \cup {u} /\ m1[u] = Chars
      /\ \A i \in DOMAIN m : m1[i] = m[i]
  BY CharsAre, Allocated
<1> HIDE DEF u, m1
<1>3. CopyKey(first, m1) = [key |-> second, memory |-> m2]
  BY <1>2 DEF CopyKey
<1>4. KeyOwns(first) = u /\ KeyOwns(second) = w
  BY DEF KeyOwns
<1>5. HeapOK(m1, {u})
  <2>1. {} \cup {u} = {u}
    OBVIOUS
  <2> QED BY <1>2, <2>1
<1>6. /\ HeapOK(m2, {u} \cup {w}) /\ w \in Nat /\ w # Nil /\ w \notin DOMAIN m1
      /\ DOMAIN m2 = DOMAIN m1 \cup {w} /\ m2[w] = Chars
      /\ \A i \in DOMAIN m1 : m2[i] = m1[i]
  BY <1>5, CharsAre, Allocated
<1> HIDE DEF w, m2
<1>7. HeapOK(left, {w}) /\ DOMAIN left = DOMAIN m2 \ {u} /\ \A i \in DOMAIN left : left[i] = m2[i]
  <2> DEFINE O == {u} \cup {w}
             D == {u}
  <2>1. D \in SUBSET Blocks(m2) /\ D \in SUBSET O
    BY <1>2, <1>6 DEF Blocks
  <2>2. Closed(D, m2)
    BY <1>2, <1>6, CharsAre DEF Closed
  <2>3. O \ D = {w}
    BY <1>2, <1>6
  <2>4. HeapOK(m2, O)
    BY <1>6
  <2>5. left = Free(m2, D)
    OBVIOUS
  <2> HIDE DEF O, D, left
  <2>6. HeapOK(left, O \ D) /\ Cut(m2, left) /\ DOMAIN left = DOMAIN m2 \ D
    BY <2>1, <2>2, <2>4, <2>5, Freed
  <2> QED BY <2>3, <2>6 DEF Cut, D
<1> HIDE DEF left
<1>8. Copied(m, left, second)
  <2>1. second \in Keys
    BY <1>6 DEF Keys
  <2>2. {w} \ {Nil} = {w}
    BY <1>6
  <2>3. left[w].kind = "chars"
    BY <1>2, <1>6, <1>7, CharsAre
  <2>4. \A i \in DOMAIN m : i \in DOMAIN left /\ left[i] = m[i]
    BY <1>2, <1>6, <1>7
  <2> HIDE DEF second
  <2> QED BY <1>4, <1>7, <2>1, <2>2, <2>3, <2>4 DEF Copied
<1> HIDE DEF first, second
<1> QED BY <1>1, <1>3, <1>4, <1>8 DEF left

LEMMA IndexCopied ==
  ASSUME NEW m, HeapOK(m, {})
  PROVE  LET pair == CopyKey(IndexKey, m)
             node == CopyKey(pair.key, pair.memory)
         IN  Copied(m, Free(node.memory, {KeyOwns(pair.key)}), node.key)
<1>1. CopyKey(IndexKey, m) = [key |-> IndexKey, memory |-> m]
  BY DEF CopyKey, IndexKey
<1>2. IndexKey \in Keys /\ KeyOwns(IndexKey) = Nil
  BY DEF IndexKey, Keys, KeyOwns, Nil
<1>3. Free(m, {Nil}) = m
  BY DEF Free, HeapOK, Shape
<1>4. Copied(m, m, IndexKey)
  <2>1. {Nil} \ {Nil} = {}
    OBVIOUS
  <2> QED BY <1>2, <2>1 DEF Copied
<1> QED BY <1>1, <1>2, <1>3, <1>4

LEMMA ChildInserted ==
  ASSUME NEW m, HeapOK(m, {}), NEW a, Alive(m, a), IsContainer(At(m, a)), NEW k
  PROVE  /\ HeapOK(InsertChild(m, a, k), {})
         /\ KeepsMaps(m, InsertChild(m, a, k))
         /\ Nil \in DOMAIN InsertChild(m, a, k) /\ InsertChild(m, a, k)[Nil] = m[Nil]
         /\ Alive(InsertChild(m, a, k), [map |-> At(m, a).ptr, key |-> k])
<1> DEFINE map == At(m, a).ptr
           m3 == InsertChild(m, a, k)
           key0 == IF At(m, a).type = "object" THEN NameKey ELSE IndexKey
           pair == CopyKey(key0, m)
           node == CopyKey(pair.key, pair.memory)
           left == Free(node.memory, {KeyOwns(pair.key)})
           key == node.key
           c == WithChild(left[map], k, key, NullValue)
           added == [left EXCEPT ![map] = c]
<1>1. map \in Blocks(m) /\ m[map].kind = "map" /\ map # Nil /\ map \in DOMAIN m /\ Nil \in DOMAIN m
  <2>1. ValueOwns(At(m, a)) = map /\ map # Nil
    BY ValueIs DEF ValueOwns, Values
  <2>2. map \in Blocks(m) \ {} /\ m[map].kind = "map"
    <3> HIDE DEF map
    <3> QED BY <2>1, ValueIs
  <2>3. Nil \in DOMAIN m
    BY DEF HeapOK, Shape
  <2> QED BY <2>1, <2>2, <2>3 DEF Blocks
<1>2. m3 = IF k \in DOMAIN m[map].key THEN m ELSE added
  BY DEF InsertChild
<1>3. CASE k \in DOMAIN m[map].key
  <2>1. m3 = m
    BY <1>2, <1>3
  <2>2. Alive(m, [map |-> map, key |-> k])
    BY <1>1, <1>3 DEF Alive
  <2>3. KeepsMaps(m, m)
    BY DEF KeepsMaps
  <2> QED BY <1>1, <2>1, <2>2, <2>3
<1>4. CASE k \notin DOMAIN m[map].key
  <2>1. Copied(m, left, key)
    <3>1. CASE key0 = NameKey
      <4> HIDE DEF key0
      <4> QED BY <3>1, NameCopied
    <3>2. CASE key0 = IndexKey
      <4> HIDE DEF key0
      <4> QED BY <3>2, IndexCopied
    <3> QED BY <3>1, <3>2
  <2> HIDE DEF left, key, map
  <2>2. left[map] = m[map] /\ map \in DOMAIN left /\ Nil \in DOMAIN left /\ left[Nil] = m[Nil]
    BY <1>1, <2>1 DEF Copied
  <2>3. NullValue \in Values /\ NullValue.comments = Nil /\ ValueOwns(NullValue) = Nil
    BY DEF NullValue, Value, Values, ValueOwns, IsContainer, Nil
  <2>4. key \in Keys
    BY <2>1 DEF Copied
  <2>5. HeapOK(added, {})
    <3> DEFINE O == {KeyOwns(key)} \ {Nil}
    <3>1. HeapOK(left, O) /\ (KeyOwns(key) # Nil => KeyOwns(key) \in O /\ left[KeyOwns(key)].kind = "chars")
      BY <2>1 DEF Copied
    <3>2. O \ {KeyOwns(key), ValueOwns(NullValue)} = {}
      OBVIOUS
    <3> HIDE DEF O
    <3>3. left[map].kind = "map" /\ k \notin DOMAIN left[map].key
      BY <1>1, <1>4, <2>2
    <3> HIDE DEF c
    <3>4. HeapOK(added, O \ {KeyOwns(key), ValueOwns(NullValue)})
      BY <2>2, <2>3, <2>4, <3>1, <3>3, ChildAdded DEF c
    <3> QED BY <3>2, <3>4
  <2>6. Extended(m[map], c, k, key, NullValue)
    <3>1. IsMap(m[map])
      BY <1>1, MapIs DEF HeapOK
    <3> QED BY <1>4, <2>2, <2>3, <2>4, <3>1, ChildIs
  <2> HIDE DEF c
  <2>7. added[map] = c /\ DOMAIN added = DOMAIN left /\ \A i \in DOMAIN left : i # map => added[i] = left[i]
    BY <2>2
  <2> HIDE DEF added
  <2>8. \A i \in DOMAIN m : i \in DOMAIN added /\ (i # map => added[i] = m[i])
    BY <2>1, <2>7 DEF Copied
  <2>9. KeepsMaps(m, added)
    BY <2>6, <2>7, <2>8 DEF KeepsMaps, Extended
  <2>10. Alive(added, [map |-> map, key |-> k])
    BY <2>2, <2>6, <2>7 DEF Alive, Extended
  <2>11. m3 = added
    BY <1>2, <1>4
  <2>12. added[Nil] = m[Nil] /\ Nil \in DOMAIN added
    BY <1>1, <2>8
  <2> HIDE DEF m3
  <2> QED BY <2>5, <2>9, <2>10, <2>11, <2>12 DEF m3, map
<1> QED BY <1>3, <1>4
-----------------------------------------------------------------------------
(* The nodes of the reader: a path of containers from the root. *)

Address == [map : Nat, key : Names \cup Nat]

IsPath(m, q) ==
  /\ q \in Seq(Address) /\ Len(q) >= 1 /\ q[1] = RootAt
  /\ \A i \in 1 .. Len(q) : Alive(m, q[i])
  /\ \A i \in 1 .. Len(q) - 1 : IsContainer(At(m, q[i])) /\ At(m, q[i]).ptr = q[i + 1].map
  /\ \A i, j \in 1 .. Len(q) : q[i].map = q[j].map => i = j

LEMMA ContainerIs ==
  ASSUME NEW m, NEW O, HeapOK(m, O), NEW a, Alive(m, a), IsContainer(At(m, a))
  PROVE  /\ ValueOwns(At(m, a)) = At(m, a).ptr /\ At(m, a).ptr # Nil
         /\ At(m, a).ptr \in Blocks(m) \ O /\ At(m, a).ptr \in DOMAIN m
         /\ m[At(m, a).ptr].kind = "map"
<1>1. At(m, a) \in Values
  BY ValueIs
<1>2. ValueOwns(At(m, a)) = At(m, a).ptr /\ At(m, a).ptr # Nil
  BY <1>1 DEF ValueOwns, Values
<1>3. /\ ValueOwns(At(m, a)) \in Blocks(m) \ O
      /\ m[ValueOwns(At(m, a))].kind = "map"
  BY <1>2, ValueIs
<1> QED BY <1>2, <1>3 DEF Blocks

LEMMA PathStays ==
  ASSUME NEW m, NEW m2, NEW O, HeapOK(m2, O), NEW q, IsPath(m, q),
         \A i \in 1 .. Len(q) : q[i].map \in DOMAIN m2 =>
           /\ Alive(m2, q[i])
           /\ i # Len(q) => At(m2, q[i]).type = At(m, q[i]).type
                              /\ At(m2, q[i]).ptr = At(m, q[i]).ptr
  PROVE  IsPath(m2, q)
<1> DEFINE T == {n \in Nat : n < Len(q) => q[n + 1].map \in DOMAIN m2}
<1>1. q \in Seq(Address) /\ Len(q) \in Nat /\ q[1] = RootAt
  BY DEF IsPath
<1>2. 0 \in T
  <2>1. q[0 + 1].map = Nil
    BY <1>1 DEF RootAt
  <2>2. Nil \in DOMAIN m2
    BY DEF HeapOK, Shape
  <2> QED BY <2>1, <2>2
<1>3. ASSUME NEW i \in 1 .. Len(q) - 1, q[i].map \in DOMAIN m2
      PROVE  /\ IsContainer(At(m2, q[i])) /\ At(m2, q[i]).ptr = q[i + 1].map
             /\ q[i + 1].map \in DOMAIN m2
  <2>1. Alive(m2, q[i]) /\ At(m2, q[i]).type = At(m, q[i]).type /\ At(m2, q[i]).ptr = At(m, q[i]).ptr
    BY <1>1, <1>3
  <2>2. IsContainer(At(m, q[i])) /\ At(m, q[i]).ptr = q[i + 1].map
    BY DEF IsPath
  <2>3. IsContainer(At(m2, q[i]))
    BY <2>1, <2>2 DEF IsContainer
  <2>4. At(m2, q[i]).ptr \in DOMAIN m2
    BY <2>1, <2>3, ContainerIs
  <2> QED BY <2>1, <2>2, <2>3, <2>4
<1>4. ASSUME NEW n \in T PROVE n + 1 \in T
  <2> SUFFICES ASSUME n + 1 < Len(q) PROVE q[(n + 1) + 1].map \in DOMAIN m2
    OBVIOUS
  <2>1. n + 1 \in 1 .. Len(q) - 1 /\ q[n + 1].map \in DOMAIN m2
    BY <1>1
  <2> QED BY <1>3, <2>1
<1>5. \A n \in Nat : n \in T
  <2>1. T \in SUBSET Nat
    OBVIOUS
  <2> HIDE DEF T
  <2> QED BY <1>2, <1>4, <2>1, SetInduction
<1>6. ASSUME NEW i \in 1 .. Len(q) PROVE q[i].map \in DOMAIN m2
  <2>1. i - 1 \in Nat /\ i - 1 < Len(q) /\ (i - 1) + 1 = i
    BY <1>1
  <2>2. i - 1 \in T
    BY <1>5, <2>1
  <2> QED BY <2>1, <2>2
<1>7. \A i \in 1 .. Len(q) : Alive(m2, q[i])
  BY <1>6
<1>8. \A i \in 1 .. Len(q) - 1 : IsContainer(At(m2, q[i])) /\ At(m2, q[i]).ptr = q[i + 1].map
  BY <1>1, <1>3, <1>6
<1> QED BY <1>7, <1>8 DEF IsPath

LEMMA AliveStays ==
  ASSUME NEW m, NEW m2, KeepsMaps(m, m2), NEW a, Alive(m, a)
  PROVE  /\ Alive(m2, a)
         /\ At(m2, a).type = At(m, a).type /\ At(m2, a).ptr = At(m, a).ptr
BY DEF KeepsMaps, Alive, At

LEMMA PathInMore ==
  ASSUME NEW m, NEW m2, NEW O, HeapOK(m2, O), KeepsMaps(m, m2), NEW q, IsPath(m, q)
  PROVE  IsPath(m2, q)
<1>1. \A i \in 1 .. Len(q) : Alive(m, q[i])
  BY DEF IsPath
<1> QED BY <1>1, AliveStays, PathStays

LEMMA PathInPruned ==
  ASSUME NEW m, NEW m2, NEW O, HeapOK(m2, O), NEW q, IsPath(m, q), Pruned(m, m2, q[Len(q)])
  PROVE  IsPath(m2, q)
<1> DEFINE a == q[Len(q)]
<1>1. q \in Seq(Address) /\ Len(q) \in Nat /\ Len(q) >= 1
  BY DEF IsPath
<1>2. ASSUME NEW i \in 1 .. Len(q), q[i].map \in DOMAIN m2
      PROVE  Alive(m2, q[i]) /\ (i # Len(q) => At(m2, q[i]) = At(m, q[i]))
  <2>1. Alive(m, q[i])
    BY DEF IsPath
  <2>2. i # Len(q) => q[i].map # a.map
    BY <1>1 DEF IsPath
  <2> HIDE DEF a
  <2>3. Pruned(m, m2, a)
    BY DEF a
  <2> QED BY <1>2, <2>1, <2>2, <2>3 DEF Pruned, Alive, At
<1> QED BY <1>2, PathStays

LEMMA PathInLeft ==
  ASSUME NEW m, NEW m2, NEW O, HeapOK(m2, O), NEW q, IsPath(m, q),
         NEW gone, 0 \notin gone, KeepsOthers(m, m2, gone)
  PROVE  IsPath(m2, q)
<1>1. q \in Seq(Address) /\ Len(q) \in Nat /\ Len(q) >= 1 /\ q[1] = RootAt
  BY DEF IsPath
<1>2. ASSUME NEW i \in 1 .. Len(q), q[i].map \in DOMAIN m2
      PROVE  Alive(m2, q[i]) /\ At(m2, q[i]) = At(m, q[i])
  <2>1. Alive(m, q[i])
    BY DEF IsPath
  <2>2. q[i].map = Nil => q[i].key \notin gone
    <3>1. q[i].map = Nil => q[i].map = q[1].map
      BY <1>1 DEF RootAt
    <3>2. q[i].map = Nil => i = 1
      BY <1>1, <3>1 DEF IsPath
    <3> QED BY <1>1, <3>2 DEF RootAt
  <2> QED BY <1>2, <2>1, <2>2 DEF KeepsOthers
<1> QED BY <1>2, PathStays

LEMMA PathFront ==
  ASSUME NEW m, NEW q, IsPath(m, q), Len(q) > 1
  PROVE  /\ IsPath(m, Front(q)) /\ Len(Front(q)) = Len(q) - 1
         /\ IsContainer(At(m, Last(Front(q))))
<1> DEFINE f == Front(q)
<1>1. q \in Seq(Address) /\ Len(q) \in Nat /\ Len(q) >= 2
  <2>1. q \in Seq(Address) /\ Len(q) >= 1
    BY DEF IsPath
  <2>2. Len(q) \in Nat
    BY <2>1
  <2> QED BY <2>1, <2>2
<1>2. /\ f \in Seq(Address) /\ Len(f) = Len(q) - 1
      /\ \A i \in 1 .. Len(q) - 1 : f[i] = q[i]
  BY <1>1 DEF Front
<1> HIDE DEF f
<1>3. Last(f) = q[Len(q) - 1]
  BY <1>1, <1>2 DEF Last
<1>4. IsPath(m, f)
  <2>1. f[1] = RootAt /\ Len(f) >= 1
    BY <1>1, <1>2 DEF IsPath
  <2>2. \A i \in 1 .. Len(f) : Alive(m, f[i])
    BY <1>1, <1>2 DEF IsPath
  <2>3. \A i \in 1 .. Len(f) - 1 : IsContainer(At(m, f[i])) /\ At(m, f[i]).ptr = f[i + 1].map
    BY <1>1, <1>2 DEF IsPath
  <2>4. \A i, j \in 1 .. Len(f) : f[i].map = f[j].map => i = j
    BY <1>1, <1>2 DEF IsPath
  <2> QED BY <1>2, <2>1, <2>2, <2>3, <2>4 DEF IsPath
<1>5. IsContainer(At(m, Last(f)))
  BY <1>1, <1>3 DEF IsPath
<1> QED BY <1>2, <1>4, <1>5 DEF f

\* Two Values do not have the same map.
LEMMA OneOwner ==
  ASSUME NEW m, NEW O, HeapOK(m, O), NEW a, Alive(m, a), IsContainer(At(m, a)),
         NEW b, Alive(m, b), IsContainer(At(m, b)), At(m, a).ptr = At(m, b).ptr
  PROVE  a.map = b.map
<1>1. ASSUME NEW c, Alive(m, c), IsContainer(At(m, c))
      PROVE  c.map \in DOMAIN m /\ At(m, c).ptr \in Inside(m[c.map])
  <2>1. c.map \in DOMAIN m /\ m[c.map].kind = "map" /\ c.key \in DOMAIN m[c.map].key
    BY <1>1 DEF Alive
  <2>2. <<c.key, "value">> \in Pointers(m[c.map])
    BY <2>1, MapIs DEF HeapOK
  <2>3. Owns(m[c.map], <<c.key, "value">>) = ValueOwns(At(m, c))
    BY DEF Owns, At
  <2>4. ValueOwns(At(m, c)) = At(m, c).ptr /\ At(m, c).ptr # Nil
    BY <1>1, ContainerIs
  <2> QED BY <2>1, <2>2, <2>3, <2>4 DEF Inside
<1> QED BY <1>1 DEF HeapOK, Apart

LEMMA PathLonger ==
  ASSUME NEW m, NEW O, HeapOK(m, O), NEW q, IsPath(m, q), IsContainer(At(m, Last(q))),
         NEW k \in Names \cup Nat, Alive(m, [map |-> At(m, Last(q)).ptr, key |-> k])
  PROVE  /\ IsPath(m, Append(q, [map |-> At(m, Last(q)).ptr, key |-> k]))
         /\ Len(Append(q, [map |-> At(m, Last(q)).ptr, key |-> k])) = Len(q) + 1
<1> DEFINE map == At(m, Last(q)).ptr
           a == [map |-> map, key |-> k]
           p == Append(q, a)
<1>1. q \in Seq(Address) /\ Len(q) \in Nat /\ Len(q) >= 1 /\ q[1] = RootAt /\ Last(q) = q[Len(q)]
  BY DEF IsPath, Last
<1>2. Alive(m, q[Len(q)])
  BY <1>1 DEF IsPath
<1>3. map # Nil /\ map \in DOMAIN m /\ DOMAIN m \subseteq Nat
  <2>1. DOMAIN m \subseteq Nat
    BY DEF HeapOK, Shape
  <2> QED BY <1>1, <1>2, <2>1, ContainerIs
<1>4. \A i \in 1 .. Len(q) : q[i].map # map
  <2> SUFFICES ASSUME NEW i \in 1 .. Len(q), q[i].map = map PROVE FALSE
    OBVIOUS
  <2>1. i # 1
    BY <1>1, <1>3 DEF RootAt
  <2>2. i - 1 \in 1 .. Len(q) - 1 /\ i - 1 \in 1 .. Len(q) /\ (i - 1) + 1 = i /\ i - 1 # Len(q)
    BY <1>1, <2>1
  <2>3. IsContainer(At(m, q[i - 1])) /\ At(m, q[i - 1]).ptr = q[i].map /\ Alive(m, q[i - 1])
    BY <2>2 DEF IsPath
  <2>4. q[i - 1].map = q[Len(q)].map
    BY <1>1, <1>2, <2>3, OneOwner
  <2> QED BY <1>1, <2>2, <2>4 DEF IsPath
<1>5. a \in Address
  BY <1>3 DEF Address
<1>6. Alive(m, a) /\ a.map = map
  OBVIOUS
<1> HIDE DEF a
<1>7. p \in Seq(Address) /\ Len(p) = Len(q) + 1 /\ p[Len(q) + 1] = a
      /\ \A i \in 1 .. Len(q) : p[i] = q[i]
  BY <1>1, <1>5
<1> HIDE DEF p
<1>8. IsPath(m, p)
  <2>1. p[1] = RootAt /\ Len(p) >= 1
    BY <1>1, <1>7
  <2>2. \A i \in 1 .. Len(p) : Alive(m, p[i])
    BY <1>1, <1>6, <1>7 DEF IsPath
  <2>3. ASSUME NEW i \in 1 .. Len(p) - 1
        PROVE  IsContainer(At(m, p[i])) /\ At(m, p[i]).ptr = p[i + 1].map
    <3>1. CASE i = Len(q)
      BY <1>1, <1>6, <1>7, <3>1
    <3>2. CASE i # Len(q)
      <4>1. i \in 1 .. Len(q) - 1 /\ i + 1 \in 1 .. Len(q) /\ i \in 1 .. Len(q)
        BY <1>1, <1>7, <3>2
      <4> QED BY <1>7, <4>1 DEF IsPath
    <3> QED BY <3>1, <3>2
  <2>4. ASSUME NEW i \in 1 .. Len(p), NEW j \in 1 .. Len(p), p[i].map = p[j].map PROVE i = j
    <3>1. CASE i \in 1 .. Len(q) /\ j \in 1 .. Len(q)
      BY <1>7, <2>4, <3>1 DEF IsPath
    <3>2. CASE i \notin 1 .. Len(q) \/ j \notin 1 .. Len(q)
      BY <1>1, <1>4, <1>6, <1>7, <2>4, <3>2
    <3> QED BY <3>1, <3>2
  <2> QED BY <1>7, <2>1, <2>2, <2>3, <2>4 DEF IsPath
<1> QED BY <1>7, <1>8 DEF p, a
-----------------------------------------------------------------------------
(* The invariant: m has one owner for each block; the stack has a local for
   each node but the one that is being read; the nodes are a path. *)
Holds(m, q, n, last, at) ==
  /\ HeapOK(m, {}) /\ n \in Nat /\ Stack(m, n)
  /\ at \in {"idle", "value", "inside", "recover", "after"}
  /\ at \in {"idle", "after"} => n = 0
  /\ at # "idle" => IsPath(m, q) /\ (last # NoAddress => Alive(m, last))
  /\ at = "value" => n = Len(q) - 1
  /\ at \in {"inside", "recover"} => n = Len(q) /\ IsContainer(At(m, Last(q)))

HeapInv == Holds(memory, nodes, running, lastValue, pc)

LEMMA RootAlive ==
  ASSUME NEW m, HeapOK(m, {}), NEW n \in Nat, Stack(m, n)
  PROVE  Alive(m, RootAt)
<1>1. Nil \in DOMAIN m /\ m[Nil].kind = "map"
  BY DEF HeapOK, Shape
<1>2. 0 \in DOMAIN m[Nil].key
  BY DEF Stack
<1> QED BY <1>1, <1>2 DEF Alive, RootAt

LEMMA InitHolds == Init => HeapInv
<1> SUFFICES ASSUME Init PROVE HeapInv
  OBVIOUS
<1> DEFINE b == WithChild(NewMap, 0, IndexKey, NullValue)
           m == [id \in {Nil} |-> b]
<1>1. memory = m /\ running = 0 /\ pc = "idle"
  BY DEF Init
<1>2. IndexKey \in Keys /\ KeyOwns(IndexKey) = Nil
  BY DEF IndexKey, Keys, KeyOwns, Nil
<1>3. NullValue \in Values /\ NullValue.comments = Nil /\ ValueOwns(NullValue) = Nil
  BY DEF NullValue, Value, Values, ValueOwns, IsContainer, Nil
<1>4. IsMap(NewMap) /\ DOMAIN NewMap.key = {}
  BY DEF IsMap, NewMap
<1>5. Extended(NewMap, b, 0, IndexKey, NullValue)
  BY <1>2, <1>3, <1>4, ChildIs
<1> HIDE DEF b
<1>6. IsMap(b) /\ b.kind = "map" /\ DOMAIN b.key = {0} /\ b.key[0] = IndexKey /\ b.val[0] = NullValue
  BY <1>4, <1>5 DEF Extended
<1>7. Pointers(b) = {0} \X {"key", "value", "comments"}
  BY <1>6 DEF Pointers
<1>8. \A p \in Pointers(b) : Owns(b, p) = Nil
  <2> SUFFICES ASSUME NEW f \in {"key", "value", "comments"} PROVE Owns(b, <<0, f>>) = Nil
    BY <1>7
  <2> QED BY <1>2, <1>3, <1>6 DEF Owns
<1>9. Inside(b) = {}
  BY <1>8 DEF Inside
<1>10. DOMAIN m = {Nil} /\ m[Nil] = b /\ m = [id \in DOMAIN m |-> m[id]] /\ Blocks(m) = {}
  BY DEF Blocks
<1> HIDE DEF m
<1>11. HeapOK(m, {})
  <2>1. Shape(m)
    <3>1. IsFiniteSet({Nil}) /\ {Nil} \subseteq Nat
      BY FS_Singleton DEF Nil
    <3> QED BY <1>6, <1>10, <3>1 DEF Shape, IsBlock
  <2>2. Linked(m, {}, b)
    BY <1>8 DEF Linked, SeparatePointers
  <2>3. Apart(m) /\ Reached(m, {})
    BY <1>10 DEF Apart, Reached
  <2> QED BY <1>10, <2>1, <2>2, <2>3 DEF HeapOK
<1>12. Stack(m, 0)
  <2>1. b.key = [i \in DOMAIN b.key |-> b.key[i]] /\ 0 .. 0 = {0}
    BY <1>6 DEF IsMap
  <2> QED BY <1>6, <1>10, <2>1 DEF Stack
<1> QED BY <1>1, <1>11, <1>12 DEF HeapInv, Holds
-----------------------------------------------------------------------------
(* The reader's steps. *)

\* What holds of the memory in every state.
Sound(m, n) == HeapOK(m, {}) /\ n \in Nat /\ Stack(m, n)

LEMMA EndIs ==
  ASSUME NEW m, NEW q, IsPath(m, q)
  PROVE  /\ Last(q) = q[Len(q)] /\ Alive(m, Last(q)) /\ Len(q) \in Nat /\ Len(q) >= 1
         /\ Last(q) # NoAddress /\ Last(q).map \in DOMAIN m
<1>1. q \in Seq(Address) /\ Len(q) >= 1
  BY DEF IsPath
<1>2. Len(q) \in Nat /\ Last(q) = q[Len(q)]
  BY <1>1 DEF Last
<1>3. Alive(m, Last(q))
  BY <1>1, <1>2 DEF IsPath
<1>4. Last(q) \in Address
  BY <1>1, <1>2
<1> QED BY <1>1, <1>2, <1>3, <1>4 DEF Address, NoAddress, Alive

LEMMA SetCommentSteps ==
  ASSUME NEW m, NEW n, Sound(m, n), NEW a, Alive(m, a), NEW placement \in Placements
  PROVE  Sound(SetComment(m, a, placement), n) /\ KeepsMaps(m, SetComment(m, a, placement))
BY CommentSet DEF Sound, Stack

\* What readValue does first.
LEMMA CommentedIs ==
  ASSUME HeapInv, AtValue
  PROVE  /\ Sound(Commented, running) /\ KeepsMaps(memory, Commented)
         /\ IsPath(Commented, nodes) /\ running = Len(nodes) - 1
         /\ lastValue # NoAddress => Alive(Commented, lastValue)
<1>1. /\ Sound(memory, running) /\ IsPath(memory, nodes) /\ running = Len(nodes) - 1
      /\ lastValue # NoAddress => Alive(memory, lastValue)
  BY DEF HeapInv, Holds, AtValue, Sound
<1>2. Sound(Commented, running) /\ KeepsMaps(memory, Commented)
  <2>1. CASE pending
    <3>1. Alive(memory, Current) /\ "before" \in Placements
      BY <1>1, EndIs DEF Current, Placements
    <3> QED BY <1>1, <2>1, <3>1, SetCommentSteps DEF Commented
  <2>2. CASE ~pending
    BY <1>1, <2>2 DEF Commented, KeepsMaps
  <2> QED BY <2>1, <2>2
<1>3. IsPath(Commented, nodes)
  BY <1>1, <1>2, PathInMore DEF Sound
<1> QED BY <1>1, <1>2, <1>3, AliveStays

\* A value that is no container is put at the end of the path.
LEMMA ValueRead ==
  ASSUME NEW m, NEW O, HeapOK(m, O), NEW n \in Nat, Stack(m, n), NEW q, IsPath(m, q),
         NEW v \in Values, v.comments = Nil, Fresh(m, O, Last(q), v), O = {ValueOwns(v)} \ {Nil}
  PROVE  Sound(SetPayload(m, Last(q), v), n) /\ IsPath(SetPayload(m, Last(q), v), q)
<1> DEFINE m2 == SetPayload(m, Last(q), v)
<1>1. Last(q) = q[Len(q)] /\ Alive(m, Last(q))
  BY EndIs
<1>2. HeapOK(m2, O \ {ValueOwns(v)}) /\ Pruned(m, m2, Last(q))
  BY <1>1, PayloadSet
<1> HIDE DEF m2
<1>3. HeapOK(m2, {})
  <2>1. O \ {ValueOwns(v)} = {}
    OBVIOUS
  <2> QED BY <1>2, <2>1
<1>4. IsPath(m2, q)
  BY <1>1, <1>2, <1>3, PathInPruned
<1>5. m2[Nil].key = m[Nil].key
  BY <1>2, <1>3 DEF Pruned, HeapOK, Shape
<1> QED BY <1>3, <1>4, <1>5 DEF Sound, Stack, m2

\* After a value the reader is where it was before it.
LEMMA Returned ==
  ASSUME NEW m, Sound(m, Len(nodes) - 1), IsPath(m, nodes), NEW ok \in BOOLEAN, Return(ok),
         NEW last, last # NoAddress => Alive(m, last)
  PROVE  Holds(m, nodes', Len(nodes) - 1, last, pc')
<1>1. Len(nodes) \in Nat /\ Len(nodes) >= 1
  BY EndIs
<1>2. CASE Len(nodes) = 1
  BY <1>2 DEF Return, Holds, Sound
<1>3. CASE Len(nodes) # 1
  <2>1. pc' \in {"inside", "recover"} /\ nodes' = Front(nodes)
    BY <1>3 DEF Return
  <2>2. /\ IsPath(m, Front(nodes)) /\ Len(Front(nodes)) = Len(nodes) - 1
        /\ IsContainer(At(m, Last(Front(nodes))))
    <3>1. \A k \in Nat : k >= 1 /\ k # 1 => k > 1
      OBVIOUS
    <3>2. Len(nodes) > 1
      BY <1>1, <1>3, <3>1
    <3> QED BY <3>2, PathFront
  <2> QED BY <2>1, <2>2 DEF Holds, Sound
<1> QED BY <1>2, <1>3

LEMMA ParseBeginSteps == ASSUME HeapInv, ParseBegin PROVE HeapInv'
<1>1. /\ Sound(memory, 0) /\ running = 0 /\ pc' = "value"
      /\ nodes' = <<RootAt>> /\ lastValue' = NoAddress /\ memory' = memory /\ running' = running
  BY DEF HeapInv, Holds, ParseBegin, Sound
<1>2. IsPath(memory, <<RootAt>>)
  <2>1. Alive(memory, RootAt)
    BY <1>1, RootAlive DEF Sound
  <2>2. RootAt \in Address
    BY DEF RootAt, Address, Nil
  <2> QED BY <2>1, <2>2 DEF IsPath
<1>3. Holds(memory, <<RootAt>>, 0, NoAddress, "value")
  BY <1>1, <1>2 DEF Holds, Sound
<1> QED BY <1>1, <1>3 DEF HeapInv

LEMMA ReadCommentSteps == ASSUME HeapInv, ReadComment PROVE HeapInv'
<1>1. UNCHANGED <<nodes, running, lastValue, pc>> /\ pc # "idle"
  BY DEF ReadComment
<1>2. CASE memory' = memory
  BY <1>1, <1>2 DEF HeapInv
<1>3. CASE lastValue # NoAddress /\ memory' = SetComment(memory, lastValue, "sameLine")
  <2>1. Sound(memory, running) /\ IsPath(memory, nodes) /\ Alive(memory, lastValue)
    BY <1>1, <1>3 DEF HeapInv, Holds, Sound
  <2>2. Sound(memory', running) /\ KeepsMaps(memory, memory')
    <3>1. "sameLine" \in Placements
      BY DEF Placements
    <3> QED BY <1>3, <2>1, <3>1, SetCommentSteps
  <2>3. IsPath(memory', nodes) /\ Alive(memory', lastValue)
    BY <2>1, <2>2, PathInMore, AliveStays DEF Sound
  <2>4. pc \in {"inside", "recover"} => running = Len(nodes) /\ IsContainer(At(memory', Last(nodes)))
    <3> SUFFICES ASSUME pc \in {"inside", "recover"}
                 PROVE  running = Len(nodes) /\ IsContainer(At(memory', Last(nodes)))
      OBVIOUS
    <3>1. running = Len(nodes) /\ IsContainer(At(memory, Last(nodes)))
      BY DEF HeapInv, Holds
    <3>2. At(memory', Last(nodes)).type = At(memory, Last(nodes)).type
      BY <2>1, <2>2, EndIs, AliveStays
    <3> QED BY <3>1, <3>2 DEF IsContainer
  <2>5. Holds(memory', nodes, running, lastValue, pc)
    BY <1>1, <2>2, <2>3, <2>4 DEF HeapInv, Holds, Sound
  <2> QED BY <1>1, <2>5 DEF HeapInv
<1> QED BY <1>2, <1>3 DEF ReadComment

LEMMA ReadScalarSteps == ASSUME HeapInv, ReadScalar PROVE HeapInv'
<1> DEFINE v == Value("number", Nil)
<1>1. AtValue /\ memory' = SetPayload(Commented, Last(nodes), v) /\ lastValue' = Last(nodes)
      /\ Return(TRUE) /\ running' = running
  BY DEF ReadScalar, Current
<1>2. Sound(Commented, running) /\ IsPath(Commented, nodes) /\ running = Len(nodes) - 1
  BY <1>1, CommentedIs
<1>3. v \in Values /\ v.comments = Nil /\ ValueOwns(v) = Nil
  BY DEF Value, Values, ValueOwns, IsContainer, Nil
<1> HIDE DEF v
<1>4. Sound(memory', running) /\ IsPath(memory', nodes)
  <2>1. {ValueOwns(v)} \ {Nil} = {}
    BY <1>3
  <2>2. Fresh(Commented, {}, Last(nodes), v)
    BY <1>3 DEF Fresh
  <2> HIDE DEF Sound
  <2> QED BY <1>1, <1>2, <1>3, <2>1, <2>2, ValueRead DEF Sound
<1>5. Holds(memory', nodes', Len(nodes) - 1, lastValue', pc')
  BY <1>1, <1>2, <1>4, EndIs, Returned
<1> QED BY <1>1, <1>2, <1>5 DEF HeapInv

LEMMA ReadStringSteps == ASSUME HeapInv, ReadString PROVE HeapInv'
<1> DEFINE u == Unused(Commented)
           m == Allocate(Commented, Chars)
           v == Value("string", u)
<1>1. AtValue /\ memory' = SetPayload(m, Last(nodes), v) /\ lastValue' = Last(nodes)
      /\ Return(TRUE) /\ running' = running
  BY DEF ReadString, Current
<1>2. Sound(Commented, running) /\ IsPath(Commented, nodes) /\ running = Len(nodes) - 1
  BY <1>1, CommentedIs
<1>3. /\ HeapOK(m, {} \cup {u}) /\ u \in Nat /\ u # Nil /\ u \notin DOMAIN Commented
      /\ DOMAIN m = DOMAIN Commented \cup {u} /\ m[u] = Chars
      /\ \A i \in DOMAIN Commented : m[i] = Commented[i]
  BY <1>2, CharsAre, Allocated DEF Sound
<1> HIDE DEF u, m
<1>4. v \in Values /\ v.comments = Nil /\ ValueOwns(v) = u /\ ~IsContainer(v)
  BY <1>3 DEF Value, Values, ValueOwns, IsContainer, Nil
<1> HIDE DEF v
<1>5. HeapOK(m, {u})
  <2>1. {} \cup {u} = {u}
    OBVIOUS
  <2> QED BY <1>3, <2>1
<1>6. KeepsMaps(Commented, m) /\ Stack(m, running) /\ running \in Nat
  BY <1>2, <1>3 DEF KeepsMaps, Stack, Sound, HeapOK, Shape
<1>7. IsPath(m, nodes)
  BY <1>2, <1>5, <1>6, PathInMore
<1>8. Fresh(m, {u}, Last(nodes), v)
  <2>1. Last(nodes).map # u
    BY <1>2, <1>3, EndIs
  <2> QED BY <1>3, <1>4, <2>1, CharsAre DEF Fresh
<1>9. Sound(memory', running) /\ IsPath(memory', nodes)
  <2>1. {ValueOwns(v)} \ {Nil} = {u}
    BY <1>3, <1>4
  <2> QED BY <1>1, <1>4, <1>5, <1>6, <1>7, <1>8, <2>1, ValueRead
<1>10. Holds(memory', nodes', Len(nodes) - 1, lastValue', pc')
  BY <1>1, <1>2, <1>9, EndIs, Returned
<1> QED BY <1>1, <1>2, <1>10 DEF HeapInv

LEMMA OpenContainerSteps ==
  ASSUME HeapInv, NEW type \in {"object", "array"}, OpenContainer(type)
  PROVE  HeapInv'
<1> DEFINE u == Unused(Commented)
           m == Allocate(Commented, NewMap)
           v == Value(type, u)
           a == Last(nodes)
           old == At(m, a)
           s == SwapPayload(m, a, v)
           O2 == {ValueOwns(old)} \ {Nil}
           m2 == AddLocal(s.memory, running + 1, s.other)
<1>1. AtValue /\ memory' = m2 /\ nodes' = nodes /\ running' = running + 1
      /\ lastValue' = lastValue /\ pc' = "inside"
  BY DEF OpenContainer, Current
<1>2. /\ Sound(Commented, running) /\ IsPath(Commented, nodes) /\ running = Len(nodes) - 1
      /\ lastValue # NoAddress => Alive(Commented, lastValue)
  BY <1>1, CommentedIs
<1>3. IsBlock(NewMap) /\ Inside(NewMap) = {} /\ NewMap.kind = "map"
  <2>1. NewMap.kind = "map" /\ DOMAIN NewMap.key = {}
    BY DEF NewMap
  <2>2. IsMap(NewMap)
    BY DEF IsMap, NewMap
  <2> QED BY <2>1, <2>2 DEF IsBlock, Inside, Pointers
<1>4. /\ HeapOK(m, {} \cup {u}) /\ u \in Nat /\ u # Nil /\ u \notin DOMAIN Commented
      /\ DOMAIN m = DOMAIN Commented \cup {u} /\ m[u] = NewMap
      /\ \A i \in DOMAIN Commented : m[i] = Commented[i]
  BY <1>2, <1>3, Allocated DEF Sound
<1> HIDE DEF u, m
<1>5. v \in Values /\ v.comments = Nil /\ ValueOwns(v) = u /\ IsContainer(v) /\ v.type = type
  BY <1>4 DEF Value, Values, ValueOwns, IsContainer, Nil
<1> HIDE DEF v
<1>6. HeapOK(m, {u})
  <2>1. {} \cup {u} = {u}
    OBVIOUS
  <2> QED BY <1>4, <2>1
<1>7. KeepsMaps(Commented, m) /\ Stack(m, running) /\ running \in Nat
  BY <1>2, <1>4 DEF KeepsMaps, Stack, Sound, HeapOK, Shape
<1>8. IsPath(m, nodes) /\ a = nodes[Len(nodes)] /\ Alive(m, a) /\ a.map # u
  <2>1. IsPath(m, nodes)
    BY <1>2, <1>6, <1>7, PathInMore
  <2>2. a.map # u
    BY <1>2, <1>4, EndIs
  <2> QED BY <2>1, <2>2, EndIs
<1>9. IsSwapped(m, {u}, a, v, s, old)
  <2>1. Fresh(m, {u}, a, v)
    BY <1>3, <1>4, <1>5, <1>8 DEF Fresh
  <2> HIDE DEF s, a
  <2> QED BY <1>5, <1>6, <1>8, <2>1, Swapped DEF s
<1> HIDE DEF s
<1>10. HeapOK(s.memory, O2)
  <2>1. ({u} \ {u}) \cup O2 = O2
    OBVIOUS
  <2> HIDE DEF O2
  <2>2. HeapOK(s.memory, ({u} \ {u}) \cup O2)
    BY <1>5, <1>9 DEF IsSwapped, O2
  <2> QED BY <2>1, <2>2
<1>11. /\ Pruned(m, s.memory, a) /\ DOMAIN s.memory = DOMAIN m
       /\ At(s.memory, a).type = type
  <2>1. [v EXCEPT !.comments = old.comments].type = v.type
    BY <1>5 DEF Values
  <2> QED BY <1>5, <1>9, <2>1 DEF IsSwapped
<1>12. Stack(s.memory, running)
  <2>1. Nil \in DOMAIN m /\ m[Nil].kind = "map"
    BY <1>6 DEF HeapOK, Shape
  <2> QED BY <1>7, <1>11, <2>1 DEF Pruned, Stack
<1>13. IsPath(s.memory, nodes)
  BY <1>8, <1>10, <1>11, PathInPruned
<1>14. lastValue # NoAddress => Alive(s.memory, lastValue)
  <2> SUFFICES ASSUME lastValue # NoAddress PROVE Alive(s.memory, lastValue)
    OBVIOUS
  <2>1. Alive(m, lastValue)
    BY <1>2, <1>7, AliveStays
  <2> QED BY <1>11, <2>1 DEF Pruned, Alive
\* What the value was is in the new local.
<1>15. /\ s.other \in Values /\ s.other.comments = Nil /\ ValueOwns(s.other) = ValueOwns(old)
       /\ ValueOwns(s.other) # Nil =>
            /\ ValueOwns(s.other) \in O2
            /\ s.memory[ValueOwns(s.other)].kind = IF IsContainer(s.other) THEN "map" ELSE "chars"
  <2>1. /\ s.other \in Values /\ s.other.comments = Nil /\ ValueOwns(s.other) = ValueOwns(old)
        /\ (IsContainer(s.other) <=> IsContainer(old))
    BY <1>9 DEF IsSwapped
  <2>2. ASSUME ValueOwns(old) # Nil
        PROVE  /\ ValueOwns(old) \in DOMAIN m
               /\ m[ValueOwns(old)].kind = IF IsContainer(old) THEN "map" ELSE "chars"
    <3> HIDE DEF a
    <3> QED BY <1>6, <1>8, <2>2, ValueIs DEF Blocks
  <2>3. \A i \in DOMAIN m : s.memory[i].kind = m[i].kind
    BY <1>11 DEF Pruned
  <2> HIDE DEF old
  <2> QED BY <2>1, <2>2, <2>3
<1> HIDE DEF O2
<1>16. /\ HeapOK(m2, O2 \ {ValueOwns(s.other)}) /\ KeepsMaps(s.memory, m2)
       /\ Stack(m2, running + 1)
  BY <1>7, <1>10, <1>12, <1>15, LocalAdded
<1> HIDE DEF m2
<1>17. HeapOK(m2, {})
  <2>1. O2 \ {ValueOwns(s.other)} = {}
    BY <1>15 DEF O2
  <2> QED BY <1>16, <2>1
<1>18. IsPath(m2, nodes) /\ (lastValue # NoAddress => Alive(m2, lastValue))
  BY <1>13, <1>14, <1>16, <1>17, PathInMore, AliveStays
<1>19. IsContainer(At(m2, a))
  <2>1. At(m2, a).type = At(s.memory, a).type
    BY <1>13, <1>16, EndIs, AliveStays
  <2> QED BY <1>11, <2>1 DEF IsContainer
<1>20. running + 1 = Len(nodes) /\ running + 1 \in Nat
  BY <1>2, <1>7
<1>21. Holds(m2, nodes, running + 1, lastValue, "inside")
  BY <1>16, <1>17, <1>18, <1>19, <1>20 DEF Holds
<1> QED BY <1>1, <1>21 DEF HeapInv

LEMMA BadValueSteps == ASSUME HeapInv, BadValue PROVE HeapInv'
<1>1. AtValue /\ memory' = Commented /\ Return(FALSE) /\ running' = running /\ lastValue' = lastValue
  BY DEF BadValue
<1>2. /\ Sound(memory', running) /\ IsPath(memory', nodes) /\ running = Len(nodes) - 1
      /\ lastValue # NoAddress => Alive(memory', lastValue)
  BY <1>1, CommentedIs
<1>3. Holds(memory', nodes', Len(nodes) - 1, lastValue, pc')
  BY <1>1, <1>2, Returned
<1> QED BY <1>1, <1>2, <1>3 DEF HeapInv

LEMMA StackExceededSteps == ASSUME HeapInv, StackExceeded PROVE HeapInv'
<1>1. memory' = DropLocals(memory, 1 .. running) /\ running' = 0 /\ pc' = "idle"
  BY DEF StackExceeded
<1>2. HeapOK(memory, {}) /\ running \in Nat /\ Stack(memory, running)
  BY DEF HeapInv, Holds
<1>3. HeapOK(memory', {}) /\ Stack(memory', 0)
  <2>1. 0 \in 0 .. running /\ 0 + 1 .. running = 1 .. running
    BY <1>2
  <2>2. /\ HeapOK(DropLocals(memory, 0 + 1 .. running), {})
        /\ Stack(DropLocals(memory, 0 + 1 .. running), 0)
    BY <1>2, <2>1, LocalsDropped
  <2> QED BY <1>1, <2>1, <2>2
<1>4. Holds(memory', nodes', 0, lastValue', "idle")
  BY <1>3 DEF Holds
<1> QED BY <1>1, <1>4 DEF HeapInv

LEMMA NextChildSteps == ASSUME HeapInv, NextChild PROVE HeapInv'
<1> DEFINE a == Last(nodes)
           map == At(memory, a).ptr
<1>1. /\ Sound(memory, running) /\ IsPath(memory, nodes) /\ running = Len(nodes)
      /\ IsContainer(At(memory, a)) /\ Alive(memory, a) /\ Len(nodes) \in Nat
      /\ lastValue # NoAddress => Alive(memory, lastValue)
  BY EndIs DEF HeapInv, Holds, NextChild, Sound
<1>2. PICK k \in Names \cup Nat :
        /\ memory' = InsertChild(memory, a, k)
        /\ nodes' = Append(nodes, [map |-> map, key |-> k])
  <2> DEFINE count == Cardinality(DOMAIN memory[map].key)
  <2>1. {count} \cap 0 .. MaxElements - 1 \subseteq Nat
    BY HeapAssumption
  <2> HIDE DEF count
  <2>2. PICK k \in IF At(memory, a).type = "object" THEN Names ELSE {count} \cap 0 .. MaxElements - 1 :
        /\ memory' = InsertChild(memory, a, k)
        /\ nodes' = Append(nodes, [map |-> map, key |-> k])
    BY DEF NextChild, Current, count
  <2> QED BY <2>1, <2>2
<1>3. pc' = "value" /\ running' = running /\ lastValue' = lastValue
  BY DEF NextChild
<1>4. /\ HeapOK(memory', {}) /\ KeepsMaps(memory, memory') /\ memory'[Nil] = memory[Nil]
      /\ Alive(memory', [map |-> map, key |-> k])
  BY <1>1, <1>2, ChildInserted DEF Sound
<1>5. At(memory', a).type = At(memory, a).type /\ At(memory', a).ptr = map
  BY <1>1, <1>4, AliveStays
<1>6. IsPath(memory', nodes) /\ IsContainer(At(memory', a))
  BY <1>1, <1>4, <1>5, PathInMore DEF IsContainer
<1>7. IsPath(memory', nodes') /\ Len(nodes') = Len(nodes) + 1
  <2> HIDE DEF map
  <2>1. /\ IsPath(memory', Append(nodes, [map |-> At(memory', a).ptr, key |-> k]))
        /\ Len(Append(nodes, [map |-> At(memory', a).ptr, key |-> k])) = Len(nodes) + 1
    BY <1>4, <1>5, <1>6, PathLonger
  <2> QED BY <1>2, <1>5, <2>1
<1>8. lastValue # NoAddress => Alive(memory', lastValue)
  BY <1>1, <1>4, AliveStays
<1>9. Sound(memory', running)
  BY <1>1, <1>4 DEF Sound, Stack
<1>10. running = Len(nodes') - 1
  BY <1>1, <1>7
<1>11. Holds(memory', nodes', running, lastValue, "value")
  BY <1>7, <1>8, <1>9, <1>10 DEF Holds, Sound
<1> QED BY <1>3, <1>11 DEF HeapInv

LEMMA BadSeparatorSteps == ASSUME HeapInv, BadSeparator PROVE HeapInv'
<1>1. pc = "inside" /\ pc' = "recover" /\ UNCHANGED <<memory, nodes, running, lastValue>>
  BY DEF BadSeparator
<1>2. Holds(memory, nodes, running, lastValue, "recover")
  BY <1>1 DEF HeapInv, Holds
<1> QED BY <1>1, <1>2 DEF HeapInv

LEMMA CloseContainerSteps == ASSUME HeapInv, CloseContainer PROVE HeapInv'
<1>1. /\ memory' = DropLocals(memory, {running}) /\ running' = running - 1
      /\ lastValue' = Last(nodes) /\ Return(pc = "inside")
  BY DEF CloseContainer, Current
<1>2. HeapOK(memory, {}) /\ running \in Nat /\ Stack(memory, running)
      /\ IsPath(memory, nodes) /\ running = Len(nodes)
  BY DEF HeapInv, Holds, CloseContainer
<1>3. running >= 1
  BY <1>2, EndIs
<1>4. /\ HeapOK(memory', {}) /\ Stack(memory', running - 1)
      /\ KeepsOthers(memory, memory', {running})
  <2>1. running - 1 \in 0 .. running /\ (running - 1) + 1 .. running = {running}
    BY <1>2, <1>3
  <2> DEFINE j == running - 1
  <2> HIDE DEF j
  <2>2. /\ HeapOK(DropLocals(memory, j + 1 .. running), {})
        /\ Stack(DropLocals(memory, j + 1 .. running), j)
        /\ KeepsOthers(memory, DropLocals(memory, j + 1 .. running), j + 1 .. running)
    BY <1>2, <2>1, LocalsDropped DEF j
  <2> QED BY <1>1, <2>1, <2>2 DEF j
<1>5. IsPath(memory', nodes)
  <2>1. 0 \notin {running}
    BY <1>3
  <2> QED BY <1>2, <1>4, <2>1, PathInLeft
<1>6. Sound(memory', Len(nodes) - 1)
  BY <1>2, <1>3, <1>4 DEF Sound
<1>7. Holds(memory', nodes', Len(nodes) - 1, lastValue', pc')
  BY <1>1, <1>5, <1>6, EndIs, Returned
<1> QED BY <1>1, <1>2, <1>7 DEF HeapInv

LEMMA ParseEndSteps == ASSUME HeapInv, ParseEnd PROVE HeapInv'
<1>1. /\ pc' = "idle" /\ running' = running
      /\ memory' = IF pending THEN SetComment(memory, RootAt, "after") ELSE memory
  BY DEF ParseEnd
<1>2. Sound(memory, 0) /\ running = 0
  BY DEF HeapInv, Holds, ParseEnd, Sound
<1>3. Sound(memory', 0)
  <2>1. Alive(memory, RootAt) /\ "after" \in Placements
    BY <1>2, RootAlive DEF Sound, Placements
  <2> QED BY <1>1, <1>2, <2>1, SetCommentSteps
<1>4. Holds(memory', nodes', 0, lastValue', "idle")
  BY <1>3 DEF Holds, Sound
<1> QED BY <1>1, <1>2, <1>4 DEF HeapInv
-----------------------------------------------------------------------------
(* The dispatcher's steps. *)

LEMMA RootAssigned ==
  ASSUME NEW m, NEW O, HeapOK(m, O), NEW n \in Nat, Stack(m, n), NEW a, Alive(m, a),
         NEW v \in Values, v.comments = Nil, Fresh(m, O, a, v), O = {ValueOwns(v)} \ {Nil}
  PROVE  /\ Sound(Assign(m, a, v), n)
         /\ a = RootAt => At(Assign(m, a, v), RootAt) = v
<1> DEFINE m2 == Assign(m, a, v)
<1>1. /\ HeapOK(m2, O \ {ValueOwns(v)}) /\ Pruned(m, m2, a)
      /\ Alive(m2, a) => At(m2, a) = v
  BY Assigned
<1> HIDE DEF m2
<1>2. HeapOK(m2, {})
  <2>1. O \ {ValueOwns(v)} = {}
    OBVIOUS
  <2> QED BY <1>1, <2>1
<1>3. Stack(m2, n)
  <2>1. m2[Nil].key = m[Nil].key
    BY <1>1, <1>2 DEF Pruned, HeapOK, Shape
  <2> QED BY <2>1 DEF Stack
<1>4. Alive(m2, RootAt)
  BY <1>2, <1>3, RootAlive
<1> QED BY <1>1, <1>2, <1>3, <1>4 DEF Sound, m2

LEMMA RootResolved ==
  ASSUME NEW m, Sound(m, 0), At(m, RootAt).type \in {"null", "object"}
  PROVE  Sound(BecomesObject(m), 0) /\ IsContainer(At(BecomesObject(m), RootAt))
<1>1. CASE At(m, RootAt).type # "null"
  BY <1>1 DEF BecomesObject, IsContainer
<1>2. CASE At(m, RootAt).type = "null"
  <2> DEFINE u == Unused(m)
             m1 == Allocate(m, NewMap)
             v == Value("object", u)
  <2>1. BecomesObject(m) = Assign(m1, RootAt, v)
    BY <1>2 DEF BecomesObject
  <2>2. IsBlock(NewMap) /\ Inside(NewMap) = {} /\ NewMap.kind = "map"
    <3>1. NewMap.kind = "map" /\ DOMAIN NewMap.key = {}
      BY DEF NewMap
    <3>2. IsMap(NewMap)
      BY DEF IsMap, NewMap
    <3> QED BY <3>1, <3>2 DEF IsBlock, Inside, Pointers
  <2>3. /\ HeapOK(m1, {} \cup {u}) /\ u \in Nat /\ u # Nil /\ u \notin DOMAIN m
        /\ DOMAIN m1 = DOMAIN m \cup {u} /\ m1[u] = NewMap
        /\ \A i \in DOMAIN m : m1[i] = m[i]
    BY <2>2, Allocated DEF Sound
  <2> HIDE DEF u, m1
  <2>4. v \in Values /\ v.comments = Nil /\ ValueOwns(v) = u /\ IsContainer(v)
    BY <2>3 DEF Value, Values, ValueOwns, IsContainer, Nil
  <2> HIDE DEF v
  <2>5. HeapOK(m1, {u}) /\ {u} = {ValueOwns(v)} \ {Nil}
    <3>1. {} \cup {u} = {u}
      OBVIOUS
    <3> QED BY <2>3, <2>4, <3>1
  <2>6. Stack(m1, 0)
    BY <2>3 DEF Stack, Sound, HeapOK, Shape
  <2>7. Alive(m1, RootAt)
    BY <2>5, <2>6, RootAlive, <2>3 DEF Alive, RootAt, Stack, HeapOK, Shape
  <2>8. Fresh(m1, {u}, RootAt, v)
    BY <2>2, <2>3, <2>4 DEF Fresh, RootAt
  <2> QED BY <2>1, <2>4, <2>5, <2>6, <2>7, <2>8, RootAssigned
<1> QED BY <1>1, <1>2

LEMMA MemberResolved ==
  ASSUME NEW m, Sound(m, 0), At(m, RootAt).type \in {"null", "object"}, NEW name
  PROVE  /\ Sound(Resolved(m, name), 0)
         /\ Alive(Resolved(m, name), [map |-> At(Resolved(m, name), RootAt).ptr, key |-> name])
<1> DEFINE m1 == BecomesObject(m)
           m2 == InsertChild(m1, RootAt, name)
<1>1. Sound(m1, 0) /\ IsContainer(At(m1, RootAt))
  BY RootResolved
<1>2. Alive(m1, RootAt)
  BY <1>1, RootAlive DEF Sound
<1> HIDE DEF m1
<1>3. /\ HeapOK(m2, {}) /\ KeepsMaps(m1, m2) /\ m2[Nil] = m1[Nil]
      /\ Alive(m2, [map |-> At(m1, RootAt).ptr, key |-> name])
  BY <1>1, <1>2, ChildInserted DEF Sound
<1> HIDE DEF m2
<1>4. Sound(m2, 0)
  BY <1>1, <1>3 DEF Sound, Stack
<1>5. At(m2, RootAt).ptr = At(m1, RootAt).ptr
  BY <1>2, <1>3, AliveStays
<1>6. Resolved(m, name) = m2
  BY DEF Resolved, m1, m2
<1> QED BY <1>3, <1>4, <1>5, <1>6

LEMMA ClearRootSteps == ASSUME Sound(memory, 0), ClearRoot PROVE Sound(memory', 0)
<1> DEFINE r == Root.ptr
<1>1. CASE Root.type = "null"
  BY <1>1 DEF ClearRoot
<1>2. CASE Root.type # "null"
  <2>1. IsContainer(Root) /\ Root = At(memory, RootAt)
    BY <1>2 DEF ClearRoot, IsContainer, Root
  <2>2. memory' = Destroy([memory EXCEPT ![r] = NewMap], Inside(memory[r]))
    BY <1>2 DEF ClearRoot
  <2>3. Alive(memory, RootAt) /\ HeapOK(memory, {})
    BY RootAlive DEF Sound
  <2>4. r \in Blocks(memory) /\ memory[r].kind = "map"
    <3>1. At(memory, RootAt).ptr \in Blocks(memory) \ {} /\ memory[At(memory, RootAt).ptr].kind = "map"
      BY <2>1, <2>3, ContainerIs
    <3> QED BY <2>1, <3>1
  <2> HIDE DEF r
  <2>5. HeapOK(memory', {}) /\ memory'[Nil] = memory[Nil]
    BY <2>2, <2>3, <2>4, MapCleared
  <2> QED BY <2>5 DEF Sound, Stack
<1> QED BY <1>1, <1>2

LEMMA AssignMemberSteps ==
  ASSUME Sound(memory, 0), NEW name, AssignMember(name)
  PROVE  Sound(memory', 0)
<1> DEFINE m == Resolved(memory, name)
           a == [map |-> At(m, RootAt).ptr, key |-> name]
           v == Value("number", Nil)
<1>1. Sound(m, 0) /\ Alive(m, a)
  BY MemberResolved DEF AssignMember, Root
<1>2. memory' = Assign(m, a, v)
  BY DEF AssignMember
<1>3. v \in Values /\ v.comments = Nil /\ ValueOwns(v) = Nil
  BY DEF Value, Values, ValueOwns, IsContainer, Nil
<1> HIDE DEF m, a, v
<1>4. Fresh(m, {}, a, v) /\ {} = {ValueOwns(v)} \ {Nil}
  BY <1>3 DEF Fresh
<1>5. HeapOK(m, {}) /\ 0 \in Nat /\ Stack(m, 0)
  BY <1>1 DEF Sound
<1> QED BY <1>1, <1>2, <1>3, <1>4, <1>5, RootAssigned

LEMMA ReplacePolicySteps == ASSUME Sound(memory, 0), ReplacePolicy PROVE Sound(memory', 0)
<1>1. memory' = Assign(memory, RootAt, NullValue)
  BY DEF ReplacePolicy
<1>2. NullValue \in Values /\ NullValue.comments = Nil /\ ValueOwns(NullValue) = Nil
  BY DEF NullValue, Value, Values, ValueOwns, IsContainer, Nil
<1>3. Fresh(memory, {}, RootAt, NullValue) /\ {} = {ValueOwns(NullValue)} \ {Nil}
  BY <1>2 DEF Fresh
<1>4. HeapOK(memory, {}) /\ 0 \in Nat /\ Stack(memory, 0) /\ Alive(memory, RootAt)
  BY RootAlive DEF Sound
<1> QED BY <1>1, <1>2, <1>3, <1>4, RootAssigned

LEMMA PolicySteps == ASSUME HeapInv, Policy PROVE HeapInv'
<1>1. /\ pc = "idle" /\ UNCHANGED <<nodes, running, lastValue, pending, pc>>
      /\ ClearRoot \/ ReplacePolicy \/ \E name \in Names : AccessMember(name) \/ AssignMember(name)
  BY DEF Policy
<1>2. Sound(memory, 0) /\ running = 0
  BY <1>1 DEF HeapInv, Holds, Sound
<1>3. Sound(memory', 0)
  <2>1. CASE ClearRoot
    BY <1>2, <2>1, ClearRootSteps
  <2>2. CASE ReplacePolicy
    BY <1>2, <2>2, ReplacePolicySteps
  <2>3. ASSUME NEW name \in Names, AccessMember(name) PROVE Sound(memory', 0)
    <3>1. At(memory, RootAt).type \in {"null", "object"} /\ memory' = Resolved(memory, name)
      BY <2>3 DEF AccessMember, Root
    <3> QED BY <1>2, <3>1, MemberResolved
  <2>4. ASSUME NEW name \in Names, AssignMember(name) PROVE Sound(memory', 0)
    BY <1>2, <2>4, AssignMemberSteps
  <2> QED BY <1>1, <2>1, <2>2, <2>3, <2>4
<1>4. Holds(memory', nodes', 0, lastValue', "idle")
  BY <1>3 DEF Holds, Sound
<1> QED BY <1>1, <1>2, <1>4 DEF HeapInv

LEMMA HeapInvSteps == HeapInv /\ [Next]_vars => HeapInv'
<1> SUFFICES ASSUME HeapInv, [Next]_vars PROVE HeapInv'
  OBVIOUS
<1>1. CASE UNCHANGED vars
  BY <1>1 DEF vars, HeapInv
<1>2. CASE Reader
  <2>1. CASE ParseBegin
    BY <2>1, ParseBeginSteps
  <2>2. CASE ReadComment
    BY <2>2, ReadCommentSteps
  <2>3. CASE ReadScalar
    BY <2>3, ReadScalarSteps
  <2>4. CASE ReadString
    BY <2>4, ReadStringSteps
  <2>5. CASE BadValue
    BY <2>5, BadValueSteps
  <2>6. CASE StackExceeded
    BY <2>6, StackExceededSteps
  <2>7. ASSUME NEW type \in {"object", "array"}, OpenContainer(type) PROVE HeapInv'
    BY <2>7, OpenContainerSteps
  <2>8. CASE NextChild
    BY <2>8, NextChildSteps
  <2>9. CASE BadSeparator
    BY <2>9, BadSeparatorSteps
  <2>10. CASE CloseContainer
    BY <2>10, CloseContainerSteps
  <2>11. CASE ParseEnd
    BY <2>11, ParseEndSteps
  <2> QED BY <1>2, <2>1, <2>2, <2>3, <2>4, <2>5, <2>6, <2>7, <2>8, <2>9, <2>10, <2>11 DEF Reader
<1>3. CASE Policy
  BY <1>3, PolicySteps
<1> QED BY <1>1, <1>2, <1>3 DEF Next

\* The memory is sound, the stack and the nodes belong together and are a path,
\* in every state of the reader and of its users.
THEOREM HeapInvariant == Spec => []HeapInv
<1>1. Init => HeapInv
  BY InitHolds
<1>2. HeapInv /\ [Next]_vars => HeapInv'
  BY HeapInvSteps
<1> QED BY <1>1, <1>2, PTL DEF Spec
-----------------------------------------------------------------------------
\* Each block of memory has one owner and will be freed once, whatever texts
\* are read, however deep and with whatever comments, wherever they fail, and
\* whatever is done with the result (~Value, swapPayload, CZString, setComment).
THEOREM OwnedOnceCorrect == Spec => []OwnedOnce
<1>1. HeapInv => OwnedOnce
  <2> SUFFICES ASSUME HeapInv PROVE OwnedOnce
    OBVIOUS
  <2> DEFINE inside == [id \in DOMAIN memory |-> Inside(memory[id])]
  <2>1. /\ Shape(memory) /\ Apart(memory) /\ Reached(memory, {})
        /\ \A id \in DOMAIN memory : Linked(memory, {}, memory[id])
        /\ Nil \in DOMAIN memory
    BY DEF HeapInv, Holds, HeapOK, Shape
  <2>2. ASSUME NEW id \in DOMAIN memory
        PROVE  /\ Inside(memory[id]) \subseteq Blocks(memory)
               /\ SeparatePointers(memory[id])
               /\ \A other \in DOMAIN memory \ {id} : Inside(memory[id]) \cap Inside(memory[other]) = {}
    <3>1. Inside(memory[id]) \subseteq Blocks(memory) \ {}
      BY <2>1, InsideIs
    <3> QED BY <2>1, <3>1 DEF Linked, Apart
  <2>3. ASSUME NEW id \in DOMAIN memory, memory[id].kind = "map", NEW k \in DOMAIN memory[id].key
        PROVE  memory[id].key[k].ptr # Caller
    <3>1. memory[id].key[k] \in Keys
      BY <2>1, <2>3, MapIs DEF IsMap
    <3> QED BY <3>1 DEF Keys, Caller
  <2>4. Blocks(memory) = AllOf(Inside(memory[Nil]), memory)
    <3>1. \A S \in SUBSET Blocks(memory) :
            Inside(memory[Nil]) \subseteq S /\ (\A id \in S : Inside(memory[id]) \subseteq S)
              => S = Blocks(memory)
      BY <2>1 DEF Reached, Closed
    <3>2. AllOf(Inside(memory[Nil]), memory)
            = {id \in Blocks(memory) : \A S \in SUBSET Blocks(memory) :
                 Inside(memory[Nil]) \subseteq S /\ (\A i \in S : Inside(memory[i]) \subseteq S)
                   => id \in S}
      BY DEF AllOf
    <3> QED BY <3>1, <3>2
  <2> QED BY <2>1, <2>2, <2>3, <2>4 DEF OwnedOnce
<1> QED BY <1>1, HeapInvariant, PTL

\* While a text is read, the reader's nodes and its last value are Values that
\* exist, although members that come twice and errors destroy others.
THEOREM PointersAliveCorrect == Spec => []PointersAlive
<1>1. HeapInv => PointersAlive
  <2> SUFFICES ASSUME HeapInv, pc # "idle"
               PROVE  /\ \A i \in DOMAIN nodes : Alive(memory, nodes[i])
                      /\ lastValue # NoAddress => Alive(memory, lastValue)
    BY DEF PointersAlive
  <2>1. IsPath(memory, nodes) /\ (lastValue # NoAddress => Alive(memory, lastValue))
    BY DEF HeapInv, Holds
  <2>2. DOMAIN nodes = 1 .. Len(nodes)
    BY <2>1 DEF IsPath
  <2> QED BY <2>1, <2>2 DEF IsPath
<1> QED BY <1>1, HeapInvariant, PTL
=============================================================================
