-------------------------- MODULE AdminConnProofs ---------------------------
(***************************************************************************)
(* The command server, for any number of clients, any commands and any     *)
(* size of the receive buffer: what is executed, and in which order.       *)
(***************************************************************************)
EXTENDS AdminConn, FiniteSetTheorems, SequenceTheorems, WellFoundedInduction, TLAPS

\* The tokens that the parser may see.
Seen == AllTokens \cup Junk

HttpTypes == [status : {"init", "head"}, hasLength : BOOLEAN, data : SUBSET Seq(Seen)]

Single(S) == \A x, y \in S : x = y

-----------------------------------------------------------------------------
(* Naturals, small sets and sequences. *)

\* Every set of naturals that is not empty has a least element.
LEMMA LeastNat ==
  ASSUME NEW T \in SUBSET Nat, T # {}
  PROVE  \E m \in T : \A n \in T : m <= n
<1>1. \A R, S : IsWellFoundedOn(R, S) =>
       \A U \in SUBSET S : U # {} => \E m \in U : \A n \in U : <<n, m>> \notin R
  BY WFMin
<1>2. IsWellFoundedOn({ss \in Nat \X Nat : ss[1] < ss[2]}, Nat)
  BY NatLessThanWellFounded DEF OpToRel
<1>3. PICK m \in T : \A n \in T : <<n, m>> \notin {ss \in Nat \X Nat : ss[1] < ss[2]}
  BY <1>1, <1>2
<1>4. \A n \in T : ~(n < m)
  BY <1>3
<1> QED BY <1>4

\* A set of at most one element.
LEMMA AtMostOne ==
  ASSUME NEW S, \A x, y \in S : x = y
  PROVE  IsFiniteSet(S) /\ Cardinality(S) \in {0, 1} /\ (S = {} <=> Cardinality(S) = 0)
<1>1. CASE S = {}
  BY <1>1, FS_EmptySet
<1>2. CASE S # {}
  <2>1. PICK x \in S : S = {x}
    BY <1>2
  <2>2. IsFiniteSet({x}) /\ Cardinality({x}) = 1
    BY FS_Singleton
  <2> QED BY <1>2, <2>1, <2>2
<1> QED BY <1>1, <1>2

\* Two things.
LEMMA TwoOf ==
  ASSUME NEW a, NEW b, a # b
  PROVE  Cardinality({a, b}) = 2
<1>1. Cardinality({a}) = 1 /\ IsFiniteSet({a})
  BY FS_Singleton
<1>2. \A F, x : IsFiniteSet(F) =>
        Cardinality(F \cup {x}) = IF x \in F THEN Cardinality(F) ELSE Cardinality(F) + 1
  BY FS_AddElement
<1> DEFINE one == {a}
           two == one \cup {b}
<1>3. IsFiniteSet(one) /\ b \notin one /\ Cardinality(one) = 1
  BY <1>1
<1>4. two = {a, b}
  OBVIOUS
<1> HIDE DEF one
<1>5. Cardinality(two) = Cardinality(one) + 1
  BY <1>2, <1>3
<1> HIDE DEF two
<1>6. Cardinality(two) = 2
  BY <1>3, <1>5
<1> QED BY <1>4, <1>6

LEMMA Joined ==
  ASSUME NEW S, NEW p \in Seq(S), NEW q \in Seq(S)
  PROVE  /\ p \o q \in Seq(S) /\ Len(p) \in Nat /\ Len(q) \in Nat
         /\ Len(p \o q) = Len(p) + Len(q)
         /\ DOMAIN p = 1..Len(p) /\ DOMAIN q = 1..Len(q)
         /\ DOMAIN (p \o q) = 1..Len(p) + Len(q)
         /\ \A i \in 1..Len(p) : (p \o q)[i] = p[i]
         /\ \A i \in 1..Len(q) : (p \o q)[Len(p) + i] = q[i]
OBVIOUS

LEMMA Sequence ==
  ASSUME NEW S, NEW n \in Nat, NEW f \in [1..n -> S]
  PROVE  f \in Seq(S) /\ Len(f) = n
OBVIOUS

LEMMA Item ==
  ASSUME NEW S, NEW s \in Seq(S), NEW i \in DOMAIN s
  PROVE  s[i] \in S
OBVIOUS

\* What recv takes of the wire, and what it leaves.
LEMMA Taken ==
  ASSUME NEW S, NEW w \in Seq(S), NEW n \in 1..Len(w)
  PROVE  /\ SubSeq(w, 1, n) \in Seq(S) /\ SubSeq(w, n + 1, Len(w)) \in Seq(S)
         /\ Len(SubSeq(w, 1, n)) = n /\ Len(SubSeq(w, n + 1, Len(w))) = Len(w) - n
         /\ \A i \in 1..n : SubSeq(w, 1, n)[i] = w[i]
         /\ \A i \in 1..Len(w) - n : SubSeq(w, n + 1, Len(w))[i] = w[n + i]
         /\ n \in Nat /\ Len(w) \in Nat
OBVIOUS

LEMMA Part ==
  ASSUME NEW S, NEW q \in Seq(S), NEW i \in 1..Len(q), NEW k \in i..Len(q)
  PROVE  /\ SubSeq(q, i, k) \in Seq(S) /\ Len(SubSeq(q, i, k)) = k - i + 1
         /\ \A j \in 1..k - i + 1 : SubSeq(q, i, k)[j] = q[i + j - 1]
         /\ i \in Nat /\ k \in Nat
OBVIOUS

-----------------------------------------------------------------------------
(* Pieces. *)

LEMMA StartsFinite ==
  ASSUME NEW S, NEW s \in Seq(S)
  PROVE  /\ PieceStarts(s) \in SUBSET (1..Len(s)) /\ IsFiniteSet(PieceStarts(s))
         /\ Cardinality(PieceStarts(s)) \in Nat
<1>1. Len(s) \in Nat /\ PieceStarts(s) \in SUBSET (1..Len(s))
  BY DEF PieceStarts
<1>2. IsFiniteSet(1..Len(s))
  BY <1>1, FS_Interval
<1> QED BY <1>1, <1>2, FS_Subset, FS_CardinalityType

\* A text with a body has a first piece and a second one.
LEMMA StartExists ==
  ASSUME NEW S, NEW s \in Seq(S), HasBody(s), NEW n \in {1, 2}
  PROVE  \E i \in PieceStarts(s) : Cardinality({j \in PieceStarts(s) : j <= i}) = n
<1> DEFINE T == PieceStarts(s)
<1>1. T \in SUBSET (1..Len(s)) /\ IsFiniteSet(T) /\ Cardinality(T) \in Nat /\ Cardinality(T) >= 2
      /\ T \in SUBSET Nat
  BY StartsFinite DEF HasBody
<1> HIDE DEF T
<1>2. T # {}
  BY <1>1, FS_EmptySet
<1>3. PICK a \in T : \A j \in T : a <= j
  BY <1>1, <1>2, LeastNat
<1>4. {j \in T : j <= a} = {a}
  <2>1. \A j \in T : j \in Nat
    BY <1>1
  <2>2. \A j \in T : j <= a <=> j = a
    BY <1>3, <2>1
  <2> QED BY <1>3, <2>2
<1>5. T \ {a} # {}
  <2>1. Cardinality({a}) = 1
    BY FS_Singleton
  <2> QED BY <1>1, <1>3, <2>1
<1>6. T \ {a} \in SUBSET Nat
  BY <1>1
<1>7. PICK b \in T \ {a} : \A j \in T \ {a} : b <= j
  BY <1>5, <1>6, LeastNat
<1>8. {j \in T : j <= b} = {a} \cup {b}
  <2>1. \A j \in T : j \in Nat
    BY <1>1
  <2>2. \A j \in T : j <= b <=> j = a \/ j = b
    BY <1>3, <1>7, <2>1
  <2> QED BY <1>3, <1>7, <2>2
<1>9. Cardinality({a}) = 1 /\ IsFiniteSet({a})
  BY FS_Singleton
<1>10. Cardinality({a} \cup {b}) = 2
  <2>1. a # b /\ {a} \cup {b} = {a, b}
    BY <1>7
  <2>2. Cardinality({a, b}) = 2
    BY <2>1, TwoOf, Zenon
  <2> QED BY <2>1, <2>2
<1> QED BY <1>3, <1>4, <1>7, <1>8, <1>9, <1>10 DEF T

\* A piece of a text is a stretch of it.
LEMMA PieceIs ==
  ASSUME NEW S, NEW s \in Seq(S), HasBody(s), NEW n \in {1, 2}
  PROVE  \E i \in 1..Len(s) : \E k \in i..Len(s) : Piece(s, n) = SubSeq(s, i, k)
<1> DEFINE i == CHOOSE i \in PieceStarts(s) : Cardinality({j \in PieceStarts(s) : j <= i}) = n
           ends == {j \in i..Len(s) : j = Len(s) \/ IsBlank(s[j+1])}
<1>1. i \in PieceStarts(s)
  BY StartExists
<1>2. i \in 1..Len(s) /\ Len(s) \in Nat
  BY <1>1, StartsFinite
<1>3. Piece(s, n) = SubSeq(s, i, Min(ends))
  BY DEF Piece, PieceFrom
<1> HIDE DEF i
<1>4. Len(s) \in ends /\ ends \in SUBSET Nat
  BY <1>2
<1> HIDE DEF ends
<1>5. \E m \in ends : \A j \in ends : m <= j
  BY <1>4, LeastNat
<1>6. Min(ends) \in ends
  BY <1>5 DEF Min
<1>7. Min(ends) \in i..Len(s)
  BY <1>6 DEF ends
<1> QED BY <1>2, <1>3, <1>7

\* What has a body still has one when more is received.
LEMMA BodyStays ==
  ASSUME NEW S, NEW p \in Seq(S), NEW q \in Seq(S), HasBody(p)
  PROVE  HasBody(p \o q)
<1>1. p \o q \in Seq(S) /\ Len(p \o q) = Len(p) + Len(q) /\ Len(p) \in Nat /\ Len(q) \in Nat
  BY Joined
<1>2. ASSUME NEW i \in PieceStarts(p) PROVE i \in PieceStarts(p \o q)
  <2>1. i \in 1..Len(p) /\ ~ IsBlank(p[i]) /\ (i = 1 \/ IsBlank(p[i - 1]))
    BY DEF PieceStarts
  <2>2. (p \o q)[i] = p[i] /\ (i # 1 => (p \o q)[i - 1] = p[i - 1])
    <3>1. i # 1 => i - 1 \in 1..Len(p)
      BY <1>1, <2>1
    <3>2. \A j \in 1..Len(p) : (p \o q)[j] = p[j]
      BY Joined
    <3> QED BY <2>1, <3>1, <3>2
  <2>3. i \in DOMAIN (p \o q)
    BY <1>1, <2>1
  <2>4. ~ IsBlank((p \o q)[i]) /\ (i = 1 \/ IsBlank((p \o q)[i - 1]))
    BY <2>1, <2>2
  <2> QED BY <2>3, <2>4 DEF PieceStarts
<1>3. PieceStarts(p) \in SUBSET PieceStarts(p \o q)
  BY <1>2
<1>4. IsFiniteSet(PieceStarts(p \o q)) /\ Cardinality(PieceStarts(p \o q)) \in Nat
      /\ Cardinality(PieceStarts(p)) \in Nat
  BY <1>1, StartsFinite
<1>5. Cardinality(PieceStarts(p)) <= Cardinality(PieceStarts(p \o q))
  BY <1>3, <1>4, FS_Subset
<1> QED BY <1>4, <1>5 DEF HasBody

-----------------------------------------------------------------------------
(* The parser. *)

\* A parser after a call, of which "done" is left.
DoneTypes == [status : {"init", "head", "done"}, hasLength : BOOLEAN, data : SUBSET Seq(Seen)]

LEMMA HeaderSound ==
  ASSUME NEW h \in HttpTypes, NEW s
  PROVE  /\ ParseHeader(h, s) \in HttpTypes /\ ParseHeader(h, s).data = h.data
         /\ ParseHeader(h, s).status = (IF HasBody(s) THEN "head" ELSE h.status)
<1>1. ASSUME HasBody(s)
      PROVE  /\ ParseHeader(h, s) \in HttpTypes /\ ParseHeader(h, s).data = h.data
             /\ ParseHeader(h, s).status = "head"
  <2> DEFINE found == \E i \in 2..Len(Piece(s, 1)) : Piece(s, 1)[i].part = "length"
  <2>1. ParseHeader(h, s) = [h EXCEPT !.status = "head", !.hasLength = found]
    BY <1>1 DEF ParseHeader
  <2>2. found \in BOOLEAN
    OBVIOUS
  <2> HIDE DEF found
  <2> QED BY <2>1, <2>2 DEF HttpTypes
<1>2. ASSUME ~ HasBody(s) PROVE ParseHeader(h, s) = h
  BY <1>2 DEF ParseHeader
<1> QED BY <1>1, <1>2

\* What parse_body puts into body_map begins within the text.
LEMMA BodySound ==
  ASSUME NEW h \in HttpTypes, Single(h.data), NEW s \in Seq(Seen), HasBody(s)
  PROVE  /\ ParseBody(h, s) \in HttpTypes /\ Single(ParseBody(h, s).data)
         /\ ParseBody(h, s).status = h.status /\ ParseBody(h, s).hasLength = h.hasLength
         /\ \A v \in ParseBody(h, s).data : v \in h.data \/ (v # <<>> => v[1] \in Range(s))
<1> DEFINE body == Piece(s, 2)
           value == SubSeq(body, 3, Len(body))
<1>1. PICK i \in 1..Len(s) : \E k \in i..Len(s) : body = SubSeq(s, i, k)
  BY PieceIs
<1>2. PICK k \in i..Len(s) : body = SubSeq(s, i, k)
  BY <1>1
<1>3. /\ body \in Seq(Seen) /\ Len(body) = k - i + 1
      /\ \A j \in 1..k - i + 1 : body[j] = s[i + j - 1]
      /\ i \in Nat /\ k \in Nat /\ Len(s) \in Nat /\ DOMAIN s = 1..Len(s)
  <2>1. /\ SubSeq(s, i, k) \in Seq(Seen) /\ Len(SubSeq(s, i, k)) = k - i + 1
        /\ \A j \in 1..k - i + 1 : SubSeq(s, i, k)[j] = s[i + j - 1]
        /\ i \in Nat /\ k \in Nat
    BY Part
  <2>2. Len(s) \in Nat /\ DOMAIN s = 1..Len(s)
    OBVIOUS
  <2> HIDE DEF body
  <2> QED BY <1>2, <2>1, <2>2
<1> HIDE DEF body
<1>4. Len(body) > 1 => value \in Seq(Seen) /\ Len(value) = Len(body) - 2
  BY <1>3
<1>5. ASSUME Len(body) > 1, value # <<>> PROVE value[1] \in Range(s)
  <2>1. Len(body) >= 3
    BY <1>3, <1>4, <1>5
  <2>2. value[1] = body[3]
    BY <1>3, <2>1
  <2>3. body[3] = s[i + 2] /\ i + 2 \in DOMAIN s
    BY <1>2, <1>3, <2>1
  <2> QED BY <2>2, <2>3 DEF Range
<1> HIDE DEF value
<1>6. \/ ParseBody(h, s) = h
      \/ h.data = {} /\ Len(body) > 1 /\ ParseBody(h, s) = [h EXCEPT !.data = {value}]
  BY DEF ParseBody, body, value
<1>7. CASE ParseBody(h, s) = h
  BY <1>7
<1>8. CASE h.data = {} /\ Len(body) > 1 /\ ParseBody(h, s) = [h EXCEPT !.data = {value}]
  <2>1. ParseBody(h, s) \in HttpTypes
    BY <1>4, <1>8 DEF HttpTypes
  <2>2. ParseBody(h, s).data = {value} /\ ParseBody(h, s).status = h.status
        /\ ParseBody(h, s).hasLength = h.hasLength
    BY <1>8 DEF HttpTypes
  <2> QED BY <1>5, <1>8, <2>1, <2>2 DEF Single
<1> QED BY <1>6, <1>7, <1>8

LEMMA ParseSound ==
  ASSUME NEW h \in HttpTypes, Single(h.data), NEW s \in Seq(Seen),
         h.status = "head" => HasBody(s)
  PROVE  /\ ParseDone(h, s) \in DoneTypes /\ Single(ParseDone(h, s).data)
         /\ ParseDone(h, s).status # "init" => HasBody(s)
         /\ ParseDone(h, s).status # "done" => ParseDone(h, s) \in HttpTypes
         /\ \A v \in ParseDone(h, s).data : v \in h.data \/ (v # <<>> => v[1] \in Range(s))
<1> DEFINE h1 == IF h.status = "init" THEN ParseHeader(h, s) ELSE h
           h2 == IF h1.status = "head" THEN ParseBody(h1, s) ELSE h1
           r == ParseDone(h, s)
<1>1. /\ h1 \in HttpTypes /\ h1.data = h.data /\ (h1.status = "head" => HasBody(s))
  <2>1. h.status \in {"init", "head"}
    BY DEF HttpTypes
  <2> QED BY <2>1, HeaderSound
<1> HIDE DEF h1
<1>2. /\ h2 \in HttpTypes /\ Single(h2.data) /\ (h2.status = "head" => HasBody(s))
      /\ \A v \in h2.data : v \in h.data \/ (v # <<>> => v[1] \in Range(s))
  <2>1. CASE h1.status = "head"
    BY <1>1, <2>1, BodySound
  <2>2. CASE h1.status # "head"
    BY <1>1, <2>2
  <2> QED BY <2>1, <2>2
<1>3. r = IF h2.status = "head" /\ BodyDone(h2, s) THEN [h2 EXCEPT !.status = "done"] ELSE h2
  BY DEF ParseDone, h1
<1> HIDE DEF h2, r
<1>4. CASE h2.status = "head" /\ r = [h2 EXCEPT !.status = "done"]
  BY <1>2, <1>4 DEF r, HttpTypes, DoneTypes
<1>5. CASE r = h2
  BY <1>2, <1>5 DEF r, HttpTypes, DoneTypes
<1> QED BY <1>3, <1>4, <1>5

-----------------------------------------------------------------------------
(* What is on its way. *)

\* The token that names a command, by which get_out_json knows it: one in each.
Names(t) == t.part = "fields"

\* q : the tokens received and not forgotten, and those on the wire; n commands
\* were sent and ex is what was executed.
InOrder(q) == \A i, j \in DOMAIN q : i < j /\ Names(q[i]) /\ Names(q[j]) => q[i].cmd < q[j].cmd
Sent(q, n) == \A i \in DOMAIN q : Names(q[i]) => q[i].cmd <= n
Ahead(ex, q) == \A i \in DOMAIN ex, j \in DOMAIN q : Names(q[j]) => ex[i].cmd < q[j].cmd
Rising(ex) == \A i, j \in DOMAIN ex : i < j => ex[i].cmd < ex[j].cmd
Bounded(ex, n) == \A i \in DOMAIN ex : ex[i].cmd <= n

Lawful(q, ex, n) ==
  InOrder(q) /\ Sent(q, n) /\ Ahead(ex, q) /\ Rising(ex) /\ Bounded(ex, n)

\* q keeps the order of p and has nothing that p has not.
Within(q, p) ==
  \E f \in [DOMAIN q -> DOMAIN p] :
    /\ \A i \in DOMAIN q : q[i] = p[f[i]]
    /\ \A i, j \in DOMAIN q : i < j => f[i] < f[j]

\* q is part of p and comes behind its m-th item.
Behind(q, p, m) ==
  \E f \in [DOMAIN q -> DOMAIN p] :
    /\ \A i \in DOMAIN q : q[i] = p[f[i]]
    /\ \A i \in DOMAIN q : m < f[i]

Executed == [cmd : 1..MaxCmd, close : Nat]

\* Whatever is received, thrown away or lost leaves the rest in order.
LEMMA LawfulWithin ==
  ASSUME NEW p, NEW q, NEW ex, NEW n, Lawful(p, ex, n), Within(q, p)
  PROVE  Lawful(q, ex, n)
<1>1. PICK f \in [DOMAIN q -> DOMAIN p] :
        /\ \A i \in DOMAIN q : q[i] = p[f[i]]
        /\ \A i, j \in DOMAIN q : i < j => f[i] < f[j]
  BY DEF Within
<1>2. InOrder(q)
  BY <1>1 DEF Lawful, InOrder
<1>3. Sent(q, n)
  BY <1>1 DEF Lawful, Sent
<1>4. Ahead(ex, q)
  BY <1>1 DEF Lawful, Ahead
<1> QED BY <1>2, <1>3, <1>4 DEF Lawful

\* The stream after a recv of n tokens: all of it is there when they are kept,
\* the rest, which comes behind all of them, when the buffer is forgotten, and
\* the rest behind the old buffer when the process ends before they are noted.
LEMMA StreamAfterRecv ==
  ASSUME NEW S, NEW b \in Seq(S), NEW w \in Seq(S), NEW n \in 1..Len(w)
  PROVE  LET rest == SubSeq(w, n + 1, Len(w))
         IN  /\ Within((b \o SubSeq(w, 1, n)) \o rest, b \o w)
             /\ Within(<<>> \o rest, b \o w)
             /\ Within(b \o rest, b \o w)
             /\ Behind(<<>> \o rest, b \o w, Len(b) + n)
             /\ \A t \in 1..Len(b) + n :
                  t \in DOMAIN (b \o w) /\ (b \o SubSeq(w, 1, n))[t] = (b \o w)[t]
<1> DEFINE got  == SubSeq(w, 1, n)
           rest == SubSeq(w, n + 1, Len(w))
           p == b \o w
<1>1. /\ got \in Seq(S) /\ rest \in Seq(S) /\ Len(got) = n /\ Len(rest) = Len(w) - n
      /\ \A i \in 1..n : got[i] = w[i]
      /\ \A i \in 1..Len(w) - n : rest[i] = w[n + i]
      /\ n \in Nat /\ Len(w) \in Nat
  BY Taken
<1> HIDE DEF got, rest
<1>2. /\ Len(b) \in Nat /\ DOMAIN p = 1..Len(b) + Len(w)
      /\ \A i \in 1..Len(b) : p[i] = b[i]
      /\ \A i \in 1..Len(w) : p[Len(b) + i] = w[i]
  BY Joined
<1> HIDE DEF p
<1>3. /\ Within((b \o got) \o rest, p)
      /\ \A t \in 1..Len(b) + n : t \in DOMAIN p /\ (b \o got)[t] = p[t]
  <2> DEFINE q == (b \o got) \o rest
             f == [i \in DOMAIN q |-> i]
  <2>1. /\ b \o got \in Seq(S) /\ Len(b \o got) = Len(b) + n
        /\ \A i \in 1..Len(b) : (b \o got)[i] = b[i]
        /\ \A i \in 1..n : (b \o got)[Len(b) + i] = got[i]
    <3>1. b \in Seq(S) /\ got \in Seq(S) /\ Len(got) = n
      BY <1>1
    <3>2. /\ b \o got \in Seq(S) /\ Len(b) \in Nat /\ Len(got) \in Nat
          /\ Len(b \o got) = Len(b) + Len(got)
          /\ DOMAIN b = 1..Len(b) /\ DOMAIN got = 1..Len(got)
          /\ DOMAIN (b \o got) = 1..Len(b) + Len(got)
          /\ \A i \in 1..Len(b) : (b \o got)[i] = b[i]
          /\ \A i \in 1..Len(got) : (b \o got)[Len(b) + i] = got[i]
      BY ONLY <3>1
    <3> QED BY <3>1, <3>2
  <2>2. /\ DOMAIN q = 1..(Len(b) + n) + (Len(w) - n)
        /\ \A i \in 1..(Len(b) + n) : q[i] = (b \o got)[i]
        /\ \A i \in 1..Len(w) - n : q[(Len(b) + n) + i] = rest[i]
    <3> DEFINE front == b \o got
    <3>1. front \in Seq(S) /\ rest \in Seq(S)
      BY <1>1, <2>1
    <3> HIDE DEF front
    <3>2. /\ DOMAIN (front \o rest) = 1..Len(front) + Len(rest)
          /\ \A i \in 1..Len(front) : (front \o rest)[i] = front[i]
          /\ \A i \in 1..Len(rest) : (front \o rest)[Len(front) + i] = rest[i]
      BY <3>1, Joined
    <3>3. Len(front) = Len(b) + n
      BY <2>1 DEF front
    <3>4. q = front \o rest
      BY DEF front
    <3> HIDE DEF q
    <3>5. /\ DOMAIN q = 1..(Len(b) + n) + (Len(w) - n)
          /\ \A i \in 1..(Len(b) + n) : q[i] = front[i]
          /\ \A i \in 1..Len(w) - n : q[(Len(b) + n) + i] = rest[i]
      BY <1>1, <3>2, <3>3, <3>4
    <3> QED BY <3>5 DEF front
  <2> HIDE DEF q
  <2>3. DOMAIN q = DOMAIN p
    BY <1>1, <1>2, <2>2
  <2>4. ASSUME NEW i \in DOMAIN q PROVE q[i] = p[i]
    <3>1. CASE i <= Len(b)
      <4>1. i \in 1..Len(b) /\ i \in 1..(Len(b) + n)
        BY <1>1, <1>2, <2>2, <3>1
      <4> QED BY <1>2, <2>1, <2>2, <4>1
    <3>2. CASE i > Len(b) /\ i <= Len(b) + n
      <4>1. PICK k \in 1..n : i = Len(b) + k
        <5>1. i - Len(b) \in 1..n /\ i = Len(b) + (i - Len(b))
          BY <1>1, <1>2, <2>2, <3>2
        <5> QED BY <5>1
      <4>2. q[i] = w[k]
        <5>1. i \in 1..(Len(b) + n)
          BY <1>1, <1>2, <4>1
        <5> QED BY <1>1, <2>1, <2>2, <4>1, <5>1
      <4>3. p[i] = w[k]
        BY <1>1, <1>2, <4>1
      <4> QED BY <4>2, <4>3
    <3>3. CASE i > Len(b) + n
      <4>1. PICK k \in 1..Len(w) - n : i = (Len(b) + n) + k
        <5> DEFINE top == Len(b) + n
        <5>2. top \in Nat /\ i \in 1..top + (Len(w) - n) /\ Len(w) - n \in Nat /\ i > top
          BY <1>1, <1>2, <2>2, <3>3
        <5> HIDE DEF top
        <5>3. i - top \in 1..Len(w) - n /\ i = top + (i - top)
          BY <5>2
        <5>1. i - (Len(b) + n) \in 1..Len(w) - n /\ i = (Len(b) + n) + (i - (Len(b) + n))
          BY <5>3 DEF top
        <5> QED BY <5>1
      <4>2. q[i] = w[n + k]
        BY <1>1, <2>2, <4>1
      <4>3. n + k \in 1..Len(w) /\ i = Len(b) + (n + k)
        BY <1>1, <1>2, <4>1
      <4>4. p[i] = w[n + k]
        BY <1>2, <4>3
      <4> QED BY <4>2, <4>4
    <3> QED BY <1>1, <1>2, <2>2, <3>1, <3>2, <3>3
  <2>5. f \in [DOMAIN q -> DOMAIN p] /\ \A i \in DOMAIN q : q[i] = p[f[i]]
    BY <2>3, <2>4
  <2>6. \A i, j \in DOMAIN q : i < j => f[i] < f[j]
    OBVIOUS
  <2> HIDE DEF f
  <2>7. Within(q, p)
    BY <2>5, <2>6 DEF Within
  <2>8. ASSUME NEW t \in 1..(Len(b) + n) PROVE t \in DOMAIN p /\ (b \o got)[t] = p[t]
    <3>1. t \in DOMAIN q
      BY <1>1, <1>2, <2>2
    <3> QED BY <2>2, <2>3, <2>4, <3>1
  <2> QED BY <2>7, <2>8 DEF q
<1>4. /\ Within(<<>> \o rest, p)
      /\ Behind(<<>> \o rest, p, Len(b) + n)
  <2> DEFINE q == <<>> \o rest
             f == [i \in DOMAIN q |-> Len(b) + n + i]
  <2>1. DOMAIN q = 1..Len(w) - n /\ \A i \in 1..Len(w) - n : q[i] = rest[i]
    <3>1. q = rest
      BY <1>1
    <3> QED BY <1>1, <3>1
  <2> HIDE DEF q
  <2>2. ASSUME NEW i \in DOMAIN q
        PROVE  Len(b) + n + i \in DOMAIN p /\ q[i] = p[Len(b) + n + i]
    <3>0. i \in 1..Len(w) - n /\ q[i] = rest[i]
      BY <2>1
    <3>3. i \in Nat /\ i >= 1 /\ i <= Len(w) - n
      BY <1>1, <3>0
    <3>1. q[i] = w[n + i] /\ n + i \in 1..Len(w) /\ Len(b) + n + i = Len(b) + (n + i)
      <4>1. q[i] = w[n + i]
        BY <1>1, <3>0
      <4>2. n + i \in 1..Len(w)
        BY <1>1, <3>3
      <4>3. Len(b) + n + i = Len(b) + (n + i)
        BY <1>1, <1>2, <3>3
      <4> QED BY <4>1, <4>2, <4>3
    <3>2. Len(b) + n + i \in 1..Len(b) + Len(w)
      BY <1>1, <1>2, <3>1
    <3> QED BY <1>2, <3>1, <3>2
  <2>3. f \in [DOMAIN q -> DOMAIN p] /\ \A i \in DOMAIN q : q[i] = p[f[i]]
    BY <2>2
  <2>4. \A i, j \in DOMAIN q : i < j => f[i] < f[j]
    BY <1>1, <1>2, <2>1
  <2>6. \A i \in DOMAIN q : Len(b) + n < f[i]
    BY <1>1, <1>2, <2>1
  <2> HIDE DEF f
  <2>5. Within(q, p)
    BY <2>3, <2>4 DEF Within
  <2>7. Behind(q, p, Len(b) + n)
    BY <2>3, <2>6 DEF Behind
  <2> QED BY <2>5, <2>7 DEF q
<1>5. Within(b \o rest, p)
  <2> DEFINE q == b \o rest
             f == [i \in DOMAIN q |-> IF i <= Len(b) THEN i ELSE n + i]
  <2>1. /\ DOMAIN q = 1..Len(b) + (Len(w) - n)
        /\ \A i \in 1..Len(b) : q[i] = b[i]
        /\ \A i \in 1..Len(w) - n : q[Len(b) + i] = rest[i]
    <3>1. rest \in Seq(S) /\ Len(rest) = Len(w) - n
      BY <1>1
    <3>2. /\ DOMAIN q = 1..Len(b) + Len(rest)
          /\ \A i \in 1..Len(b) : q[i] = b[i]
          /\ \A i \in 1..Len(rest) : q[Len(b) + i] = rest[i]
      <4>1. b \in Seq(S) /\ rest \in Seq(S)
        BY <3>1
      <4> QED BY ONLY <4>1, Joined
    <3> HIDE DEF q
    <3> QED BY <3>1, <3>2
  <2> HIDE DEF q
  <2>2. ASSUME NEW i \in DOMAIN q, i <= Len(b) PROVE i \in DOMAIN p /\ q[i] = p[i]
    BY <1>1, <1>2, <2>1, <2>2
  <2>3. ASSUME NEW i \in DOMAIN q, ~ (i <= Len(b))
        PROVE  n + i \in DOMAIN p /\ q[i] = p[n + i]
    <3>1. PICK k \in 1..Len(w) - n : i = Len(b) + k
      <4>1. i - Len(b) \in 1..Len(w) - n /\ i = Len(b) + (i - Len(b))
        BY <1>1, <1>2, <2>1, <2>3
      <4> QED BY <4>1
    <3>2. q[i] = w[n + k] /\ n + k \in 1..Len(w) /\ n + i = Len(b) + (n + k)
      BY <1>1, <1>2, <2>1, <3>1
    <3>3. n + i \in 1..Len(b) + Len(w)
      BY <1>1, <1>2, <3>2
    <3> QED BY <1>2, <3>2, <3>3
  <2>4. f \in [DOMAIN q -> DOMAIN p] /\ \A i \in DOMAIN q : q[i] = p[f[i]]
    BY <2>2, <2>3
  <2>5. \A i, j \in DOMAIN q : i < j => f[i] < f[j]
    BY <1>1, <1>2, <2>1
  <2> HIDE DEF f
  <2>6. Within(q, p)
    BY <2>4, <2>5 DEF Within
  <2> QED BY <2>6 DEF q
<1> QED BY <1>3, <1>4, <1>5 DEF got, rest, p

\* A command is named once.
LEMMA TokensAre ==
  ASSUME NEW n \in 1..MaxCmd, NEW hasLength \in BOOLEAN
  PROVE  /\ Tokens(n, hasLength) \in Seq(AllTokens)
         /\ \A i \in DOMAIN Tokens(n, hasLength) : Tokens(n, hasLength)[i].cmd = n
         /\ \A i, j \in DOMAIN Tokens(n, hasLength) :
              Names(Tokens(n, hasLength)[i]) /\ Names(Tokens(n, hasLength)[j]) => i = j
<1> DEFINE head == HeadParts(hasLength)
           parts == head \o Body
           Words == {"line", "length", "blank"} \cup Range(Body)
           T == [i \in DOMAIN parts |-> [cmd |-> n, part |-> parts[i]]]
<1>1. /\ head \in Seq(Words) /\ Len(head) \in Nat
      /\ \A i \in 1..Len(head) : head[i] \in {"line", "length", "blank"}
  <2>1. CASE hasLength
    <3>1. head = <<"line", "length", "blank">>
      BY <2>1 DEF HeadParts
    <3> HIDE DEF head, Words
    <3>2. {"line", "length", "blank"} \subseteq Words
      BY DEF Words
    <3> QED BY <3>1, <3>2
  <2>2. CASE ~ hasLength
    <3>1. head = <<"line", "blank">>
      BY <2>2 DEF HeadParts
    <3> HIDE DEF head, Words
    <3>2. {"line", "length", "blank"} \subseteq Words
      BY DEF Words
    <3> QED BY <3>1, <3>2
  <2> QED BY <2>1, <2>2
<1>2. /\ Body \in Seq(Words) /\ Len(Body) = 6
      /\ \A i \in 1..6 : Body[i] = "fields" => i = 3
      /\ \A i \in 1..6 : Body[i] \in Range(Body)
  <2>1. Len(Body) = 6 /\ DOMAIN Body = 1..6
    BY DEF Body
  <2>2. \A i \in 1..6 : Body[i] = "fields" => i = 3
    BY DEF Body
  <2>3. \A i \in 1..6 : Body[i] \in Range(Body)
    BY <2>1 DEF Range
  <2>4. Body \in [1..6 -> Range(Body)]
    BY <2>1, <2>3 DEF Body
  <2>5. Body \in [1..6 -> Words]
    BY <2>4
  <2> HIDE DEF Words
  <2>6. Body \in Seq(Words)
    BY <2>5, Sequence
  <2> QED BY <2>1, <2>2, <2>3, <2>6
<1> HIDE DEF head, Words
<1>3. /\ parts \in Seq(Words) /\ Len(parts) = Len(head) + 6 /\ DOMAIN parts = 1..Len(head) + 6
      /\ \A i \in 1..Len(head) : parts[i] = head[i]
      /\ \A i \in 1..6 : parts[Len(head) + i] = Body[i]
  <2>1. /\ parts \in Seq(Words) /\ Len(head) \in Nat /\ Len(Body) \in Nat
        /\ Len(parts) = Len(head) + Len(Body)
        /\ DOMAIN head = 1..Len(head) /\ DOMAIN Body = 1..Len(Body)
        /\ DOMAIN parts = 1..Len(head) + Len(Body)
        /\ \A i \in 1..Len(head) : parts[i] = head[i]
        /\ \A i \in 1..Len(Body) : parts[Len(head) + i] = Body[i]
    <3>1. head \in Seq(Words) /\ Body \in Seq(Words)
      BY <1>1, <1>2
    <3> QED BY ONLY <3>1, Joined
  <2> HIDE DEF parts
  <2> QED BY <1>2, <2>1
<1> HIDE DEF parts
<1>4. ASSUME NEW i \in DOMAIN parts
      PROVE  parts[i] \in Words /\ (parts[i] = "fields" => i = Len(head) + 3)
  <2>1. CASE i <= Len(head)
    <3>1. i \in 1..Len(head)
      BY <1>1, <1>3, <2>1
    <3>2. parts[i] \in {"line", "length", "blank"}
      BY <1>1, <1>3, <3>1
    <3>3. parts[i] \in Words
      BY <1>3
    <3> QED BY <3>2, <3>3
  <2>2. CASE ~ (i <= Len(head))
    <3>1. i - Len(head) \in 1..6 /\ i = Len(head) + (i - Len(head))
      BY <1>1, <1>3, <2>2
    <3>2. PICK k \in 1..6 : i = Len(head) + k
      BY <3>1
    <3>3. parts[i] = Body[k]
      BY <1>3, <3>2
    <3>4. parts[i] \in Words
      BY <1>3
    <3> QED BY <1>1, <1>2, <3>2, <3>3, <3>4
  <2> QED BY <2>1, <2>2
<1>5. Tokens(n, hasLength) = T /\ DOMAIN T = DOMAIN parts
  BY DEF Tokens, parts, head
<1>6. \A i \in DOMAIN parts : T[i] = [cmd |-> n, part |-> parts[i]]
  OBVIOUS
<1>7. \A i \in DOMAIN parts : T[i] \in AllTokens
  <2> SUFFICES ASSUME NEW i \in DOMAIN parts PROVE T[i] \in AllTokens
    OBVIOUS
  <2> HIDE DEF T
  <2>1. T[i] = [cmd |-> n, part |-> parts[i]] /\ parts[i] \in Words
    BY <1>4, <1>6
  <2>2. [cmd |-> n, part |-> parts[i]] \in [cmd : 1..MaxCmd, part : Words]
    BY <2>1
  <2>3. [cmd : 1..MaxCmd, part : Words] = AllTokens
    BY DEF AllTokens, Words
  <2> QED BY <2>1, <2>2, <2>3
<1>8. T \in Seq(AllTokens)
  <2>1. T \in [1..Len(head) + 6 -> AllTokens]
    BY <1>3, <1>7
  <2>2. Len(head) + 6 \in Nat
    BY <1>1
  <2> HIDE DEF T
  <2> QED BY <2>1, <2>2
<1>9. \A i \in DOMAIN T : T[i].cmd = n
  BY <1>5, <1>6
<1>10. \A i, j \in DOMAIN T : Names(T[i]) /\ Names(T[j]) => i = j
  <2>1. \A i \in DOMAIN T : Names(T[i]) => i = Len(head) + 3
    BY <1>4, <1>5, <1>6 DEF Names
  <2> QED BY <2>1
<1> HIDE DEF T
<1> QED BY <1>5, <1>8, <1>9, <1>10

\* The next command of a client comes behind all that it sent.
LEMMA LawfulSent ==
  ASSUME NEW p \in Seq(AllTokens), NEW ex \in Seq(Executed), NEW n \in Nat, n < MaxCmd,
         NEW hasLength \in BOOLEAN, Lawful(p, ex, n)
  PROVE  Lawful(p \o Tokens(n + 1, hasLength), ex, n + 1)
<1> DEFINE T == Tokens(n + 1, hasLength)
           q == p \o T
<1>1. n + 1 \in 1..MaxCmd
  BY AdminConnAssumption
<1>2. /\ T \in Seq(AllTokens) /\ \A i \in DOMAIN T : T[i].cmd = n + 1
      /\ \A i, j \in DOMAIN T : Names(T[i]) /\ Names(T[j]) => i = j
  BY <1>1, TokensAre
<1> HIDE DEF T
<1>3. /\ Len(p) \in Nat /\ Len(T) \in Nat /\ DOMAIN p = 1..Len(p) /\ DOMAIN T = 1..Len(T)
      /\ DOMAIN q = 1..Len(p) + Len(T)
      /\ \A i \in 1..Len(p) : q[i] = p[i]
      /\ \A i \in 1..Len(T) : q[Len(p) + i] = T[i]
  BY <1>2, Joined
<1> HIDE DEF q
<1>4. ASSUME NEW i \in DOMAIN q, Names(q[i])
      PROVE  \/ i \in DOMAIN p /\ q[i] = p[i] /\ q[i].cmd \in Nat /\ q[i].cmd <= n
             \/ i - Len(p) \in DOMAIN T /\ q[i] = T[i - Len(p)] /\ q[i].cmd = n + 1
  <2>1. CASE i <= Len(p)
    <3>1. i \in DOMAIN p /\ q[i] = p[i]
      BY <1>3, <2>1
    <3>2. p[i] \in AllTokens
      BY <3>1
    <3>3. p[i].cmd \in 1..MaxCmd
      BY <3>2 DEF AllTokens
    <3>4. p[i].cmd \in Nat
      BY <3>3, AdminConnAssumption
    <3>5. p[i].cmd <= n
      BY <1>4, <3>1 DEF Lawful, Sent
    <3> QED BY <3>1, <3>4, <3>5
  <2>2. CASE ~ (i <= Len(p))
    <3>1. i - Len(p) \in 1..Len(T) /\ i = Len(p) + (i - Len(p))
      BY <1>3, <2>2
    <3>2. q[i] = T[i - Len(p)]
      BY <1>3, <3>1
    <3> QED BY <1>2, <1>3, <3>1, <3>2
  <2> QED BY <2>1, <2>2
<1>5. InOrder(q)
  <2> SUFFICES ASSUME NEW i \in DOMAIN q, NEW j \in DOMAIN q, i < j, Names(q[i]), Names(q[j])
               PROVE  q[i].cmd < q[j].cmd
    BY DEF InOrder
  <2>1. CASE i \in DOMAIN p /\ j \in DOMAIN p /\ q[i] = p[i] /\ q[j] = p[j]
    BY <2>1 DEF Lawful, InOrder
  <2>2. CASE q[i].cmd \in Nat /\ q[i].cmd <= n /\ q[j].cmd = n + 1
    BY <2>2
  <2>3. CASE i - Len(p) \in DOMAIN T /\ j \in DOMAIN p
    BY <1>3, <2>3
  <2>4. CASE /\ i - Len(p) \in DOMAIN T /\ j - Len(p) \in DOMAIN T
             /\ q[i] = T[i - Len(p)] /\ q[j] = T[j - Len(p)]
    <3>1. i - Len(p) = j - Len(p)
      BY <1>2, <2>4
    <3> QED BY <1>3, <3>1
  <2> QED BY <1>4, <2>1, <2>2, <2>3, <2>4
<1>6. Sent(q, n + 1)
  <2> SUFFICES ASSUME NEW i \in DOMAIN q, Names(q[i]) PROVE q[i].cmd <= n + 1
    BY DEF Sent
  <2> QED BY <1>4
<1>7. \A i \in DOMAIN ex : ex[i].cmd \in Nat /\ ex[i].cmd <= n
  <2>1. \A i \in DOMAIN ex : ex[i] \in Executed
    OBVIOUS
  <2>2. \A i \in DOMAIN ex : ex[i].cmd \in 1..MaxCmd
    BY <2>1 DEF Executed
  <2> QED BY <2>2, AdminConnAssumption DEF Lawful, Bounded
<1>8. Ahead(ex, q)
  <2> SUFFICES ASSUME NEW k \in DOMAIN ex, NEW i \in DOMAIN q, Names(q[i])
               PROVE  ex[k].cmd < q[i].cmd
    BY DEF Ahead
  <2>1. CASE i \in DOMAIN p /\ q[i] = p[i]
    BY <2>1 DEF Lawful, Ahead
  <2>2. CASE q[i].cmd = n + 1
    BY <1>7, <2>2
  <2> QED BY <1>4, <2>1, <2>2
<1>9. Bounded(ex, n + 1)
  BY <1>7 DEF Bounded
<1>10. Rising(ex)
  BY DEF Lawful
<1>11. Lawful(q, ex, n + 1)
  BY <1>5, <1>6, <1>8, <1>9, <1>10 DEF Lawful
<1> QED BY <1>11 DEF q, T

\* A command whose name was received and is now forgotten is executed before
\* all those that are still on the wire.
LEMMA LawfulExecuted ==
  ASSUME NEW p \in Seq(AllTokens), NEW ex \in Seq(Executed), NEW n \in Nat,
         Lawful(p, ex, n), NEW q, Within(q, p),
         NEW e \in Executed, NEW t \in DOMAIN p, Names(p[t]), e.cmd = p[t].cmd,
         Behind(q, p, t)
  PROVE  Lawful(q, Append(ex, e), n) /\ Append(ex, e) \in Seq(Executed)
<1> DEFINE all == Append(ex, e)
<1>1. Lawful(q, ex, n)
  BY LawfulWithin
<1>2. /\ all \in Seq(Executed) /\ Len(ex) \in Nat /\ DOMAIN ex = 1..Len(ex)
      /\ DOMAIN all = 1..Len(ex) + 1
      /\ \A i \in 1..Len(ex) : all[i] = ex[i]
      /\ all[Len(ex) + 1] = e
  OBVIOUS
<1> HIDE DEF all
<1>3. \A i \in DOMAIN all : \/ i \in DOMAIN ex /\ all[i] = ex[i]
                            \/ i = Len(ex) + 1 /\ all[i] = e
  BY <1>2
<1>4. Ahead(all, q)
  <2> SUFFICES ASSUME NEW k \in DOMAIN all, NEW i \in DOMAIN q, Names(q[i])
               PROVE  all[k].cmd < q[i].cmd
    BY DEF Ahead
  <2>1. CASE k \in DOMAIN ex /\ all[k] = ex[k]
    BY <1>1, <2>1 DEF Lawful, Ahead
  <2>2. CASE all[k] = e
    <3>1. PICK f \in [DOMAIN q -> DOMAIN p] :
            /\ \A x \in DOMAIN q : q[x] = p[f[x]]
            /\ \A x \in DOMAIN q : t < f[x]
      BY DEF Behind
    <3>2. q[i] = p[f[i]] /\ t < f[i] /\ f[i] \in DOMAIN p
      BY <3>1
    <3> QED BY <2>2, <3>2 DEF Lawful, InOrder
  <2> QED BY <1>3, <2>1, <2>2
<1>5. Rising(all)
  <2> SUFFICES ASSUME NEW i \in DOMAIN all, NEW j \in DOMAIN all, i < j
               PROVE  all[i].cmd < all[j].cmd
    BY DEF Rising
  <2>1. i \in DOMAIN ex /\ all[i] = ex[i]
    BY <1>2, <1>3
  <2>2. CASE j \in DOMAIN ex /\ all[j] = ex[j]
    BY <2>1, <2>2 DEF Lawful, Rising
  <2>3. CASE all[j] = e
    BY <2>1, <2>3 DEF Lawful, Ahead
  <2> QED BY <1>3, <2>2, <2>3
<1>6. Bounded(all, n)
  <2>1. e.cmd <= n
    BY DEF Lawful, Sent
  <2> QED BY <1>3, <2>1 DEF Lawful, Bounded
<1>7. Lawful(q, all, n)
  BY <1>1, <1>4, <1>5, <1>6 DEF Lawful
<1> QED BY <1>2, <1>7 DEF all

-----------------------------------------------------------------------------
(* The invariant. *)

AdminTypes ==
  /\ link \in [Conns -> Links]
  /\ left \in [Conns -> BOOLEAN]
  /\ cmds \in [Conns -> Seq([kind : Kinds, hasLength : BOOLEAN])]
  /\ wire \in [Conns -> Seq(AllTokens)]
  /\ buf  \in [Conns -> Seq(AllTokens)]
  /\ \A c \in Conns : Len(buf[c]) <= BufLen
  /\ http \in [Conns -> HttpTypes]
  /\ \A c \in Conns : Single(http[c].data)
  /\ answers  \in [Conns -> Seq({0, 100, 101})]
  /\ executed \in [Conns -> Seq(Executed)]
  /\ cutValue \in [Conns -> SUBSET (1..MaxCmd)]
  /\ piped \in [Conns -> BOOLEAN]
  /\ alive \in BOOLEAN

\* A value of the parser was opened by a token that is in the buffer.
Opened(data, b) == \A v \in data : v # <<>> /\ Names(v[1]) => v[1] \in Range(b)

\* Only what lies behind a full buffer makes a head of a text without a body.
HeadRead(h, b) == h.status = "head" => HasBody(b) \/ Len(b) = BufLen

Sound(b, w, h, ex, n) ==
  Lawful(b \o w, ex, n) /\ Opened(h.data, b) /\ HeadRead(h, b)

AdminInv ==
  AdminTypes /\ \A c \in Conns : Sound(buf[c], wire[c], http[c], executed[c], Len(cmds[c]))

LEMMA FreshIs ==
  /\ FreshHttp \in HttpTypes /\ Single(FreshHttp.data)
  /\ \A h : ResetHttp(h) = FreshHttp
  /\ \A b : Opened(FreshHttp.data, b) /\ HeadRead(FreshHttp, b)
<1>1. FreshHttp \in HttpTypes /\ FreshHttp.data = {} /\ FreshHttp.status = "init"
  BY DEF FreshHttp, HttpTypes
<1> QED BY <1>1 DEF ResetHttp, Single, Opened, HeadRead

\* The parser on what a recv has left in the buffer, and what lies behind it.
LEMMA Parsed ==
  ASSUME NEW b \in Seq(AllTokens), NEW h \in HttpTypes, Single(h.data),
         Opened(h.data, b), HeadRead(h, b), NEW got \in Seq(AllTokens), got # <<>>,
         Len(b) + Len(got) <= BufLen,
         NEW tail \in {<<>>} \cup {<<j>> : j \in Junk},
         tail # <<>> => Len(b \o got) = BufLen
  PROVE  LET r == ParseDone(h, (b \o got) \o tail)
         IN  /\ r \in DoneTypes /\ Single(r.data)
             /\ r.status # "done" => r \in HttpTypes
             /\ Opened(r.data, b \o got) /\ HeadRead(r, b \o got)
<1> DEFINE s == b \o got
           t == s \o tail
           r == ParseDone(h, t)
<1>1. /\ s \in Seq(AllTokens) /\ Len(b) \in Nat /\ Len(got) \in Nat /\ Len(got) > 0
      /\ Len(s) = Len(b) + Len(got) /\ DOMAIN s = 1..Len(b) + Len(got)
      /\ DOMAIN b = 1..Len(b)
      /\ \A i \in 1..Len(b) : s[i] = b[i]
  <2>1. Len(got) \in Nat /\ Len(got) > 0
    OBVIOUS
  <2> QED BY <2>1, Joined
<1>2. AllTokens \subseteq Seen /\ Junk \subseteq Seen
  BY DEF Seen
<1>3. tail \in Seq(Junk)
  <2>1. CASE tail = <<>>
    BY <2>1
  <2>2. ASSUME NEW j \in Junk PROVE <<j>> \in Seq(Junk)
    OBVIOUS
  <2> QED BY <2>1, <2>2
<1>4. b \in Seq(Seen) /\ got \in Seq(Seen) /\ s \in Seq(Seen) /\ tail \in Seq(Seen)
  <2> HIDE DEF s
  <2> QED BY <1>1, <1>2, <1>3
<1>5. h.status = "head" => HasBody(t)
  <2> SUFFICES ASSUME h.status = "head" PROVE HasBody(t)
    OBVIOUS
  <2>1. HasBody(b)
    <3>1. BufLen \in Nat
      BY AdminConnAssumption
    <3>3. Len(b) \in Nat /\ Len(got) \in Nat /\ Len(got) > 0 /\ Len(b) + Len(got) <= BufLen
      BY <1>1
    <3>2. Len(b) # BufLen
      BY ONLY <3>1, <3>3
    <3> QED BY <3>2 DEF HeadRead
  <2>2. HasBody(s)
    BY <1>4, <2>1, BodyStays
  <2> HIDE DEF s
  <2> QED BY <1>4, <2>2, BodyStays
<1>6. t \in Seq(Seen) /\ \A x \in Range(t) : x \in Range(s) \/ x \in Junk
  <2> HIDE DEF s
  <2>1. /\ t \in Seq(Seen) /\ Len(s) \in Nat /\ Len(tail) \in Nat
        /\ DOMAIN s = 1..Len(s) /\ DOMAIN tail = 1..Len(tail)
        /\ DOMAIN t = 1..Len(s) + Len(tail)
        /\ \A i \in 1..Len(s) : t[i] = s[i]
        /\ \A i \in 1..Len(tail) : t[Len(s) + i] = tail[i]
    BY <1>4, Joined
  <2> HIDE DEF t
  <2>2. ASSUME NEW i \in DOMAIN t PROVE t[i] \in Range(s) \/ t[i] \in Junk
    <3>1. CASE i <= Len(s)
      <4>1. i \in DOMAIN s /\ t[i] = s[i]
        BY <2>1, <3>1
      <4> QED BY <4>1 DEF Range
    <3>2. CASE ~ (i <= Len(s))
      <4>1. i - Len(s) \in 1..Len(tail) /\ i = Len(s) + (i - Len(s))
        BY <2>1, <3>2
      <4>2. PICK k \in 1..Len(tail) : i = Len(s) + k
        BY <4>1
      <4>3. t[i] = tail[k] /\ k \in DOMAIN tail
        BY <2>1, <4>2
      <4> QED BY <1>3, <4>3
    <3> QED BY <3>1, <3>2
  <2> QED BY <2>1, <2>2 DEF Range
<1>7. /\ r \in DoneTypes /\ Single(r.data)
      /\ r.status # "init" => HasBody(t)
      /\ r.status # "done" => r \in HttpTypes
      /\ \A v \in r.data : v \in h.data \/ (v # <<>> => v[1] \in Range(t))
  <2> HIDE DEF t
  <2> QED BY <1>5, <1>6, ParseSound
<1> HIDE DEF r
<1>8. Opened(r.data, s)
  <2> SUFFICES ASSUME NEW v \in r.data, v # <<>>, Names(v[1]) PROVE v[1] \in Range(s)
    BY DEF Opened
  <2>1. CASE v \in h.data
    <3>1. v[1] \in Range(b)
      BY <2>1 DEF Opened
    <3>2. Range(b) \subseteq Range(s)
      <4> HIDE DEF s
      <4> QED BY <1>1 DEF Range
    <3> QED BY <3>1, <3>2
  <2>2. CASE v[1] \in Range(t)
    <3>1. v[1] \notin Junk
      BY DEF Names, Junk
    <3> HIDE DEF s, t
    <3> QED BY <1>6, <2>2, <3>1
  <2> HIDE DEF s, t
  <2> QED BY <1>7, <2>1, <2>2
<1>9. HeadRead(r, s)
  <2> SUFFICES ASSUME r.status = "head" PROVE HasBody(s) \/ Len(s) = BufLen
    BY DEF HeadRead
  <2>1. HasBody(t)
    BY <1>7
  <2>2. CASE tail = <<>>
    <3> HIDE DEF s
    <3>1. t = s
      BY <1>4, <2>2
    <3> QED BY <2>1, <3>1
  <2>3. CASE tail # <<>>
    BY <2>3
  <2> QED BY <2>2, <2>3
<1> QED BY <1>7, <1>8, <1>9 DEF r, s, t

\* What the policy makes of a value: a ret_code, or the end of the process; and
\* for an accepted one a single entry for Path_Manager, under its own name.
LEMMA Policy ==
  ASSUME NEW c, cmds[c] \in Seq([kind : Kinds, hasLength : BOOLEAN]),
         NEW data \in SUBSET Seq(Seen), Single(data),
         \A v \in data : v # <<>> /\ Names(v[1]) => v[1].cmd \in DOMAIN cmds[c]
  PROVE  /\ GetOutJson(c, data) \in {0, 100, 101, Throws}
         /\ GetOutJson(c, data) = 0 =>
              \E v \in data : /\ v # <<>> /\ Names(v[1])
                              /\ Effects(0, data) = {[cmd |-> v[1].cmd, close |-> CloseNum(v)]}
                              /\ CloseNum(v) \in Nat
         /\ \A ret : ret # 0 => Effects(ret, data) = {}
<1>1. CASE ~ \E v \in data : Usable(v)
  BY <1>1 DEF GetOutJson, Effects
<1>2. CASE \E v \in data : Usable(v)
  <2>1. PICK v \in data : Usable(v)
    BY <1>2
  <2>2. data = {v}
    BY DEF Single
  <2>3. v # <<>> /\ Names(v[1])
    BY <2>1 DEF Usable, Names
  <2>4. (CHOOSE x \in data : TRUE) = v
    BY <2>2
  <2>5. v[1].cmd \in DOMAIN cmds[c]
    BY <2>3
  <2>6. cmds[c][v[1].cmd].kind \in {"valid", "bad", "sample"}
    <3> DEFINE sent == cmds[c]
               at == v[1].cmd
    <3>2. sent \in Seq([kind : Kinds, hasLength : BOOLEAN]) /\ at \in DOMAIN sent
      BY <2>5
    <3>3. sent[at] \in [kind : Kinds, hasLength : BOOLEAN]
      <4> HIDE DEF sent, at
      <4> QED BY <3>2, Item
    <3>1. cmds[c][v[1].cmd] \in [kind : Kinds, hasLength : BOOLEAN]
      BY <3>3
    <3> QED BY <3>1, AdminConnAssumption
  <2>7. GetOutJson(c, data) =
          CASE cmds[c][v[1].cmd].kind = "valid"  -> 0
            [] cmds[c][v[1].cmd].kind = "bad"    -> 101
            [] cmds[c][v[1].cmd].kind = "sample" -> Throws
    BY <1>2, <2>4 DEF GetOutJson
  <2>8. GetOutJson(c, data) \in {0, 100, 101, Throws}
    BY <2>6, <2>7
  <2>9. CloseNum(v) \in Nat
    <3>1. Len(v) \in Nat
      OBVIOUS
    <3>2. IsFiniteSet(2..Len(v))
      BY <3>1, FS_Interval
    <3> DEFINE T == {i \in 2..Len(v) : \A j \in 2..i : v[j].part = "digit"}
    <3>3. T \in SUBSET (2..Len(v))
      OBVIOUS
    <3> HIDE DEF T
    <3>4. Cardinality(T) \in Nat
      BY <3>2, <3>3, FS_Subset, FS_CardinalityType
    <3> QED BY <3>4 DEF T, CloseNum
  <2>10. Effects(0, data) = {[cmd |-> v[1].cmd, close |-> CloseNum(v)]}
    BY <2>2 DEF Effects
  <2> QED BY <2>3, <2>8, <2>9, <2>10 DEF Effects
<1> QED BY <1>1, <1>2

LEMMA OneToSeq ==
  ASSUME NEW S, NEW ex \in Seq(S)
  PROVE  /\ ex \o SetToSeq({}) = ex
         /\ \A e \in S : ex \o SetToSeq({e}) = Append(ex, e)
<1>1. ex \o SetToSeq({}) = ex
  <2> DEFINE f == SetToSeq({})
             none == [x \in 1..0 |-> 0]
  <2>1. Cardinality({}) = 0
    BY FS_EmptySet
  <2>2. none \in [1..0 -> {}] /\ IsInjective(none)
    BY DEF IsInjective
  <2> HIDE DEF none
  <2>3. f \in [1..0 -> {}]
    BY <2>1, <2>2 DEF SetToSeq
  <2> HIDE DEF f
  <2>4. f \in Seq({}) /\ Len(f) = 0
    BY <2>3, Sequence
  <2>5. f = <<>>
    BY <2>4
  <2>6. ex \o f = ex
    BY <2>5
  <2> QED BY <2>6 DEF f
<1>2. ASSUME NEW e \in S PROVE ex \o SetToSeq({e}) = Append(ex, e)
  <2> DEFINE f == SetToSeq({e})
             one == [x \in 1..1 |-> e]
  <2>1. Cardinality({e}) = 1
    BY FS_Singleton
  <2>2. one \in [1..1 -> {e}] /\ IsInjective(one)
    BY DEF IsInjective
  <2> HIDE DEF one
  <2>3. f \in [1..1 -> {e}]
    BY <2>1, <2>2 DEF SetToSeq
  <2> HIDE DEF f
  <2>4. f \in Seq({e}) /\ Len(f) = 1 /\ f[1] = e
    <3>1. f[1] \in {e}
      BY <2>3
    <3>2. f \in Seq({e}) /\ Len(f) = 1
      BY <2>3, Sequence
    <3> QED BY <3>1, <3>2
  <2>5. f = <<e>>
    BY <2>4
  <2>6. ex \o f = Append(ex, e)
    BY <2>5
  <2> QED BY <2>6 DEF f
<1> QED BY <1>1, <1>2

LEMMA InitAdmin == Init => AdminInv
<1> SUFFICES ASSUME Init PROVE AdminInv
  OBVIOUS
<1>1. AdminTypes
  <2>1. \A S : <<>> \in Seq(S)
    OBVIOUS
  <2>2. Len(<<>>) = 0 /\ BufLen \in Nat
    BY AdminConnAssumption
  <2> QED BY <2>1, <2>2, FreshIs DEF Init, AdminTypes, Links
<1>2. ASSUME NEW c \in Conns
      PROVE  Sound(buf[c], wire[c], http[c], executed[c], Len(cmds[c]))
  <2>1. /\ buf[c] = <<>> /\ wire[c] = <<>> /\ http[c] = FreshHttp /\ executed[c] = <<>>
        /\ cmds[c] = <<>>
    BY DEF Init
  <2>2. DOMAIN (<<>> \o <<>>) = {} /\ DOMAIN <<>> = {}
    OBVIOUS
  <2>3. Lawful(<<>> \o <<>>, <<>>, 0)
    BY <2>2 DEF Lawful, InOrder, Sent, Ahead, Rising, Bounded
  <2>4. Len(<<>>) = 0
    OBVIOUS
  <2> QED BY <2>1, <2>3, <2>4, FreshIs DEF Sound
<1> QED BY <1>1, <1>2 DEF AdminInv

\* A connection that was closed has nothing left that could be wrong.
LEMMA SoundClosed ==
  ASSUME NEW p, NEW ex, NEW n, Lawful(p, ex, n)
  PROVE  Sound(<<>>, <<>>, FreshHttp, ex, n)
<1>1. DOMAIN (<<>> \o <<>>) = {}
  OBVIOUS
<1>2. Lawful(<<>> \o <<>>, ex, n)
  BY <1>1 DEF Lawful, InOrder, Sent, Ahead, Rising, Bounded
<1> QED BY <1>2, FreshIs DEF Sound

LEMMA StepClose ==
  ASSUME AdminInv, NEW c \in Conns, CloseConn(c), Discard(c),
         UNCHANGED <<clientVars, answers, executed, cutValue, alive>>
  PROVE  AdminInv'
<1>1. AdminTypes'
  <2>1. \A S : <<>> \in Seq(S)
    OBVIOUS
  <2>2. Len(<<>>) = 0 /\ BufLen \in Nat
    BY AdminConnAssumption
  <2>3. AdminTypes
    BY DEF AdminInv
  <2>4. UNCHANGED <<left, cmds, piped, answers, executed, cutValue, alive>>
    BY DEF clientVars
  <2>5. /\ link' = [link EXCEPT ![c] = "closed"] /\ buf' = [buf EXCEPT ![c] = <<>>]
        /\ wire' = [wire EXCEPT ![c] = <<>>] /\ http' = [http EXCEPT ![c] = FreshHttp]
    BY DEF CloseConn, Discard
  <2>6. link' \in [Conns -> Links]
    BY <2>3, <2>5 DEF AdminTypes, Links
  <2>7. /\ wire' \in [Conns -> Seq(AllTokens)] /\ buf' \in [Conns -> Seq(AllTokens)]
        /\ \A d \in Conns : Len(buf'[d]) <= BufLen
    BY <2>1, <2>2, <2>3, <2>5 DEF AdminTypes
  <2>8. http' \in [Conns -> HttpTypes] /\ \A d \in Conns : Single(http'[d].data)
    <3>1. FreshHttp \in HttpTypes /\ Single(FreshHttp.data)
      BY FreshIs
    <3>2. http \in [Conns -> HttpTypes] /\ \A d \in Conns : Single(http[d].data)
      BY <2>3 DEF AdminTypes
    <3>3. \A d \in Conns : http'[d] = (IF d = c THEN FreshHttp ELSE http[d])
      BY <2>5, <3>2
    <3>4. http' \in [Conns -> HttpTypes]
      BY <2>5, <3>1, <3>2
    <3> QED BY <3>1, <3>2, <3>3, <3>4
  <2> QED BY <2>3, <2>4, <2>6, <2>7, <2>8 DEF AdminTypes
<1>2. ASSUME NEW d \in Conns
      PROVE  Sound(buf'[d], wire'[d], http'[d], executed'[d], Len(cmds'[d]))
  <2>1. Sound(buf[d], wire[d], http[d], executed[d], Len(cmds[d]))
    BY DEF AdminInv
  <2>2. executed' = executed /\ cmds' = cmds
    BY DEF clientVars
  <2>3. CASE d = c
    <3>1. buf'[c] = <<>> /\ wire'[c] = <<>> /\ http'[c] = FreshHttp
      BY DEF CloseConn, Discard, AdminInv, AdminTypes
    <3>2. Lawful(buf[c] \o wire[c], executed[c], Len(cmds[c]))
      BY <2>1, <2>3 DEF Sound
    <3> QED BY <2>2, <2>3, <3>1, <3>2, SoundClosed
  <2>4. CASE d # c
    <3>1. buf'[d] = buf[d] /\ wire'[d] = wire[d] /\ http'[d] = http[d]
      BY <2>4 DEF CloseConn, Discard, AdminInv, AdminTypes
    <3> QED BY <2>1, <2>2, <3>1
  <2> QED BY <2>3, <2>4
<1> QED BY <1>1, <1>2 DEF AdminInv

LEMMA StepLink ==
  ASSUME AdminInv, link' \in [Conns -> Links],
         left' \in [Conns -> BOOLEAN],
         UNCHANGED <<wire, cmds, piped, serverVars, alive>>
  PROVE  AdminInv'
<1>1. AdminTypes'
  BY DEF AdminInv, AdminTypes, serverVars
<1> QED BY <1>1 DEF AdminInv, serverVars

LEMMA StepSend ==
  ASSUME AdminInv, NEW c \in Conns, ClientSends(c)
  PROVE  AdminInv'
<1> DEFINE n == Len(cmds[c])
<1>1. PICK kind \in Kinds : \E hasLength \in BOOLEAN :
       /\ cmds' = [cmds EXCEPT ![c] = Append(cmds[c], [kind |-> kind, hasLength |-> hasLength])]
       /\ wire' = [wire EXCEPT ![c] = wire[c] \o Tokens(n + 1, hasLength)]
  BY DEF ClientSends
<1>2. PICK hasLength \in BOOLEAN :
       /\ cmds' = [cmds EXCEPT ![c] = Append(cmds[c], [kind |-> kind, hasLength |-> hasLength])]
       /\ wire' = [wire EXCEPT ![c] = wire[c] \o Tokens(n + 1, hasLength)]
  BY <1>1
<1> DEFINE T == Tokens(n + 1, hasLength)
           item == [kind |-> kind, hasLength |-> hasLength]
<1>3. AdminTypes /\ \A d \in Conns : Sound(buf[d], wire[d], http[d], executed[d], Len(cmds[d]))
  BY DEF AdminInv
<1>4. /\ cmds[c] \in Seq([kind : Kinds, hasLength : BOOLEAN])
      /\ wire[c] \in Seq(AllTokens) /\ buf[c] \in Seq(AllTokens)
      /\ executed[c] \in Seq(Executed)
  BY <1>3 DEF AdminTypes
<1>5. item \in [kind : Kinds, hasLength : BOOLEAN]
  OBVIOUS
<1>6. n \in Nat /\ n < MaxCmd /\ n + 1 \in 1..MaxCmd
  <2>1. n \in Nat
    BY <1>4
  <2>2. n < MaxCmd
    BY DEF ClientSends
  <2> QED BY <2>1, <2>2, AdminConnAssumption
<1>7. /\ Append(cmds[c], item) \in Seq([kind : Kinds, hasLength : BOOLEAN])
      /\ Len(Append(cmds[c], item)) = n + 1
  <2> HIDE DEF item
  <2> QED BY <1>4, <1>5
<1>8. T \in Seq(AllTokens)
  BY <1>6, TokensAre
<1>9. wire[c] \o T \in Seq(AllTokens)
  <2> HIDE DEF T
  <2> QED BY <1>4, <1>8
<1>10. cmds' = [cmds EXCEPT ![c] = Append(cmds[c], item)] /\ wire' = [wire EXCEPT ![c] = wire[c] \o T]
  BY <1>2
<1>11. UNCHANGED <<link, left, serverVars, alive>>
       /\ piped' \in [Conns -> BOOLEAN]
  <2>1. piped' = [piped EXCEPT ![c] = piped[c] \/ Len(answers[c]) < Len(cmds[c])]
    BY DEF ClientSends
  <2>2. (piped[c] \/ Len(answers[c]) < Len(cmds[c])) \in BOOLEAN
    OBVIOUS
  <2>3. piped \in [Conns -> BOOLEAN]
    BY <1>3 DEF AdminTypes
  <2>4. piped' \in [Conns -> BOOLEAN]
    BY <2>1, <2>2, <2>3
  <2> QED BY <2>4 DEF ClientSends
<1>12. AdminTypes'
  <2> HIDE DEF T, item, n
  <2> QED BY <1>3, <1>7, <1>9, <1>10, <1>11 DEF AdminTypes, serverVars
<1>13. ASSUME NEW d \in Conns
       PROVE  Sound(buf'[d], wire'[d], http'[d], executed'[d], Len(cmds'[d]))
  <2>1. buf' = buf /\ http' = http /\ executed' = executed
    BY <1>11 DEF serverVars
  <2>2. CASE d = c
    <3>1. wire'[c] = wire[c] \o T /\ Len(cmds'[c]) = n + 1
      <4> HIDE DEF T, item, n
      <4> QED BY <1>3, <1>7, <1>10 DEF AdminTypes
    <3>2. Lawful(buf[c] \o wire[c], executed[c], n)
      BY <1>3 DEF Sound
    <3>3. buf[c] \o wire[c] \in Seq(AllTokens)
      BY <1>4
    <3>4. Lawful((buf[c] \o wire[c]) \o T, executed[c], n + 1)
      <4> DEFINE p == buf[c] \o wire[c]
      <4>1. p \in Seq(AllTokens) /\ Lawful(p, executed[c], n)
        BY <3>2, <3>3
      <4> HIDE DEF p, n
      <4>2. Lawful(p \o Tokens(n + 1, hasLength), executed[c], n + 1)
        BY <1>4, <1>6, <4>1, LawfulSent
      <4> QED BY <4>2 DEF p, n
    <3>5. (buf[c] \o wire[c]) \o T = buf[c] \o (wire[c] \o T)
      <4> HIDE DEF T
      <4>1. buf[c] \in Seq(AllTokens) /\ wire[c] \in Seq(AllTokens) /\ T \in Seq(AllTokens)
        BY <1>4, <1>8
      <4>2. \A x, y, z \in Seq(AllTokens) : (x \o y) \o z = x \o (y \o z)
        BY ConcatAssociative
      <4>3. \A x, y \in Seq(AllTokens) : (x \o y) \o T = x \o (y \o T)
        BY <4>1, <4>2
      <4> QED BY <4>1, <4>3, Zenon
    <3>6. Lawful(buf[c] \o (wire[c] \o T), executed[c], n + 1)
      BY <3>4, <3>5
    <3>7. Opened(http[c].data, buf[c]) /\ HeadRead(http[c], buf[c])
      BY <1>3 DEF Sound
    <3> HIDE DEF T, n
    <3> QED BY <2>1, <2>2, <3>1, <3>6, <3>7 DEF Sound
  <2>3. CASE d # c
    <3>1. wire'[d] = wire[d] /\ cmds'[d] = cmds[d]
      <4> HIDE DEF T, item
      <4> QED BY <1>3, <1>10, <2>3 DEF AdminTypes
    <3> QED BY <1>3, <2>1, <3>1
  <2> QED BY <2>2, <2>3
<1> QED BY <1>12, <1>13 DEF AdminInv

\* What a recv leaves behind, one part at a time.
LEMMA StepPoint ==
  ASSUME AdminInv, NEW c \in Conns,
         NEW b \in Seq(AllTokens), Len(b) <= BufLen, NEW w \in Seq(AllTokens),
         NEW h \in HttpTypes, Single(h.data), NEW ex \in Seq(Executed),
         Sound(b, w, h, ex, Len(cmds[c])),
         buf' = [buf EXCEPT ![c] = b], wire' = [wire EXCEPT ![c] = w],
         http' = [http EXCEPT ![c] = h], executed' = [executed EXCEPT ![c] = ex],
         link' \in [Conns -> Links],
         answers' \in [Conns -> Seq({0, 100, 101})],
         cutValue' \in [Conns -> SUBSET (1..MaxCmd)], alive' \in BOOLEAN,
         UNCHANGED clientVars
  PROVE  AdminInv'
<1>1. AdminTypes /\ \A d \in Conns : Sound(buf[d], wire[d], http[d], executed[d], Len(cmds[d]))
  BY DEF AdminInv
<1>2. UNCHANGED <<left, cmds, piped>>
  BY DEF clientVars
<1>3. ASSUME NEW d \in Conns
      PROVE  /\ buf'[d] = (IF d = c THEN b ELSE buf[d])
             /\ wire'[d] = (IF d = c THEN w ELSE wire[d])
             /\ http'[d] = (IF d = c THEN h ELSE http[d])
             /\ executed'[d] = (IF d = c THEN ex ELSE executed[d])
  BY <1>1 DEF AdminTypes
<1>4. /\ buf' \in [Conns -> Seq(AllTokens)] /\ wire' \in [Conns -> Seq(AllTokens)]
      /\ \A d \in Conns : Len(buf'[d]) <= BufLen
  BY <1>1, <1>3 DEF AdminTypes
<1>5. http' \in [Conns -> HttpTypes] /\ \A d \in Conns : Single(http'[d].data)
  BY <1>1, <1>3 DEF AdminTypes
<1>6. executed' \in [Conns -> Seq(Executed)]
  BY <1>1, <1>3 DEF AdminTypes
<1>7. AdminTypes'
  BY <1>1, <1>2, <1>4, <1>5, <1>6 DEF AdminTypes
<1>8. ASSUME NEW d \in Conns
      PROVE  Sound(buf'[d], wire'[d], http'[d], executed'[d], Len(cmds'[d]))
  <2>1. CASE d = c
    BY <1>2, <1>3, <2>1
  <2>2. CASE d # c
    BY <1>1, <1>2, <1>3, <2>2
  <2> QED BY <2>1, <2>2
<1> QED BY <1>7, <1>8 DEF AdminInv

LEMMA StepRecv ==
  ASSUME AdminInv, NEW c \in Conns, RecvSome(c)
  PROVE  AdminInv'
<1> DEFINE b == buf[c]
           w == wire[c]
           ex == executed[c]
           sent == Len(cmds[c])
<1>1. AdminTypes /\ Sound(b, w, http[c], ex, sent)
  BY DEF AdminInv
<1>2. /\ b \in Seq(AllTokens) /\ w \in Seq(AllTokens) /\ http[c] \in HttpTypes
      /\ Single(http[c].data) /\ ex \in Seq(Executed) /\ Len(b) <= BufLen
      /\ cmds[c] \in Seq([kind : Kinds, hasLength : BOOLEAN]) /\ sent \in Nat
      /\ DOMAIN cmds[c] = 1..sent
  <2>1. /\ b \in Seq(AllTokens) /\ w \in Seq(AllTokens) /\ http[c] \in HttpTypes
        /\ Single(http[c].data) /\ ex \in Seq(Executed) /\ Len(b) <= BufLen
    BY <1>1 DEF AdminTypes
  <2> DEFINE all == cmds[c]
  <2>2. all \in Seq([kind : Kinds, hasLength : BOOLEAN])
    BY <1>1 DEF AdminTypes
  <2>3. Len(all) \in Nat /\ DOMAIN all = 1..Len(all)
    <3> HIDE DEF all
    <3> QED BY <2>2
  <2> QED BY <2>1, <2>2, <2>3
<1>3. UNCHANGED clientVars
  BY DEF RecvSome
<1>4. PICK n \in 1..Len(w) :
        LET filled == b \o SubSeq(w, 1, n)
            last   == w[n]
        IN  /\ n <= Room(c)
            /\ wire' = [wire EXCEPT ![c] = SubSeq(w, n+1, Len(w))]
            /\ cutValue' = IF last.part \in {"eq", "fields", "digit"}
                           THEN [cutValue EXCEPT ![c] = cutValue[c] \cup {last.cmd}]
                           ELSE cutValue
            /\ \E tail \in {<<>>} \cup {<<j>> : j \in Junk} :
                 LET h == ParseDone(http[c], filled \o tail)
                 IN  /\ tail # <<>> => Len(filled) = BufLen
                     /\ \/ /\ h.status # "done"
                           /\ buf'  = [buf EXCEPT ![c] = filled]
                           /\ http' = [http EXCEPT ![c] = h]
                           /\ UNCHANGED <<link, answers, executed, alive>>
                        \/ /\ h.status = "done"
                           /\ DoOneAction(c, h)
  BY DEF RecvSome
<1> DEFINE got == SubSeq(w, 1, n)
           rest == SubSeq(w, n + 1, Len(w))
           filled == b \o got
<1>5. PICK tail \in {<<>>} \cup {<<j>> : j \in Junk} :
        LET h == ParseDone(http[c], filled \o tail)
        IN  /\ tail # <<>> => Len(filled) = BufLen
            /\ \/ /\ h.status # "done"
                  /\ buf'  = [buf EXCEPT ![c] = filled]
                  /\ http' = [http EXCEPT ![c] = h]
                  /\ UNCHANGED <<link, answers, executed, alive>>
               \/ /\ h.status = "done"
                  /\ DoOneAction(c, h)
  BY <1>4
<1> DEFINE h == ParseDone(http[c], filled \o tail)
<1>6. wire' = [wire EXCEPT ![c] = rest] /\ n <= BufLen - Len(b)
  BY <1>4 DEF Room
<1>7. cutValue' \in [Conns -> SUBSET (1..MaxCmd)]
  <2>1. w[n] \in AllTokens
    BY <1>2
  <2>2. w[n].cmd \in 1..MaxCmd
    BY <2>1 DEF AllTokens
  <2> DEFINE at == w[n].cmd
  <2>3. at \in 1..MaxCmd
    BY <2>2
  <2>4. cutValue' = cutValue \/ cutValue' = [cutValue EXCEPT ![c] = cutValue[c] \cup {at}]
    BY <1>4
  <2>5. cutValue \in [Conns -> SUBSET (1..MaxCmd)]
    BY <1>1 DEF AdminTypes
  <2> HIDE DEF at
  <2> QED BY <2>3, <2>4, <2>5
<1>8. /\ tail # <<>> => Len(filled) = BufLen
      /\ \/ /\ h.status # "done"
            /\ buf'  = [buf EXCEPT ![c] = filled]
            /\ http' = [http EXCEPT ![c] = h]
            /\ UNCHANGED <<link, answers, executed, alive>>
         \/ /\ h.status = "done"
            /\ DoOneAction(c, h)
  BY <1>5
<1>9. /\ got \in Seq(AllTokens) /\ rest \in Seq(AllTokens) /\ Len(got) = n /\ n \in Nat /\ n > 0
      /\ Len(b) \in Nat
  <2>1. got \in Seq(AllTokens) /\ rest \in Seq(AllTokens) /\ Len(got) = n
    BY <1>2, Taken
  <2> QED BY <1>2, <2>1
<1>10. /\ Within(filled \o rest, b \o w) /\ Within(<<>> \o rest, b \o w)
       /\ Within(b \o rest, b \o w)
       /\ Behind(<<>> \o rest, b \o w, Len(b) + n)
       /\ \A t \in 1..Len(b) + n : t \in DOMAIN (b \o w) /\ filled[t] = (b \o w)[t]
  <2>1. b \in Seq(AllTokens) /\ w \in Seq(AllTokens) /\ n \in 1..Len(w)
    BY <1>2
  <2> HIDE DEF b, w
  <2>2. LET r == SubSeq(w, n + 1, Len(w))
        IN  /\ Within((b \o SubSeq(w, 1, n)) \o r, b \o w)
            /\ Within(<<>> \o r, b \o w)
            /\ Within(b \o r, b \o w)
            /\ Behind(<<>> \o r, b \o w, Len(b) + n)
            /\ \A t \in 1..Len(b) + n :
                 t \in DOMAIN (b \o w) /\ (b \o SubSeq(w, 1, n))[t] = (b \o w)[t]
    BY ONLY <2>1, StreamAfterRecv
  <2> QED BY ONLY <2>2, Zenon DEF filled, got, rest
<1>11. Lawful(b \o w, ex, sent) /\ Opened(http[c].data, b) /\ HeadRead(http[c], b)
  BY <1>1 DEF Sound
<1>12. filled \in Seq(AllTokens) /\ Len(filled) = Len(b) + n /\ Len(filled) <= BufLen
       /\ DOMAIN filled = 1..Len(b) + n
  <2>1. /\ filled \in Seq(AllTokens) /\ Len(filled) = Len(b) + Len(got)
        /\ DOMAIN filled = 1..Len(b) + Len(got)
    BY <1>2, <1>9, Joined
  <2>2. Len(b) + n <= BufLen
    BY <1>6, <1>9, AdminConnAssumption
  <2> HIDE DEF filled, got
  <2> QED BY <1>9, <2>1, <2>2
<1> HIDE DEF rest
<1>13. /\ h \in DoneTypes /\ Single(h.data) /\ (h.status # "done" => h \in HttpTypes)
       /\ Opened(h.data, filled) /\ HeadRead(h, filled)
  <2>1. Len(b) + Len(got) <= BufLen /\ got # <<>>
    <3> HIDE DEF got, filled
    <3> QED BY <1>9, <1>12
  <2>2. tail # <<>> => Len(b \o got) = BufLen
    BY <1>8
  <2> DEFINE hc == http[c]
  <2>3. hc \in HttpTypes /\ Single(hc.data) /\ Opened(hc.data, b) /\ HeadRead(hc, b)
    BY <1>2, <1>11
  <2>4. b \in Seq(AllTokens) /\ got \in Seq(AllTokens)
    BY <1>2, <1>9
  <2> HIDE DEF hc, b, got
  <2>5. LET r == ParseDone(hc, (b \o got) \o tail)
        IN  /\ r \in DoneTypes /\ Single(r.data)
            /\ r.status # "done" => r \in HttpTypes
            /\ Opened(r.data, b \o got) /\ HeadRead(r, b \o got)
    BY <2>1, <2>2, <2>3, <2>4, Parsed
  <2> QED BY <2>5 DEF hc
<1> HIDE DEF h
<1>14. ASSUME h.status # "done", buf'  = [buf EXCEPT ![c] = filled],
              http' = [http EXCEPT ![c] = h], UNCHANGED <<link, answers, executed, alive>>
       PROVE  AdminInv'
  <2> HIDE DEF filled
  <2>1. Lawful(filled \o rest, ex, sent)
    BY <1>10, <1>11, LawfulWithin
  <2>2. Sound(filled, rest, h, ex, sent)
    BY <1>13, <2>1 DEF Sound
  <2>3. executed' = [executed EXCEPT ![c] = ex]
    BY <1>1, <1>14 DEF AdminTypes
  <2>4. /\ link' \in [Conns -> Links]
        /\ answers' \in [Conns -> Seq({0, 100, 101})] /\ alive' \in BOOLEAN
    BY <1>1, <1>14 DEF AdminTypes
  <2>5. h \in HttpTypes
    BY <1>13, <1>14
  <2> HIDE DEF sent, ex
  <2> QED BY <1>2, <1>3, <1>6, <1>7, <1>9, <1>12, <1>13, <1>14, <2>2, <2>3, <2>4, <2>5, StepPoint DEF sent
<1>15. ASSUME alive' = FALSE, UNCHANGED <<link, buf, http, answers, executed>>
       PROVE  AdminInv'
  <2> HIDE DEF filled
  <2>1. Lawful(b \o rest, ex, sent)
    BY <1>10, <1>11, LawfulWithin
  <2>2. Sound(b, rest, http[c], ex, sent)
    BY <1>11, <2>1 DEF Sound
  <2>3. /\ executed' = [executed EXCEPT ![c] = ex] /\ buf' = [buf EXCEPT ![c] = b]
        /\ http' = [http EXCEPT ![c] = http[c]]
    BY <1>1, <1>15 DEF AdminTypes
  <2>4. /\ link' \in [Conns -> Links]
        /\ answers' \in [Conns -> Seq({0, 100, 101})] /\ alive' \in BOOLEAN
    BY <1>1, <1>15 DEF AdminTypes
  <2> HIDE DEF sent, ex
  <2> QED BY <1>2, <1>3, <1>6, <1>7, <1>9, <1>12, <2>2, <2>3, <2>4, StepPoint DEF sent
<1> DEFINE ret == GetOutJson(c, h.data)
           done == ex \o SetToSeq(Effects(ret, h.data))
<1>16. /\ ret \in {0, 100, 101, Throws}
       /\ done \in Seq(Executed) /\ Lawful(<<>> \o rest, done, sent)
  <2>1. ASSUME NEW v \in h.data, v # <<>>, Names(v[1])
        PROVE  /\ v[1].cmd \in DOMAIN cmds[c] /\ v[1].cmd \in 1..MaxCmd
               /\ \E t \in 1..Len(b) + n : t \in DOMAIN (b \o w) /\ v[1] = (b \o w)[t]
    <3> HIDE DEF filled
    <3>1. v[1] \in Range(filled)
      BY <1>13, <2>1 DEF Opened
    <3>2. PICK t \in 1..Len(b) + n : v[1] = filled[t]
      BY <1>12, <3>1 DEF Range
    <3>3. t \in DOMAIN (b \o w) /\ v[1] = (b \o w)[t]
      BY <1>10, <3>2
    <3>4. v[1] \in AllTokens
      BY <1>12, <3>2, Item
    <3>5. v[1].cmd \in 1..MaxCmd
      BY <3>4 DEF AllTokens
    <3>6. v[1].cmd <= sent
      BY <1>11, <2>1, <3>3 DEF Lawful, Sent
    <3>7. v[1].cmd \in 1..sent
      BY <1>2, <3>5, <3>6, AdminConnAssumption
    <3> QED BY <1>2, <3>3, <3>5, <3>7
  <2>2. h.data \in SUBSET Seq(Seen)
    BY <1>13 DEF DoneTypes
  <2>3. /\ ret \in {0, 100, 101, Throws}
        /\ ret = 0 => \E v \in h.data :
             /\ v # <<>> /\ Names(v[1])
             /\ Effects(0, h.data) = {[cmd |-> v[1].cmd, close |-> CloseNum(v)]}
             /\ CloseNum(v) \in Nat
        /\ ret # 0 => Effects(ret, h.data) = {}
    BY <1>2, <1>13, <2>1, <2>2, Policy
  <2>4. Lawful(<<>> \o rest, ex, sent)
    BY <1>10, <1>11, LawfulWithin
  <2>5. CASE ret # 0
    <3>1. done = ex
      BY <1>2, <2>3, <2>5, OneToSeq
    <3> HIDE DEF done
    <3> QED BY <1>2, <2>3, <2>4, <3>1
  <2>6. CASE ret = 0
    <3>1. PICK v \in h.data :
             /\ v # <<>> /\ Names(v[1])
             /\ Effects(0, h.data) = {[cmd |-> v[1].cmd, close |-> CloseNum(v)]}
             /\ CloseNum(v) \in Nat
      BY <2>3, <2>6
    <3> DEFINE e == [cmd |-> v[1].cmd, close |-> CloseNum(v)]
    <3>2. PICK t \in 1..Len(b) + n : t \in DOMAIN (b \o w) /\ v[1] = (b \o w)[t]
      BY <2>1, <3>1
    <3>3. e \in Executed
      BY <2>1, <3>1 DEF Executed
    <3>4. done = Append(ex, e)
      <4>1. Effects(ret, h.data) = {e}
        BY <2>6, <3>1
      <4> HIDE DEF e
      <4>2. ex \o SetToSeq({e}) = Append(ex, e)
        BY <1>2, <3>3, OneToSeq
      <4> QED BY <4>1, <4>2
    <3>5. Behind(<<>> \o rest, b \o w, t)
      <4>1. PICK f \in [DOMAIN (<<>> \o rest) -> DOMAIN (b \o w)] :
              /\ \A i \in DOMAIN (<<>> \o rest) : (<<>> \o rest)[i] = (b \o w)[f[i]]
              /\ \A i \in DOMAIN (<<>> \o rest) : Len(b) + n < f[i]
        BY <1>10 DEF Behind
      <4>2. DOMAIN (b \o w) \subseteq Nat
        <5>1. b \o w \in Seq(AllTokens)
          BY <1>2
        <5> DEFINE p == b \o w
        <5>2. p \in Seq(AllTokens)
          BY <5>1
        <5> HIDE DEF p
        <5>3. DOMAIN p = 1..Len(p) /\ Len(p) \in Nat
          BY <5>2
        <5>4. DOMAIN p \subseteq Nat
          BY <5>3
        <5> QED BY <5>4 DEF p
      <4>3. ASSUME NEW i \in DOMAIN (<<>> \o rest) PROVE t < f[i]
        <5>1. f[i] \in Nat /\ Len(b) + n < f[i]
          BY <4>1, <4>2
        <5>2. Len(b) + n \in Nat
          BY <1>9
        <5> HIDE DEF b
        <5> QED BY <5>1, <5>2
      <4> QED BY <4>1, <4>3 DEF Behind
    <3>6. e.cmd = (b \o w)[t].cmd /\ Names((b \o w)[t])
      BY <3>1, <3>2
    <3>7. b \o w \in Seq(AllTokens)
      BY <1>2
    <3> HIDE DEF e, done
    <3> DEFINE p == b \o w
               q == <<>> \o rest
    <3>8. /\ p \in Seq(AllTokens) /\ Lawful(p, ex, sent) /\ Within(q, p)
          /\ t \in DOMAIN p /\ Names(p[t]) /\ e.cmd = p[t].cmd
          /\ Behind(q, p, t)
      BY <1>10, <1>11, <3>2, <3>5, <3>6, <3>7
    <3> HIDE DEF p, q, ex, sent
    <3>9. ex \in Seq(Executed) /\ sent \in Nat
      BY <1>2
    <3>10. Lawful(q, Append(ex, e), sent) /\ Append(ex, e) \in Seq(Executed)
      BY ONLY <3>3, <3>8, <3>9, LawfulExecuted
    <3> QED BY <2>3, <3>4, <3>10 DEF q
  <2> QED BY <2>5, <2>6
<1> HIDE DEF done, ret
<1>17. ASSUME executed' = [executed EXCEPT ![c] = done], SendData(c, h, ret), ret # Throws,
              UNCHANGED alive
       PROVE  AdminInv'
  <2> HIDE DEF filled, h
  <2>1. ret \in {0, 100, 101}
    BY <1>16, <1>17
  <2>2. /\ buf' = [buf EXCEPT ![c] = <<>>] /\ http' = [http EXCEPT ![c] = FreshHttp]
        /\ \/ answers' = [answers EXCEPT ![c] = Append(answers[c], ret)] /\ link' = link
           \/ answers' = answers /\ link' = [link EXCEPT ![c] = "closed"]
    BY <1>17, FreshIs DEF SendData, ResetConn, CloseConn
  <2>3. /\ link' \in [Conns -> Links]
        /\ answers' \in [Conns -> Seq({0, 100, 101})] /\ alive' \in BOOLEAN
    <3>1. answers[c] \in Seq({0, 100, 101})
      BY <1>1 DEF AdminTypes
    <3>2. Append(answers[c], ret) \in Seq({0, 100, 101})
      BY <2>1, <3>1
    <3> QED BY <1>1, <1>17, <2>2, <3>2 DEF AdminTypes, Links
  <2>4. Sound(<<>>, rest, FreshHttp, done, sent)
    BY <1>16, FreshIs DEF Sound
  <2>5. <<>> \in Seq(AllTokens) /\ Len(<<>>) <= BufLen
    BY AdminConnAssumption
  <2>6. FreshHttp \in HttpTypes /\ Single(FreshHttp.data)
    BY FreshIs
  <2> QED BY <1>3, <1>6, <1>7, <1>9, <1>16, <1>17, <2>2, <2>3, <2>4, <2>5, <2>6, StepPoint DEF sent
<1>18. CASE h.status = "done" /\ DoOneAction(c, h)
  BY <1>15, <1>17, <1>18 DEF DoOneAction, ret, done
<1> QED BY <1>8, <1>14, <1>18

LEMMA StepAdmin == AdminInv /\ [Next]_vars => AdminInv'
<1> SUFFICES ASSUME AdminInv, [Next]_vars PROVE AdminInv'
  OBVIOUS
<1>0. link \in [Conns -> Links] /\ left \in [Conns -> BOOLEAN]
  BY DEF AdminInv, AdminTypes
<1>1. ASSUME NEW c \in Conns, ClientConnects(c) PROVE AdminInv'
  <2>1. link' = [link EXCEPT ![c] = "backlog"] /\ left' = left
        /\ UNCHANGED <<wire, cmds, piped, serverVars, alive>>
    BY <1>1 DEF ClientConnects, clientVars
  <2>2. link' \in [Conns -> Links] /\ left' \in [Conns -> BOOLEAN]
    BY <1>0, <2>1 DEF Links
  <2> QED BY <2>1, <2>2, StepLink
<1>2. ASSUME NEW c \in Conns, ClientSends(c) PROVE AdminInv'
  BY <1>2, StepSend
<1>3. ASSUME NEW c \in Conns, ClientCloses(c) PROVE AdminInv'
  <2>1. left' = [left EXCEPT ![c] = TRUE] /\ link' = link
        /\ UNCHANGED <<wire, cmds, piped, serverVars, alive>>
    BY <1>3 DEF ClientCloses
  <2>2. link' \in [Conns -> Links] /\ left' \in [Conns -> BOOLEAN]
    BY <1>0, <2>1
  <2> QED BY <2>1, <2>2, StepLink
<1>4. ASSUME NEW c \in Conns, UpdateAcceptListen(c) PROVE AdminInv'
  <2>1. ASSUME NEW end \in {"open", "orphaned"}, link' = [link EXCEPT ![c] = end],
               UNCHANGED <<wire, buf, http>>
        PROVE  AdminInv'
    <3>1. UNCHANGED <<left, wire, cmds, piped, serverVars, alive>>
      BY <1>4, <2>1 DEF UpdateAcceptListen, clientVars, serverVars
    <3>2. link' \in [Conns -> Links] /\ left' \in [Conns -> BOOLEAN]
      BY <1>0, <2>1, <3>1 DEF Links
    <3> QED BY <3>1, <3>2, StepLink
  <2>2. CASE CloseConn(c) /\ Discard(c)
    BY <1>4, <2>2, StepClose DEF UpdateAcceptListen
  <2> QED BY <1>4, <2>1, <2>2 DEF UpdateAcceptListen
<1>5. ASSUME NEW c \in Conns, RecvData(c) PROVE AdminInv'
  <2>1. CASE RecvSome(c)
    BY <2>1, StepRecv
  <2>2. CASE RecvNothing(c)
    BY <2>2, StepClose DEF RecvNothing
  <2> QED BY <1>5, <2>1, <2>2 DEF RecvData
<1>6. ASSUME NEW c \in Conns, RecvTimeout(c) PROVE AdminInv'
  BY <1>6, StepClose DEF RecvTimeout
<1>7. CASE UNCHANGED vars
  <2>1. UNCHANGED <<link, left, cmds, wire, buf, http, answers, executed, cutValue, piped, alive>>
    BY <1>7 DEF vars, clientVars, serverVars
  <2>2. AdminTypes'
    BY <2>1 DEF AdminInv, AdminTypes
  <2> QED BY <2>1, <2>2 DEF AdminInv
<1>8. CASE Descriptors
  <2>1. link' = link /\ left' = left
        /\ UNCHANGED <<wire, cmds, piped, serverVars, alive>>
    BY <1>8 DEF Descriptors, clientVars
  <2> QED BY <1>0, <2>1, StepLink
<1> QED BY <1>1, <1>2, <1>3, <1>4, <1>5, <1>6, <1>7, <1>8 DEF Next

\* Nothing but Descriptors touches what accept finds.
FdsOK == noFds \in BOOLEAN
LEMMA FdsType == Spec => []FdsOK
<1>1. Init => FdsOK
  BY DEF Init, FdsOK
<1>2. FdsOK /\ [Next]_vars => FdsOK'
  <2> SUFFICES ASSUME noFds \in BOOLEAN, [Next]_vars PROVE noFds' \in BOOLEAN
    BY DEF FdsOK
  <2>1. CASE Descriptors
    BY <2>1 DEF Descriptors
  <2>2. ASSUME NEW c \in Conns,
               ClientConnects(c) \/ ClientSends(c) \/ ClientCloses(c)
                 \/ UpdateAcceptListen(c) \/ RecvData(c) \/ RecvTimeout(c)
        PROVE  noFds' = noFds
    BY <2>2 DEF ClientConnects, ClientSends, ClientCloses, UpdateAcceptListen, RecvData,
       RecvSome, RecvNothing, RecvTimeout
  <2>3. CASE UNCHANGED vars
    BY <2>3 DEF vars
  <2> QED BY <2>1, <2>2, <2>3 DEF Next
<1> QED BY <1>1, <1>2, PTL DEF Spec

LEMMA AdminInvariant == Spec => []AdminInv
<1> QED BY InitAdmin, StepAdmin, PTL DEF Spec

\* Type correctness for every number of clients and every size of the buffer:
\* the buffer is never overrun (main.cpp:97-110), body_map never holds two
\* values, and every ret_code is one of those get_out_json documents.
THEOREM AdminTypeCorrect == Spec => []TypeOK
<1>1. ASSUME AdminInv, FdsOK PROVE TypeOK
  <2>1. AdminTypes
    BY <1>1 DEF AdminInv
  <2>2. \A c \in Conns : Cardinality(http[c].data) <= 1
    <3> SUFFICES ASSUME NEW c \in Conns PROVE Cardinality(http[c].data) <= 1
      OBVIOUS
    <3> DEFINE data == http[c].data
    <3>1. \A x, y \in data : x = y
      BY <2>1 DEF AdminTypes, Single
    <3> HIDE DEF data
    <3>2. Cardinality(data) \in {0, 1}
      BY <3>1, AtMostOne
    <3>3. Cardinality(data) <= 1
      BY <3>2
    <3> QED BY <3>3 DEF data
  <2>3. http \in [Conns -> [status    : {"init", "head"},
                            hasLength : BOOLEAN,
                            data      : SUBSET Seq(AllTokens \cup Junk)]]
    BY <2>1 DEF AdminTypes, HttpTypes, Seen
  <2>4. executed \in [Conns -> Seq([cmd : 1..MaxCmd, close : Nat])]
    BY <2>1 DEF AdminTypes, Executed
  <2> QED BY <1>1, <2>1, <2>2, <2>3, <2>4 DEF AdminTypes, TypeOK, FdsOK
<1> QED BY <1>1, AdminInvariant, FdsType, PTL

\* However recv cuts the commands of any number of clients, whatever they send
\* ahead and however small the buffer is: no command changes Path_Manager
\* twice, and those of one connection do so in the order in which they were
\* sent (RecvData and reset, main.cpp:76-200).
THEOREM CommandOnceCorrect == Spec => []CommandOnce
<1>1. ASSUME AdminInv PROVE CommandOnce
  <2>1. \A c \in Conns : Rising(executed[c])
    BY <1>1 DEF AdminInv, Sound, Lawful
  <2> QED BY <2>1 DEF Rising, CommandOnce
<1> QED BY <1>1, AdminInvariant, PTL

-----------------------------------------------------------------------------
(* A client that waits for its answers. *)

\* The tokens of a command that gives its length.
Whole == <<"line", "length", "blank", "name", "eq", "fields", "digit", "digit", "end">>
Token(k, i) == [cmd |-> k, part |-> Whole[i]]

LEMMA CommandIs ==
  ASSUME NEW k \in 1..MaxCmd
  PROVE  /\ Tokens(k, TRUE) \in Seq(AllTokens) /\ Len(Tokens(k, TRUE)) = 9
         /\ \A i \in 1..9 : Tokens(k, TRUE)[i] = Token(k, i)
         /\ BodyLen = 6 /\ Digits = 2
<1> DEFINE head == <<"line", "length", "blank">>
           parts == head \o Body
<1>1. Body = <<"name", "eq", "fields", "digit", "digit", "end">>
  BY DEF Body
<1>2. DOMAIN parts = 1..9 /\ \A i \in 1..9 : parts[i] = Whole[i]
  BY <1>1 DEF Whole
<1>3. Tokens(k, TRUE) = [i \in DOMAIN parts |-> [cmd |-> k, part |-> parts[i]]]
  BY DEF Tokens, HeadParts
<1> HIDE DEF parts
<1>4. \A i \in 1..9 : Tokens(k, TRUE)[i] = Token(k, i)
  BY <1>2, <1>3 DEF Token
<1>5. DOMAIN Tokens(k, TRUE) = 1..9
  BY <1>2, <1>3
<1>6. Tokens(k, TRUE) \in Seq(AllTokens)
  BY TokensAre
<1>7. Len(Tokens(k, TRUE)) = 9
  <2> DEFINE T == Tokens(k, TRUE)
  <2>1. T \in Seq(AllTokens) /\ DOMAIN T = 1..9
    BY <1>5, <1>6
  <2> HIDE DEF T
  <2>3. T \in [1..9 -> AllTokens]
    <3>1. \A i \in DOMAIN T : T[i] \in AllTokens
      BY <2>1, Item
    <3>2. T = [i \in DOMAIN T |-> T[i]]
      BY <2>1
    <3> QED BY <2>1, <3>1, <3>2
  <2>2. Len(T) = 9
    BY <2>3, Sequence
  <2> QED BY <2>2 DEF T
<1>8. BodyLen = 6
  BY <1>1 DEF BodyLen
<1>9. Digits = 2
  <2> DEFINE T == {i \in DOMAIN Body : Body[i] = "digit"}
  <2>1. DOMAIN Body = 1..6 /\ \A i \in 1..6 : Body[i] = "digit" <=> i \in {4, 5}
    BY <1>1
  <2>2. T = {4, 5}
    BY <2>1
  <2>3. Cardinality({4, 5}) = 2
    <3>1. 4 # 5
      OBVIOUS
    <3> QED BY <3>1, TwoOf, Zenon
  <2> HIDE DEF T
  <2>4. Cardinality(T) = 2
    BY <2>2, <2>3
  <2> QED BY <2>4 DEF Digits, T
<1> QED BY <1>4, <1>6, <1>7, <1>8, <1>9

\* s : the first m tokens of the k-th command, and what lies behind a buffer
\* that they fill.
Begun(s, m, k) ==
  /\ s \in Seq(Seen) /\ m \in 1..9
  /\ Len(s) = m \/ (m = 9 /\ Len(s) = 10 /\ s[10].part \in {"junk", "digit"})
  /\ \A i \in 1..m : s[i] = Token(k, i)

Shape(s, m, N, k) ==
  /\ s[1].part = "line"
  /\ m >= 2 => s[2].part = "length"
  /\ m >= 3 => s[3].part = "blank"
  /\ m >= 4 => s[4].part = "name"
  /\ m >= 5 => s[5].part = "eq"
  /\ m >= 6 => s[6].part = "fields" /\ s[6].cmd = k
  /\ m >= 7 => s[7].part = "digit"
  /\ m >= 8 => s[8].part = "digit"
  /\ m >= 9 => s[9].part = "end"
  /\ m <= N /\ (m < 9 => N = m) /\ DOMAIN s = 1..N
  /\ \A i \in 1..N : IsBlank(s[i]) <=> i = 3

\* What a client will have executed with the number it sent.
RightValue(v, k) == Usable(v) /\ v[1].cmd = k /\ CloseNum(v) = 2

LEMMA BegunParts ==
  ASSUME NEW s \in Seq(Seen), NEW m \in 1..9, NEW N \in 1..10, Len(s) = N, NEW k,
         Begun(s, m, k)
  PROVE  Shape(s, m, N, k)
<1>1. m <= N /\ (m < 9 => N = m) /\ DOMAIN s = 1..N
  BY DEF Begun
<1>2. \A i \in 1..m : s[i].part = Whole[i] /\ s[i].cmd = k
  <2>1. \A i \in 1..m : s[i] = Token(k, i)
    BY DEF Begun
  <2>2. \A i \in 1..m : Token(k, i).part = Whole[i] /\ Token(k, i).cmd = k
    BY DEF Token
  <2> QED BY <2>1, <2>2
<1>3. /\ Whole[1] = "line" /\ Whole[2] = "length" /\ Whole[3] = "blank" /\ Whole[4] = "name"
      /\ Whole[5] = "eq" /\ Whole[6] = "fields" /\ Whole[7] = "digit" /\ Whole[8] = "digit"
      /\ Whole[9] = "end"
  BY DEF Whole
<1>4. \A i \in 1..9 : i <= m => i \in 1..m
  BY <1>1
<1>5. ASSUME NEW i \in 1..N PROVE IsBlank(s[i]) <=> i = 3
  <2>1. CASE i <= m
    <3>1. i \in {1, 2, 3, 4, 5, 6, 7, 8, 9}
      BY <1>1, <2>1
    <3>2. s[i].part = Whole[i]
      BY <1>2, <1>4, <2>1, <3>1
    <3> QED BY <1>3, <3>1, <3>2 DEF IsBlank
  <2>2. CASE ~ (i <= m)
    <3>1. i = 10 /\ s[10].part \in {"junk", "digit"}
      BY <1>1, <2>2 DEF Begun
    <3> QED BY <3>1 DEF IsBlank
  <2> QED BY <2>1, <2>2
<1>6. /\ s[1].part = "line"
      /\ m >= 2 => s[2].part = "length"
      /\ m >= 3 => s[3].part = "blank"
      /\ m >= 4 => s[4].part = "name"
      /\ m >= 5 => s[5].part = "eq"
      /\ m >= 6 => s[6].part = "fields" /\ s[6].cmd = k
      /\ m >= 7 => s[7].part = "digit"
      /\ m >= 8 => s[8].part = "digit"
      /\ m >= 9 => s[9].part = "end"
  BY <1>1, <1>2, <1>3
<1> QED BY <1>1, <1>5, <1>6 DEF Shape

\* The pieces of a command that is there in part: the body begins at "name".
LEMMA BegunPieces ==
  ASSUME NEW s \in Seq(Seen), NEW m \in 1..9, NEW N \in 1..10, Len(s) = N, NEW k,
         Begun(s, m, k)
  PROVE  /\ HasBody(s) <=> m >= 4
         /\ m >= 4 => Piece(s, 1) = SubSeq(s, 1, 2) /\ Piece(s, 2) = SubSeq(s, 4, N)
<1>1. m <= N /\ (m < 9 => N = m) /\ DOMAIN s = 1..N
      /\ \A i \in 1..N : IsBlank(s[i]) <=> i = 3
  <2>1. s \in Seq(Seen) /\ m \in 1..9 /\ N \in 1..10 /\ Len(s) = N /\ Begun(s, m, k)
    OBVIOUS
  <2>2. Shape(s, m, N, k)
    BY ONLY <2>1, BegunParts, Zenon
  <2> QED BY <2>2 DEF Shape
<1>2. \A i \in 1..N : i \in PieceStarts(s) <=> (i = 1 \/ i = 4)
  <2> SUFFICES ASSUME NEW i \in 1..N PROVE i \in PieceStarts(s) <=> (i = 1 \/ i = 4)
    OBVIOUS
  <2>1. i \in PieceStarts(s) <=> ~ IsBlank(s[i]) /\ (i = 1 \/ IsBlank(s[i - 1]))
    BY <1>1 DEF PieceStarts
  <2>2. ~ IsBlank(s[i]) <=> i # 3
    BY <1>1
  <2>3. i # 1 => (IsBlank(s[i - 1]) <=> i = 4)
    <3>1. i # 1 => i - 1 \in 1..N /\ (i - 1 = 3 <=> i = 4)
      BY <1>1
    <3> QED BY <1>1, <3>1
  <2> QED BY <2>1, <2>2, <2>3
<1>3. PieceStarts(s) \in SUBSET (1..N)
  BY <1>1 DEF PieceStarts
<1>4. ASSUME m < 4 PROVE ~ HasBody(s)
  <2>1. PieceStarts(s) = {1}
    BY <1>1, <1>2, <1>3, <1>4
  <2>2. Cardinality({1}) = 1
    BY FS_Singleton
  <2> QED BY <2>1, <2>2 DEF HasBody
<1>5. ASSUME m >= 4 PROVE PieceStarts(s) = {1, 4}
  BY <1>1, <1>2, <1>3, <1>5
<1>6. Cardinality({1}) = 1 /\ Cardinality({1, 4}) = 2
  <2>1. 1 # 4
    OBVIOUS
  <2>2. Cardinality({1, 4}) = 2
    BY <2>1, TwoOf, Zenon
  <2> QED BY <2>2, FS_Singleton
<1>7. m >= 4 => HasBody(s)
  <2> DEFINE T == PieceStarts(s)
  <2>1. ASSUME m >= 4 PROVE Cardinality(T) = 2
    BY <1>5, <1>6, <2>1
  <2> HIDE DEF T
  <2>2. m >= 4 => Cardinality(T) >= 2
    BY <2>1
  <2> QED BY <2>2 DEF T, HasBody
<1>8. ASSUME m >= 4 PROVE Piece(s, 1) = SubSeq(s, 1, 2)
  <2> DEFINE T == PieceStarts(s)
             i == CHOOSE i \in T : Cardinality({j \in T : j <= i}) = 1
             ends == {j \in 1..N : j = N \/ IsBlank(s[j+1])}
  <2>1. T = {1, 4}
    BY <1>5, <1>8
  <2> HIDE DEF T
  <2>2. {j \in T : j <= 1} = {1} /\ {j \in T : j <= 4} = {1, 4}
    BY <2>1
  <2>3. 1 \in T /\ Cardinality({j \in T : j <= 1}) = 1 /\ Cardinality({j \in T : j <= 4}) = 2
    BY <1>6, <2>1, <2>2
  <2>4. i \in T /\ Cardinality({j \in T : j <= i}) = 1
    BY <2>3
  <2>5. i = 1
    BY <2>1, <2>3, <2>4
  <2> HIDE DEF i
  <2>6. Piece(s, 1) = SubSeq(s, 1, Min(ends))
    BY <2>5 DEF Piece, PieceFrom, i, T
  <2>7. 2 \in ends /\ \A j \in ends : 2 <= j
    BY <1>1, <1>8
  <2> HIDE DEF ends
  <2>8. Min(ends) = 2
    <3>1. \A j \in ends : j \in Nat
      BY <1>1 DEF ends
    <3>2. Min(ends) \in ends /\ \A j \in ends : Min(ends) <= j
      BY <2>7 DEF Min
    <3> QED BY <2>7, <3>1, <3>2
  <2> QED BY <2>6, <2>8
<1>9. ASSUME m >= 4 PROVE Piece(s, 2) = SubSeq(s, 4, N)
  <2> DEFINE T == PieceStarts(s)
             i == CHOOSE i \in T : Cardinality({j \in T : j <= i}) = 2
             ends == {j \in 4..N : j = N \/ IsBlank(s[j+1])}
  <2>1. T = {1, 4}
    BY <1>5, <1>9
  <2> HIDE DEF T
  <2>2. {j \in T : j <= 1} = {1} /\ {j \in T : j <= 4} = {1, 4}
    BY <2>1
  <2>3. 4 \in T /\ Cardinality({j \in T : j <= 1}) = 1 /\ Cardinality({j \in T : j <= 4}) = 2
    BY <1>6, <2>1, <2>2
  <2>4. i \in T /\ Cardinality({j \in T : j <= i}) = 2
    BY <2>3
  <2>5. i = 4
    BY <2>1, <2>3, <2>4
  <2> HIDE DEF i
  <2>6. Piece(s, 2) = SubSeq(s, 4, Min(ends))
    BY <2>5 DEF Piece, PieceFrom, i, T
  <2>7. ends = {N}
    <3>1. N \in ends
      BY <1>1, <1>9
    <3>2. ASSUME NEW j \in 4..N, j # N PROVE ~ IsBlank(s[j + 1])
      <4>1. j + 1 \in 1..N /\ j + 1 # 3
        BY <1>1, <3>2
      <4> QED BY <1>1, <4>1
    <3> QED BY <3>1, <3>2
  <2> HIDE DEF ends
  <2>8. Min(ends) = N
    BY <1>1, <2>7 DEF Min
  <2> QED BY <2>6, <2>8
<1> QED BY <1>1, <1>4, <1>7, <1>8, <1>9

\* The value of a command that is there as a whole.
LEMMA WholeValue ==
  ASSUME NEW s \in Seq(Seen), NEW m \in 1..9, NEW N \in 1..10, Len(s) = N, NEW k,
         Begun(s, m, k), m = 9
  PROVE  RightValue(SubSeq(SubSeq(s, 4, N), 3, N - 3), k)
<1> DEFINE v == SubSeq(SubSeq(s, 4, N), 3, N - 3)
<1>1. /\ s[6].part = "fields" /\ s[6].cmd = k /\ s[7].part = "digit" /\ s[8].part = "digit"
      /\ s[9].part = "end"
  <2>1. s \in Seq(Seen) /\ m \in 1..9 /\ N \in 1..10 /\ Len(s) = N /\ Begun(s, m, k)
    OBVIOUS
  <2>2. Shape(s, m, N, k)
    BY ONLY <2>1, BegunParts, Zenon
  <2> QED BY <2>2 DEF Shape
<1>0. N \in 9..10
  <2>1. s \in Seq(Seen) /\ m \in 1..9 /\ N \in 1..10 /\ Len(s) = N /\ Begun(s, m, k)
    OBVIOUS
  <2>2. Shape(s, m, N, k)
    BY ONLY <2>1, BegunParts, Zenon
  <2> QED BY <2>2 DEF Shape
<1> DEFINE body == SubSeq(s, 4, N)
<1>2. body \in Seq(Seen) /\ Len(body) = N - 3 /\ \A i \in 1..N - 3 : body[i] = s[i + 3]
  BY <1>0
<1> HIDE DEF body
<1>3. v = SubSeq(body, 3, N - 3)
  BY DEF body
<1> HIDE DEF v
<1>4. v \in Seq(Seen) /\ Len(v) = N - 5 /\ \A i \in 1..N - 5 : v[i] = body[i + 2]
  BY <1>0, <1>2, <1>3
<1>5. v[1] = s[6] /\ v[2] = s[7] /\ v[3] = s[8] /\ v[4] = s[9]
  <2>1. v[1] = body[3] /\ v[2] = body[4] /\ v[3] = body[5] /\ v[4] = body[6]
    <3>1. \A i \in 1..4 : i \in 1..N - 5 /\ i + 2 \in Nat
      BY <1>0
    <3>2. \A i \in 1..4 : v[i] = body[i + 2]
      BY <1>4, <3>1
    <3> QED BY ONLY <3>2
  <2>2. body[3] = s[6] /\ body[4] = s[7] /\ body[5] = s[8] /\ body[6] = s[9]
    <3>1. \A i \in 3..6 : i \in 1..N - 3
      BY <1>0
    <3>2. \A i \in 3..6 : body[i] = s[i + 3]
      BY <1>2, <3>1
    <3> QED BY ONLY <3>2
  <2> QED BY <2>1, <2>2
<1>6. v # <<>> /\ Len(v) \in 4..5
  <2>1. Len(v) \in 4..5
    BY <1>0, <1>4
  <2>2. Len(<<>>) = 0
    OBVIOUS
  <2>3. v = <<>> => Len(v) = 0
    BY <2>2
  <2>4. Len(v) # 0
    BY <2>1
  <2> QED BY <2>1, <2>3, <2>4, Zenon
<1> DEFINE T == {i \in 2..Len(v) : \A j \in 2..i : v[j].part = "digit"}
<1>7. T = {2, 3}
  <2>1. v[2].part = "digit" /\ v[3].part = "digit" /\ v[4].part # "digit"
    BY <1>1, <1>5
  <2>2. \A i \in 2..3 : i \in T
    <3>1. \A j \in 2..3 : j = 2 \/ j = 3
      OBVIOUS
    <3>2. \A j \in 2..3 : v[j].part = "digit"
      BY <2>1, <3>1
    <3>3. \A i \in 2..3 : i \in 2..Len(v) /\ \A j \in 2..i : j \in 2..3
      BY <1>6
    <3> QED BY <3>2, <3>3
  <2>3. \A i \in T : i < 4
    <3> SUFFICES ASSUME NEW i \in T, ~ (i < 4) PROVE FALSE
      OBVIOUS
    <3>1. i \in 2..Len(v) /\ \A j \in 2..i : v[j].part = "digit"
      OBVIOUS
    <3>2. 4 \in 2..i
      BY <1>6, <3>1
    <3> QED BY <2>1, <3>1, <3>2
  <2>4. \A i \in T : i \in 2..Len(v)
    OBVIOUS
  <2> HIDE DEF T
  <2>5. \A i \in T : i = 2 \/ i = 3
    BY <1>6, <2>3, <2>4
  <2> QED BY <2>2, <2>5
<1>8. CloseNum(v) = 2
  <2>1. 2 # 3
    OBVIOUS
  <2>2. Cardinality({2, 3}) = 2
    BY <2>1, TwoOf, Zenon
  <2> QED BY <1>7, <2>2 DEF CloseNum
<1>9. v[1].part = "fields" /\ v[1].cmd = k
  BY <1>1, <1>5
<1>10. CloseNum(v) > 0
  BY <1>8
<1> HIDE DEF T
<1>11. RightValue(v, k)
  BY ONLY <1>6, <1>8, <1>9, <1>10, Zenon DEF Usable, RightValue
<1> QED BY <1>11 DEF v

\* The parser r after a call of parse_done on the first m tokens of the k-th
\* command: it is done at the last token and not before, and then the value is
\* right unless it was entered at an earlier call.
ParsedAt(r, h, m, k) ==
  /\ m <= 3 => r = h
  /\ m >= 4 /\ m < 9 => /\ r.status = "head" /\ r.hasLength
                        /\ r.data # {} => h.data # {} \/ m >= 5
  /\ m = 9 => /\ r.status = "done"
              /\ h.data # {} \/ \E v : r.data = {v} /\ RightValue(v, k)

LEMMA BegunParsed ==
  ASSUME NEW s \in Seq(Seen), NEW m \in 1..9, NEW N \in 1..10, Len(s) = N, NEW k \in 1..MaxCmd,
         Begun(s, m, k),
         NEW h \in HttpTypes,
         h = FreshHttp \/ (m >= 4 /\ h.status = "head" /\ h.hasLength)
  PROVE  ParsedAt(ParseDone(h, s), h, m, k)
<1> DEFINE body == SubSeq(s, 4, N)
<1>0. s \in Seq(Seen) /\ m \in 1..9 /\ N \in 1..10 /\ Len(s) = N /\ Begun(s, m, k)
  OBVIOUS
<1>1. /\ HasBody(s) <=> m >= 4
      /\ m >= 4 => Piece(s, 1) = SubSeq(s, 1, 2) /\ Piece(s, 2) = body
  BY ONLY <1>0, BegunPieces, Zenon DEF body
<1>2. /\ m >= 2 => s[2].part = "length"
      /\ m >= 4 => s[4].part = "name"
      /\ m >= 5 => s[5].part = "eq"
      /\ m <= N /\ (m < 9 => N = m)
  <2>1. Shape(s, m, N, k)
    BY ONLY <1>0, BegunParts, Zenon
  <2> QED BY <2>1 DEF Shape
<1> DEFINE h1 == IF h.status = "init" THEN ParseHeader(h, s) ELSE h
           h2 == IF h1.status = "head" THEN ParseBody(h1, s) ELSE h1
           r == ParseDone(h, s)
<1>3. r = IF h2.status = "head" /\ BodyDone(h2, s) THEN [h2 EXCEPT !.status = "done"] ELSE h2
  BY DEF ParseDone
<1>4. CASE m <= 3
  <2>1. h = FreshHttp /\ h.status = "init"
    BY <1>4 DEF FreshHttp
  <2>2. h1 = h
    BY <1>1, <1>4, <2>1 DEF ParseHeader
  <2>3. h2 = h /\ h2.status # "head"
    BY <2>1, <2>2
  <2>4. r = h
    BY <1>3, <2>3
  <2> HIDE DEF r
  <2>5. m <= 3 => r = h
    BY <2>4
  <2> QED BY <1>4, <2>5 DEF r, ParsedAt
<1>5. CASE m >= 4
  <2>1. HasBody(s) /\ Piece(s, 1) = SubSeq(s, 1, 2) /\ Piece(s, 2) = body
    BY <1>1, <1>5
  <2>2. h1 \in HttpTypes /\ h1.status = "head" /\ h1.hasLength = TRUE /\ h1.data = h.data
    <3>1. CASE h = FreshHttp
      <4>1. h.status = "init" /\ h1 = ParseHeader(h, s)
        BY <3>1 DEF FreshHttp
      <4>2. Len(SubSeq(s, 1, 2)) = 2 /\ SubSeq(s, 1, 2)[2] = s[2]
        <5>1. N >= 2 /\ N \in Nat
          BY <1>2, <1>5
        <5> QED BY <5>1
      <4>3. \E i \in 2..Len(Piece(s, 1)) : Piece(s, 1)[i].part = "length"
        <5>1. 2 \in 2..Len(Piece(s, 1)) /\ Piece(s, 1)[2] = s[2]
          BY <2>1, <4>2
        <5>2. s[2].part = "length"
          BY <1>2, <1>5
        <5> QED BY <5>1, <5>2
      <4>4. h1 = [h EXCEPT !.status = "head",
                           !.hasLength = \E i \in 2..Len(Piece(s, 1)) :
                                           Piece(s, 1)[i].part = "length"]
        BY <2>1, <4>1 DEF ParseHeader
      <4>5. h1 = [h EXCEPT !.status = "head", !.hasLength = TRUE]
        BY <4>3, <4>4
      <4> HIDE DEF h1
      <4> QED BY <4>5 DEF HttpTypes
    <3>2. CASE h.status = "head" /\ h.hasLength
      <4>1. h1 = h
        BY <3>2
      <4>2. h.hasLength = TRUE
        BY <3>2 DEF HttpTypes
      <4> HIDE DEF h1
      <4> QED BY <3>2, <4>1, <4>2
    <3> QED BY <3>1, <3>2
  <2> HIDE DEF h1
  <2>3. h2 = ParseBody(h1, s)
    BY <2>2
  <2>4. Len(body) = N - 3 /\ N - 3 \in Nat
    <3>1. N >= 4
      BY <1>2, <1>5
    <3> QED BY <3>1
  <2>5. body[1] = s[4] /\ (m >= 5 => body[2] = s[5])
    <3>1. N >= 4 /\ (m >= 5 => N >= 5)
      BY <1>2, <1>5
    <3> QED BY <3>1
  <2> DEFINE v == SubSeq(body, 3, N - 3)
             enter == h1.data = {} /\ m >= 5
  <2>6. h2 = IF enter THEN [h1 EXCEPT !.data = {v}] ELSE h1
    <3>1. (Len(body) > 1 /\ body[1].part = "name" /\ body[2].part = "eq") <=> m >= 5
      <4>1. CASE m >= 5
        BY <1>2, <2>4, <2>5, <4>1
      <4>2. CASE m < 5
        <5>1. N = 4
          BY <1>2, <1>5, <4>2
        <5> QED BY <2>4, <4>2, <5>1
      <4> QED BY <4>1, <4>2
    <3>2. h2 = IF h1.data = {} /\ Len(body) > 1 /\ body[1].part = "name" /\ body[2].part = "eq"
               THEN [h1 EXCEPT !.data = {SubSeq(body, 3, Len(body))}]
               ELSE h1
      BY <2>1, <2>3 DEF ParseBody
    <3> HIDE DEF h2
    <3> QED BY <2>4, <3>1, <3>2
  <2> HIDE DEF h2, v
  <2>7. /\ h2.status = "head" /\ h2.hasLength = TRUE
        /\ enter => h2.data = {v}
        /\ ~ enter => h2.data = h.data
    BY <2>2, <2>6 DEF HttpTypes
  <2>8. BodyDone(h2, s) <=> m = 9
    <3>1. BodyLen = 6
      BY CommandIs
    <3>2. BodyDone(h2, s) <=> N - 3 >= 6
      BY <2>1, <2>4, <2>7, <3>1 DEF BodyDone
    <3> QED BY <1>2, <3>2
  <2>9. r = IF m = 9 THEN [h2 EXCEPT !.status = "done"] ELSE h2
    BY <1>3, <2>7, <2>8
  <2> HIDE DEF r
  <2>10. ASSUME m < 9
         PROVE  r.status = "head" /\ r.hasLength /\ (r.data # {} => h.data # {} \/ m >= 5)
    BY <2>7, <2>9, <2>10
  <2>11. ASSUME m = 9
         PROVE  /\ r.status = "done"
                /\ h.data # {} \/ \E x : r.data = {x} /\ RightValue(x, k)
    <3>1. h2 \in HttpTypes \/ h2 = [h1 EXCEPT !.data = {v}]
      BY <2>2, <2>6
    <3>2. r.status = "done" /\ r.data = h2.data
      BY <2>2, <2>6, <2>9, <2>11 DEF HttpTypes
    <3>3. h.data = {} => r.data = {v}
      BY <2>2, <2>7, <2>11, <3>2
    <3>4. RightValue(SubSeq(SubSeq(s, 4, N), 3, N - 3), k)
      <4>1. /\ s \in Seq(Seen) /\ m \in 1..9 /\ N \in 1..10 /\ Len(s) = N
            /\ Begun(s, m, k) /\ m = 9
        BY <2>11
      <4> QED BY ONLY <4>1, WholeValue, Zenon
    <3>5. RightValue(v, k)
      BY <3>4 DEF v
    <3> QED BY <3>2, <3>3, <3>5
  <2> QED BY <1>5, <2>10, <2>11 DEF r, ParsedAt
<1> QED BY <1>4, <1>5

\* The k-th command, the beginning in the buffer and the end on the wire.
Coming(b, w, k) ==
  /\ Len(b) + Len(w) = 9
  /\ \A i \in 1..Len(b) : b[i] = Token(k, i)
  /\ \A i \in 1..Len(w) : w[i] = Token(k, Len(b) + i)

\* Where the parser is: a value that it has entered too early was cut.
Reading(b, h, k, cut) ==
  IF Len(b) <= 3 THEN h = FreshHttp
  ELSE h.status = "head" /\ h.hasLength /\ (h.data # {} => k \in cut)

\* A client that waits has no command under way, or its last one.
Turn(c) ==
  InTurn(c) /\ link[c] # "closed" =>
    /\ Len(cmds[c]) \in {Len(answers[c]), Len(answers[c]) + 1}
    /\ Len(cmds[c]) = Len(answers[c]) =>
         buf[c] = <<>> /\ wire[c] = <<>> /\ http[c] = FreshHttp
    /\ Len(cmds[c]) # Len(answers[c]) /\ alive =>
         /\ Coming(buf[c], wire[c], Len(cmds[c])) /\ wire[c] # <<>>
         /\ Reading(buf[c], http[c], Len(cmds[c]), cutValue[c])

RightAt(c, k) ==
  /\ answers[c][k] = (IF cmds[c][k].kind = "valid" THEN 0 ELSE 101)
  /\ answers[c][k] = 0 => [cmd |-> k, close |-> Digits] \in Range(executed[c])

Right(c) == InTurn(c) => \A k \in DOMAIN answers[c] \ cutValue[c] : RightAt(c, k)

TurnInv == AdminInv /\ \A c \in Conns : Turn(c) /\ Right(c)

LEMMA InitTurn == Init => TurnInv
<1> SUFFICES ASSUME Init PROVE TurnInv
  OBVIOUS
<1>1. AdminInv
  BY InitAdmin
<1>2. ASSUME NEW c \in Conns PROVE Turn(c) /\ Right(c)
  <2>1. /\ buf[c] = <<>> /\ wire[c] = <<>> /\ http[c] = FreshHttp
        /\ cmds[c] = <<>> /\ answers[c] = <<>>
    BY DEF Init
  <2>2. DOMAIN <<>> = {} /\ Len(<<>>) = 0
    OBVIOUS
  <2> QED BY <2>1, <2>2 DEF Turn, Right
<1> QED BY <1>1, <1>2 DEF TurnInv

\* A connection that a step leaves alone, or closes.
LEMMA TurnFrame ==
  ASSUME NEW d, Turn(d), Right(d),
         cmds'[d] = cmds[d], piped'[d] = piped[d], answers'[d] = answers[d],
         executed'[d] = executed[d], cutValue'[d] = cutValue[d],
         \/ link'[d] = "closed"
         \/ /\ link[d] # "closed" \/ link'[d] = link[d]
            /\ buf'[d] = buf[d] /\ wire'[d] = wire[d] /\ http'[d] = http[d]
            /\ alive' => alive
  PROVE  Turn(d)' /\ Right(d)'
<1>1. InTurn(d)' <=> InTurn(d)
  BY DEF InTurn
<1>2. Right(d)'
  BY <1>1 DEF Right, RightAt
<1>3. Turn(d)'
  BY <1>1 DEF Turn
<1> QED BY <1>2, <1>3

\* A client that waits for its answer sends its next command.
LEMMA TurnSends ==
  ASSUME TurnInv, NEW c \in Conns, ClientSends(c), InTurn(c)'
  PROVE  Turn(c)' /\ Right(c)'
<1> DEFINE n == Len(cmds[c])
<1>1. PICK kind \in Kinds : \E hasLength \in BOOLEAN :
       /\ cmds' = [cmds EXCEPT ![c] = Append(cmds[c], [kind |-> kind, hasLength |-> hasLength])]
       /\ wire' = [wire EXCEPT ![c] = wire[c] \o Tokens(n + 1, hasLength)]
  BY DEF ClientSends
<1>2. PICK hasLength \in BOOLEAN :
       /\ cmds' = [cmds EXCEPT ![c] = Append(cmds[c], [kind |-> kind, hasLength |-> hasLength])]
       /\ wire' = [wire EXCEPT ![c] = wire[c] \o Tokens(n + 1, hasLength)]
  BY <1>1
<1> DEFINE item == [kind |-> kind, hasLength |-> hasLength]
<1>3. AdminTypes /\ Turn(c) /\ Right(c)
  BY DEF TurnInv, AdminInv
<1>4. /\ cmds[c] \in Seq([kind : Kinds, hasLength : BOOLEAN])
      /\ answers[c] \in Seq({0, 100, 101})
      /\ item \in [kind : Kinds, hasLength : BOOLEAN]
  BY <1>3 DEF AdminTypes
<1>5. /\ cmds'[c] = Append(cmds[c], item) /\ wire'[c] = wire[c] \o Tokens(n + 1, hasLength)
  BY <1>2, <1>3 DEF AdminTypes
<1>6. /\ n \in Nat /\ DOMAIN cmds[c] = 1..n
      /\ DOMAIN cmds'[c] = 1..n + 1 /\ Len(cmds'[c]) = n + 1
      /\ \A i \in 1..n : cmds'[c][i] = cmds[c][i]
      /\ cmds'[c][n + 1] = item
  <2> DEFINE q == cmds[c]
  <2>1. q \in Seq([kind : Kinds, hasLength : BOOLEAN])
    BY <1>4
  <2> HIDE DEF q, item
  <2>2. /\ Len(q) \in Nat /\ DOMAIN q = 1..Len(q)
        /\ DOMAIN Append(q, item) = 1..Len(q) + 1 /\ Len(Append(q, item)) = Len(q) + 1
        /\ \A i \in 1..Len(q) : Append(q, item)[i] = q[i]
        /\ Append(q, item)[Len(q) + 1] = item
    BY <1>4, <2>1
  <2> QED BY <1>5, <2>2 DEF q
<1>7. ~ piped[c] /\ ~ (Len(answers[c]) < n)
  <2>1. piped' = [piped EXCEPT ![c] = piped[c] \/ Len(answers[c]) < Len(cmds[c])]
    BY DEF ClientSends
  <2>2. piped'[c] = (piped[c] \/ Len(answers[c]) < Len(cmds[c]))
    BY <1>3, <2>1 DEF AdminTypes
  <2>3. ~ piped'[c]
    BY DEF InTurn
  <2> QED BY <2>2, <2>3
<1>8. hasLength = TRUE /\ \A i \in 1..n : cmds[c][i].hasLength
  <2>1. \A i \in 1..n + 1 : cmds'[c][i].hasLength
    BY <1>6 DEF InTurn
  <2>2. n + 1 \in 1..n + 1 /\ \A i \in 1..n : i \in 1..n + 1
    BY <1>6
  <2>3. item.hasLength
    BY <1>6, <2>1, <2>2
  <2>4. \A i \in 1..n : cmds[c][i].hasLength
    BY <1>6, <2>1, <2>2
  <2> QED BY <2>3, <2>4
<1>9. InTurn(c)
  <2>1. Len(Tokens(1, TRUE)) <= BufLen
    BY DEF InTurn
  <2> QED BY <1>6, <1>7, <1>8, <2>1 DEF InTurn
<1>10. link[c] # "closed" /\ link' = link
       /\ UNCHANGED <<buf, http, answers, executed, cutValue, alive>> /\ n < MaxCmd
  BY DEF ClientSends, serverVars, Reachable
<1>11. Len(answers[c]) \in Nat
  BY <1>4
<1>12. n = Len(answers[c]) /\ buf[c] = <<>> /\ wire[c] = <<>> /\ http[c] = FreshHttp
  BY <1>3, <1>6, <1>7, <1>9, <1>10, <1>11 DEF Turn
<1> DEFINE T == Tokens(n + 1, TRUE)
<1>13. n + 1 \in 1..MaxCmd
  BY <1>6, <1>10, AdminConnAssumption
<1>14. T \in Seq(AllTokens) /\ Len(T) = 9 /\ \A i \in 1..9 : T[i] = Token(n + 1, i)
  BY <1>13, CommandIs
<1>15. wire'[c] = T
  <2>1. wire'[c] = <<>> \o T
    BY <1>5, <1>8, <1>12
  <2> HIDE DEF T
  <2> QED BY <1>14, <2>1, ConcatEmptySeq
<1> HIDE DEF T
<1>16. Turn(c)'
  <2>1. buf'[c] = <<>> /\ http'[c] = FreshHttp /\ answers'[c] = answers[c]
    BY <1>10, <1>12
  <2>2. Coming(<<>>, T, n + 1)
    <3>1. Len(<<>>) = 0
      OBVIOUS
    <3>2. \A i \in 1..9 : 0 + i = i
      OBVIOUS
    <3> QED BY <1>14, <3>1, <3>2 DEF Coming
  <2>3. T # <<>>
    <3>1. Len(<<>>) = 0
      OBVIOUS
    <3>2. T = <<>> => Len(T) = 0
      BY <3>1
    <3>3. Len(T) # 0
      BY <1>14
    <3> QED BY <3>2, <3>3, Zenon
  <2>4. Reading(<<>>, FreshHttp, n + 1, cutValue'[c])
    <3>1. Len(<<>>) <= 3
      OBVIOUS
    <3> QED BY <3>1 DEF Reading
  <2>5. Len(cmds'[c]) = Len(answers'[c]) + 1 /\ Len(cmds'[c]) = n + 1
        /\ Len(cmds'[c]) # Len(answers'[c])
    BY <1>6, <1>11, <1>12, <2>1
  <2> HIDE DEF n
  <2> QED BY <1>15, <2>1, <2>2, <2>3, <2>4, <2>5 DEF Turn
<1>17. Right(c)'
  <2>1. DOMAIN answers[c] = 1..n
    BY <1>4, <1>12
  <2>2. ASSUME NEW k \in DOMAIN answers[c] \ cutValue[c] PROVE RightAt(c, k)'
    <3>1. RightAt(c, k)
      BY <1>3, <1>9 DEF Right
    <3>2. cmds'[c][k] = cmds[c][k]
      BY <1>6, <2>1
    <3> QED BY <1>10, <3>1, <3>2 DEF RightAt
  <2> QED BY <1>10, <2>2 DEF Right
<1> QED BY <1>16, <1>17

\* The buffer after a recv, and what the parser sees of it.
Advanced(b, w, n, tail, k) ==
  LET filled == b \o SubSeq(w, 1, n)
      m      == Len(b) + n
  IN  /\ n \in Nat /\ Len(b) \in Nat /\ m \in 1..9
      /\ Len(filled) = m
      /\ filled \o tail \in Seq(Seen) /\ Len(filled \o tail) \in 1..10
      /\ Begun(filled \o tail, m, k)
      /\ Coming(filled, SubSeq(w, n + 1, Len(w)), k)
      /\ w[n] = Token(k, m)
      /\ SubSeq(w, n + 1, Len(w)) = <<>> <=> m = 9

LEMMA RecvAdvances ==
  ASSUME NEW b \in Seq(AllTokens), NEW w \in Seq(AllTokens), NEW k \in 1..MaxCmd,
         Coming(b, w, k), NEW n \in 1..Len(w),
         NEW tail \in {<<>>} \cup {<<j>> : j \in Junk},
         tail # <<>> => Len(b \o SubSeq(w, 1, n)) = BufLen,
         9 <= BufLen
  PROVE  Advanced(b, w, n, tail, k)
<1> DEFINE got == SubSeq(w, 1, n)
           rest == SubSeq(w, n + 1, Len(w))
           filled == b \o got
           m == Len(b) + n
<1>1. /\ got \in Seq(AllTokens) /\ rest \in Seq(AllTokens) /\ Len(got) = n
      /\ Len(rest) = Len(w) - n
      /\ \A i \in 1..n : got[i] = w[i]
      /\ \A i \in 1..Len(w) - n : rest[i] = w[n + i]
      /\ n \in Nat /\ Len(w) \in Nat
  BY Taken
<1>2. /\ Len(b) \in Nat /\ Len(b) + Len(w) = 9
      /\ \A i \in 1..Len(b) : b[i] = Token(k, i)
      /\ \A i \in 1..Len(w) : w[i] = Token(k, Len(b) + i)
  BY DEF Coming
<1>3. m \in 1..9 /\ Len(w) - n = 9 - m /\ n \in 1..Len(w) /\ m - Len(b) = n
  BY <1>1, <1>2
<1> HIDE DEF got, rest
<1>4. /\ filled \in Seq(AllTokens) /\ Len(filled) = m
      /\ \A i \in 1..Len(b) : filled[i] = b[i]
      /\ \A i \in 1..n : filled[Len(b) + i] = got[i]
  <2>1. /\ filled \in Seq(AllTokens) /\ Len(filled) = Len(b) + Len(got)
        /\ \A i \in 1..Len(b) : filled[i] = b[i]
        /\ \A i \in 1..Len(got) : filled[Len(b) + i] = got[i]
    <3>1. got \in Seq(AllTokens)
      BY <1>1
    <3>2. \A x, y \in Seq(AllTokens) :
            /\ x \o y \in Seq(AllTokens) /\ Len(x \o y) = Len(x) + Len(y)
            /\ \A i \in 1..Len(x) : (x \o y)[i] = x[i]
            /\ \A i \in 1..Len(y) : (x \o y)[Len(x) + i] = y[i]
      BY Joined
    <3> QED BY <3>1, <3>2, Zenon DEF filled
  <2> HIDE DEF filled
  <2> QED BY <1>1, <2>1
<1> HIDE DEF filled
<1>5. ASSUME NEW i \in 1..m PROVE filled[i] = Token(k, i)
  <2>1. CASE i <= Len(b)
    <3>1. i \in 1..Len(b)
      BY <1>2, <2>1
    <3> QED BY <1>2, <1>4, <3>1
  <2>2. CASE ~ (i <= Len(b))
    <3>1. i - Len(b) \in 1..n /\ i = Len(b) + (i - Len(b))
      BY <1>1, <1>2, <2>2
    <3> DEFINE j == i - Len(b)
    <3>2. j \in 1..n /\ j \in 1..Len(w) /\ i = Len(b) + j
      BY <1>1, <1>3, <3>1
    <3> HIDE DEF j
    <3>3. filled[Len(b) + j] = got[j] /\ got[j] = w[j] /\ w[j] = Token(k, Len(b) + j)
      BY ONLY <1>1, <1>2, <1>4, <3>2, Zenon
    <3> QED BY <3>2, <3>3
  <2> QED BY <2>1, <2>2
<1>6. Coming(filled, rest, k)
  <2>1. ASSUME NEW i \in 1..Len(rest) PROVE rest[i] = Token(k, Len(filled) + i)
    <3>1. i \in 1..Len(w) - n /\ n + i \in 1..Len(w) /\ Len(b) + (n + i) = m + i
      BY <1>1, <1>2, <1>3
    <3>2. rest[i] = w[n + i] /\ w[n + i] = Token(k, Len(b) + (n + i))
      BY ONLY <1>1, <1>2, <3>1, Zenon
    <3> QED BY <1>4, <3>1, <3>2
  <2>2. Len(filled) + Len(rest) = 9
    BY <1>1, <1>3, <1>4
  <2> QED BY <1>4, <1>5, <2>1, <2>2 DEF Coming
<1>7. w[n] = Token(k, m)
  <2>1. w[n] = Token(k, Len(b) + n)
    BY ONLY <1>2, <1>3, Zenon
  <2> QED BY ONLY <2>1, Zenon DEF m
<1>8. rest = <<>> <=> m = 9
  <2>1. Len(<<>>) = 0
    OBVIOUS
  <2>2. Len(rest) = 0 <=> m = 9
    BY <1>1, <1>3
  <2>3. rest = <<>> => Len(rest) = 0
    BY <2>1
  <2>4. Len(rest) = 0 => rest = <<>>
    BY <1>1
  <2> QED BY <2>2, <2>3, <2>4, Zenon
<1> DEFINE s == filled \o tail
<1>9. s \in Seq(Seen) /\ Len(s) \in 1..10 /\ Begun(s, m, k)
  <2>1. filled \in Seq(Seen)
    BY <1>4 DEF Seen
  <2>2. CASE tail = <<>>
    <3>1. s = filled
      BY <1>4, <2>2, ConcatEmptySeq
    <3>2. Len(filled) \in 1..10
      BY <1>3, <1>4
    <3> HIDE DEF s, m
    <3> QED BY <1>3, <1>4, <1>5, <2>1, <3>1, <3>2 DEF Begun
  <2>3. CASE tail # <<>>
    <3>1. PICK j \in Junk : tail = <<j>>
      BY <2>3
    <3>2. Len(filled) = BufLen
      BY <2>3 DEF filled, got
    <3>3. m = 9
      BY <1>3, <1>4, <3>2, AdminConnAssumption
    <3>4. j \in Seen /\ j.part \in {"junk", "digit"}
      BY DEF Seen, Junk
    <3>5. /\ s \in Seq(Seen) /\ Len(s) = 10 /\ s[10] = j
          /\ \A i \in 1..9 : s[i] = filled[i]
      <4>1. Len(filled) = 9
        BY <1>4, <3>3
      <4>2. s = Append(filled, j)
        BY <2>1, <3>1, <3>4
      <4>3. /\ Append(filled, j) \in Seq(Seen) /\ Len(Append(filled, j)) = Len(filled) + 1
            /\ \A i \in 1..Len(filled) : Append(filled, j)[i] = filled[i]
            /\ Append(filled, j)[Len(filled) + 1] = j
        BY <2>1, <3>4, AppendProperties
      <4> HIDE DEF s
      <4> QED BY ONLY <4>1, <4>2, <4>3
    <3>6. \A i \in 1..m : s[i] = Token(k, i)
      BY <1>5, <3>3, <3>5
    <3> HIDE DEF s, m
    <3> QED BY <1>3, <3>3, <3>4, <3>5, <3>6 DEF Begun
  <2> QED BY <2>2, <2>3
<1> HIDE DEF s, m
<1>10. Len(filled) = Len(b) + n /\ m = Len(b) + n
  BY <1>4 DEF m
<1> QED BY <1>1, <1>2, <1>3, <1>4, <1>6, <1>7, <1>8, <1>9, <1>10 DEF Advanced, s, filled, got, rest, m

\* What an answer does to the list of executed commands.
LEMMA Grows ==
  ASSUME NEW ex \in Seq(Executed), NEW data, Single(data), NEW ret
  PROVE  /\ Range(ex) \subseteq Range(ex \o SetToSeq(Effects(ret, data)))
         /\ Effects(ret, data) \subseteq Range(ex \o SetToSeq(Effects(ret, data)))
<1>1. CASE Effects(ret, data) = {}
  <2>1. ex \o SetToSeq({}) = ex
    BY OneToSeq
  <2> QED BY <1>1, <2>1
<1>2. CASE Effects(ret, data) # {}
  <2>1. PICK v \in data : ret = 0
    BY <1>2 DEF Effects
  <2> DEFINE e == [cmd |-> v[1].cmd, close |-> CloseNum(v)]
  <2>2. data = {v}
    BY DEF Single
  <2>3. Effects(ret, data) = {e}
    BY <2>1, <2>2 DEF Effects
  <2> HIDE DEF e
  <2> DEFINE S == Executed \cup {e}
  <2>4. ex \in Seq(S) /\ e \in S
    OBVIOUS
  <2> HIDE DEF S
  <2>5. ex \o SetToSeq({e}) = Append(ex, e)
    BY <2>4, OneToSeq
  <2>6. /\ Len(ex) \in Nat /\ DOMAIN ex = 1..Len(ex)
        /\ DOMAIN Append(ex, e) = 1..Len(ex) + 1
        /\ \A i \in 1..Len(ex) : Append(ex, e)[i] = ex[i]
        /\ Append(ex, e)[Len(ex) + 1] = e
    BY <2>4
  <2> DEFINE all == Append(ex, e)
             N == Len(ex)
  <2>7. /\ N \in Nat /\ DOMAIN ex = 1..N /\ DOMAIN all = 1..N + 1
        /\ \A i \in 1..N : all[i] = ex[i]
        /\ all[N + 1] = e
    BY <2>6
  <2> HIDE DEF all, N
  <2>8. e \in Range(all)
    <3>1. N + 1 \in DOMAIN all
      BY <2>7
    <3> QED BY <2>7, <3>1 DEF Range
  <2>9. Range(ex) \subseteq Range(all)
    <3> SUFFICES ASSUME NEW x \in Range(ex) PROVE x \in Range(all)
      OBVIOUS
    <3>1. PICK i \in 1..N : x = ex[i]
      BY <2>7 DEF Range
    <3>2. i \in DOMAIN all /\ all[i] = x
      BY <2>7, <3>1
    <3> QED BY <3>2 DEF Range
  <2> QED BY <2>3, <2>5, <2>8, <2>9 DEF all
<1> QED BY <1>1, <1>2

\* The answer to a command whose value is there as it was sent.
Deserved(c, k, ret, data) ==
  ret # Throws =>
    /\ ret = (IF cmds[c][k].kind = "valid" THEN 0 ELSE 101)
    /\ ret = 0 => [cmd |-> k, close |-> Digits] \in Effects(ret, data)

LEMMA RightAnswer ==
  ASSUME NEW c, cmds[c] \in Seq([kind : Kinds, hasLength : BOOLEAN]),
         NEW k \in 1..MaxCmd, k \in DOMAIN cmds[c], NEW v, RightValue(v, k)
  PROVE  Deserved(c, k, GetOutJson(c, {v}), {v})
<1> DEFINE ret == GetOutJson(c, {v})
           kind == cmds[c][k].kind
<1>1. Usable(v) /\ v[1].cmd = k /\ CloseNum(v) = 2
  BY DEF RightValue
<1>2. (CHOOSE x \in {v} : TRUE) = v /\ \E x \in {v} : Usable(x)
  BY <1>1
<1>3. kind \in {"valid", "bad", "sample"}
  <2> DEFINE sent == cmds[c]
  <2>1. sent \in Seq([kind : Kinds, hasLength : BOOLEAN]) /\ k \in DOMAIN sent
    OBVIOUS
  <2>2. sent[k] \in [kind : Kinds, hasLength : BOOLEAN]
    <3> HIDE DEF sent
    <3> QED BY <2>1, Item
  <2> QED BY <2>2, AdminConnAssumption
<1>4. ret = CASE kind = "valid" -> 0 [] kind = "bad" -> 101 [] kind = "sample" -> Throws
  BY <1>1, <1>2 DEF GetOutJson
<1> HIDE DEF kind
<1>5. /\ kind = "valid" => ret = 0
      /\ kind = "bad" => ret = 101
      /\ kind = "sample" => ret = Throws
  BY <1>4
<1>6. Effects(0, {v}) = {[cmd |-> v[1].cmd, close |-> CloseNum(v)]}
  BY DEF Effects
<1>7. Digits = 2
  BY CommandIs
<1> HIDE DEF ret
<1>8. ret # Throws => ret = (IF kind = "valid" THEN 0 ELSE 101)
  BY <1>3, <1>5
<1>9. ret = 0 => [cmd |-> k, close |-> Digits] \in Effects(ret, {v})
  BY <1>1, <1>6, <1>7
<1> QED BY <1>8, <1>9 DEF Deserved, ret, kind

\* An answer stays right when more is executed and more is cut.
LEMMA RightStays ==
  ASSUME NEW c, Right(c), InTurn(c), cmds'[c] = cmds[c],
         cutValue[c] \subseteq cutValue'[c],
         Range(executed[c]) \subseteq Range(executed'[c]),
         NEW k \in DOMAIN answers[c] \ cutValue'[c], answers'[c][k] = answers[c][k]
  PROVE  RightAt(c, k)'
<1>1. RightAt(c, k)
  BY DEF Right
<1>2. /\ answers[c][k] = (IF cmds[c][k].kind = "valid" THEN 0 ELSE 101)
      /\ answers[c][k] = 0 => [cmd |-> k, close |-> Digits] \in Range(executed[c])
  BY <1>1 DEF RightAt
<1> QED BY <1>2 DEF RightAt

\* The server receives from a client that waits.
LEMMA TurnRecv ==
  ASSUME TurnInv, NEW c \in Conns, RecvSome(c), InTurn(c)
  PROVE  Turn(c)' /\ Right(c)'
<1> DEFINE b == buf[c]
           w == wire[c]
           k == Len(cmds[c])
<1>1. AdminTypes /\ Turn(c) /\ Right(c)
  BY DEF TurnInv, AdminInv
<1>2. /\ b \in Seq(AllTokens) /\ w \in Seq(AllTokens) /\ http[c] \in HttpTypes
      /\ Single(http[c].data) /\ executed[c] \in Seq(Executed)
      /\ cmds[c] \in Seq([kind : Kinds, hasLength : BOOLEAN])
      /\ answers[c] \in Seq({0, 100, 101}) /\ cutValue[c] \in SUBSET (1..MaxCmd)
  BY <1>1 DEF AdminTypes
<1>3. cmds' = cmds /\ piped' = piped /\ alive /\ link[c] = "open"
  BY DEF RecvSome, clientVars, Registered
<1>4. InTurn(c)'
  BY <1>3 DEF InTurn
<1>5. PICK n \in 1..Len(w) :
        LET filled == b \o SubSeq(w, 1, n)
            last   == w[n]
        IN  /\ n <= Room(c)
            /\ wire' = [wire EXCEPT ![c] = SubSeq(w, n+1, Len(w))]
            /\ cutValue' = IF last.part \in {"eq", "fields", "digit"}
                           THEN [cutValue EXCEPT ![c] = cutValue[c] \cup {last.cmd}]
                           ELSE cutValue
            /\ \E tail \in {<<>>} \cup {<<j>> : j \in Junk} :
                 LET h == ParseDone(http[c], filled \o tail)
                 IN  /\ tail # <<>> => Len(filled) = BufLen
                     /\ \/ /\ h.status # "done"
                           /\ buf'  = [buf EXCEPT ![c] = filled]
                           /\ http' = [http EXCEPT ![c] = h]
                           /\ UNCHANGED <<link, answers, executed, alive>>
                        \/ /\ h.status = "done"
                           /\ DoOneAction(c, h)
  BY DEF RecvSome
<1> DEFINE filled == b \o SubSeq(w, 1, n)
           rest == SubSeq(w, n + 1, Len(w))
           m == Len(b) + n
<1>6. PICK tail \in {<<>>} \cup {<<j>> : j \in Junk} :
        LET h == ParseDone(http[c], filled \o tail)
        IN  /\ tail # <<>> => Len(filled) = BufLen
            /\ \/ /\ h.status # "done"
                  /\ buf'  = [buf EXCEPT ![c] = filled]
                  /\ http' = [http EXCEPT ![c] = h]
                  /\ UNCHANGED <<link, answers, executed, alive>>
               \/ /\ h.status = "done"
                  /\ DoOneAction(c, h)
  BY <1>5
<1> DEFINE s == filled \o tail
           h == ParseDone(http[c], s)
<1>7. /\ tail # <<>> => Len(filled) = BufLen
      /\ \/ /\ h.status # "done"
            /\ buf'  = [buf EXCEPT ![c] = filled]
            /\ http' = [http EXCEPT ![c] = h]
            /\ UNCHANGED <<link, answers, executed, alive>>
         \/ /\ h.status = "done"
            /\ DoOneAction(c, h)
  BY <1>6
<1>8. w # <<>>
  <2>1. Len(<<>>) = 0
    OBVIOUS
  <2>2. w = <<>> => Len(w) = 0
    BY <2>1
  <2>3. Len(w) # 0
    BY <1>2
  <2> QED BY <2>2, <2>3, Zenon
\* The command under way is the last one, and it is not answered.
<1>9. /\ k # Len(answers[c]) /\ k = Len(answers[c]) + 1
      /\ Coming(b, w, k) /\ Reading(b, http[c], k, cutValue[c])
  BY <1>1, <1>3, <1>8 DEF Turn
<1>10. k \in 1..MaxCmd /\ DOMAIN cmds[c] = 1..k /\ DOMAIN answers[c] = 1..k - 1 /\ k \in Nat
  <2>1. w[n] = Token(k, m)
    BY <1>9 DEF Coming
  <2>2. w[n] \in AllTokens
    BY <1>2
  <2>3. Token(k, m).cmd \in 1..MaxCmd
    BY <2>1, <2>2 DEF AllTokens
  <2>4. Token(k, m).cmd = k
    BY DEF Token
  <2>5. DOMAIN cmds[c] = 1..Len(cmds[c])
    <3> DEFINE all == cmds[c]
    <3>1. all \in Seq([kind : Kinds, hasLength : BOOLEAN])
      BY <1>2
    <3> HIDE DEF all
    <3>2. DOMAIN all = 1..Len(all)
      BY <3>1
    <3> QED BY <3>2 DEF all
  <2>6. DOMAIN answers[c] = 1..Len(answers[c]) /\ Len(answers[c]) \in Nat
    BY <1>2
  <2>7. k - 1 = Len(answers[c]) /\ k \in Nat
    <3> HIDE DEF k
    <3> QED BY <1>9, <2>6
  <2> QED BY <2>3, <2>4, <2>5, <2>6, <2>7
<1>11. 9 <= BufLen
  <2>1. Len(Tokens(1, TRUE)) <= BufLen
    BY DEF InTurn
  <2>2. 1 \in 1..MaxCmd
    <3> HIDE DEF k
    <3> QED BY <1>10, AdminConnAssumption
  <2>3. Len(Tokens(1, TRUE)) = 9
    BY <2>2, CommandIs
  <2> QED BY <2>1, <2>3
<1>12. Advanced(b, w, n, tail, k)
  <2>1. tail # <<>> => Len(b \o SubSeq(w, 1, n)) = BufLen
    BY <1>7 DEF filled
  <2>2. /\ b \in Seq(AllTokens) /\ w \in Seq(AllTokens) /\ k \in 1..MaxCmd
        /\ Coming(b, w, k) /\ n \in 1..Len(w)
        /\ tail \in {<<>>} \cup {<<j>> : j \in Junk}
        /\ tail # <<>> => Len(b \o SubSeq(w, 1, n)) = BufLen
        /\ 9 <= BufLen
    BY <1>2, <1>9, <1>10, <1>11, <2>1
  <2> HIDE DEF b, w, k, filled
  <2> QED BY ONLY <2>2, RecvAdvances
<1>13. /\ n \in Nat /\ Len(b) \in Nat /\ m \in 1..9 /\ Len(filled) = m
       /\ s \in Seq(Seen) /\ Len(s) \in 1..10 /\ Begun(s, m, k)
       /\ Coming(filled, rest, k) /\ w[n] = Token(k, m) /\ (rest = <<>> <=> m = 9)
  BY ONLY <1>12, Zenon DEF Advanced, m, s, filled, rest
<1>14. b \in Seq(AllTokens) /\ n \in 1..Len(w) /\ Len(b) < m
  BY <1>2, <1>13
<1> DEFINE N == Len(s)
           h0 == http[c]
<1>15. h0 = FreshHttp \/ (m >= 4 /\ h0.status = "head" /\ h0.hasLength)
  <2> HIDE DEF h0, b, m
  <2> QED BY <1>9, <1>13, <1>14 DEF Reading, h0
<1> HIDE DEF h, s, filled, rest, m, h0
<1> HIDE DEF k
<1>16. /\ m <= 3 => h = h0
       /\ m >= 4 /\ m < 9 => /\ h.status = "head" /\ h.hasLength
                             /\ h.data # {} => h0.data # {} \/ m >= 5
       /\ m = 9 => /\ h.status = "done"
                   /\ h0.data # {} \/ \E v : h.data = {v} /\ RightValue(v, k)
  <2>1. /\ s \in Seq(Seen) /\ m \in 1..9 /\ N \in 1..10 /\ Len(s) = N /\ k \in 1..MaxCmd
        /\ Begun(s, m, k) /\ h0 \in HttpTypes
        /\ h0 = FreshHttp \/ (m >= 4 /\ h0.status = "head" /\ h0.hasLength)
    BY <1>2, <1>10, <1>13, <1>15 DEF h0
  <2> HIDE DEF N
  <2>2. ParsedAt(ParseDone(h0, s), h0, m, k)
    BY ONLY <2>1, BegunParsed, Zenon
  <2> QED BY ONLY <2>2, Zenon DEF ParsedAt, h, h0
<1>17. h \in DoneTypes /\ Single(h.data) /\ (h.status # "done" => h \in HttpTypes)
  <2>1. s \in Seq(Seen) /\ h0 \in HttpTypes /\ Single(h0.data)
    BY <1>2, <1>13 DEF h0
  <2>2. ASSUME h0.status = "head" PROVE HasBody(s)
    <3>1. m >= 4
      BY <1>15, <2>2 DEF FreshHttp
    <3>2. /\ s \in Seq(Seen) /\ m \in 1..9 /\ N \in 1..10 /\ Len(s) = N /\ Begun(s, m, k)
      BY <1>13
    <3> HIDE DEF N
    <3>3. HasBody(s) <=> m >= 4
      BY ONLY <3>2, BegunPieces, Zenon
    <3> QED BY <3>1, <3>3
  <2>3. LET r == ParseDone(h0, s)
        IN  r \in DoneTypes /\ Single(r.data) /\ (r.status # "done" => r \in HttpTypes)
    BY ONLY <2>1, <2>2, ParseSound, Zenon
  <2> QED BY ONLY <2>3, Zenon DEF h, h0
<1>18. cutValue[c] \subseteq cutValue'[c]
       /\ (m \in 5..8 => k \in cutValue'[c])
       /\ wire'[c] = rest
  <2>1. wire'[c] = rest
    BY <1>1, <1>5 DEF rest, AdminTypes
  <2>2. /\ w[n].part \in {"eq", "fields", "digit"} =>
             cutValue' = [cutValue EXCEPT ![c] = cutValue[c] \cup {w[n].cmd}]
        /\ w[n].part \notin {"eq", "fields", "digit"} => cutValue' = cutValue
    BY <1>5
  <2>3. /\ w[n].part \in {"eq", "fields", "digit"} =>
             cutValue'[c] = cutValue[c] \cup {w[n].cmd}
        /\ w[n].part \notin {"eq", "fields", "digit"} => cutValue'[c] = cutValue[c]
    BY <1>1, <2>2 DEF AdminTypes
  <2>4. w[n].cmd = k /\ w[n].part = Whole[m]
    BY <1>13 DEF Token
  <2>5. ASSUME m \in 5..8 PROVE Whole[m] \in {"eq", "fields", "digit"}
    <3>1. m = 5 \/ m = 6 \/ m = 7 \/ m = 8
      BY <2>5
    <3>2. Whole[5] = "eq" /\ Whole[6] = "fields" /\ Whole[7] = "digit" /\ Whole[8] = "digit"
      BY DEF Whole
    <3> QED BY <3>1, <3>2
  <2>6. ASSUME m \in 5..8 PROVE k \in cutValue'[c]
    BY <2>3, <2>4, <2>5, <2>6
  <2>7. cutValue[c] \subseteq cutValue'[c]
    BY <2>3
  <2> QED BY <2>1, <2>6, <2>7
\* A value that the parser has entered before was cut.
<1>19. h0.data # {} => k \in cutValue[c]
  <2>1. FreshHttp.data = {}
    BY DEF FreshHttp
  <2> HIDE DEF b
  <2> QED BY <1>9, <2>1 DEF Reading, h0
<1>20. ASSUME answers'[c] = answers[c], Range(executed[c]) \subseteq Range(executed'[c])
       PROVE  Right(c)'
  <2>1. \A j \in DOMAIN answers[c] \ cutValue'[c] : RightAt(c, j)'
    BY <1>1, <1>3, <1>18, <1>20, RightStays
  <2> QED BY <1>20, <2>1 DEF Right
\* The command is not there as a whole.
<1>21. CASE /\ h.status # "done"
            /\ buf'  = [buf EXCEPT ![c] = filled]
            /\ http' = [http EXCEPT ![c] = h]
            /\ UNCHANGED <<link, answers, executed, alive>>
  <2>1. buf'[c] = filled /\ http'[c] = h /\ wire'[c] = rest
    BY <1>1, <1>18, <1>21 DEF AdminTypes
  <2>2. m \in 1..8
    BY <1>13, <1>16, <1>21
  <2>3. rest # <<>> /\ Coming(filled, rest, k)
    BY <1>13, <2>2
  <2>4. Reading(filled, h, k, cutValue'[c])
    <3>1. CASE m <= 3
      <4>1. h = h0 /\ h0 = FreshHttp
        BY <1>15, <1>16, <3>1, <2>2
      <4> QED BY <1>13, <3>1, <4>1 DEF Reading
    <3>2. CASE ~ (m <= 3)
      <4>1. /\ h.status = "head" /\ h.hasLength
            /\ h.data # {} => h0.data # {} \/ m >= 5
        BY <1>16, <2>2, <3>2
      <4>2. h.data # {} => k \in cutValue'[c]
        BY <1>18, <1>19, <2>2, <4>1
      <4> QED BY <1>13, <3>2, <4>1, <4>2 DEF Reading
    <3> QED BY <3>1, <3>2
  <2>5. Len(cmds'[c]) = k /\ answers'[c] = answers[c]
    BY <1>3, <1>21 DEF k
  <2>6. Turn(c)'
    BY <1>9, <2>1, <2>3, <2>4, <2>5 DEF Turn
  <2>7. Right(c)'
    BY <1>20, <1>21
  <2> QED BY <2>6, <2>7
<1>22. ASSUME h.status = "done" PROVE m = 9 /\ rest = <<>>
  <2>1. CASE m <= 3
    <3>1. h.status = "init"
      BY <1>13, <1>15, <1>16, <2>1 DEF FreshHttp
    <3> QED BY <1>22, <3>1
  <2>2. CASE m >= 4
    BY <1>13, <1>16, <1>22, <2>2
  <2> QED BY <1>13, <2>1, <2>2
\* An exception ends the process.
<1>23. CASE alive' = FALSE /\ UNCHANGED <<link, buf, http, answers, executed>>
  <2>1. Len(cmds'[c]) = k /\ answers'[c] = answers[c]
    BY <1>3, <1>23 DEF k
  <2>2. Turn(c)'
    BY <1>9, <1>23, <2>1 DEF Turn
  <2>3. Right(c)'
    BY <1>20, <1>23
  <2> QED BY <2>2, <2>3
<1> DEFINE ret == GetOutJson(c, h.data)
           done == executed[c] \o SetToSeq(Effects(ret, h.data))
<1>24. /\ Range(executed[c]) \subseteq Range(done)
       /\ Effects(ret, h.data) \subseteq Range(done)
  <2> DEFINE data == h.data
  <2>1. executed[c] \in Seq(Executed) /\ Single(data)
    BY <1>2, <1>17
  <2> HIDE DEF data
  <2>2. \A x : /\ Range(executed[c]) \subseteq Range(executed[c] \o SetToSeq(Effects(x, data)))
               /\ Effects(x, data) \subseteq Range(executed[c] \o SetToSeq(Effects(x, data)))
    BY ONLY <2>1, Grows, Zenon
  <2> QED BY <2>2 DEF data
<1>25. ASSUME h.status = "done", k \notin cutValue'[c]
       PROVE  Deserved(c, k, ret, h.data)
  <2>1. h0.data = {}
    BY <1>18, <1>19, <1>25
  <2>2. PICK v : h.data = {v} /\ RightValue(v, k)
    BY <1>16, <1>22, <1>25, <2>1
  <2>3. /\ cmds[c] \in Seq([kind : Kinds, hasLength : BOOLEAN])
        /\ k \in 1..MaxCmd /\ k \in DOMAIN cmds[c] /\ RightValue(v, k)
    BY <1>2, <1>10, <2>2
  <2>4. Deserved(c, k, GetOutJson(c, {v}), {v})
    BY ONLY <2>3, RightAnswer, Zenon
  <2> QED BY <2>2, <2>4
<1> HIDE DEF ret
<1>26. ASSUME executed' = [executed EXCEPT ![c] = done]
       PROVE  executed'[c] = done
  BY <1>1, <1>26 DEF AdminTypes
<1> HIDE DEF done
\* The command is executed and answered.
<1>27. ASSUME h.status = "done", ret # Throws, ResetConn(c, h), link' = link,
              executed' = [executed EXCEPT ![c] = done],
              answers' = [answers EXCEPT ![c] = Append(answers[c], ret)]
       PROVE  Turn(c)' /\ Right(c)'
  <2>1. buf'[c] = <<>> /\ http'[c] = FreshHttp /\ wire'[c] = <<>>
    BY <1>1, <1>18, <1>22, <1>27 DEF ResetConn, ResetHttp, AdminTypes
  <2>2. answers'[c] = Append(answers[c], ret)
    BY <1>1, <1>27 DEF AdminTypes
  <2>3. /\ Len(answers'[c]) = k /\ DOMAIN answers'[c] = 1..k
        /\ \A j \in 1..k - 1 : answers'[c][j] = answers[c][j]
        /\ answers'[c][k] = ret
    <3> DEFINE S == {0, 100, 101} \cup {ret}
               an == answers[c]
    <3>1. an \in Seq(S) /\ ret \in S /\ DOMAIN an = 1..k - 1 /\ Len(an) = k - 1 /\ k \in Nat
      BY <1>2, <1>9, <1>10
    <3> HIDE DEF S, an
    <3>2. /\ Append(an, ret) \in Seq(S) /\ Len(Append(an, ret)) = Len(an) + 1
          /\ \A j \in 1..Len(an) : Append(an, ret)[j] = an[j]
          /\ Append(an, ret)[Len(an) + 1] = ret
      BY <3>1, AppendProperties
    <3>3. DOMAIN Append(an, ret) = 1..Len(Append(an, ret))
      BY <3>2
    <3> QED BY <2>2, <3>1, <3>2, <3>3 DEF an
  <2>4. Len(cmds'[c]) = k
    BY <1>3 DEF k
  <2>5. Turn(c)'
    BY <2>1, <2>3, <2>4 DEF Turn
  <2>6. executed'[c] = done
    BY <1>26, <1>27
  <2>7. ASSUME NEW j \in DOMAIN answers'[c] \ cutValue'[c] PROVE RightAt(c, j)'
    <3>1. CASE j = k
      <4>1. Deserved(c, k, ret, h.data)
        BY <1>25, <1>27, <2>7, <3>1
      <4>2. /\ ret = (IF cmds[c][k].kind = "valid" THEN 0 ELSE 101)
            /\ ret = 0 => [cmd |-> k, close |-> Digits] \in Effects(ret, h.data)
        BY <1>27, <4>1 DEF Deserved
      <4>3. ret = 0 => [cmd |-> k, close |-> Digits] \in Range(executed'[c])
        BY <1>24, <2>6, <4>2
      <4>4. answers'[c][k] = ret /\ cmds'[c][k] = cmds[c][k]
        BY <1>3, <2>3
      <4> QED BY <3>1, <4>2, <4>3, <4>4 DEF RightAt
    <3>2. CASE j # k
      <4>1. j \in 1..k - 1
        BY <1>10, <2>3, <3>2
      <4>2. j \in DOMAIN answers[c] \ cutValue'[c] /\ answers'[c][j] = answers[c][j]
        BY <1>10, <2>3, <4>1
      <4>3. Range(executed[c]) \subseteq Range(executed'[c])
        BY <1>24, <2>6
      <4> QED BY <1>1, <1>3, <1>18, <4>2, <4>3, RightStays
    <3> QED BY <3>1, <3>2
  <2>8. Right(c)'
    BY <2>7 DEF Right
  <2> QED BY <2>5, <2>8
\* The client is gone.
<1>28. ASSUME CloseConn(c), executed' = [executed EXCEPT ![c] = done], answers' = answers
       PROVE  Turn(c)' /\ Right(c)'
  <2>1. link'[c] = "closed"
    BY <1>1, <1>28 DEF CloseConn, AdminTypes
  <2>2. Turn(c)'
    BY <2>1 DEF Turn
  <2>3. Range(executed[c]) \subseteq Range(executed'[c])
    BY <1>24, <1>26, <1>28
  <2>4. Right(c)'
    BY <1>20, <1>28, <2>3
  <2> QED BY <2>2, <2>4
<1>29. CASE h.status = "done" /\ DoOneAction(c, h)
  <2>1. \/ alive' = FALSE /\ UNCHANGED <<link, buf, http, answers, executed>>
        \/ /\ ret # Throws /\ executed' = [executed EXCEPT ![c] = done]
           /\ \/ /\ ResetConn(c, h) /\ link' = link
                 /\ answers' = [answers EXCEPT ![c] = Append(answers[c], ret)]
              \/ CloseConn(c) /\ answers' = answers
    BY <1>29 DEF DoOneAction, SendData, ret, done
  <2> QED BY <1>23, <1>27, <1>28, <1>29, <2>1
<1> QED BY <1>7, <1>21, <1>29

LEMMA StepTurn == TurnInv /\ [Next]_vars => TurnInv'
<1> SUFFICES ASSUME TurnInv, [Next]_vars PROVE TurnInv'
  OBVIOUS
<1>1. AdminInv /\ AdminTypes /\ \A d \in Conns : Turn(d) /\ Right(d)
  BY DEF TurnInv, AdminInv
<1>2. AdminInv'
  BY <1>1, StepAdmin
<1>3. ASSUME UNCHANGED <<cmds, piped, answers, executed, cutValue, buf, wire, http, alive>>,
             NEW c \in Conns, NEW state, state # "closed", link[c] # "closed",
             link' = [link EXCEPT ![c] = state]
      PROVE  TurnInv'
  <2>1. ASSUME NEW d \in Conns PROVE Turn(d)' /\ Right(d)'
    <3>1. Turn(d) /\ Right(d)
      BY <1>1
    <3>2. link[d] # "closed" \/ link'[d] = link[d]
      BY <1>1, <1>3 DEF AdminTypes
    <3> QED BY <1>3, <3>1, <3>2, TurnFrame
  <2> QED BY <1>2, <2>1 DEF TurnInv
<1>4. ASSUME NEW c \in Conns, ClientConnects(c) PROVE TurnInv'
  <2>1. /\ link[c] # "closed" /\ link' = [link EXCEPT ![c] = "backlog"]
        /\ UNCHANGED <<cmds, piped, answers, executed, cutValue, buf, wire, http, alive>>
    BY <1>4 DEF ClientConnects, clientVars, serverVars
  <2>2. "backlog" # "closed"
    OBVIOUS
  <2> QED BY <1>3, <2>1, <2>2
<1>9. ASSUME NEW c \in Conns, CloseConn(c), Discard(c),
             UNCHANGED <<cmds, piped, answers, executed, cutValue, alive>>
      PROVE  TurnInv'
  <2>1. ASSUME NEW d \in Conns PROVE Turn(d)' /\ Right(d)'
    <3>1. Turn(d) /\ Right(d)
      BY <1>1
    <3>2. \/ link'[d] = "closed"
          \/ /\ link'[d] = link[d]
             /\ buf'[d] = buf[d] /\ wire'[d] = wire[d] /\ http'[d] = http[d]
      BY <1>1, <1>9 DEF CloseConn, Discard, AdminTypes
    <3> QED BY <1>9, <3>1, <3>2, TurnFrame
  <2> QED BY <1>2, <2>1 DEF TurnInv
<1>5. ASSUME NEW c \in Conns, UpdateAcceptListen(c) PROVE TurnInv'
  <2>1. link[c] # "closed" /\ UNCHANGED <<cmds, piped, answers, executed, cutValue, alive>>
    BY <1>5 DEF UpdateAcceptListen, clientVars
  <2>2. CASE /\ \E end \in {"open", "orphaned"} : link' = [link EXCEPT ![c] = end]
             /\ UNCHANGED <<wire, buf, http>>
    BY <1>3, <2>1, <2>2
  <2>3. CASE CloseConn(c) /\ Discard(c)
    BY <1>9, <2>1, <2>3
  <2> QED BY <1>5, <2>2, <2>3 DEF UpdateAcceptListen
<1>6. ASSUME UNCHANGED <<link, cmds, piped, answers, executed, cutValue, buf, wire, http, alive>>
      PROVE  TurnInv'
  <2>1. ASSUME NEW d \in Conns PROVE Turn(d)' /\ Right(d)'
    <3>1. Turn(d) /\ Right(d)
      BY <1>1
    <3> QED BY <1>6, <3>1, TurnFrame
  <2> QED BY <1>2, <2>1 DEF TurnInv
<1>7. ASSUME NEW c \in Conns, ClientCloses(c) PROVE TurnInv'
  BY <1>6, <1>7 DEF ClientCloses, serverVars
<1>8. ASSUME NEW c \in Conns, ClientSends(c) PROVE TurnInv'
  <2>1. UNCHANGED <<link, buf, http, answers, executed, cutValue, alive>>
    BY <1>8 DEF ClientSends, serverVars
  <2>2. ASSUME NEW d \in Conns \ {c}
        PROVE  cmds'[d] = cmds[d] /\ piped'[d] = piped[d] /\ wire'[d] = wire[d]
    <3>1. PICK item, T : /\ cmds' = [cmds EXCEPT ![c] = Append(cmds[c], item)]
                         /\ wire' = [wire EXCEPT ![c] = wire[c] \o T]
      BY <1>8 DEF ClientSends
    <3>2. piped' = [piped EXCEPT ![c] = piped[c] \/ Len(answers[c]) < Len(cmds[c])]
      BY <1>8 DEF ClientSends
    <3> QED BY <1>1, <3>1, <3>2 DEF AdminTypes
  <2>3. Turn(c)' /\ Right(c)'
    <3>1. CASE InTurn(c)'
      BY <1>8, <3>1, TurnSends
    <3>2. CASE ~ InTurn(c)'
      BY <3>2 DEF Turn, Right
    <3> QED BY <3>1, <3>2
  <2>4. ASSUME NEW d \in Conns PROVE Turn(d)' /\ Right(d)'
    <3>1. CASE d = c
      BY <2>3, <3>1
    <3>2. CASE d # c
      <4>1. Turn(d) /\ Right(d)
        BY <1>1
      <4>2. cmds'[d] = cmds[d] /\ piped'[d] = piped[d] /\ wire'[d] = wire[d]
        BY <2>2, <3>2
      <4> QED BY <2>1, <4>1, <4>2, TurnFrame
    <3> QED BY <3>1, <3>2
  <2> QED BY <1>2, <2>4 DEF TurnInv
<1>10. ASSUME NEW c \in Conns, RecvTimeout(c) PROVE TurnInv'
  BY <1>9, <1>10 DEF RecvTimeout, clientVars
<1>11. ASSUME NEW c \in Conns, RecvNothing(c) PROVE TurnInv'
  BY <1>9, <1>11 DEF RecvNothing, clientVars
<1>12. ASSUME NEW c \in Conns, RecvSome(c) PROVE TurnInv'
  <2>1. cmds' = cmds /\ piped' = piped /\ alive
    BY <1>12 DEF RecvSome, clientVars, Registered
  <2>2. Turn(c)' /\ Right(c)'
    <3>1. CASE InTurn(c)
      BY <1>12, <3>1, TurnRecv
    <3>2. CASE ~ InTurn(c)
      <4>1. ~ InTurn(c)'
        BY <2>1, <3>2 DEF InTurn
      <4> QED BY <4>1 DEF Turn, Right
    <3> QED BY <3>1, <3>2
  <2>3. ASSUME NEW d \in Conns, d # c
        PROVE  /\ link'[d] = link[d] /\ buf'[d] = buf[d] /\ wire'[d] = wire[d]
               /\ http'[d] = http[d] /\ cutValue'[d] = cutValue[d]
               /\ answers'[d] = answers[d] /\ executed'[d] = executed[d]
    <3> DEFINE w == wire[c]
    <3>1. PICK n \in 1..Len(w) :
            LET filled == buf[c] \o SubSeq(w, 1, n)
            IN  /\ wire' = [wire EXCEPT ![c] = SubSeq(w, n+1, Len(w))]
                /\ cutValue' = IF w[n].part \in {"eq", "fields", "digit"}
                               THEN [cutValue EXCEPT ![c] = cutValue[c] \cup {w[n].cmd}]
                               ELSE cutValue
                /\ \E tail \in {<<>>} \cup {<<j>> : j \in Junk} :
                     LET h == ParseDone(http[c], filled \o tail)
                     IN  \/ /\ buf'  = [buf EXCEPT ![c] = filled]
                            /\ http' = [http EXCEPT ![c] = h]
                            /\ UNCHANGED <<link, answers, executed, alive>>
                         \/ DoOneAction(c, h)
      BY <1>12 DEF RecvSome
    <3>2. wire'[d] = wire[d] /\ cutValue'[d] = cutValue[d]
      BY <1>1, <2>3, <3>1 DEF AdminTypes
    <3> DEFINE Same == /\ link'[d] = link[d] /\ buf'[d] = buf[d] /\ http'[d] = http[d]
                       /\ answers'[d] = answers[d] /\ executed'[d] = executed[d]
    <3>3. ASSUME NEW filled, NEW h,
                 buf'  = [buf EXCEPT ![c] = filled], http' = [http EXCEPT ![c] = h],
                 UNCHANGED <<link, answers, executed, alive>>
          PROVE  Same
      BY <1>1, <2>3, <3>3 DEF AdminTypes
    <3>4. ASSUME NEW h, DoOneAction(c, h) PROVE Same
      <4>1. CASE UNCHANGED <<link, buf, http, answers, executed>>
        BY <4>1
      <4>2. ASSUME NEW all, executed' = [executed EXCEPT ![c] = all], NEW ret, SendData(c, h, ret)
            PROVE  Same
        <5>1. executed'[d] = executed[d]
          BY <1>1, <2>3, <4>2 DEF AdminTypes
        <5>2. CASE /\ ResetConn(c, h) /\ link' = link
                   /\ answers' = [answers EXCEPT ![c] = Append(answers[c], ret)]
          BY <1>1, <2>3, <5>1, <5>2 DEF ResetConn, AdminTypes
        <5>3. CASE CloseConn(c) /\ answers' = answers
          BY <1>1, <2>3, <5>1, <5>3 DEF CloseConn, AdminTypes
        <5> HIDE DEF Same
        <5> QED BY <4>2, <5>2, <5>3 DEF SendData
      <4> HIDE DEF Same
      <4> QED BY <3>4, <4>1, <4>2 DEF DoOneAction
    <3> HIDE DEF Same
    <3>5. Same
      BY <3>1, <3>3, <3>4
    <3> QED BY <3>2, <3>5 DEF Same
  <2>4. ASSUME NEW d \in Conns PROVE Turn(d)' /\ Right(d)'
    <3>1. CASE d = c
      BY <2>2, <3>1
    <3>2. CASE d # c
      <4>1. Turn(d) /\ Right(d)
        BY <1>1
      <4> QED BY <2>1, <2>3, <3>2, <4>1, TurnFrame
    <3> QED BY <3>1, <3>2
  <2> QED BY <1>2, <2>4 DEF TurnInv
<1>13. CASE UNCHANGED vars
  BY <1>6, <1>13 DEF vars, clientVars, serverVars
<1>14. CASE Descriptors
  BY <1>6, <1>14 DEF Descriptors, clientVars, serverVars
<1> QED BY <1>4, <1>5, <1>7, <1>8, <1>10, <1>11, <1>12, <1>13, <1>14 DEF Next, RecvData

LEMMA TurnInvariant == Spec => []TurnInv
<1> QED BY InitTurn, StepTurn, PTL DEF Spec

\* For any number of clients, any cuts by recv and any size of the buffer: a
\* client that gives the length of its commands and waits for its answers gets,
\* as its k-th answer, what its k-th command deserves, and a valid one has been
\* executed with the numbers it was sent with, unless a recv ended within the
\* value of that very command (parse_done, do_one_action, main.cpp:76-200).
THEOREM AnswerRightCorrect == Spec => []AnswerRight
<1>1. ASSUME TurnInv PROVE AnswerRight
  <2>1. \A c \in Conns : Right(c)
    BY <1>1 DEF TurnInv
  <2> QED BY <2>1 DEF Right, RightAt, AnswerRight
<1> QED BY <1>1, TurnInvariant, PTL

\* Such a client is never answered before the server has read its command to
\* the end, so that no rest of it is taken for its next command (parse_done
\* against Content-Length, http.cpp:219-227).
THEOREM AnsweredWholeCorrect == Spec => []AnsweredWhole
<1>1. ASSUME TurnInv PROVE AnsweredWhole
  <2>1. \A c \in Conns : Turn(c)
    BY <1>1 DEF TurnInv
  <2> QED BY <2>1 DEF Turn, AnsweredWhole
<1> QED BY <1>1, TurnInvariant, PTL
=============================================================================
