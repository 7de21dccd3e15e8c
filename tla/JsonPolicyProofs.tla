-------------------------- MODULE JsonPolicyProofs --------------------------
(***************************************************************************)
(* What a command does to Path_Manager was said in its own text, for any   *)
(* texts, given or free, any memory behind the document and any depth of   *)
(* nesting.  The names of the members that the outermost object has are    *)
(* followed from the token that was read to the value that get_out_json    *)
(* looks them up in.  What parse makes of a text is compared with the      *)
(* reference grammar: that it accepts no other text step by step, and that *)
(* it accepts each of them by induction over the length of its rows.       *)
(***************************************************************************)
EXTENDS JsonPolicy, JsonGrammar, SequenceTheorems, WellFoundedInduction, TLAPS

\* The tokens read of this text, and the names in them; a name that has not
\* been read yet is empty.
ReadTokens ==
  IF Free THEN {got[i] : i \in 1 .. Len(got)} ELSE {TextTokens[i] : i \in 1 .. text.at}

NamesIn(tokens) == {""} \cup {t.val.str : t \in {u \in tokens : u.k = "string"}}

\* The names of a value's members, and an outermost container with members
\* called as in K.
NamesOf(v) == IF v.type = "object" THEN DOMAIN v.mem ELSE {}

Outermost(frame, K) ==
  \/ /\ frame.val.type = "object"
     /\ frame = [val |-> ObjV(frame.val.mem), name |-> frame.name]
     /\ DOMAIN frame.val.mem \cup {frame.name} \subseteq K
  \/ /\ frame.val.type = "array"
     /\ frame = [val |-> ArrV(frame.val.el)]

Stack(q, K) == IsSequence(q) /\ (q # <<>> => Outermost(q[1], K))
-----------------------------------------------------------------------------
(* Naturals and sequences. *)

\* Every set of naturals that is not empty has a least element.
LEMMA LeastNat ==
  ASSUME NEW T \in SUBSET Nat, T # {}
  PROVE  \E m \in T : \A n \in T : m <= n
<1>1. \A R, S : IsWellFoundedOn(R, S) =>
       \A U \in SUBSET S : U # {} => \E m \in U : \A n \in U : <<n, m>> \notin R
  BY WFMin
<1>2. IsWellFoundedOn({ss \in Nat \X Nat : ss[1] < ss[2]}, Nat)
  BY NatLessThanWellFounded DEF OpToRel
<1>3. PICK m \in T : \A n \in T : <<n, m>> \notin {ss \in Nat \X Nat : ss[1] < ss[2]}
  BY <1>1, <1>2
<1>4. \A n \in T : ~(n < m)
  BY <1>3
<1> QED BY <1>4

\* A set of naturals that holds 0 and with a number the next holds them all.
LEMMA SetInduction ==
  ASSUME NEW T \in SUBSET Nat, 0 \in T, \A n \in T : n + 1 \in T
  PROVE  \A n \in Nat : n \in T
<1> SUFFICES ASSUME Nat \ T # {} PROVE FALSE
  OBVIOUS
<1>1. PICK m \in Nat \ T : \A n \in Nat \ T : m <= n
  BY LeastNat
<1>2. m - 1 \in Nat /\ m - 1 \in T
  BY <1>1
<1> QED
  BY <1>1, <1>2

LEMMA SequenceIs ==
  ASSUME NEW s, IsSequence(s)
  PROVE  /\ Len(s) \in Nat /\ DOMAIN s = 1 .. Len(s)
         /\ s = <<>> <=> Len(s) = 0
<1> DEFINE S == {s[i] : i \in DOMAIN s}
<1>1. s \in Seq(S)
  BY DEF IsSequence
<1> HIDE DEF S
<1> QED BY <1>1

LEMMA IsSequenceOf ==
  ASSUME NEW S, NEW s \in Seq(S)
  PROVE  IsSequence(s)
<1> DEFINE T == {s[i] : i \in DOMAIN s}
<1>1. Len(s) \in Nat /\ s \in [1 .. Len(s) -> S] /\ DOMAIN s = 1 .. Len(s)
  OBVIOUS
<1>2. s \in [1 .. Len(s) -> T]
  BY <1>1
<1> HIDE DEF T
<1>3. s \in Seq(T)
  BY <1>1, <1>2, SeqDef
<1> QED BY <1>3 DEF IsSequence, T

Longer(q, f, p) ==
  /\ IsSequence(p) /\ Len(p) = Len(q) + 1 /\ p[Len(p)] = f
  /\ \A i \in 1 .. Len(q) : p[i] = q[i]

LEMMA AppendIs ==
  ASSUME NEW q, IsSequence(q), NEW f
  PROVE  Longer(q, f, Append(q, f))
<1> DEFINE S == {q[i] : i \in DOMAIN q} \cup {f}
           p == Append(q, f)
<1>0. q \in Seq({q[i] : i \in DOMAIN q}) /\ {q[i] : i \in DOMAIN q} \subseteq S
  BY DEF IsSequence
<1>1. q \in Seq(S) /\ f \in S
  <2>1. Len(q) \in Nat /\ q \in [1 .. Len(q) -> {q[i] : i \in DOMAIN q}]
    BY <1>0
  <2>2. q \in [1 .. Len(q) -> S]
    BY <1>0, <2>1
  <2> QED BY <2>1, <2>2, SeqDef
<1> HIDE DEF S
<1>2. /\ p \in Seq(S) /\ Len(p) = Len(q) + 1 /\ p[Len(q) + 1] = f
      /\ \A i \in 1 .. Len(q) : p[i] = q[i]
  BY <1>1, AppendProperties
<1>3. IsSequence(p)
  BY <1>2, IsSequenceOf
<1> QED BY <1>2, <1>3 DEF Longer

\* Frames put on a stack, replaced there and taken from it.
LEMMA Pushed ==
  ASSUME NEW q, NEW K, Stack(q, K), NEW f, q = <<>> => Outermost(f, K)
  PROVE  Stack(Append(q, f), K) /\ Append(q, f) # <<>>
<1> DEFINE p == Append(q, f)
<1>1. Longer(q, f, p)
  BY AppendIs DEF Stack
<1> HIDE DEF p
<1>2. Len(q) \in Nat /\ (q = <<>> <=> Len(q) = 0) /\ (p = <<>> <=> Len(p) = 0)
  BY <1>1, SequenceIs DEF Stack, Longer
<1>3. IsSequence(p) /\ Len(p) = Len(q) + 1 /\ p[Len(p)] = f /\ \A i \in 1 .. Len(q) : p[i] = q[i]
  BY <1>1 DEF Longer
<1>4. CASE Len(q) = 0
  BY <1>2, <1>3, <1>4 DEF Stack, p
<1>5. CASE Len(q) # 0
  <2>1. p[1] = q[1]
    BY <1>2, <1>3, <1>5
  <2> QED BY <1>2, <1>3, <1>5, <2>1 DEF Stack, p
<1> QED BY <1>4, <1>5

LEMMA Replaced ==
  ASSUME NEW q, NEW K, Stack(q, K), q # <<>>, NEW f, Len(q) = 1 => Outermost(f, K)
  PROVE  /\ Stack(OnTop(q, f), K) /\ OnTop(q, f) # <<>>
         /\ Len(OnTop(q, f)) = Len(q)
<1> DEFINE S == {q[i] : i \in DOMAIN q} \cup {f}
           p == OnTop(q, f)
<1>1. Len(q) \in Nat \ {0} /\ DOMAIN q = 1 .. Len(q)
  BY SequenceIs DEF Stack
<1>2. q \in [1 .. Len(q) -> S] /\ f \in S
  <2>1. q \in Seq({q[i] : i \in DOMAIN q})
    BY DEF Stack, IsSequence
  <2>2. q \in [1 .. Len(q) -> {q[i] : i \in DOMAIN q}]
    BY <2>1
  <2> QED BY <2>2
<1> HIDE DEF S
<1>3. p = [q EXCEPT ![Len(q)] = f]
  BY DEF OnTop
<1>4. p \in [1 .. Len(q) -> S] /\ p[Len(q)] = f /\ (\A i \in 1 .. Len(q) - 1 : p[i] = q[i])
  <2> DEFINE n == Len(q)
  <2>1. n \in Nat \ {0} /\ q \in [1 .. n -> S] /\ p = [q EXCEPT ![n] = f] /\ n \in 1 .. n
    BY <1>1, <1>2, <1>3
  <2> HIDE DEF n, p
  <2>2. p \in [1 .. n -> S] /\ p[n] = f
    BY <1>2, <2>1
  <2>3. \A i \in 1 .. n - 1 : i \in 1 .. n /\ i # n
    BY <2>1
  <2>4. \A i \in 1 .. n - 1 : p[i] = q[i]
    BY <2>1, <2>3
  <2> QED BY <2>2, <2>4 DEF n
<1> HIDE DEF p
<1>5. p \in Seq(S) /\ Len(p) = Len(q)
  <2>1. p \in Seq(S)
    BY <1>1, <1>4, SeqDef
  <2>2. DOMAIN p = 1 .. Len(q) /\ DOMAIN p = 1 .. Len(p) /\ Len(p) \in Nat
    BY <1>4, <2>1
  <2> QED BY <1>1, <2>1, <2>2
<1>6. IsSequence(p) /\ p # <<>>
  <2>1. IsSequence(p)
    BY <1>5, IsSequenceOf
  <2> QED BY <1>1, <1>5, <2>1, SequenceIs
<1>7. Outermost(p[1], K)
  <2>1. CASE Len(q) = 1
    BY <1>4, <2>1
  <2>2. CASE Len(q) # 1
    <3>1. p[1] = q[1]
      BY <1>1, <1>4, <2>2
    <3> QED BY <3>1 DEF Stack
  <2> QED BY <2>1, <2>2
<1> QED BY <1>5, <1>6, <1>7 DEF Stack, p

LEMMA Popped ==
  ASSUME NEW q, NEW K, Stack(q, K), q # <<>>
  PROVE  /\ Stack(Below(q), K)
         /\ Below(q) = <<>> => Top(q) = q[1]
<1> DEFINE S == {q[i] : i \in DOMAIN q}
           p == Below(q)
<1>1. q \in Seq(S)
  BY DEF Stack, IsSequence
<1> HIDE DEF S
<1>2. Len(q) \in Nat \ {0}
  BY SequenceIs DEF Stack
<1>3. p \in Seq(S) /\ Len(p) = Len(q) - 1 /\ (\A i \in 1 .. Len(q) - 1 : p[i] = q[i])
  <2> DEFINE n == Len(q) - 1
  <2>1. n \in Nat /\ n <= Len(q)
    BY <1>2
  <2>2. p = SubSeq(q, 1, n)
    BY DEF Below
  <2> HIDE DEF n
  <2>3. /\ SubSeq(q, 1, n) \in Seq(S) /\ Len(SubSeq(q, 1, n)) = n
        /\ \A i \in 1 .. n : SubSeq(q, 1, n)[i] = q[i]
    BY <1>1, <1>2, <2>1
  <2> QED BY <2>2, <2>3 DEF n
<1> HIDE DEF p
<1>4. IsSequence(p)
  BY <1>3, IsSequenceOf
<1>5. p = <<>> <=> Len(p) = 0
  BY <1>4, SequenceIs
<1>6. p # <<>> => p[1] = q[1]
  BY <1>2, <1>3, <1>5
<1>7. p = <<>> => Top(q) = q[1]
  <2>1. p = <<>> => Len(q) = 1
    BY <1>2, <1>3, <1>5
  <2> QED BY <2>1 DEF Top
<1> QED BY <1>4, <1>6, <1>7 DEF Stack, p
-----------------------------------------------------------------------------
(* Containers. *)

LEMMA ObjectFrameIs ==
  ASSUME NEW m, NEW n, NEW K, DOMAIN m \cup {n} \subseteq K
  PROVE  Outermost([val |-> ObjV(m), name |-> n], K)
BY DEF Outermost, ObjV

LEMMA ArrayFrameIs ==
  ASSUME NEW e, NEW K
  PROVE  Outermost([val |-> ArrV(e)], K)
BY DEF Outermost, ArrV

LEMMA ChildSet ==
  ASSUME NEW frame, NEW K, Outermost(frame, K), NEW v
  PROVE  Outermost(SetChild(frame, v), K)
<1>1. CASE frame.val.type = "object"
  <2> DEFINE m == frame.val.mem
             n == frame.name
             m2 == [x \in DOMAIN m \cup {n} |-> IF x = n THEN v ELSE m[x]]
  <2>1. frame = [val |-> ObjV(m), name |-> n] /\ DOMAIN m \cup {n} \subseteq K
    BY <1>1 DEF Outermost
  <2>2. SetChild(frame, v) = [frame EXCEPT !.val = WithMember(frame.val, n, v)]
    BY <1>1 DEF SetChild
  <2>3. WithMember(frame.val, n, v) = ObjV(m2) /\ DOMAIN m2 = DOMAIN m \cup {n}
    BY DEF WithMember
  <2> HIDE DEF m, n, m2
  <2>4. SetChild(frame, v) = [val |-> ObjV(m2), name |-> n]
    BY <2>1, <2>2, <2>3
  <2> QED BY <2>1, <2>3, <2>4, ObjectFrameIs
<1>2. CASE frame.val.type = "array"
  <2> DEFINE e == frame.val.el
             k == Len(e)
  <2>1. frame = [val |-> ArrV(e)]
    BY <1>2 DEF Outermost
  <2>2. SetChild(frame, v) = [frame EXCEPT !.val.el[k] = v]
    BY <1>2 DEF SetChild
  <2> HIDE DEF e, k
  <2>3. SetChild(frame, v) = [val |-> ArrV([e EXCEPT ![k] = v])]
    BY <2>1, <2>2 DEF ArrV
  <2> QED BY <2>3, ArrayFrameIs
<1> QED BY <1>1, <1>2 DEF Outermost

LEMMA ChildInserted ==
  ASSUME NEW frame, NEW K, Outermost(frame, K)
  PROVE  Outermost(InsertChild(frame), K)
<1>1. CASE frame.val.type = "object"
  BY <1>1, ChildSet DEF InsertChild
<1>2. CASE frame.val.type = "array"
  <2> DEFINE e == frame.val.el
             a == Append(e, Null)
  <2>1. frame = [val |-> ArrV(e)]
    BY <1>2 DEF Outermost
  <2>2. InsertChild(frame) = [frame EXCEPT !.val.el = a]
    BY <1>2 DEF InsertChild
  <2> HIDE DEF e, a
  <2>3. InsertChild(frame) = [val |-> ArrV(a)]
    BY <2>1, <2>2 DEF ArrV
  <2> QED BY <2>3, ArrayFrameIs
<1> QED BY <1>1, <1>2 DEF Outermost

LEMMA Named ==
  ASSUME NEW frame, NEW K, Outermost(frame, K), NEW n \in K
  PROVE  Outermost([frame EXCEPT !.name = n], K)
<1>1. CASE frame.val.type = "object"
  <2> DEFINE m == frame.val.mem
  <2>1. frame = [val |-> ObjV(m), name |-> frame.name] /\ DOMAIN m \subseteq K
    BY <1>1 DEF Outermost
  <2> HIDE DEF m
  <2>2. [frame EXCEPT !.name = n] = [val |-> ObjV(m), name |-> n]
    BY <2>1
  <2> QED BY <2>1, <2>2, ObjectFrameIs
<1>2. CASE frame.val.type = "array"
  <2> DEFINE e == frame.val.el
  <2>1. frame = [val |-> ArrV(e)]
    BY <1>2 DEF Outermost
  <2> HIDE DEF e
  <2>2. [frame EXCEPT !.name = n] = [val |-> ArrV(e)]
    BY <2>1
  <2> QED BY <2>2, ArrayFrameIs
<1> QED BY <1>1, <1>2 DEF Outermost
-----------------------------------------------------------------------------
(* The invariant. *)

InContainer == {"first", "next", "skipped", "name", "colon"}

Reading == {"value"} \cup InContainer

OpenPlaces == InContainer \cup {"recover"}

\* The containers q and the root value r have only members with names of K.
Holds(q, r, place, K) ==
  Stack(q, K) /\ NamesOf(r) \subseteq K /\ (place \in OpenPlaces => q # <<>>)

TextTypes ==
  /\ text \in [of : 0 .. Len(Texts), at : Nat, cut : BOOLEAN, past : BOOLEAN,
               behind : Places \cup {Nowhere}]
  /\ ~Free => text.at <= Len(TextTokens)
  /\ got \in Seq(Tokens \cup {EOS})

ErrorsCounted ==
  /\ pc \in {"value", "first", "name", "colon", "next", "skipped"} => errors = 0
  /\ pc = "recover" => errors = 1
  /\ pc \in {"after", "read"} => errors = IF successful THEN 0 ELSE 1

\* Where a given text is left, its end is open: behind a comment, or where a
\* comment or a string was cut.
BehindComment == text.at > 0 /\ TextTokens[text.at].k = "comment"

LeftOpen ==
  ~Free =>
    /\ text.past => AtEnd
    /\ IsBehind => EndsOpen
    /\ ~IsBehind /\ pc = "skipped" => BehindComment
    /\ ~IsBehind /\ text.past /\ pc \in Reading => EndsOpen

PolicyInv ==
  /\ TextTypes
  /\ Free => ~IsBehind
  /\ ~IsBehind => Holds(nodes, root, pc, NamesIn(ReadTokens))
  /\ LeftOpen
  /\ ErrorsCounted
  /\ manager.done => /\ pc \in {"answer", "idle"}
                     /\ ~MemberThrows(root) /\ ~FieldMissing(root)
  /\ pc \in {"answer", "idle"} => ~ClearThrows(root)
-----------------------------------------------------------------------------
(* Taking a token. *)

LEMMA TextsAre ==
  /\ Len(Texts) \in Nat /\ DOMAIN Texts = 1 .. Len(Texts)
  /\ \A o \in 1 .. Len(Texts) :
       /\ Len(Texts[o].tokens) \in Nat /\ DOMAIN Texts[o].tokens = 1 .. Len(Texts[o].tokens)
       /\ \A i \in 1 .. Len(Texts[o].tokens) : IsToken(Texts[o].tokens[i])
<1>1. Len(Texts) \in Nat /\ DOMAIN Texts = 1 .. Len(Texts)
  BY TextAssumption, SequenceIs
<1>2. ASSUME NEW o \in 1 .. Len(Texts)
      PROVE  /\ Len(Texts[o].tokens) \in Nat /\ DOMAIN Texts[o].tokens = 1 .. Len(Texts[o].tokens)
             /\ \A i \in 1 .. Len(Texts[o].tokens) : IsToken(Texts[o].tokens[i])
  <2>1. o \in DOMAIN Texts
    BY <1>1
  <2>2. IsSequence(Texts[o].tokens)
    BY <2>1, TextAssumption
  <2>3. Len(Texts[o].tokens) \in Nat /\ DOMAIN Texts[o].tokens = 1 .. Len(Texts[o].tokens)
    BY <2>2, SequenceIs
  <2> QED BY <2>1, <2>3, TextAssumption
<1> QED BY <1>1, <1>2

LEMMA ShorterIs ==
  ASSUME NEW u, NEW t \in Shorter(u)
  PROVE  \E n : t = Literal(IntV(n))
<1>1. u.k = "literal"
  BY DEF Shorter
<1>2. CASE u.val.type = "int" /\ u.val.int > 9
  BY <1>1, <1>2 DEF Shorter
<1>3. CASE u.val.type = "int" /\ u.val.int < 0 /\ ~ (u.val.int > 9)
  BY <1>1, <1>3 DEF Shorter
<1>4. CASE u.val.type = "uint"
  BY <1>1, <1>4 DEF Shorter
<1>5. CASE u.val.type = "real"
  BY <1>1, <1>5 DEF Shorter
<1> QED BY <1>1, <1>2, <1>3, <1>4, <1>5 DEF Shorter

LEMMA PlacesAre ==
  \A p \in Places : /\ p # Nowhere /\ IsToken(TokenAt(p))
                    /\ Onwards(p) \in Places /\ Onwards(p) # Nowhere
<1> SUFFICES ASSUME NEW p \in Places
             PROVE  /\ p # Nowhere /\ IsToken(TokenAt(p))
                    /\ Onwards(p) \in Places /\ Onwards(p) # Nowhere
  OBVIOUS
<1>0. PICK o \in Left : p \in {[of |-> o, at |-> i] : i \in 0 .. Len(Texts[o].tokens)}
  BY DEF Places
<1>1. PICK i \in 0 .. Len(Texts[o].tokens) : p = [of |-> o, at |-> i]
  BY <1>0
<1>2. o \in 1 .. Len(Texts) /\ Len(Texts) \in Nat
  BY TextsAre, TextAssumption
<1> DEFINE n == Len(Texts[o].tokens)
<1>3. n \in Nat /\ \A j \in 1 .. n : IsToken(Texts[o].tokens[j])
  BY <1>2, TextsAre
<1>4. p.of = o /\ p.at = i /\ o # 0
  BY <1>1, <1>2
<1>5. \A j \in 0 .. n : [of |-> o, at |-> j] \in Places
  BY DEF Places
<1>6. \A j \in 0 .. n : [of |-> o, at |-> j] # Nowhere
  BY <1>4 DEF Nowhere
<1>7. IsToken(EOS)
  BY DEF IsToken, EOS
<1>8. TokenAt(p) = IF i < n THEN Texts[o].tokens[i + 1] ELSE EOS
  BY <1>4 DEF TokenAt
<1>9. Onwards(p) = IF i < n THEN [of |-> o, at |-> i + 1] ELSE p
  BY <1>1, <1>4 DEF Onwards
<1> HIDE DEF n
<1>10. i \in 0 .. n
  BY DEF n
<1>11. i < n => i + 1 \in 1 .. n /\ i + 1 \in 0 .. n
  BY <1>3, <1>10
<1>12. IsToken(TokenAt(p))
  BY <1>3, <1>7, <1>8, <1>11
<1>13. Onwards(p) \in Places /\ Onwards(p) # Nowhere
  BY <1>1, <1>5, <1>6, <1>9, <1>10, <1>11
<1>14. p # Nowhere
  BY <1>1, <1>6, <1>10
<1> QED BY <1>12, <1>13, <1>14

\* A token that is offered is one, and what is offered where.
LEMMA OfferedIs ==
  ASSUME TextTypes, NEW t \in Offered
  PROVE  /\ IsToken(t)
         /\ Free => t \in Tokens \cup {EOS}
         /\ ~Free /\ ~IsBehind /\ AtEnd /\ t # EOS => text.past /\ Using
         /\ ~Free /\ ~IsBehind /\ ~AtEnd =>
              /\ text.at + 1 <= Len(TextTokens)
              /\ \/ t \in {NextToken, EOS}
                 \/ t.k = "literal"
                 \/ t = Overrun /\ NextToken.k = "string"
<1>1. IsToken(EOS)
  BY DEF IsToken, EOS
<1>2. IsToken(Overrun)
  BY DEF IsToken, Overrun, Quoted, StrV
<1>3. ~AtEnd /\ ~Free => text.at + 1 <= Len(TextTokens) /\ IsToken(NextToken)
  <2> SUFFICES ASSUME ~AtEnd, ~Free PROVE text.at + 1 <= Len(TextTokens) /\ IsToken(NextToken)
    OBVIOUS
  <2>1. text.of \in 1 .. Len(Texts) /\ TextTokens = Texts[text.of].tokens
    BY TextsAre DEF TextTypes, Free, TextTokens
  <2>2. text.at \in Nat /\ text.at <= Len(TextTokens) /\ text.at # Len(TextTokens)
        /\ Len(TextTokens) \in Nat
    BY <2>1, TextsAre DEF TextTypes, AtEnd
  <2>3. text.at + 1 \in 1 .. Len(TextTokens)
    BY <2>2
  <2> QED BY <2>1, <2>3, TextsAre DEF NextToken
<1>4. \A u : \A s \in Shorter(u) : IsToken(s) /\ s.k = "literal"
  BY ShorterIs DEF IsToken, Literal, IntV
<1>5. CASE Free
  <2>1. t \in Tokens \cup {EOS}
    BY <1>5 DEF Offered
  <2> QED BY <1>1, <1>5, <2>1, TextAssumption
<1>6. CASE ~Free /\ IsBehind
  <2>1. text.behind \in Places
    BY <1>6 DEF TextTypes, IsBehind
  <2>2. t \in {TokenAt(text.behind), EOS}
    BY <1>6 DEF Offered
  <2> QED BY <1>1, <1>6, <2>1, <2>2, PlacesAre
<1>7. CASE ~Free /\ ~IsBehind /\ AtEnd
  <2>1. t = EOS \/ (text.past /\ Using /\ t \in {TokenAt(p) : p \in Places})
    BY <1>7 DEF Offered
  <2> QED BY <1>1, <1>7, <2>1, PlacesAre
<1>8. CASE ~Free /\ ~IsBehind /\ ~AtEnd
  <2>1. t \in {NextToken, EOS} \/ t \in Shorter(NextToken) \/ (t = Overrun /\ NextToken.k = "string")
    BY <1>8 DEF Offered
  <2> QED BY <1>1, <1>2, <1>3, <1>4, <1>8, <2>1
<1> QED BY <1>5, <1>6, <1>7, <1>8

\* Of a free text the document's memory is not looked at.
LEMMA FreeTakes ==
  ASSUME NEW t, Take(t), Free
  PROVE  text' = text /\ Free' /\ IsBehind' = IsBehind
<1>1. text' = text
  BY DEF Take
<1> QED BY <1>1 DEF Free, IsBehind

\* The ways in which a token of a given text is taken: at its end, from there
\* on behind it, where it is cut, in a number, a string or a comment, and as
\* the next one.
Stood(at, cut, past) == text'.at = at /\ text'.cut = cut /\ text'.past = past

GivenTakes(t) ==
  /\ ~Free' /\ TextTokens' = TextTokens /\ TextTypes'
  /\ IsBehind => IsBehind' /\ Stood(text.at, text.cut, text.past)
  /\ ~IsBehind =>
       \/ AtEnd /\ t = EOS /\ ~IsBehind' /\ Stood(text.at, text.cut, TRUE)
       \/ /\ AtEnd /\ text.past /\ Using
          /\ IsBehind' /\ Stood(text.at, text.cut, text.past)
       \/ /\ ~AtEnd /\ text.at + 1 <= Len(TextTokens)
          /\ \/ t = EOS /\ ~IsBehind' /\ Stood(text.at, TRUE, TRUE)
             \/ t.k = "literal" /\ ~IsBehind' /\ Stood(text.at + 1, TRUE, text.past)
             \/ NextToken.k = "string" /\ IsBehind' /\ Stood(text.at, TRUE, TRUE)
             \/ t = NextToken /\ t.k = "comment" /\ ~IsBehind' /\ Stood(text.at + 1, TRUE, TRUE)
             \/ t = NextToken /\ ~IsBehind' /\ Stood(text.at + 1, text.cut, text.past)

LEMMA GivenTaken ==
  ASSUME TextTypes, NEW t \in Offered, Take(t), ~Free
  PROVE  GivenTakes(t)
<1> DEFINE B == Places \cup {Nowhere}
           Documents == [of : 0 .. Len(Texts), at : Nat, cut : BOOLEAN, past : BOOLEAN, behind : B]
<1>1. text \in Documents /\ text.at <= Len(TextTokens) /\ got \in Seq(Tokens \cup {EOS})
  BY DEF TextTypes
<1>2. got' = got
  BY DEF Take
<1> HIDE DEF B
\* What follows from a change of the document.
<1>3. ASSUME NEW at \in Nat, NEW cut \in BOOLEAN, NEW past \in BOOLEAN, NEW behind \in B,
             text' = [text EXCEPT !.at = at, !.cut = cut, !.past = past, !.behind = behind],
             at <= Len(TextTokens)
      PROVE  /\ ~Free' /\ TextTokens' = TextTokens /\ TextTypes'
             /\ Stood(at, cut, past) /\ IsBehind' = (behind # Nowhere)
  <2>1. text' \in Documents /\ text'.of = text.of /\ text'.behind = behind
    BY <1>1, <1>3
  <2>2. Stood(at, cut, past)
    BY <1>1, <1>3 DEF Stood
  <2>3. ~Free' /\ TextTokens' = TextTokens
    BY <2>1 DEF Free, TextTokens
  <2>4. IsBehind' = (behind # Nowhere)
    BY <2>1 DEF IsBehind
  <2>5. text'.at <= Len(TextTokens')
    BY <1>3, <2>2, <2>3 DEF Stood
  <2>6. TextTypes'
    BY <1>1, <1>2, <2>1, <2>3, <2>5 DEF TextTypes, B
  <2> QED BY <2>2, <2>3, <2>4, <2>6
<1>4. text.at \in Nat /\ text.cut \in BOOLEAN /\ text.past \in BOOLEAN /\ text.behind \in B
  BY <1>1
<1>5. text = [text EXCEPT !.at = text.at, !.cut = text.cut, !.past = text.past, !.behind = text.behind]
  BY <1>1
<1>6. CASE IsBehind
  <2> DEFINE b == IF t = EOS THEN text.behind ELSE Onwards(text.behind)
  <2>1. text.behind \in Places
    BY <1>6, <1>4 DEF IsBehind, B
  <2>2. b \in B /\ b # Nowhere
    BY <2>1, PlacesAre DEF B
  <2>3. text' = IF t = EOS THEN text ELSE [text EXCEPT !.behind = Onwards(text.behind)]
    BY <1>6 DEF Take, TakeBehind
  <2>4. text' = [text EXCEPT !.at = text.at, !.cut = text.cut, !.past = text.past, !.behind = b]
    BY <1>1, <1>5, <2>3
  <2> HIDE DEF b
  <2>5. /\ ~Free' /\ TextTokens' = TextTokens /\ TextTypes'
        /\ Stood(text.at, text.cut, text.past) /\ IsBehind' = (b # Nowhere)
    BY <1>1, <1>3, <1>4, <2>2, <2>4
  <2> QED BY <1>6, <2>2, <2>5 DEF GivenTakes
<1>7. CASE ~IsBehind /\ AtEnd
  <2>0. text.behind = Nowhere /\ Nowhere \in B
    BY <1>7 DEF IsBehind, B
  <2>1. TakeAtEnd(t)
    BY <1>7 DEF Take
  <2>2. CASE t = EOS /\ text' = [text EXCEPT !.past = TRUE]
    <3>1. text' = [text EXCEPT !.at = text.at, !.cut = text.cut, !.past = TRUE, !.behind = text.behind]
      BY <1>1, <2>2
    <3>2. /\ ~Free' /\ TextTokens' = TextTokens /\ TextTypes'
          /\ Stood(text.at, text.cut, TRUE) /\ IsBehind' = (text.behind # Nowhere)
      BY <1>1, <1>3, <1>4, <3>1
    <3> QED BY <1>7, <2>0, <2>2, <3>2 DEF GivenTakes
  <2>3. CASE t # EOS /\ \E p \in Places : TokenAt(p) = t /\ text' = [text EXCEPT !.behind = Onwards(p)]
    <3>1. PICK p \in Places : text' = [text EXCEPT !.behind = Onwards(p)]
      BY <2>3
    <3> DEFINE b == Onwards(p)
    <3>2. b \in B /\ b # Nowhere
      BY PlacesAre DEF B
    <3>3. text' = [text EXCEPT !.at = text.at, !.cut = text.cut, !.past = text.past, !.behind = b]
      BY <1>1, <3>1
    <3> HIDE DEF b
    <3>4. /\ ~Free' /\ TextTokens' = TextTokens /\ TextTypes'
          /\ Stood(text.at, text.cut, text.past) /\ IsBehind' = (b # Nowhere)
      BY <1>1, <1>3, <1>4, <3>2, <3>3
    <3>5. text.past /\ Using
      BY <1>7, <2>3, OfferedIs
    <3> QED BY <1>7, <3>2, <3>4, <3>5 DEF GivenTakes
  <2> QED BY <2>1, <2>2, <2>3 DEF TakeAtEnd
<1>8. CASE ~IsBehind /\ ~AtEnd
  <2>0. text.behind = Nowhere /\ Nowhere \in B
    BY <1>8 DEF IsBehind, B
  <2>1. /\ text.at + 1 <= Len(TextTokens)
        /\ \/ t \in {NextToken, EOS}
           \/ t.k = "literal"
           \/ t = Overrun /\ NextToken.k = "string"
    BY <1>8, OfferedIs
  <2>2. text.at + 1 \in Nat
    BY <1>4
  <2>3. CASE t = EOS /\ text' = [text EXCEPT !.cut = TRUE, !.past = TRUE]
    <3>1. text' = [text EXCEPT !.at = text.at, !.cut = TRUE, !.past = TRUE, !.behind = text.behind]
      BY <1>1, <2>3
    <3>2. /\ ~Free' /\ TextTokens' = TextTokens /\ TextTypes'
          /\ Stood(text.at, TRUE, TRUE) /\ IsBehind' = (text.behind # Nowhere)
      BY <1>1, <1>3, <1>4, <3>1
    <3> QED BY <1>8, <2>0, <2>1, <2>3, <3>2 DEF GivenTakes
  <2>4. CASE t \in Shorter(NextToken) /\ text' = [text EXCEPT !.at = @ + 1, !.cut = TRUE]
    <3>1. text' = [text EXCEPT !.at = text.at + 1, !.cut = TRUE, !.past = text.past, !.behind = text.behind]
      BY <1>1, <2>4
    <3>2. /\ ~Free' /\ TextTokens' = TextTokens /\ TextTypes'
          /\ Stood(text.at + 1, TRUE, text.past) /\ IsBehind' = (text.behind # Nowhere)
      BY <1>3, <1>4, <2>1, <2>2, <3>1
    <3>3. t.k = "literal"
      BY <2>4, ShorterIs DEF Literal
    <3> QED BY <1>8, <2>0, <2>1, <3>2, <3>3 DEF GivenTakes
  <2>5. CASE t = Overrun /\ \E p \in QuoteEnds :
               text' = [text EXCEPT !.cut = TRUE, !.past = TRUE, !.behind = p]
    <3>1. PICK p \in QuoteEnds : text' = [text EXCEPT !.cut = TRUE, !.past = TRUE, !.behind = p]
      BY <2>5
    <3>2. p \in B /\ p # Nowhere
      BY PlacesAre DEF QuoteEnds, B
    <3>3. text' = [text EXCEPT !.at = text.at, !.cut = TRUE, !.past = TRUE, !.behind = p]
      BY <1>1, <3>1
    <3>4. /\ ~Free' /\ TextTokens' = TextTokens /\ TextTypes'
          /\ Stood(text.at, TRUE, TRUE) /\ IsBehind' = (p # Nowhere)
      BY <1>1, <1>3, <1>4, <3>2, <3>3
    <3>5. t.k = "string" /\ EOS.k = "eos"
      BY <2>5 DEF Overrun, Quoted, EOS
    <3>6. NextToken.k = "string"
      BY <2>1, <3>5
    <3> QED BY <1>8, <2>1, <3>2, <3>4, <3>6 DEF GivenTakes
  <2>6. CASE t.k = "comment" /\ text' = [text EXCEPT !.at = @ + 1, !.cut = TRUE, !.past = TRUE]
    <3>1. text' = [text EXCEPT !.at = text.at + 1, !.cut = TRUE, !.past = TRUE, !.behind = text.behind]
      BY <1>1, <2>6
    <3>2. /\ ~Free' /\ TextTokens' = TextTokens /\ TextTypes'
          /\ Stood(text.at + 1, TRUE, TRUE) /\ IsBehind' = (text.behind # Nowhere)
      BY <1>3, <1>4, <2>1, <2>2, <3>1
    <3>3. t = NextToken
      BY <2>1, <2>6 DEF Overrun, Quoted, EOS
    <3> QED BY <1>8, <2>0, <2>1, <2>6, <3>2, <3>3 DEF GivenTakes
  <2>7. CASE t = NextToken /\ text' = [text EXCEPT !.at = @ + 1]
    <3>1. text' = [text EXCEPT !.at = text.at + 1, !.cut = text.cut, !.past = text.past, !.behind = text.behind]
      BY <1>1, <2>7
    <3>2. /\ ~Free' /\ TextTokens' = TextTokens /\ TextTypes'
          /\ Stood(text.at + 1, text.cut, text.past) /\ IsBehind' = (text.behind # Nowhere)
      BY <1>3, <1>4, <2>1, <2>2, <3>1
    <3> QED BY <1>8, <2>0, <2>1, <2>7, <3>2 DEF GivenTakes
  <2>8. TakeCut(t) \/ (t = NextToken /\ text' = [text EXCEPT !.at = @ + 1])
    BY <1>8 DEF Take
  <2> QED BY <2>3, <2>4, <2>5, <2>6, <2>7, <2>8 DEF TakeCut
<1> QED BY <1>6, <1>7, <1>8

Taken(t) ==
  /\ TextTypes'
  /\ ~IsBehind' =>
       /\ ~IsBehind
       /\ NamesIn(ReadTokens) \subseteq NamesIn(ReadTokens')
       /\ t.k = "string" /\ pc # "recover" => t.val.str \in NamesIn(ReadTokens')

LEMMA TokenTaken ==
  ASSUME TextTypes, NEW t \in Offered, Take(t)
  PROVE  Taken(t)
<1>1. IsToken(t) /\ (Free => t \in Tokens \cup {EOS})
  BY OfferedIs
<1>2. text.at \in Nat /\ got \in Seq(Tokens \cup {EOS})
  BY DEF TextTypes
<1>3. CASE Free
  <2>1. text' = text /\ Free' /\ IsBehind' = IsBehind
    BY <1>3, FreeTakes
  <2>2. /\ got' \in Seq(Tokens \cup {EOS})
        /\ {got[i] : i \in 1 .. Len(got)} \subseteq {got'[i] : i \in 1 .. Len(got')}
        /\ pc # "recover" => t \in {got'[i] : i \in 1 .. Len(got')}
    <3>1. CASE pc # "recover"
      <4> DEFINE T == Tokens \cup {EOS}
      <4>1. got' = Append(got, t) /\ got \in Seq(T) /\ t \in T
        BY <1>1, <1>2, <1>3, <3>1 DEF Take
      <4> HIDE DEF T
      <4>2. /\ Append(got, t) \in Seq(T) /\ Len(Append(got, t)) = Len(got) + 1
            /\ Append(got, t)[Len(got) + 1] = t
            /\ \A i \in 1 .. Len(got) : Append(got, t)[i] = got[i]
        BY <4>1, AppendProperties
      <4>3. Len(got) \in Nat
        BY <4>1
      <4>4. Len(got) + 1 \in 1 .. Len(got') /\ \A i \in 1 .. Len(got) : i \in 1 .. Len(got')
        BY <4>1, <4>2, <4>3
      <4> QED BY <4>1, <4>2, <4>4 DEF T
    <3>2. CASE pc = "recover"
      <4>1. got' = got
        BY <3>2 DEF Take
      <4> QED BY <1>2, <3>2, <4>1
    <3> QED BY <3>1, <3>2
  <2>3. TextTypes'
    BY <1>3, <2>1, <2>2 DEF TextTypes
  <2>4. ReadTokens \subseteq ReadTokens' /\ (pc # "recover" => t \in ReadTokens')
    BY <1>3, <2>1, <2>2 DEF ReadTokens
  <2> QED BY <2>1, <2>3, <2>4 DEF Taken, NamesIn
<1>4. CASE ~Free
  <2>1. GivenTakes(t)
    BY <1>4, GivenTaken
  <2>2. ASSUME ~IsBehind' PROVE text.at <= text'.at /\ ~IsBehind
    BY <1>2, <2>1, <2>2 DEF GivenTakes, Stood
  <2>3. ASSUME ~IsBehind', t.k = "string" PROVE t = NextToken /\ text'.at = text.at + 1
    BY <1>2, <2>1, <2>3 DEF GivenTakes, Stood, EOS
  <2>4. ASSUME ~IsBehind' PROVE ReadTokens \subseteq ReadTokens'
    <3>1. \A i \in 1 .. text.at : i \in 1 .. text'.at
      <4>1. text'.at \in Nat
        BY <2>1 DEF GivenTakes, TextTypes
      <4> QED BY <1>2, <2>2, <2>4, <4>1
    <3> QED BY <1>4, <2>1, <3>1 DEF ReadTokens, GivenTakes
  <2>5. ASSUME ~IsBehind', t.k = "string" PROVE t \in ReadTokens'
    <3>1. text.at + 1 \in 1 .. text'.at /\ t = TextTokens[text.at + 1]
      BY <1>2, <2>3, <2>5 DEF NextToken
    <3> QED BY <2>1, <3>1 DEF ReadTokens, GivenTakes
  <2> QED BY <2>1, <2>2, <2>4, <2>5 DEF Taken, NamesIn, GivenTakes
<1> QED BY <1>3, <1>4
-----------------------------------------------------------------------------
(* The containers and the root value, as the reader's steps leave them. *)

LEMMA Widened ==
  ASSUME NEW q, NEW r, NEW place, NEW K, NEW L, K \subseteq L, Holds(q, r, place, K)
  PROVE  Holds(q, r, place, L)
<1>1. ASSUME NEW f, Outermost(f, K) PROVE Outermost(f, L)
  BY <1>1 DEF Outermost
<1> QED BY <1>1 DEF Holds, Stack

LEMMA GoneTo ==
  ASSUME NEW q, NEW place, NEW K, Stack(q, K), NamesOf(root) \subseteq K,
         place \in OpenPlaces => q # <<>>, GoTo(place, q)
  PROVE  Holds(nodes', root', pc', K)
BY DEF GoTo, Holds

LEMMA Returned ==
  ASSUME NEW q, NEW v, NEW ok, NEW K, Stack(q, K), NamesOf(root) \subseteq K,
         q = <<>> => NamesOf(v) \subseteq K, Return(q, v, ok)
  PROVE  Holds(nodes', root', pc', K)
<1>1. CASE q = <<>>
  <2>1. nodes' = q /\ root' = v /\ pc' = "after"
    BY <1>1 DEF Return
  <2> QED BY <1>1, <2>1 DEF Holds, OpenPlaces, InContainer
<1>2. CASE q # <<>>
  <2> DEFINE f == SetChild(Top(q), v)
  <2>1. nodes' = OnTop(q, f) /\ root' = root
    BY <1>2 DEF Return
  <2>2. Len(q) = 1 => Outermost(f, K)
    <3> SUFFICES ASSUME Len(q) = 1 PROVE Outermost(f, K)
      OBVIOUS
    <3>1. Top(q) = q[1] /\ Outermost(q[1], K)
      BY <1>2 DEF Top, Stack
    <3> QED BY <3>1, ChildSet
  <2> HIDE DEF f
  <2>3. Stack(OnTop(q, f), K) /\ OnTop(q, f) # <<>>
    BY <1>2, <2>2, Replaced
  <2> QED BY <2>1, <2>3 DEF Holds
<1> QED BY <1>1, <1>2

LEMMA Closed ==
  ASSUME NEW ok, NEW K, Holds(nodes, root, pc, K), nodes # <<>>, Close(ok)
  PROVE  Holds(nodes', root', pc', K)
<1>1. Stack(nodes, K) /\ NamesOf(root) \subseteq K
  BY DEF Holds
<1>2. Stack(Below(nodes), K) /\ (Below(nodes) = <<>> => Top(nodes) = nodes[1])
  BY <1>1, Popped
<1>3. Below(nodes) = <<>> => NamesOf(Top(nodes).val) \subseteq K
  <2>1. Outermost(nodes[1], K)
    BY <1>1 DEF Stack
  <2> QED BY <1>2, <2>1 DEF Outermost, NamesOf
<1> QED BY <1>1, <1>2, <1>3, Returned DEF Close

\* The innermost container with a child inserted, and with a new name.
LEMMA OnTopHolds ==
  ASSUME NEW K, Stack(nodes, K), nodes # <<>>
  PROVE  /\ Stack(OnTop(nodes, InsertChild(Top(nodes))), K)
         /\ \A n \in K : Stack(OnTop(nodes, [Top(nodes) EXCEPT !.name = n]), K)
         /\ \A f : OnTop(nodes, f) # <<>>
<1>1. Len(nodes) = 1 => Outermost(Top(nodes), K)
  BY DEF Stack, Top
<1>2. Len(nodes) = 1 => Outermost(InsertChild(Top(nodes)), K)
  BY <1>1, ChildInserted
<1>3. Stack(OnTop(nodes, InsertChild(Top(nodes))), K)
  BY <1>2, Replaced
<1>4. ASSUME NEW n \in K
      PROVE  Stack(OnTop(nodes, [Top(nodes) EXCEPT !.name = n]), K)
  <2>1. Len(nodes) = 1 => Outermost([Top(nodes) EXCEPT !.name = n], K)
    BY <1>1, Named
  <2> QED BY <2>1, Replaced
<1>5. ASSUME NEW f
      PROVE  OnTop(nodes, f) # <<>>
  <2>1. DOMAIN OnTop(nodes, f) = DOMAIN nodes
    BY DEF OnTop
  <2>2. DOMAIN nodes # {}
    BY SequenceIs DEF Stack
  <2> QED BY <2>1, <2>2
<1> QED BY <1>3, <1>4, <1>5

LEMMA PlaceHolds ==
  ASSUME NEW K, Holds(nodes, root, pc, K)
  PROVE  Stack(Place, K)
<1>1. CASE pc = "first"
  <2>1. nodes # <<>> /\ Stack(nodes, K)
    BY <1>1 DEF Holds, OpenPlaces, InContainer
  <2> QED BY <1>1, <2>1, OnTopHolds DEF Place
<1>2. CASE pc # "first"
  BY <1>2 DEF Place, Holds
<1> QED BY <1>1, <1>2

\* K holds the names read, the one of this step among them.
LEMMA ValueRead ==
  ASSUME NEW K, "" \in K, Holds(nodes, root, pc, K), NEW t, IsToken(t), ReadValue(t)
  PROVE  Holds(nodes', root', pc', K)
<1>1. Stack(Place, K) /\ NamesOf(root) \subseteq K
  BY PlaceHolds DEF Holds
<1>2. CASE t.k = "comment" /\ GoTo("value", Place)
  BY <1>1, <1>2, GoneTo DEF OpenPlaces, InContainer
<1>3. CASE t.k = "{" /\ GoTo("name", Append(Place, ObjectFrame))
  <2>1. Outermost(ObjectFrame, K)
    <3>1. DOMAIN NoMembers \cup {""} \subseteq K
      BY DEF NoMembers
    <3> QED BY <3>1, ObjectFrameIs DEF ObjectFrame
  <2>2. Stack(Append(Place, ObjectFrame), K) /\ Append(Place, ObjectFrame) # <<>>
    BY <1>1, <2>1, Pushed
  <2> QED BY <1>1, <1>3, <2>2, GoneTo
<1>4. CASE t.k = "[" /\ GoTo("first", Append(Place, ArrayFrame))
  <2>1. Outermost(ArrayFrame, K)
    BY ArrayFrameIs DEF ArrayFrame
  <2>2. Stack(Append(Place, ArrayFrame), K) /\ Append(Place, ArrayFrame) # <<>>
    BY <1>1, <2>1, Pushed
  <2> QED BY <1>1, <1>4, <2>2, GoneTo
<1>5. CASE t.k \in {"literal", "string"} /\ Return(Place, t.val, TRUE)
  <2>1. t.val.type # "object"
    <3>1. CASE t.k = "literal"
      BY <3>1 DEF IsToken
    <3>2. CASE t.k = "string"
      <4> DEFINE s == t.val.str
      <4>1. t = Quoted(s)
        BY <3>2 DEF IsToken
      <4> HIDE DEF s
      <4> QED BY <4>1 DEF Quoted, StrV
    <3> QED BY <1>5, <3>1, <3>2
  <2>2. NamesOf(t.val) \subseteq K
    BY <2>1 DEF NamesOf
  <2> QED BY <1>1, <1>5, <2>2, Returned
<1>6. CASE Return(Place, CurrentValue(Place), FALSE)
  <2>1. Place = <<>> => CurrentValue(Place) = root
    BY DEF CurrentValue
  <2> QED BY <1>1, <1>6, <2>1, Returned
<1> QED BY <1>2, <1>3, <1>4, <1>5, <1>6 DEF ReadValue

LEMMA TokenRead ==
  ASSUME NEW K, "" \in K, Holds(nodes, root, pc, K), NEW t, IsToken(t),
         t.k = "string" /\ pc # "recover" => t.val.str \in K,
         \/ ReadValue(t)
         \/ ReadName(t)
         \/ ReadColon(t)
         \/ ReadComma(t)
         \/ ReadCommaAfterComment(t)
         \/ EndEmptyArray(t)
         \/ ReadSeparator(t)
         \/ Recover(t)
         \/ ParseEnd(t)
  PROVE  Holds(nodes', root', pc', K)
<1>1. Stack(nodes, K) /\ NamesOf(root) \subseteq K /\ (pc \in OpenPlaces => nodes # <<>>)
  BY DEF Holds
\* What most of the branches of the steps in a container are.
<1>2. ASSUME nodes # <<>>, NEW place, GoTo(place, nodes)
      PROVE  Holds(nodes', root', pc', K)
  BY <1>1, <1>2, GoneTo
<1>3. ASSUME nodes # <<>>, GoTo("value", OnTop(nodes, InsertChild(Top(nodes))))
      PROVE  Holds(nodes', root', pc', K)
  BY <1>1, <1>3, OnTopHolds, GoneTo
<1>4. ASSUME nodes # <<>>, NEW ok, Close(ok)
      PROVE  Holds(nodes', root', pc', K)
  BY <1>4, Closed
<1>5. CASE ReadValue(t)
  BY <1>5, ValueRead
<1>6. CASE ReadName(t)
  <2>1. nodes # <<>> /\ pc # "recover"
    BY <1>1, <1>6 DEF ReadName, OpenPlaces, InContainer
  <2>2. CASE t.k = "string" /\ GoTo("colon", OnTop(nodes, [Top(nodes) EXCEPT !.name = t.val.str]))
    <3>1. t.val.str \in K
      BY <2>1, <2>2
    <3> DEFINE q == OnTop(nodes, [Top(nodes) EXCEPT !.name = t.val.str])
    <3>2. Stack(q, K) /\ q # <<>>
      BY <1>1, <2>1, <3>1, OnTopHolds
    <3>3. GoTo("colon", q)
      BY <2>2
    <3> HIDE DEF q
    <3> QED BY <1>1, <3>2, <3>3, GoneTo
  <2>3. CASE GoTo("name", nodes) \/ GoTo("recover", nodes) \/ Close(TRUE)
    BY <1>2, <1>4, <2>1, <2>3
  <2> QED BY <1>6, <2>2, <2>3 DEF ReadName, AddErrorAndRecover
<1>7. CASE ReadColon(t)
  <2>1. nodes # <<>>
    BY <1>1, <1>7 DEF ReadColon, OpenPlaces, InContainer
  <2> QED BY <1>2, <1>3, <1>7, <2>1 DEF ReadColon, AddErrorAndRecover
<1>8. CASE ReadComma(t)
  <2>1. nodes # <<>>
    BY <1>1, <1>8 DEF ReadComma, OpenPlaces, InContainer
  <2> QED BY <1>2, <1>4, <1>8, <2>1 DEF ReadComma, AddErrorAndRecover
<1>9. CASE ReadCommaAfterComment(t)
  <2>1. nodes # <<>>
    BY <1>1, <1>9 DEF ReadCommaAfterComment, OpenPlaces, InContainer
  <2> QED BY <1>2, <1>4, <1>9, <2>1 DEF ReadCommaAfterComment
<1>10. CASE EndEmptyArray(t)
  <2>1. nodes # <<>>
    BY <1>1, <1>10 DEF EndEmptyArray, OpenPlaces, InContainer
  <2> QED BY <1>4, <1>10, <2>1 DEF EndEmptyArray
<1>11. CASE ReadSeparator(t)
  <2>1. nodes # <<>>
    BY <1>1, <1>11 DEF ReadSeparator, OpenPlaces, InContainer
  <2> QED BY <1>2, <1>3, <1>4, <1>11, <2>1 DEF ReadSeparator, AddErrorAndRecover
<1>12. CASE Recover(t)
  <2>1. nodes # <<>>
    BY <1>1, <1>12 DEF Recover, OpenPlaces, InContainer
  <2> QED BY <1>2, <1>4, <1>12, <2>1 DEF Recover
<1>13. CASE ParseEnd(t)
  <2>1. nodes' = nodes /\ root' = root /\ pc' \in {"after", "read"}
    BY <1>13 DEF ParseEnd
  <2> QED BY <1>1, <2>1 DEF Holds, OpenPlaces, InContainer
<1> QED BY <1>5, <1>6, <1>7, <1>8, <1>9, <1>10, <1>11, <1>12, <1>13
-----------------------------------------------------------------------------
(* The errors: the one that is found, and the containers left behind it. *)

LEMMA ErrorsKept ==
  ASSUME ErrorsCounted, NEW t,
         \/ ReadValue(t)
         \/ ReadName(t)
         \/ ReadColon(t)
         \/ ReadComma(t)
         \/ ReadCommaAfterComment(t)
         \/ EndEmptyArray(t)
         \/ ReadSeparator(t)
         \/ Recover(t)
         \/ ParseEnd(t)
  PROVE  ErrorsCounted'
<1> DEFINE Going == {"value", "first", "name", "colon", "next", "skipped"}
\* The three ways in which a step goes on.
<1>1. ASSUME NEW q, NEW place \in Going, errors = 0, errors' = errors, GoTo(place, q)
      PROVE  ErrorsCounted'
  BY <1>1 DEF GoTo, ErrorsCounted
<1>2. ASSUME NEW q, NEW v, Return(q, v, TRUE), errors = 0, errors' = errors
      PROVE  ErrorsCounted'
  BY <1>2 DEF Return, ErrorsCounted
<1>3. ASSUME NEW q, NEW v, Return(q, v, FALSE), errors' = 1
      PROVE  ErrorsCounted'
  BY <1>3 DEF Return, ErrorsCounted
<1>4. ASSUME errors = 0, errors' = errors, Close(TRUE)
      PROVE  ErrorsCounted'
  BY <1>2, <1>4 DEF Close
<1>5. ASSUME errors' = 1, GoTo("recover", nodes)
      PROVE  ErrorsCounted'
  BY <1>5 DEF GoTo, ErrorsCounted
<1>6. pc \in Going => errors = 0
  BY DEF ErrorsCounted
<1>7. CASE ReadValue(t)
  <2>1. errors = 0
    BY <1>6, <1>7 DEF ReadValue, AtValue
  <2>2. CASE errors' = errors + 1 /\ Return(Place, CurrentValue(Place), FALSE)
    <3>1. errors' = 1
      BY <2>1, <2>2
    <3> QED BY <1>3, <2>2, <3>1
  <2>3. CASE Return(Place, t.val, TRUE) /\ UNCHANGED errors
    BY <1>2, <2>1, <2>3
  <2>4. CASE UNCHANGED errors /\ (\/ GoTo("value", Place)
                                \/ GoTo("name", Append(Place, ObjectFrame))
                                \/ GoTo("first", Append(Place, ArrayFrame)))
    BY <1>1, <2>1, <2>4
  <2> QED BY <1>7, <2>2, <2>3, <2>4 DEF ReadValue
<1>8. CASE ReadName(t)
  <2>1. errors = 0
    BY <1>6, <1>8 DEF ReadName
  <2>2. CASE AddErrorAndRecover
    BY <1>5, <2>1, <2>2 DEF AddErrorAndRecover
  <2>3. CASE Close(TRUE) /\ UNCHANGED errors
    BY <1>4, <2>1, <2>3
  <2>4. CASE ~AddErrorAndRecover /\ ~(Close(TRUE) /\ UNCHANGED errors)
    BY <1>1, <1>8, <2>1, <2>4 DEF ReadName
  <2> QED BY <2>2, <2>3, <2>4
<1>9. CASE ReadColon(t)
  <2>1. errors = 0
    BY <1>6, <1>9 DEF ReadColon
  <2> QED BY <1>1, <1>5, <1>9, <2>1 DEF ReadColon, AddErrorAndRecover
<1>10. CASE ReadComma(t)
  <2>1. errors = 0
    BY <1>6, <1>10 DEF ReadComma
  <2>2. CASE AddErrorAndRecover
    BY <1>5, <2>1, <2>2 DEF AddErrorAndRecover
  <2>3. CASE Close(TRUE) /\ UNCHANGED errors
    BY <1>4, <2>1, <2>3
  <2>4. CASE ~AddErrorAndRecover /\ ~(Close(TRUE) /\ UNCHANGED errors)
    BY <1>1, <1>10, <2>1, <2>4 DEF ReadComma
  <2> QED BY <2>2, <2>3, <2>4
<1>11. CASE ReadCommaAfterComment(t)
  <2>1. errors = 0
    BY <1>6, <1>11 DEF ReadCommaAfterComment
  <2> QED BY <1>1, <1>4, <1>11, <2>1 DEF ReadCommaAfterComment
<1>12. CASE EndEmptyArray(t)
  <2>1. errors = 0
    BY <1>6, <1>12 DEF EndEmptyArray
  <2> QED BY <1>4, <1>12, <2>1 DEF EndEmptyArray
<1>13. CASE ReadSeparator(t)
  <2>1. errors = 0
    BY <1>6, <1>13 DEF ReadSeparator
  <2>2. CASE AddErrorAndRecover
    BY <1>5, <2>1, <2>2 DEF AddErrorAndRecover
  <2>3. CASE Close(TRUE) /\ UNCHANGED errors
    BY <1>4, <2>1, <2>3
  <2>4. CASE ~AddErrorAndRecover /\ ~(Close(TRUE) /\ UNCHANGED errors)
    BY <1>1, <1>13, <2>1, <2>4 DEF ReadSeparator
  <2> QED BY <2>2, <2>3, <2>4
<1>14. CASE Recover(t)
  <2>1. errors = 1 /\ errors' = errors
    BY <1>14 DEF Recover, ErrorsCounted
  <2> QED BY <1>3, <1>5, <1>14, <2>1 DEF Recover, Close
<1>15. CASE ParseEnd(t)
  BY <1>15 DEF ParseEnd, ErrorsCounted
<1> QED BY <1>7, <1>8, <1>9, <1>10, <1>11, <1>12, <1>13, <1>14, <1>15
-----------------------------------------------------------------------------
(* The invariant is kept. *)

LEMMA PolicyInit == Init => PolicyInv
<1> SUFFICES ASSUME Init PROVE PolicyInv
  OBVIOUS
<1>1. TextTypes
  BY TextsAre DEF Init, TextTypes, Free
<1>2. Holds(nodes, root, pc, NamesIn(ReadTokens))
  <2>1. nodes \in Seq({})
    BY DEF Init
  <2>2. IsSequence(nodes)
    BY <2>1, IsSequenceOf
  <2> QED BY <2>2 DEF Init, Holds, Stack, NamesOf, Null, OpenPlaces, InContainer
<1>3. Free /\ ~IsBehind
  BY DEF Init, Free, IsBehind
<1> QED BY <1>1, <1>2, <1>3 DEF Init, PolicyInv, LeftOpen, ErrorsCounted, NoEffect, ClearThrows, Null

LEMMA PolicyReset ==
  ASSUME PolicyInv, NEW of \in 0 .. Len(Texts), Reset(of)
  PROVE  PolicyInv'
<1>1. /\ text' = [of |-> of, at |-> 0, cut |-> FALSE, past |-> FALSE, behind |-> Nowhere]
      /\ got' = <<>> /\ nodes' = <<>> /\ errors' = 0 /\ pc' = "value"
      /\ root' = Clear(root) /\ manager' = NoEffect /\ ~ClearThrows(root)
  BY DEF Reset, ParseBegin, PolicyInv
<1>2. TextTypes'
  <2>1. ~Free' => Len(TextTokens') \in Nat
    BY <1>1, TextsAre DEF Free, TextTokens
  <2> QED BY <1>1, <2>1 DEF TextTypes
<1>3. Holds(nodes', root', pc', NamesIn(ReadTokens'))
  <2>1. nodes' \in Seq({})
    BY <1>1
  <2>2. IsSequence(nodes')
    BY <2>1, IsSequenceOf
  <2>3. NamesOf(root') = {}
    BY <1>1 DEF Clear, ClearThrows, NamesOf, ObjV, ArrV, NoMembers
  <2> QED BY <1>1, <2>2, <2>3 DEF Holds, Stack, OpenPlaces, InContainer
<1>4. ~IsBehind' /\ ~text'.past
  BY <1>1 DEF IsBehind
<1> QED BY <1>1, <1>2, <1>3, <1>4 DEF PolicyInv, LeftOpen, ErrorsCounted, NoEffect

ReaderPlaces == Reading \cup {"recover", "after"}

\* Where a step leads; the end of the text is passed only behind a comment.
LEMMA StepPlaces ==
  ASSUME NEW t,
         \/ ReadValue(t)
         \/ ReadName(t)
         \/ ReadColon(t)
         \/ ReadComma(t)
         \/ ReadCommaAfterComment(t)
         \/ EndEmptyArray(t)
         \/ ReadSeparator(t)
         \/ Recover(t)
         \/ ParseEnd(t)
  PROVE  /\ Take(t) /\ pc \in ReaderPlaces
         /\ pc' \in Reading => pc \in Reading
         /\ pc' = "skipped" => t.k = "comment"
         /\ pc' \in Reading /\ t = EOS => pc = "skipped"
<1>0. t = EOS => t.k = "eos"
  BY DEF EOS
<1>1. CASE ReadValue(t)
  BY <1>0, <1>1 DEF ReadValue, AtValue, GoTo, Return, Reading, InContainer, ReaderPlaces
<1>2. CASE ReadName(t)
  BY <1>0, <1>2 DEF ReadName, GoTo, Close, Return, AddErrorAndRecover, Reading, InContainer, ReaderPlaces
<1>3. CASE ReadColon(t)
  BY <1>0, <1>3 DEF ReadColon, GoTo, AddErrorAndRecover, Reading, InContainer, ReaderPlaces
<1>4. CASE ReadComma(t)
  BY <1>0, <1>4 DEF ReadComma, GoTo, Close, Return, AddErrorAndRecover, Reading, InContainer, ReaderPlaces
<1>5. CASE ReadCommaAfterComment(t)
  BY <1>0, <1>5 DEF ReadCommaAfterComment, GoTo, Close, Return, Reading, InContainer, ReaderPlaces
<1>6. CASE EndEmptyArray(t)
  BY <1>0, <1>6 DEF EndEmptyArray, Close, Return, Reading, InContainer, ReaderPlaces
<1>7. CASE ReadSeparator(t)
  BY <1>0, <1>7 DEF ReadSeparator, GoTo, Close, Return, AddErrorAndRecover, Reading, InContainer, ReaderPlaces
<1>8. CASE Recover(t)
  BY <1>8 DEF Recover, GoTo, Close, Return, Reading, InContainer, ReaderPlaces
<1>9. CASE ParseEnd(t)
  BY <1>9 DEF ParseEnd, Reading, InContainer, ReaderPlaces
<1> QED BY <1>1, <1>2, <1>3, <1>4, <1>5, <1>6, <1>7, <1>8, <1>9

\* A given text is left only where its end is open.
LEMMA LeftOpenKept ==
  ASSUME TextTypes, LeftOpen, NEW t \in Offered,
         \/ ReadValue(t)
         \/ ReadName(t)
         \/ ReadColon(t)
         \/ ReadComma(t)
         \/ ReadCommaAfterComment(t)
         \/ EndEmptyArray(t)
         \/ ReadSeparator(t)
         \/ Recover(t)
         \/ ParseEnd(t)
  PROVE  LeftOpen'
<1>1. /\ Take(t) /\ pc \in ReaderPlaces
      /\ pc' \in Reading => pc \in Reading
      /\ pc' = "skipped" => t.k = "comment"
      /\ pc' \in Reading /\ t = EOS => pc = "skipped"
  BY StepPlaces
<1> SUFFICES ASSUME ~Free' PROVE LeftOpen'
  BY DEF LeftOpen
<1>2. ~Free
  BY <1>1, FreeTakes
<1>3. GivenTakes(t)
  BY <1>1, <1>2, GivenTaken
<1>4. text.at \in Nat /\ text'.at \in Nat /\ text.cut \in BOOLEAN /\ TextTokens' = TextTokens
  BY <1>3 DEF TextTypes, GivenTakes
<1>5. /\ text.past => AtEnd
      /\ IsBehind => EndsOpen
      /\ ~IsBehind /\ pc = "skipped" => BehindComment
      /\ ~IsBehind /\ text.past /\ pc \in Reading => EndsOpen
  BY <1>2 DEF LeftOpen
<1>6. ASSUME text'.at = text.at, text.cut => text'.cut
      PROVE  /\ EndsOpen => EndsOpen'
             /\ BehindComment => BehindComment'
             /\ AtEnd => AtEnd'
  BY <1>2, <1>4, <1>6 DEF EndsOpen, BehindComment, AtEnd, NextToken, Free
<1>7. ASSUME ~IsBehind, ~IsBehind', t.k = "comment" PROVE BehindComment'
  <2>1. t # EOS
    BY <1>7 DEF EOS
  <2>2. t = NextToken /\ text'.at = text.at + 1
    BY <1>3, <1>7, <2>1 DEF GivenTakes, Stood
  <2> QED BY <1>4, <1>7, <2>2 DEF BehindComment, NextToken
<1>8. CASE IsBehind
  BY <1>3, <1>5, <1>6, <1>8 DEF GivenTakes, Stood, LeftOpen
<1>9. CASE ~IsBehind /\ AtEnd /\ t = EOS /\ ~IsBehind' /\ Stood(text.at, text.cut, TRUE)
  <2>1. pc' \in Reading => BehindComment'
    BY <1>1, <1>5, <1>6, <1>9 DEF Stood
  <2>2. BehindComment' => EndsOpen'
    BY DEF BehindComment, EndsOpen
  <2> QED BY <1>6, <1>9, <2>1, <2>2 DEF Stood, LeftOpen, Reading, InContainer
<1>10. CASE /\ ~IsBehind /\ AtEnd /\ text.past /\ Using
            /\ IsBehind' /\ Stood(text.at, text.cut, text.past)
  <2>1. pc \in Reading
    BY <1>1, <1>10 DEF Using, ReaderPlaces
  <2> QED BY <1>5, <1>6, <1>10, <2>1 DEF Stood, LeftOpen
<1>11. CASE ~IsBehind /\ ~AtEnd /\ t = EOS /\ ~IsBehind' /\ Stood(text.at, TRUE, TRUE)
  <2>1. pc' \in Reading => BehindComment'
    BY <1>1, <1>5, <1>6, <1>11 DEF Stood
  <2>2. BehindComment' => EndsOpen'
    BY DEF BehindComment, EndsOpen
  <2>3. AtEnd'
    BY <1>11 DEF Stood, AtEnd
  <2> QED BY <1>11, <2>1, <2>2, <2>3 DEF LeftOpen, Reading, InContainer
<1>12. CASE ~IsBehind /\ ~AtEnd /\ t.k = "literal" /\ ~IsBehind' /\ Stood(text.at + 1, TRUE, text.past)
  BY <1>1, <1>5, <1>12 DEF Stood, LeftOpen
<1>13. CASE /\ ~IsBehind /\ ~AtEnd /\ text.at + 1 <= Len(TextTokens)
            /\ NextToken.k = "string" /\ IsBehind' /\ Stood(text.at, TRUE, TRUE)
  <2>1. Len(TextTokens) \in Nat
    <3>1. text.of \in 1 .. Len(Texts)
      BY <1>2, TextsAre DEF TextTypes, Free
    <3> QED BY <1>2, <3>1, TextsAre DEF TextTokens
  <2>2. text'.cut /\ text'.at < Len(TextTokens') /\ NextToken'.k = "string"
    BY <1>4, <1>13, <2>1 DEF Stood, NextToken
  <2>3. AtEnd'
    BY <2>2 DEF AtEnd
  <2> QED BY <1>13, <2>2, <2>3 DEF LeftOpen, EndsOpen
<1>14. CASE /\ ~IsBehind /\ ~AtEnd /\ t.k = "comment" /\ ~IsBehind' /\ Stood(text.at + 1, TRUE, TRUE)
  <2>1. BehindComment' /\ AtEnd'
    BY <1>7, <1>14 DEF Stood, AtEnd
  <2>2. BehindComment' => EndsOpen'
    BY DEF BehindComment, EndsOpen
  <2> QED BY <1>14, <2>1, <2>2 DEF LeftOpen
<1>15. CASE ~IsBehind /\ ~AtEnd /\ ~IsBehind' /\ Stood(text.at + 1, text.cut, text.past)
  BY <1>1, <1>5, <1>7, <1>15 DEF Stood, LeftOpen
<1> QED BY <1>3, <1>8, <1>9, <1>10, <1>11, <1>12, <1>13, <1>14, <1>15 DEF GivenTakes

LEMMA PolicyToken ==
  ASSUME PolicyInv, UNCHANGED manager, NEW t \in Offered,
         \/ ReadValue(t)
         \/ ReadName(t)
         \/ ReadColon(t)
         \/ ReadComma(t)
         \/ ReadCommaAfterComment(t)
         \/ EndEmptyArray(t)
         \/ ReadSeparator(t)
         \/ Recover(t)
         \/ ParseEnd(t)
  PROVE  PolicyInv'
<1>1. TextTypes /\ ErrorsCounted
  BY DEF PolicyInv
<1>2. Take(t) /\ pc \in ReaderPlaces
  BY StepPlaces
<1>3. Taken(t)
  BY <1>1, <1>2, TokenTaken
<1>4. ErrorsCounted'
  BY <1>1, ErrorsKept
<1>5. pc' \notin {"answer", "idle"}
  BY DEF ReadValue, ReadName, ReadColon, ReadComma, ReadCommaAfterComment, EndEmptyArray,
         ReadSeparator, Recover, ParseEnd, Return, Close, GoTo, AddErrorAndRecover
<1>6. ~manager'.done
  BY <1>2 DEF PolicyInv, ReaderPlaces, Reading, InContainer
<1>7. ASSUME ~IsBehind' PROVE Holds(nodes', root', pc', NamesIn(ReadTokens'))
  <2> DEFINE K == NamesIn(ReadTokens')
  <2>1. /\ ~IsBehind /\ NamesIn(ReadTokens) \subseteq K
        /\ t.k = "string" /\ pc # "recover" => t.val.str \in K
    BY <1>3, <1>7 DEF Taken
  <2>2. "" \in K
    BY DEF NamesIn
  <2>3. IsToken(t)
    BY <1>1, OfferedIs
  <2> HIDE DEF K
  <2>4. Holds(nodes, root, pc, K)
    BY <2>1, Widened DEF PolicyInv
  <2>5. Holds(nodes', root', pc', K)
    BY <2>1, <2>2, <2>3, <2>4, TokenRead
  <2> QED BY <2>5 DEF K
<1>8. LeftOpen'
  BY <1>1, LeftOpenKept DEF PolicyInv
<1>9. Free' => ~IsBehind'
  <2>1. CASE Free
    BY <1>2, <2>1, FreeTakes DEF PolicyInv
  <2>2. CASE ~Free
    BY <1>1, <1>2, <2>2, GivenTaken DEF GivenTakes
  <2> QED BY <2>1, <2>2
<1> QED BY <1>3, <1>4, <1>5, <1>6, <1>7, <1>8, <1>9 DEF PolicyInv, Taken

\* The steps that do not read the text.
TextSame ==
  /\ TextTypes' /\ LeftOpen'
  /\ ReadTokens' = ReadTokens /\ Free' = Free /\ IsBehind' = IsBehind

LEMMA TextKept ==
  ASSUME PolicyInv, UNCHANGED <<text, got>>, pc' \in Reading => pc' = pc
  PROVE  TextSame
<1>1. /\ Free' = Free /\ TextTokens' = TextTokens /\ IsBehind' = IsBehind
      /\ AtEnd' = AtEnd /\ ReadTokens' = ReadTokens
  BY DEF Free, TextTokens, IsBehind, AtEnd, ReadTokens
<1>2. EndsOpen' = EndsOpen /\ BehindComment' = BehindComment
  BY <1>1 DEF EndsOpen, BehindComment, NextToken
<1>3. TextTypes'
  BY <1>1 DEF PolicyInv, TextTypes
<1>4. LeftOpen'
  BY <1>1, <1>2 DEF PolicyInv, LeftOpen, Reading, InContainer
<1> QED BY <1>1, <1>3, <1>4 DEF TextSame

LEMMA PolicyStep == PolicyInv /\ [Next]_vars => PolicyInv'
<1> SUFFICES ASSUME PolicyInv, [Next]_vars PROVE PolicyInv'
  OBVIOUS
<1>1. CASE \E of \in 0 .. Len(Texts) : Reset(of)
  BY <1>1, PolicyReset
<1>2. CASE ReaderStep /\ UNCHANGED <<served, manager, answer>>
  <2>1. CASE StackExceeded
    <3>1. /\ UNCHANGED <<text, got, nodes, errors, root, successful, manager>>
          /\ pc' = "thrown" /\ pc \in {"value", "first"}
      BY <1>2, <2>1 DEF StackExceeded, AtValue
    <3>2. TextSame
      BY <3>1, TextKept DEF Reading, InContainer
    <3> QED BY <3>1, <3>2 DEF TextSame, PolicyInv, Holds, OpenPlaces, InContainer, ErrorsCounted
  <2> QED BY <1>2, <2>1, PolicyToken DEF ReaderStep
<1>3. CASE GetOutJson
  <2>1. /\ UNCHANGED <<text, got, nodes, errors, root, successful>>
        /\ manager' = IF Code(root) = 0 THEN Effect(root) ELSE NoEffect
        /\ pc' = IF Code(root) = -1 THEN "thrown" ELSE "answer"
    BY <1>3 DEF GetOutJson
  <2>2. TextSame
    BY <2>1, TextKept DEF Reading, InContainer
  <2>3. Code(root) # -1 => ~MemberThrows(root)
    BY DEF Code
  <2>4. Code(root) = 0 => ~FieldMissing(root)
    BY DEF Code
  <2>5. manager'.done => Code(root) = 0
    BY <2>1 DEF NoEffect
  <2>6. ~MemberThrows(root) => ~ClearThrows(root)
    BY DEF MemberThrows, ClearThrows
  <2> QED BY <2>1, <2>2, <2>3, <2>4, <2>5, <2>6 DEF TextSame, PolicyInv, Holds, OpenPlaces, InContainer, ErrorsCounted
<1>4. CASE CookSenddata
  <2>1. /\ UNCHANGED <<text, got, nodes, errors, root, successful, manager>>
        /\ pc = "answer" /\ pc' = "idle"
    BY <1>4 DEF CookSenddata
  <2>2. TextSame
    BY <2>1, TextKept DEF Reading, InContainer
  <2> QED BY <2>1, <2>2 DEF TextSame, PolicyInv, Holds, OpenPlaces, InContainer, ErrorsCounted
<1>5. CASE UNCHANGED vars
  <2>1. UNCHANGED <<text, got, nodes, pc, errors, root, successful, manager>>
    BY <1>5 DEF vars, readerVars
  <2>2. TextSame
    BY <2>1, TextKept DEF Reading, InContainer
  <2> QED BY <2>1, <2>2 DEF TextSame, PolicyInv, Holds, ErrorsCounted
<1> QED BY <1>1, <1>2, <1>3, <1>4, <1>5 DEF Next

LEMMA PolicyInvariant == Spec => []PolicyInv
<1>1. PolicyInv /\ [Next]_vars => PolicyInv'
  BY PolicyStep
<1> QED BY PolicyInit, <1>1, PTL DEF Spec
-----------------------------------------------------------------------------
(* What is read of a text are tokens. *)
LEMMA ReadTokensAre ==
  ASSUME TextTypes, NEW t \in ReadTokens
  PROVE  IsToken(t)
<1>1. CASE Free
  <2> DEFINE T == Tokens \cup {EOS}
  <2>1. PICK i \in 1 .. Len(got) : t = got[i]
    BY <1>1 DEF ReadTokens
  <2>2. got \in Seq(T)
    BY DEF TextTypes
  <2> HIDE DEF T
  <2>3. got[i] \in T
    BY <2>2
  <2>4. t # EOS => t \in Tokens
    BY <2>1, <2>3 DEF T
  <2>5. IsToken(EOS)
    BY DEF IsToken, EOS
  <2> QED BY <2>4, <2>5, TextAssumption
<1>2. CASE ~Free
  <2>1. PICK i \in 1 .. text.at : t = TextTokens[i]
    BY <1>2 DEF ReadTokens
  <2>2. text.of \in 1 .. Len(Texts) /\ TextTokens = Texts[text.of].tokens
    BY <1>2, TextsAre DEF TextTypes, Free, TextTokens
  <2>3. i \in 1 .. Len(TextTokens)
    BY <1>2, <2>2, TextsAre DEF TextTypes
  <2> QED BY <2>1, <2>2, <2>3, TextsAre
<1> QED BY <1>1, <1>2

(* policy_entity::get_out_json runs on whatever the reader left, and all
   commands share one reader and one json_in.  Unless the reader has gone on
   behind the end of the text, every field that a command is executed with
   was a string of its own text: reset() and parse leave none of the command
   before, whatever the depth at which an error was found and however the
   containers around it were left (Reader::recoverFromError).  The reader
   goes on behind the end of a text only when it ends in a comment, or behind
   one, or within a string (Reader::readObject, readComment, readString).
   And reset() is never called for a value that clear() throws for. *)
THEOREM FromThisTextCorrect == Spec => []FromThisText
<1>1. PolicyInv => FromThisText
  <2> SUFFICES ASSUME PolicyInv PROVE FromThisText
    OBVIOUS
  <2>1. ASSUME manager.done, ~IsBehind, NEW f \in NumberFields \cup {"out_path"}
        PROVE  Quoted(f) \in ReadTokens
    <3>1. NamesOf(root) \subseteq NamesIn(ReadTokens) /\ Get(root, f) # Null
      BY <2>1 DEF PolicyInv, Holds, FieldMissing
    <3>2. f \in NamesOf(root)
      BY <3>1 DEF Get, NamesOf
    <3>3. f # ""
      BY <2>1 DEF NumberFields
    <3>4. PICK t \in ReadTokens : t.k = "string" /\ t.val.str = f
      BY <3>1, <3>2, <3>3 DEF NamesIn
    <3>5. t = Quoted(f)
      BY <3>4, ReadTokensAre DEF PolicyInv, IsToken
    <3> QED BY <3>5
  <2>2. pc = "idle" => ~ClearThrows(root)
    BY DEF PolicyInv
  <2>3. IsBehind => EndsOpen
    BY DEF PolicyInv, LeftOpen
  <2> QED BY <2>1, <2>2, <2>3 DEF FromThisText, ReadTokens
<1> QED BY <1>1, PolicyInvariant, PTL

(* An exception, of the reader or of a conversion in get_out_json, leaves
   Path_Manager as it was: every conversion that can throw comes before
   Update_Path and the launches of policy_entity::get_out_json. *)
THEOREM ThrowLeavesManagerCorrect == Spec => []ThrowLeavesManager
<1>1. PolicyInv => ThrowLeavesManager
  BY DEF PolicyInv, ThrowLeavesManager
<1> QED BY <1>1, PolicyInvariant, PTL

(* Reader::addErrorAndRecover and recoverFromError: parse has one error when
   it fails, however many containers the error is passed through, and none
   when it succeeds. *)
THEOREM OneErrorCorrect == Spec => []OneError
<1>1. PolicyInv => OneError
  BY DEF PolicyInv, ErrorsCounted, OneError
<1> QED BY <1>1, PolicyInvariant, PTL
-----------------------------------------------------------------------------
(* The table of the reference grammar. *)

\* A row of the table of Grammar is given by rows of a lower rank only.
Rank(s, p) == 2 * (Len(s) + 1 + p[3] - p[2]) + (IF p[1] = "value" THEN 0 ELSE 1)

LEMMA RankIs ==
  ASSUME NEW s, Len(s) \in Nat, NEW p \in Rows(s)
  PROVE  Rank(s, p) \in 0 .. 4 * Len(s) + 1
BY DEF Rows, Rank

Kinds == {"value", "elements", "members", "before"}

LEMMA RowsAgree ==
  ASSUME NEW s, Len(s) \in Nat, NEW f, NEW g, NEW p \in Rows(s),
         \A q \in Rows(s) : Rank(s, q) < Rank(s, p) => f[q] = g[q]
  PROVE  OfRow(s, f, p) = OfRow(s, g, p)
<1>1. PICK i \in 1 .. Len(s) + 1, j \in 0 .. Len(s), k \in Kinds : p = <<k, i, j>>
  BY DEF Rows, Kinds
<1>2. i \in Int /\ j \in Int /\ p[1] = k /\ p[2] = i /\ p[3] = j
  BY <1>1
<1> DEFINE Same(c, a, b) == f[<<c, a, b>>] = g[<<c, a, b>>]
\* The rows that are asked for have a lower rank.
<1>3. ASSUME NEW c \in Kinds, NEW a \in 1 .. Len(s) + 1, NEW b \in 0 .. Len(s), b - a < j - i
      PROVE  Same(c, a, b)
  <2>1. <<c, a, b>> \in Rows(s)
    BY DEF Rows, Kinds
  <2>2. Rank(s, <<c, a, b>>) <= 2 * (Len(s) + 1 + b - a) + 1
    BY DEF Rank
  <2>3. 2 * (Len(s) + 1 + j - i) <= Rank(s, p)
    BY <1>1, <1>2 DEF Rank
  <2>4. Rank(s, <<c, a, b>>) < Rank(s, p)
    BY <1>3, <2>1, <1>2, <2>2, <2>3, RankIs
  <2> QED BY <2>1, <2>4
<1>4. ASSUME k # "value" PROVE Same("value", i, j)
  <2>1. <<"value", i, j>> \in Rows(s)
    BY DEF Rows
  <2>2. Rank(s, <<"value", i, j>>) < Rank(s, p)
    BY <1>1, <1>2, <1>4 DEF Rank
  <2> QED BY <2>1, <2>2
<1>5. i <= j => i + 1 \in 1 .. Len(s) + 1 /\ j - 1 \in 0 .. Len(s) /\ j - 1 - i < j - i /\ j - (i + 1) < j - i
  BY <1>2
<1>6. i < j => (j - 1) - (i + 1) < j - i
  BY <1>2
<1> HIDE DEF Same
<1>7. CASE k = "value"
  <2>1. i <= j => Same("value", i + 1, j)
    BY <1>3, <1>5 DEF Kinds
  <2>2. i < j => Same("elements", i + 1, j - 1) /\ Same("members", i + 1, j - 1) /\ Same("before", i + 1, j - 1)
    BY <1>3, <1>5, <1>6, <1>2 DEF Kinds
  <2>3. ValuesOf(s, f, i, j) = ValuesOf(s, g, i, j)
    <3>1. CASE i > j
      BY <3>1 DEF ValuesOf
    <3>2. CASE ~(i > j) /\ IsComment(s[i])
      BY <1>2, <2>1, <3>2 DEF ValuesOf, Same
    <3>3. CASE ~(i > j) /\ ~IsComment(s[i]) /\ i = j
      BY <3>3 DEF ValuesOf
    <3>4. CASE i < j /\ ~IsComment(s[i])
      <4> DEFINE els(h) == h[<<"elements", i + 1, j - 1>>]
                 mem(h) == h[<<"members", i + 1, j - 1>>]
                 bef(h) == h[<<"before", i + 1, j - 1>>]
                 Val(e, m, b) ==
                   IF s[i].k = "[" /\ s[j].k = "]"
                     THEN {ArrV(x) : x \in e} \cup (IF j = i + 1 THEN {ArrV(<<>>)} ELSE {})
                   ELSE IF s[i].k = "{" /\ s[j].k = "}"
                     THEN {ObjV(x.mem) : x \in m \cup {y \in b : y.last = ""}}
                   ELSE {}
      <4>1. els(f) = els(g) /\ mem(f) = mem(g) /\ bef(f) = bef(g)
        BY <2>2, <3>4 DEF Same
      <4>2. ~(i > j) /\ i # j
        BY <1>2, <3>4
      <4>3. ValuesOf(s, f, i, j) = Val(els(f), mem(f), bef(f))
        BY <3>4, <4>2, Zenon DEF ValuesOf
      <4>4. ValuesOf(s, g, i, j) = Val(els(g), mem(g), bef(g))
        BY <3>4, <4>2, Zenon DEF ValuesOf
      <4> HIDE DEF els, mem, bef, Val
      <4> QED BY <4>1, <4>3, <4>4
    <3> QED BY <1>2, <3>1, <3>2, <3>3, <3>4
  <2> QED BY <1>2, <1>7, <2>3 DEF OfRow
<1>8. CASE k = "elements"
  <2>1. Same("value", i, j) /\ (i <= j => Same("elements", i, j - 1))
    BY <1>3, <1>4, <1>5, <1>8 DEF Kinds
  <2>2. ASSUME NEW c \in i .. j PROVE Same("elements", i, c - 1) /\ Same("value", c + 1, j)
    <3>1. c - 1 \in 0 .. Len(s) /\ c + 1 \in 1 .. Len(s) + 1 /\ (c - 1) - i < j - i /\ j - (c + 1) < j - i
      BY <1>2
    <3> QED BY <1>3, <3>1 DEF Kinds
  <2>3. ElementsOf(s, f, i, j) = ElementsOf(s, g, i, j)
    <3> DEFINE F(c) == Lengthened(f[<<"elements", i, c - 1>>], f[<<"value", c + 1, j>>])
               G(c) == Lengthened(g[<<"elements", i, c - 1>>], g[<<"value", c + 1, j>>])
               Commas == {c \in i .. j : s[c].k = ","}
               one(h) == {<<v>> : v \in h[<<"value", i, j>>]}
               rest(h) == IF i <= j /\ IsComment(s[j]) THEN h[<<"elements", i, j - 1>>] ELSE {}
    <3>1. \A c \in Commas : F(c) = G(c)
      BY <2>2 DEF Same
    <3>2. one(f) = one(g)
      BY <2>1 DEF Same
    <3>3. rest(f) = rest(g)
      BY <2>1 DEF Same
    <3>4. ElementsOf(s, f, i, j) = one(f) \cup rest(f) \cup UNION {F(c) : c \in Commas}
      BY DEF ElementsOf
    <3>5. ElementsOf(s, g, i, j) = one(g) \cup rest(g) \cup UNION {G(c) : c \in Commas}
      BY DEF ElementsOf
    <3> HIDE DEF F, G, Commas, one, rest
    <3> QED BY <3>1, <3>2, <3>3, <3>4, <3>5
  <2> QED BY <1>2, <1>8, <2>3 DEF OfRow
<1>9. CASE k = "members"
  <2>1. i <= j => Same("members", i, j - 1)
    BY <1>3, <1>5 DEF Kinds
  <2>2. ASSUME NEW c \in i .. j - 2 PROVE Same("before", i, c - 1) /\ Same("value", c + 2, j)
    <3>1. c - 1 \in 0 .. Len(s) /\ c + 2 \in 1 .. Len(s) + 1 /\ (c - 1) - i < j - i /\ j - (c + 2) < j - i
      BY <1>2
    <3> QED BY <1>3, <3>1 DEF Kinds
  <2>3. MembersOf(s, f, i, j) = MembersOf(s, g, i, j)
    <3> DEFINE F(c) == Enlarged(f[<<"before", i, c - 1>>], s[c].val.str, f[<<"value", c + 2, j>>])
               G(c) == Enlarged(g[<<"before", i, c - 1>>], s[c].val.str, g[<<"value", c + 2, j>>])
               Names == {c \in i .. j - 2 : s[c].k = "string" /\ s[c + 1].k = ":"}
               rest(h) == IF i <= j /\ IsComment(s[j]) THEN h[<<"members", i, j - 1>>] ELSE {}
    <3>1. \A c \in Names : F(c) = G(c)
      BY <2>2 DEF Same
    <3>3. rest(f) = rest(g)
      BY <2>1 DEF Same
    <3>4. MembersOf(s, f, i, j) = rest(f) \cup UNION {F(c) : c \in Names}
      BY DEF MembersOf
    <3>5. MembersOf(s, g, i, j) = rest(g) \cup UNION {G(c) : c \in Names}
      BY DEF MembersOf
    <3> HIDE DEF F, G, Names, rest
    <3> QED BY <3>1, <3>3, <3>4, <3>5
  <2> QED BY <1>2, <1>9, <2>3 DEF OfRow
<1>10. CASE k = "before"
  <2>1. i <= j => Same("before", i, j - 1) /\ Same("members", i, j - 1)
    BY <1>3, <1>5 DEF Kinds
  <2>2. BeforesOf(s, f, i, j) = BeforesOf(s, g, i, j)
    <3>1. CASE i > j
      BY <3>1 DEF BeforesOf
    <3>2. CASE i <= j
      <4> DEFINE bef(h) == h[<<"before", i, j - 1>>]
                 mem(h) == h[<<"members", i, j - 1>>]
                 Bef(b, m) == IF IsComment(s[j]) THEN b
                              ELSE IF s[j].k = "," \/ (s[j].k # "}" /\ i < j /\ IsComment(s[j - 1]))
                                THEN m
                              ELSE {}
      <4>1. bef(f) = bef(g) /\ mem(f) = mem(g)
        BY <2>1, <3>2 DEF Same
      <4>2. ~(i > j)
        BY <1>2, <3>2
      <4>3. BeforesOf(s, f, i, j) = Bef(bef(f), mem(f))
        BY <4>2, Zenon DEF BeforesOf
      <4>4. BeforesOf(s, g, i, j) = Bef(bef(g), mem(g))
        BY <4>2, Zenon DEF BeforesOf
      <4> HIDE DEF bef, mem, Bef
      <4> QED BY <4>1, <4>3, <4>4
    <3> QED BY <1>2, <3>1, <3>2
  <2> QED BY <1>2, <1>10, <2>2 DEF OfRow
<1> QED BY <1>7, <1>8, <1>9, <1>10 DEF Kinds

\* The table of Grammar exists and is what its definition says.
LEMMA GrammarIs ==
  ASSUME NEW s, Len(s) \in Nat
  PROVE  \A p \in Rows(s) : Grammar(s)[p] = OfRow(s, Grammar(s), p)
<1> DEFINE Upto(n) == {p \in Rows(s) : Rank(s, p) < n}
           Eq(n, f) == f = [p \in Upto(n) |-> OfRow(s, f, p)]
           T == {n \in Nat : \E f : Eq(n, f)}
           top == 4 * Len(s) + 2
<1>1. 0 \in T
  <2>1. Upto(0) = {}
    BY RankIs
  <2> DEFINE f == [p \in {} |-> {}]
  <2>2. Eq(0, f)
    BY <2>1
  <2> QED BY <2>2
<1>2. ASSUME NEW n \in T PROVE n + 1 \in T
  <2>0. n \in Nat
    OBVIOUS
  <2>1. PICK f : Eq(n, f)
    OBVIOUS
  <2> DEFINE g == [p \in Upto(n + 1) |-> OfRow(s, f, p)]
  <2>2. \A q \in Rows(s) : Rank(s, q) < n => g[q] = f[q]
    <3> SUFFICES ASSUME NEW q \in Rows(s), Rank(s, q) < n PROVE g[q] = f[q]
      OBVIOUS
    <3>1. q \in Upto(n) /\ q \in Upto(n + 1)
      BY <2>0, RankIs
    <3>2. f[q] = OfRow(s, f, q)
      <4> HIDE DEF Upto
      <4> QED BY <2>1, <3>1
    <3>3. g[q] = OfRow(s, f, q)
      <4> HIDE DEF Upto
      <4> QED BY <3>1
    <3> QED BY <3>2, <3>3
  <2> HIDE DEF g
  <2>3. ASSUME NEW p \in Upto(n + 1) PROVE OfRow(s, f, p) = OfRow(s, g, p)
    <3>1. p \in Rows(s) /\ \A q \in Rows(s) : Rank(s, q) < Rank(s, p) => Rank(s, q) < n
      BY <2>0, RankIs
    <3> QED BY <2>2, <3>1, RowsAgree
  <2>4. Eq(n + 1, g)
    <3> DEFINE D == Upto(n + 1)
               F(p) == OfRow(s, f, p)
               G(p) == OfRow(s, g, p)
    <3>1. g = [p \in D |-> F(p)] /\ \A p \in D : F(p) = G(p)
      BY <2>3 DEF g
    <3> HIDE DEF F, G, D
    <3>2. g = [p \in D |-> G(p)]
      BY <3>1
    <3> QED BY <3>2 DEF G, D
  <2> HIDE DEF Eq
  <2> QED BY <2>0, <2>4
<1>3. top \in T
  <2>1. T \in SUBSET Nat /\ top \in Nat
    OBVIOUS
  <2> HIDE DEF T, top
  <2> QED BY <1>1, <1>2, <2>1, SetInduction
<1>4. Upto(top) = Rows(s)
  BY RankIs
<1> DEFINE Def(f) == f = [p \in Rows(s) |-> OfRow(s, f, p)]
<1>5. \E f : Def(f)
  BY <1>3, <1>4
<1>6. Grammar(s) = CHOOSE f : Def(f)
  BY DEF Grammar
<1>7. Def(Grammar(s))
  <2> HIDE DEF Def
  <2> QED BY <1>5, <1>6
<1> QED BY <1>7

Row(s, kind, i, j) == Grammar(s)[<<kind, i, j>>]

LEMMA RowIs ==
  ASSUME NEW s, Len(s) \in Nat, NEW i \in 1 .. Len(s) + 1, NEW j \in 0 .. Len(s)
  PROVE  /\ Row(s, "value", i, j)    = ValuesOf(s, Grammar(s), i, j)
         /\ Row(s, "elements", i, j) = ElementsOf(s, Grammar(s), i, j)
         /\ Row(s, "members", i, j)  = MembersOf(s, Grammar(s), i, j)
         /\ Row(s, "before", i, j)   = BeforesOf(s, Grammar(s), i, j)
<1>1. ASSUME NEW k \in Kinds PROVE Row(s, k, i, j) = OfRow(s, Grammar(s), <<k, i, j>>)
  <2>1. <<k, i, j>> \in Rows(s)
    BY DEF Rows, Kinds
  <2> QED BY <2>1, GrammarIs DEF Row
<1> DEFINE g == Grammar(s)
<1> HIDE DEF g
<1>2. /\ OfRow(s, g, <<"value", i, j>>) = ValuesOf(s, g, i, j)
      /\ OfRow(s, g, <<"elements", i, j>>) = ElementsOf(s, g, i, j)
      /\ OfRow(s, g, <<"members", i, j>>) = MembersOf(s, g, i, j)
      /\ OfRow(s, g, <<"before", i, j>>) = BeforesOf(s, g, i, j)
  BY DEF OfRow
<1> QED BY <1>1, <1>2 DEF Kinds, g

LEMMA ValueRules ==
  ASSUME NEW s, Len(s) \in Nat, NEW i \in 1 .. Len(s), NEW j \in i .. Len(s)
  PROVE  /\ IsComment(s[i]) /\ i < j => Row(s, "value", i + 1, j) \subseteq Row(s, "value", i, j)
         /\ i = j /\ s[i].k \in {"literal", "string"} => s[i].val \in Row(s, "value", i, j)
         /\ i < j /\ s[i].k = "[" /\ s[j].k = "]" =>
              /\ \A els \in Row(s, "elements", i + 1, j - 1) : ArrV(els) \in Row(s, "value", i, j)
              /\ j = i + 1 => ArrV(<<>>) \in Row(s, "value", i, j)
         /\ i < j /\ s[i].k = "{" /\ s[j].k = "}" =>
              /\ \A m \in Row(s, "members", i + 1, j - 1) : ObjV(m.mem) \in Row(s, "value", i, j)
              /\ \A b \in Row(s, "before", i + 1, j - 1) :
                   b.last = "" => ObjV(b.mem) \in Row(s, "value", i, j)
<1> DEFINE g == Grammar(s)
           val == Row(s, "value", i, j)
<1>0. i \in 1 .. Len(s) + 1 /\ j \in 0 .. Len(s) /\ ~(i > j)
  OBVIOUS
<1>1. val = ValuesOf(s, g, i, j)
  BY <1>0, RowIs
<1> HIDE DEF val
<1>2. ASSUME IsComment(s[i]), i < j
      PROVE  Row(s, "value", i + 1, j) = val
  BY <1>0, <1>1, <1>2 DEF ValuesOf, Row
<1>3. ASSUME i = j, s[i].k \in {"literal", "string"}
      PROVE  s[i].val \in val
  <2>1. ~IsComment(s[i])
    BY <1>3 DEF IsComment
  <2> QED BY <1>0, <1>1, <1>3, <2>1 DEF ValuesOf
<1>4. ASSUME i < j, s[i].k = "[", s[j].k = "]"
      PROVE  /\ \A els \in Row(s, "elements", i + 1, j - 1) : ArrV(els) \in val
             /\ j = i + 1 => ArrV(<<>>) \in val
  <2>1. ~IsComment(s[i]) /\ i # j
    BY <1>4 DEF IsComment
  <2>2. val = {ArrV(els) : els \in Row(s, "elements", i + 1, j - 1)}
                \cup (IF j = i + 1 THEN {ArrV(<<>>)} ELSE {})
    BY <1>0, <1>1, <1>4, <2>1, Zenon DEF ValuesOf, Row
  <2> QED BY <2>2
<1>5. ASSUME i < j, s[i].k = "{", s[j].k = "}"
      PROVE  /\ \A m \in Row(s, "members", i + 1, j - 1) : ObjV(m.mem) \in val
             /\ \A b \in Row(s, "before", i + 1, j - 1) : b.last = "" => ObjV(b.mem) \in val
  <2>1. ~IsComment(s[i]) /\ i # j /\ ~(s[i].k = "[")
    BY <1>5 DEF IsComment
  <2>2. val = {ObjV(m.mem) : m \in Row(s, "members", i + 1, j - 1)
                                    \cup {b \in Row(s, "before", i + 1, j - 1) : b.last = ""}}
    BY <1>0, <1>1, <1>5, <2>1, Zenon DEF ValuesOf, Row
  <2> QED BY <2>2
<1> QED BY <1>2, <1>3, <1>4, <1>5 DEF val

LEMMA ElementRules ==
  ASSUME NEW s, Len(s) \in Nat, NEW i \in 1 .. Len(s), NEW j \in i .. Len(s)
  PROVE  /\ \A v \in Row(s, "value", i, j) : <<v>> \in Row(s, "elements", i, j)
         /\ \A c \in i .. j :
              s[c].k = "," =>
                \A els \in Row(s, "elements", i, c - 1), v \in Row(s, "value", c + 1, j) :
                  Append(els, v) \in Row(s, "elements", i, j)
         /\ IsComment(s[j]) => Row(s, "elements", i, j - 1) \subseteq Row(s, "elements", i, j)
<1> DEFINE E == Row(s, "elements", i, j)
           L(c) == Lengthened(Row(s, "elements", i, c - 1), Row(s, "value", c + 1, j))
           Commas == {c \in i .. j : s[c].k = ","}
           one == {<<v>> : v \in Row(s, "value", i, j)}
           rest == IF i <= j /\ IsComment(s[j]) THEN Row(s, "elements", i, j - 1) ELSE {}
<1>1. E = ElementsOf(s, Grammar(s), i, j)
  BY RowIs
<1>2. E = one \cup rest \cup UNION {L(c) : c \in Commas}
  BY <1>1 DEF ElementsOf, Row
<1> HIDE DEF E, L, one, rest, Commas
<1>3. one \subseteq E /\ rest \subseteq E /\ \A c \in Commas : L(c) \subseteq E
  <2> DEFINE all == UNION {L(d) : d \in Commas}
  <2>1. \A c \in Commas : L(c) \subseteq all
    OBVIOUS
  <2> HIDE DEF all
  <2>2. all \subseteq E
    BY <1>2 DEF all
  <2> QED BY <1>2, <2>1, <2>2 DEF all
<1>4. \A v \in Row(s, "value", i, j) : <<v>> \in E
  BY <1>3 DEF one
<1>5. ASSUME NEW c \in i .. j, s[c].k = ",",
             NEW els \in Row(s, "elements", i, c - 1), NEW v \in Row(s, "value", c + 1, j)
      PROVE  Append(els, v) \in E
  <2>1. c \in Commas
    BY <1>5 DEF Commas
  <2>2. Append(els, v) \in L(c)
    BY DEF Lengthened, L
  <2> QED BY <1>3, <2>1, <2>2
<1>6. IsComment(s[j]) => Row(s, "elements", i, j - 1) \subseteq E
  BY <1>3 DEF rest
<1> QED BY <1>4, <1>5, <1>6 DEF E

\* What is known of the members up to a name and behind it.
Members(mem, last) == [mem |-> mem, last |-> last]

LEMMA MemberRules ==
  ASSUME NEW s, Len(s) \in Nat, NEW i \in 1 .. Len(s), NEW j \in i .. Len(s)
  PROVE  /\ \A c \in i .. j - 2 :
              s[c].k = "string" /\ s[c + 1].k = ":" =>
                \A b \in Row(s, "before", i, c - 1), v \in Row(s, "value", c + 2, j) :
                  Members(WithMember(ObjV(b.mem), s[c].val.str, v).mem, s[c].val.str)
                    \in Row(s, "members", i, j)
         /\ IsComment(s[j]) => Row(s, "members", i, j - 1) \subseteq Row(s, "members", i, j)
<1> DEFINE M == Row(s, "members", i, j)
           L(c) == Enlarged(Row(s, "before", i, c - 1), s[c].val.str, Row(s, "value", c + 2, j))
           Names == {c \in i .. j - 2 : s[c].k = "string" /\ s[c + 1].k = ":"}
           rest == IF i <= j /\ IsComment(s[j]) THEN Row(s, "members", i, j - 1) ELSE {}
<1>1. M = MembersOf(s, Grammar(s), i, j)
  BY RowIs
<1>2. M = rest \cup UNION {L(c) : c \in Names}
  BY <1>1 DEF MembersOf, Row
<1> HIDE DEF M, L, rest, Names
<1>3. rest \subseteq M /\ \A c \in Names : L(c) \subseteq M
  <2> DEFINE all == UNION {L(d) : d \in Names}
  <2>1. \A c \in Names : L(c) \subseteq all
    OBVIOUS
  <2> HIDE DEF all
  <2>2. all \subseteq M
    BY <1>2 DEF all
  <2> QED BY <1>2, <2>1, <2>2 DEF all
<1>5. ASSUME NEW c \in i .. j - 2, s[c].k = "string", s[c + 1].k = ":",
             NEW b \in Row(s, "before", i, c - 1), NEW v \in Row(s, "value", c + 2, j)
      PROVE  Members(WithMember(ObjV(b.mem), s[c].val.str, v).mem, s[c].val.str) \in M
  <2>1. c \in Names
    BY <1>5 DEF Names
  <2>2. Members(WithMember(ObjV(b.mem), s[c].val.str, v).mem, s[c].val.str) \in L(c)
    BY DEF Enlarged, Members, L
  <2> QED BY <1>3, <2>1, <2>2
<1>6. IsComment(s[j]) => Row(s, "members", i, j - 1) \subseteq M
  BY <1>3 DEF rest
<1> QED BY <1>5, <1>6 DEF M

LEMMA BeforeRules ==
  ASSUME NEW s, Len(s) \in Nat, NEW i \in 1 .. Len(s) + 1, NEW j \in 0 .. Len(s)
  PROVE  /\ i > j => Members(NoMembers, "") \in Row(s, "before", i, j)
         /\ i <= j /\ IsComment(s[j]) =>
              Row(s, "before", i, j - 1) \subseteq Row(s, "before", i, j)
         /\ i <= j /\ ~IsComment(s[j]) =>
              (s[j].k = "," \/ (s[j].k # "}" /\ i < j /\ IsComment(s[j - 1])) =>
                 Row(s, "members", i, j - 1) \subseteq Row(s, "before", i, j))
<1> DEFINE B == Row(s, "before", i, j)
<1>1. B = BeforesOf(s, Grammar(s), i, j)
  BY RowIs
<1> HIDE DEF B
<1>2. i > j => Members(NoMembers, "") \in B
  BY <1>1 DEF BeforesOf, Members
<1>3. i <= j => ~(i > j)
  OBVIOUS
<1>4. i <= j /\ IsComment(s[j]) => Row(s, "before", i, j - 1) = B
  BY <1>1, <1>3, Zenon DEF BeforesOf, Row
<1>5. i <= j /\ ~IsComment(s[j]) =>
        (s[j].k = "," \/ (s[j].k # "}" /\ i < j /\ IsComment(s[j - 1])) =>
           Row(s, "members", i, j - 1) = B)
  <2> DEFINE separates == s[j].k = "," \/ (s[j].k # "}" /\ i < j /\ IsComment(s[j - 1]))
  <2>1. B = IF i > j THEN {Members(NoMembers, "")}
            ELSE IF IsComment(s[j]) THEN Row(s, "before", i, j - 1)
            ELSE IF separates THEN Row(s, "members", i, j - 1)
            ELSE {}
    BY <1>1 DEF BeforesOf, Row, Members
  <2> DEFINE M == Row(s, "members", i, j - 1)
  <2> HIDE DEF separates, M
  <2>2. i <= j /\ ~IsComment(s[j]) /\ separates => M = B
    BY <1>3, <2>1 DEF M
  <2> QED BY <2>2 DEF separates, M
<1> QED BY <1>2, <1>4, <1>5 DEF B
-----------------------------------------------------------------------------
(* The frames of the open containers. *)

\* Frames as they are, with an element sequence that is one.
IsObject(f) == f = [val |-> ObjV(f.val.mem), name |-> f.name]
IsArray(f)  == f = [val |-> ArrV(f.val.el)] /\ IsSequence(f.val.el)
Framed(f)   == IsObject(f) \/ IsArray(f)
Opener(f)   == IF f.val.type = "object" THEN "{" ELSE "["

LEMMA ObjectFrames ==
  ASSUME NEW f, IsObject(f), NEW v
  PROVE  /\ f.val.type = "object" /\ f.val = ObjV(f.val.mem)
         /\ IsObject(SetChild(f, v)) /\ Opener(SetChild(f, v)) = "{"
         /\ SetChild(f, v).val.mem = WithMember(ObjV(f.val.mem), f.name, v).mem
         /\ SetChild(f, v).name = f.name
         /\ IsObject(InsertChild(f)) /\ Opener(InsertChild(f)) = "{"
         /\ SetChild(InsertChild(f), v) = SetChild(f, v)
<1> DEFINE m == f.val.mem
           n == f.name
           with(x) == [y \in DOMAIN m \cup {n} |-> IF y = n THEN x ELSE m[y]]
           frame(mm) == [val |-> ObjV(mm), name |-> n]
<1>1. f = frame(m) /\ f.val.type = "object" /\ f.val = ObjV(m)
  BY DEF IsObject, ObjV
<1>2. ASSUME NEW mm PROVE /\ IsObject(frame(mm)) /\ frame(mm).val.type = "object"
                          /\ frame(mm).val.mem = mm /\ frame(mm).name = n
  BY DEF IsObject, ObjV
<1>3. ASSUME NEW x PROVE SetChild(f, x) = frame(with(x)) /\ WithMember(ObjV(m), n, x).mem = with(x)
  <2>1. WithMember(f.val, n, x) = ObjV(with(x)) /\ WithMember(ObjV(m), n, x) = ObjV(with(x))
    BY <1>1 DEF WithMember, ObjV
  <2>2. SetChild(f, x) = [f EXCEPT !.val = ObjV(with(x))]
    BY <1>1, <2>1 DEF SetChild
  <2> HIDE DEF with, m, n
  <2>3. [f EXCEPT !.val = ObjV(with(x))] = frame(with(x))
    BY <1>1
  <2> QED BY <2>1, <2>2, <2>3 DEF ObjV
<1> DEFINE c == Get(f.val, n)
<1>4. InsertChild(f) = frame(with(c))
  BY <1>1, <1>3 DEF InsertChild
<1>5. SetChild(frame(with(c)), v) = frame(with(v))
  <2> DEFINE w == with(c)
  <2>1. DOMAIN w = DOMAIN m \cup {n}
    OBVIOUS
  <2>2. WithMember(ObjV(w), n, v) = ObjV([y \in DOMAIN w \cup {n} |-> IF y = n THEN v ELSE w[y]])
    BY DEF WithMember, ObjV
  <2>3. [y \in DOMAIN w \cup {n} |-> IF y = n THEN v ELSE w[y]] = with(v)
    <3>1. DOMAIN w \cup {n} = DOMAIN m \cup {n}
      BY <2>1
    <3>2. \A y \in DOMAIN m \cup {n} : y # n => w[y] = m[y]
      OBVIOUS
    <3> HIDE DEF w, m, n
    <3> QED BY <3>1, <3>2
  <2>4. WithMember(ObjV(w), n, v) = ObjV(with(v))
    BY <2>2, <2>3
  <2> HIDE DEF w, with, m, n
  <2>5. SetChild(frame(w), v) = [frame(w) EXCEPT !.val = WithMember(ObjV(w), n, v)]
    BY DEF SetChild, ObjV
  <2>6. SetChild(frame(w), v) = frame(with(v))
    BY <2>4, <2>5
  <2> QED BY <2>6 DEF w
<1> HIDE DEF with, frame, m, n, c
<1>6. SetChild(f, v) = frame(with(v)) /\ SetChild(InsertChild(f), v) = frame(with(v))
  BY <1>3, <1>4, <1>5
<1>7. Opener(frame(with(v))) = "{" /\ Opener(frame(with(c))) = "{"
  BY <1>2 DEF Opener
<1>8. f.val = ObjV(f.val.mem)
  BY <1>1 DEF m
<1> QED BY <1>1, <1>2, <1>3, <1>4, <1>6, <1>7, <1>8 DEF m, n

LEMMA ArrayFrames ==
  ASSUME NEW f, IsArray(f), NEW v
  PROVE  /\ f.val.type = "array" /\ f.val = ArrV(f.val.el)
         /\ IsArray(SetChild(f, v)) /\ Opener(SetChild(f, v)) = "["
         /\ IsArray(InsertChild(f)) /\ Opener(InsertChild(f)) = "["
         /\ SetChild(InsertChild(f), v).val.el = Append(f.val.el, v)
<1> DEFINE e == f.val.el
           frame(ee) == [val |-> ArrV(ee)]
<1>1. f = frame(e) /\ IsSequence(e) /\ f.val.type = "array"
  BY DEF IsArray, ArrV
<1>2. ASSUME NEW ee PROVE /\ IsSequence(ee) => IsArray(frame(ee))
                          /\ frame(ee).val.type = "array" /\ frame(ee).val.el = ee
                          /\ Opener(frame(ee)) = "["
  BY DEF IsArray, ArrV, Opener
<1>3. ASSUME NEW ee PROVE SetChild(frame(ee), v) = frame([ee EXCEPT ![Len(ee)] = v])
  <2>1. frame(ee).val.type # "object" /\ frame(ee).val.el = ee
    BY DEF ArrV
  <2>2. SetChild(frame(ee), v) = [frame(ee) EXCEPT !.val.el[Len(ee)] = v]
    BY <2>1 DEF SetChild
  <2> QED BY <2>2 DEF ArrV
<1>4. InsertChild(f) = frame(Append(e, Null))
  <2> DEFINE a == Append(e, Null)
  <2>1. InsertChild(f) = [f EXCEPT !.val.el = a]
    BY <1>1 DEF InsertChild
  <2> HIDE DEF e, a
  <2>2. [f EXCEPT !.val.el = a] = frame(a)
    BY <1>1 DEF ArrV
  <2> QED BY <2>1, <2>2 DEF a
<1>5. Longer(e, Null, Append(e, Null)) /\ Longer(e, v, Append(e, v))
  BY <1>1, AppendIs
<1>6. Len(e) \in Nat /\ e \in Seq({e[i] : i \in DOMAIN e})
  BY <1>1, SequenceIs DEF IsSequence
<1>7. [Append(e, Null) EXCEPT ![Len(e) + 1] = v] = Append(e, v)
  <2> DEFINE a == Append(e, Null)
             b == Append(e, v)
             n == Len(e) + 1
  <2>1. DOMAIN a = 1 .. n /\ DOMAIN b = 1 .. n
    BY <1>5, <1>6, SequenceIs DEF Longer
  <2>2. b[n] = v /\ \A i \in 1 .. n : i # n => a[i] = b[i]
    BY <1>5, <1>6 DEF Longer
  <2>3. n \in 1 .. n
    BY <1>6
  <2>4. b = [i \in 1 .. n |-> b[i]]
    <3>1. IsSequence(b)
      BY <1>5 DEF Longer
    <3>2. b \in Seq({b[i] : i \in DOMAIN b})
      BY <3>1 DEF IsSequence
    <3>3. b = [i \in DOMAIN b |-> b[i]]
      BY <3>2
    <3> QED BY <2>1, <3>3
  <2>5. a = [i \in 1 .. n |-> a[i]]
    <3>1. IsSequence(a)
      BY <1>5 DEF Longer
    <3>2. a \in Seq({a[i] : i \in DOMAIN a})
      BY <3>1 DEF IsSequence
    <3>3. a = [i \in DOMAIN a |-> a[i]]
      BY <3>2
    <3> QED BY <2>1, <3>3
  <2> HIDE DEF a, b, n
  <2>6. [a EXCEPT ![n] = v] = b
    <3>1. [a EXCEPT ![n] = v] = [i \in 1 .. n |-> IF i = n THEN v ELSE a[i]]
      BY <2>1
    <3>2. \A i \in 1 .. n : (IF i = n THEN v ELSE a[i]) = b[i]
      BY <2>2
    <3>3. [i \in 1 .. n |-> IF i = n THEN v ELSE a[i]] = [i \in 1 .. n |-> b[i]]
      BY <3>2
    <3> QED BY <2>4, <3>1, <3>3
  <2> QED BY <2>6 DEF a, b, n
<1>8. SetChild(InsertChild(f), v) = frame(Append(e, v))
  <2>1. Len(Append(e, Null)) = Len(e) + 1
    BY <1>5 DEF Longer
  <2> HIDE DEF frame, e
  <2> QED BY <1>3, <1>4, <1>7, <2>1
<1>9. IsSequence([e EXCEPT ![Len(e)] = v])
  <2> DEFINE n == Len(e)
             S == {e[i] : i \in DOMAIN e} \cup {v}
             p == [e EXCEPT ![n] = v]
  <2>1. n \in Nat /\ DOMAIN e = 1 .. n /\ \A i \in 1 .. n : e[i] \in S
    BY <1>1, SequenceIs
  <2>2. v \in S
    OBVIOUS
  <2> HIDE DEF S, n
  <2>3. p \in [1 .. n -> S]
    BY <2>1, <2>2
  <2>4. p \in Seq(S)
    BY <2>1, <2>3, SeqDef
  <2> HIDE DEF p
  <2>5. IsSequence(p)
    BY <2>4, IsSequenceOf
  <2> QED BY <2>5 DEF p, n
<1>10. IsSequence(Append(e, Null))
  BY <1>5 DEF Longer
<1>11. f.val.el = e /\ f.val = ArrV(e)
  BY <1>1
<1> HIDE DEF e, frame
<1>12. IsArray(SetChild(f, v)) /\ Opener(SetChild(f, v)) = "["
  <2>1. SetChild(f, v) = frame([e EXCEPT ![Len(e)] = v])
    BY <1>1, <1>3
  <2> QED BY <1>2, <1>9, <2>1
<1>13. IsArray(InsertChild(f)) /\ Opener(InsertChild(f)) = "["
  BY <1>2, <1>4, <1>10
<1>14. SetChild(InsertChild(f), v).val.el = Append(e, v)
  BY <1>2, <1>8
<1> QED BY <1>1, <1>11, <1>12, <1>13, <1>14
-----------------------------------------------------------------------------
(* The open containers, with the text from where each was opened. *)

\* The tokens from a + 1 to j are what the container f, opened at a, holds.
HoldsSoFar(s, f, a, j) ==
  IF f.val.type = "object" THEN Members(f.val.mem, f.name) \in Row(s, "members", a + 1, j)
  ELSE f.val.el \in Row(s, "elements", a + 1, j)

\* A value from b on becomes a child of the container k, or is the root value.
Awaits(s, q, at, k, b) ==
  \A j \in b .. Len(s) : \A v \in Row(s, "value", b, j) :
    IF k = 0 THEN v \in Row(s, "value", 1, j) ELSE HoldsSoFar(s, SetChild(q[k], v), at[k], j)

Opened(s, q, at, k) ==
  Framed(q[k]) /\ s[at[k]].k = Opener(q[k]) /\ Awaits(s, q, at, k - 1, at[k])

Nest(s, q, at, n) ==
  /\ IsSequence(q) /\ at \in [1 .. Len(q) -> 1 .. n]
  /\ \A k \in 1 .. Len(q) : Opened(s, q, at, k)

Stands(s, f, a, place, n) ==
  /\ place = "first" => f = ArrayFrame /\ a = n
  /\ place = "next" => HoldsSoFar(s, f, a, n)
  /\ place = "skipped" => IsObject(f) /\ IsComment(s[n]) /\ HoldsSoFar(s, f, a, n)
  /\ place = "name" => IsObject(f) /\ Members(f.val.mem, f.name) \in Row(s, "before", a + 1, n)
  /\ place = "colon" => /\ IsObject(f) /\ s[n].k = "string" /\ s[n].val.str = f.name
                        /\ \E l : Members(f.val.mem, l) \in Row(s, "before", a + 1, n - 1)

Reached(s, q, at, place, n) ==
  /\ Nest(s, q, at, n)
  /\ place = "value" => Awaits(s, q, at, Len(q), n + 1)
  /\ place \in InContainer => q # <<>> /\ Stands(s, Top(q), at[Len(q)], place, n)

LEMMA OnTopIs ==
  ASSUME NEW q, IsSequence(q), q # <<>>, NEW f
  PROVE  /\ IsSequence(OnTop(q, f)) /\ OnTop(q, f) # <<>>
         /\ Len(OnTop(q, f)) = Len(q) /\ Len(q) \in Nat \ {0} /\ OnTop(q, f)[Len(q)] = f
         /\ \A k \in 1 .. Len(q) - 1 : OnTop(q, f)[k] = q[k]
<1> DEFINE S == {q[i] : i \in DOMAIN q} \cup {f}
           n == Len(q)
           p == OnTop(q, f)
<1>1. n \in Nat \ {0} /\ DOMAIN q = 1 .. n
  BY SequenceIs
<1>2. q \in [1 .. n -> S] /\ f \in S
  <2>1. q \in Seq({q[i] : i \in DOMAIN q})
    BY DEF IsSequence
  <2>2. q \in [1 .. n -> {q[i] : i \in DOMAIN q}]
    BY <2>1
  <2> QED BY <2>2
<1>3. p = [q EXCEPT ![n] = f] /\ n \in 1 .. n
  BY <1>1 DEF OnTop
<1> HIDE DEF S, n, p
<1>4. p \in [1 .. n -> S] /\ p[n] = f
  BY <1>2, <1>3
<1>5. \A k \in 1 .. n - 1 : p[k] = q[k]
  <2>1. \A k \in 1 .. n - 1 : k \in 1 .. n /\ k # n
    BY <1>1
  <2> QED BY <1>2, <1>3, <2>1
<1>6. p \in Seq(S) /\ Len(p) = n
  <2>1. p \in Seq(S)
    BY <1>1, <1>4, SeqDef
  <2>2. DOMAIN p = 1 .. n /\ DOMAIN p = 1 .. Len(p) /\ Len(p) \in Nat
    BY <1>4, <2>1
  <2> QED BY <1>1, <2>1, <2>2
<1>7. IsSequence(p) /\ p # <<>>
  <2>1. IsSequence(p)
    BY <1>6, IsSequenceOf
  <2> QED BY <1>1, <1>6, <2>1, SequenceIs
<1> QED BY <1>1, <1>4, <1>5, <1>6, <1>7 DEF n, p

LEMMA BelowIs ==
  ASSUME NEW q, IsSequence(q), q # <<>>
  PROVE  /\ IsSequence(Below(q)) /\ Len(Below(q)) = Len(q) - 1 /\ Len(q) \in Nat \ {0}
         /\ \A k \in 1 .. Len(q) - 1 : Below(q)[k] = q[k]
<1> DEFINE S == {q[i] : i \in DOMAIN q}
           n == Len(q) - 1
<1>1. q \in Seq(S)
  BY DEF IsSequence
<1>2. Len(q) \in Nat \ {0}
  BY SequenceIs
<1>3. n \in Nat /\ n <= Len(q) /\ Below(q) = SubSeq(q, 1, n)
  BY <1>2 DEF Below
<1> HIDE DEF n, S
<1>4. /\ SubSeq(q, 1, n) \in Seq(S) /\ Len(SubSeq(q, 1, n)) = n
      /\ \A i \in 1 .. n : SubSeq(q, 1, n)[i] = q[i]
  BY <1>1, <1>2, <1>3
<1>5. IsSequence(SubSeq(q, 1, n))
  BY <1>4, IsSequenceOf
<1> QED BY <1>2, <1>3, <1>4, <1>5 DEF n

LEMMA AwaitsSame ==
  ASSUME NEW s, NEW q, NEW p, NEW at, NEW bt, NEW k, NEW b,
         k # 0 => p[k] = q[k] /\ bt[k] = at[k], Awaits(s, q, at, k, b)
  PROVE  Awaits(s, p, bt, k, b)
BY DEF Awaits

LEMMA NestPushed ==
  ASSUME NEW s, NEW q, NEW at, NEW n \in Nat, Nest(s, q, at, n), Awaits(s, q, at, Len(q), n + 1),
         NEW f, Framed(f), s[n + 1].k = Opener(f)
  PROVE  \E bt : /\ Nest(s, Append(q, f), bt, n + 1) /\ bt[Len(Append(q, f))] = n + 1
                 /\ Append(q, f) # <<>> /\ Top(Append(q, f)) = f
<1> DEFINE d == Len(q)
           p == Append(q, f)
           bt == [k \in 1 .. d + 1 |-> IF k = d + 1 THEN n + 1 ELSE at[k]]
<1>1. Longer(q, f, p)
  BY AppendIs DEF Nest
<1>2. d \in Nat /\ at \in [1 .. d -> 1 .. n]
  BY SequenceIs DEF Nest
<1>3. IsSequence(p) /\ Len(p) = d + 1 /\ p[d + 1] = f /\ \A k \in 1 .. d : p[k] = q[k]
  BY <1>1 DEF Longer
<1> HIDE DEF p
<1>4. p # <<>> /\ Top(p) = f
  BY <1>2, <1>3, SequenceIs DEF Top
<1>5. bt \in [1 .. d + 1 -> 1 .. n + 1] /\ bt[d + 1] = n + 1 /\ \A k \in 1 .. d : bt[k] = at[k]
  BY <1>2
<1> HIDE DEF bt
<1>6. ASSUME NEW k \in 1 .. d + 1
      PROVE  Opened(s, p, bt, k)
  <2>1. k - 1 # 0 => k - 1 \in 1 .. d
    BY <1>2
  <2>2. k - 1 # 0 => p[k - 1] = q[k - 1] /\ bt[k - 1] = at[k - 1]
    BY <1>3, <1>5, <2>1
  <2>3. CASE k = d + 1
    <3>1. k - 1 = d
      BY <1>2, <2>3
    <3>2. Awaits(s, p, bt, k - 1, n + 1)
      BY <2>2, <3>1, AwaitsSame
    <3> QED BY <1>3, <1>5, <2>3, <3>2 DEF Opened
  <2>4. CASE k \in 1 .. d
    <3>1. Opened(s, q, at, k)
      BY <2>4 DEF Nest
    <3>2. Awaits(s, p, bt, k - 1, at[k])
      BY <2>2, <3>1, AwaitsSame DEF Opened
    <3> QED BY <1>3, <1>5, <2>4, <3>1, <3>2 DEF Opened
  <2> QED BY <1>2, <2>3, <2>4
<1>7. Nest(s, p, bt, n + 1)
  BY <1>3, <1>5, <1>6 DEF Nest
<1> QED BY <1>3, <1>4, <1>5, <1>7 DEF p

LEMMA NestTopped ==
  ASSUME NEW s, NEW q, NEW at, NEW n \in Nat, NEW m \in Nat, n <= m, Nest(s, q, at, n), q # <<>>,
         NEW f, Framed(f), Opener(f) = Opener(Top(q))
  PROVE  /\ Nest(s, OnTop(q, f), at, m) /\ OnTop(q, f) # <<>>
         /\ Len(OnTop(q, f)) = Len(q) /\ Top(OnTop(q, f)) = f
<1> DEFINE d == Len(q)
           p == OnTop(q, f)
<1>1. /\ IsSequence(p) /\ p # <<>> /\ Len(p) = d /\ d \in Nat \ {0} /\ p[d] = f
      /\ \A k \in 1 .. d - 1 : p[k] = q[k]
  BY OnTopIs DEF Nest
<1> HIDE DEF p
<1>2. at \in [1 .. d -> 1 .. m]
  <2>1. 1 .. n \subseteq 1 .. m /\ at \in [1 .. d -> 1 .. n]
    BY DEF Nest
  <2> QED BY <2>1
<1>3. ASSUME NEW k \in 1 .. d
      PROVE  Opened(s, p, at, k)
  <2>1. Opened(s, q, at, k)
    BY DEF Nest
  <2>2. k - 1 # 0 => k - 1 \in 1 .. d - 1
    BY <1>1
  <2>3. Awaits(s, p, at, k - 1, at[k])
    BY <1>1, <2>1, <2>2, AwaitsSame DEF Opened
  <2>4. CASE k = d
    BY <1>1, <2>1, <2>3, <2>4 DEF Opened, Top
  <2>5. CASE k \in 1 .. d - 1
    BY <1>1, <2>1, <2>3, <2>5 DEF Opened
  <2> QED BY <1>1, <2>4, <2>5
<1> QED BY <1>1, <1>2, <1>3 DEF Nest, p, Top

LEMMA NestBelow ==
  ASSUME NEW s, NEW q, NEW at, NEW n \in Nat, Nest(s, q, at, n), q # <<>>
  PROVE  \E bt : /\ Nest(s, Below(q), bt, n + 1)
                 /\ Awaits(s, Below(q), bt, Len(Below(q)), at[Len(q)])
<1> DEFINE d == Len(q) - 1
           p == Below(q)
           bt == [k \in 1 .. d |-> at[k]]
<1>1. IsSequence(p) /\ Len(p) = d /\ Len(q) \in Nat \ {0} /\ \A k \in 1 .. d : p[k] = q[k]
  BY BelowIs DEF Nest
<1> HIDE DEF p
<1>2. at \in [1 .. Len(q) -> 1 .. n] /\ \A k \in 1 .. d : k \in 1 .. Len(q)
  BY <1>1 DEF Nest
<1>3. bt \in [1 .. d -> 1 .. n + 1] /\ \A k \in 1 .. d : bt[k] = at[k]
  BY <1>2
<1> HIDE DEF bt
<1>4. ASSUME NEW k \in 1 .. Len(q)
      PROVE  Awaits(s, p, bt, k - 1, at[k])
  <2>1. Opened(s, q, at, k)
    BY DEF Nest
  <2>2. k - 1 # 0 => k - 1 \in 1 .. d
    BY <1>1
  <2> QED BY <1>1, <1>3, <2>1, <2>2, AwaitsSame DEF Opened
<1>5. ASSUME NEW k \in 1 .. d
      PROVE  Opened(s, p, bt, k)
  BY <1>1, <1>2, <1>3, <1>4, <1>5 DEF Nest, Opened
<1>6. Nest(s, p, bt, n + 1)
  BY <1>1, <1>3, <1>5 DEF Nest
<1>7. Awaits(s, p, bt, Len(p), at[Len(q)])
  BY <1>1, <1>4
<1> QED BY <1>6, <1>7 DEF p
-----------------------------------------------------------------------------
\* A value that has been read is returned to the container around it.
LEMMA ValueReturned ==
  ASSUME NEW s, NEW q, NEW at, NEW m \in Nat, NEW n \in Nat, m <= n, n <= Len(s), Len(s) \in Nat,
         Nest(s, q, at, m), NEW b \in 1 .. n, Awaits(s, q, at, Len(q), b),
         NEW v \in Row(s, "value", b, n)
  PROVE  /\ q = <<>> => v \in Row(s, "value", 1, n)
         /\ q # <<>> => Reached(s, OnTop(q, SetChild(Top(q), v)), at, "next", n)
<1> DEFINE d == Len(q)
           f == SetChild(Top(q), v)
<1>1. n \in b .. Len(s) /\ d \in Nat /\ (q = <<>> <=> d = 0)
  BY SequenceIs DEF Nest
<1>2. IF d = 0 THEN v \in Row(s, "value", 1, n) ELSE HoldsSoFar(s, f, at[d], n)
  BY <1>1 DEF Awaits, Top
<1>3. ASSUME q # <<>>
      PROVE  Reached(s, OnTop(q, f), at, "next", n)
  <2>1. Framed(Top(q))
    BY <1>1, <1>3 DEF Nest, Opened, Top
  <2>2. CASE IsObject(Top(q))
    <3>1. Framed(f) /\ Opener(f) = Opener(Top(q))
      BY <2>2, ObjectFrames DEF Framed, Opener
    <3> QED BY <1>1, <1>2, <1>3, <3>1, NestTopped DEF Reached, InContainer, Stands
  <2>3. CASE IsArray(Top(q))
    <3>1. Framed(f) /\ Opener(f) = Opener(Top(q))
      BY <2>3, ArrayFrames DEF Framed, Opener
    <3> QED BY <1>1, <1>2, <1>3, <3>1, NestTopped DEF Reached, InContainer, Stands
  <2> QED BY <2>1, <2>2, <2>3 DEF Framed
<1> QED BY <1>1, <1>2, <1>3

\* The innermost container is left, and its value is returned.
LEMMA ContainerLeft ==
  ASSUME NEW s, NEW q, NEW at, NEW n \in Nat, n + 1 <= Len(s), Len(s) \in Nat,
         Nest(s, q, at, n), q # <<>>, Top(q).val \in Row(s, "value", at[Len(q)], n + 1)
  PROVE  /\ Below(q) = <<>> => Top(q).val \in Row(s, "value", 1, n + 1)
         /\ Below(q) # <<>> =>
              \E bt : Reached(s, OnTop(Below(q), SetChild(Top(Below(q)), Top(q).val)), bt, "next", n + 1)
<1>1. PICK bt : /\ Nest(s, Below(q), bt, n + 1)
                /\ Awaits(s, Below(q), bt, Len(Below(q)), at[Len(q)])
  BY NestBelow
<1>2. at[Len(q)] \in 1 .. n + 1
  <2>1. Len(q) \in Nat \ {0} /\ at \in [1 .. Len(q) -> 1 .. n]
    BY SequenceIs DEF Nest
  <2> QED BY <2>1
<1> QED BY <1>1, <1>2, ValueReturned
-----------------------------------------------------------------------------
(* What the reader does in a container. *)

LEMMA EmptyFrames ==
  /\ IsArray(ArrayFrame) /\ Opener(ArrayFrame) = "[" /\ ArrayFrame.val.type = "array"
  /\ ArrayFrame.val.el = <<>>
  /\ IsObject(ObjectFrame) /\ Opener(ObjectFrame) = "{" /\ ObjectFrame.val.type = "object"
  /\ ObjectFrame.val.mem = NoMembers /\ ObjectFrame.name = ""
<1>1. IsSequence(<<>>)
  <2>1. <<>> \in Seq({})
    OBVIOUS
  <2> QED BY <2>1, IsSequenceOf
<1> QED BY <1>1 DEF ArrayFrame, ArrV, IsArray, Opener, ObjectFrame, ObjV, IsObject

\* Places in a text, where a container opened at a may end.
LEMMA Indices ==
  ASSUME NEW n \in Nat, NEW m \in Nat, n + 1 <= m
  PROVE  /\ n + 1 \in Nat /\ n <= n + 1 /\ (n + 1) + 1 = n + 2 /\ (n + 1) - 1 = n
         /\ n + 1 \in 1 .. m + 1 /\ n \in 0 .. m /\ n + 1 \in 0 .. m
         /\ \A a \in 1 .. n :
              /\ a \in 1 .. m /\ n + 1 \in a .. m /\ a < n + 1 /\ a <= n
              /\ a + 1 \in 1 .. m /\ n + 1 \in a + 1 .. m
              /\ a + 1 \in 1 .. m + 1 /\ a + 1 <= n + 1 /\ (a # n => a + 1 < n + 1)
              /\ \A j \in n + 2 .. m : j \in a + 1 .. m /\ n + 1 \in a + 1 .. j
OBVIOUS

\* Where the innermost container was opened.
LEMMA Innermost ==
  ASSUME NEW s, NEW q, NEW at, NEW n \in Nat, Nest(s, q, at, n), q # <<>>
  PROVE  /\ at[Len(q)] \in 1 .. n /\ s[at[Len(q)]].k = Opener(Top(q))
         /\ Framed(Top(q)) /\ Opened(s, q, at, Len(q)) /\ Len(q) \in Nat \ {0}
<1>1. Len(q) \in Nat \ {0} /\ at \in [1 .. Len(q) -> 1 .. n]
  BY SequenceIs DEF Nest
<1>2. Len(q) \in 1 .. Len(q)
  BY <1>1
<1> QED BY <1>1, <1>2 DEF Nest, Opened, Top

LEMMA FirstElement ==
  ASSUME NEW s, Len(s) \in Nat, NEW q, NEW at, NEW n \in Nat, n <= Len(s),
         Reached(s, q, at, "first", n)
  PROVE  Reached(s, OnTop(q, InsertChild(Top(q))), at, "value", n)
<1> DEFINE p == OnTop(q, InsertChild(Top(q)))
           d == Len(q)
<1>1. Nest(s, q, at, n) /\ q # <<>> /\ Top(q) = ArrayFrame /\ at[d] = n
  BY DEF Reached, InContainer, Stands
<1>2. IsArray(Top(q)) /\ Framed(InsertChild(Top(q))) /\ Opener(InsertChild(Top(q))) = Opener(Top(q))
  BY <1>1, EmptyFrames, ArrayFrames DEF Framed
<1>3. Nest(s, p, at, n) /\ p # <<>> /\ Len(p) = d /\ Top(p) = InsertChild(Top(q))
  BY <1>1, <1>2, NestTopped
<1>4. at[d] \in 1 .. n /\ d \in Nat \ {0}
  BY <1>1, Innermost
<1>5. ASSUME NEW j \in n + 1 .. Len(s), NEW v \in Row(s, "value", n + 1, j)
      PROVE  HoldsSoFar(s, SetChild(p[d], v), at[d], j)
  <2>1. SetChild(p[d], v).val.type = "array" /\ SetChild(p[d], v).val.el = <<v>>
    <3>1. p[d] = InsertChild(Top(q))
      BY <1>3 DEF Top
    <3>2. SetChild(InsertChild(Top(q)), v).val.el = Append(<<>>, v)
      BY <1>1, <1>2, EmptyFrames, ArrayFrames
    <3>3. IsArray(SetChild(InsertChild(Top(q)), v))
      BY <1>2, ArrayFrames
    <3>4. Append(<<>>, v) = <<v>>
      OBVIOUS
    <3> QED BY <3>1, <3>2, <3>3, <3>4, ArrayFrames
  <2>2. n + 1 \in 1 .. Len(s)
    OBVIOUS
  <2>3. <<v>> \in Row(s, "elements", n + 1, j)
    BY <2>2, ElementRules
  <2> QED BY <1>1, <2>1, <2>3 DEF HoldsSoFar
<1>6. Awaits(s, p, at, Len(p), n + 1)
  BY <1>3, <1>4, <1>5 DEF Awaits
<1> QED BY <1>3, <1>6 DEF Reached, InContainer

LEMMA NextElement ==
  ASSUME NEW s, Len(s) \in Nat, NEW q, NEW at, NEW n \in Nat, n + 1 <= Len(s),
         Reached(s, q, at, "next", n), IsArray(Top(q)), s[n + 1].k = ","
  PROVE  Reached(s, OnTop(q, InsertChild(Top(q))), at, "value", n + 1)
<1> DEFINE p == OnTop(q, InsertChild(Top(q)))
           d == Len(q)
           els == Top(q).val.el
<1>0. n + 1 \in Nat /\ n <= n + 1 /\ (n + 1) + 1 = n + 2 /\ (n + 1) - 1 = n
  BY Indices
<1>1. Nest(s, q, at, n) /\ q # <<>> /\ els \in Row(s, "elements", at[d] + 1, n)
  BY ArrayFrames DEF Reached, InContainer, Stands, HoldsSoFar
<1>2. Framed(InsertChild(Top(q))) /\ Opener(InsertChild(Top(q))) = Opener(Top(q))
  BY ArrayFrames DEF Framed, Opener
<1>3. Nest(s, p, at, n + 1) /\ p # <<>> /\ Len(p) = d /\ Top(p) = InsertChild(Top(q))
  BY <1>0, <1>1, <1>2, NestTopped
<1>4. at[d] \in 1 .. n /\ d \in Nat \ {0}
  BY <1>1, Innermost
<1>5. ASSUME NEW j \in n + 2 .. Len(s), NEW v \in Row(s, "value", n + 2, j)
      PROVE  HoldsSoFar(s, SetChild(p[d], v), at[d], j)
  <2>1. SetChild(p[d], v).val.type = "array" /\ SetChild(p[d], v).val.el = Append(els, v)
    <3>1. p[d] = InsertChild(Top(q))
      BY <1>3 DEF Top
    <3>2. SetChild(InsertChild(Top(q)), v).val.el = Append(els, v)
      BY ArrayFrames
    <3>3. IsArray(InsertChild(Top(q)))
      BY ArrayFrames
    <3>4. IsArray(SetChild(InsertChild(Top(q)), v))
      BY <3>3, ArrayFrames
    <3> QED BY <3>1, <3>2, <3>4, ArrayFrames
  <2>2. at[d] + 1 \in 1 .. Len(s) /\ j \in at[d] + 1 .. Len(s) /\ n + 1 \in at[d] + 1 .. j
    BY <1>4, Indices
  <2>3. Append(els, v) \in Row(s, "elements", at[d] + 1, j)
    BY <1>0, <1>1, <2>2, ElementRules
  <2> QED BY <2>1, <2>3 DEF HoldsSoFar
<1>6. Awaits(s, p, at, Len(p), (n + 1) + 1)
  BY <1>0, <1>3, <1>4, <1>5 DEF Awaits
<1> QED BY <1>3, <1>6 DEF Reached, InContainer

LEMMA NextMember ==
  ASSUME NEW s, Len(s) \in Nat, NEW q, NEW at, NEW n \in Nat, n + 1 <= Len(s),
         Reached(s, q, at, "colon", n), s[n + 1].k = ":"
  PROVE  Reached(s, OnTop(q, InsertChild(Top(q))), at, "value", n + 1)
<1> DEFINE p == OnTop(q, InsertChild(Top(q)))
           d == Len(q)
           f == Top(q)
<1>0. n + 1 \in Nat /\ n <= n + 1 /\ (n + 1) + 1 = n + 2
  BY Indices
<1>1. /\ Nest(s, q, at, n) /\ q # <<>> /\ IsObject(f) /\ s[n].k = "string" /\ s[n].val.str = f.name
      /\ \E l : Members(f.val.mem, l) \in Row(s, "before", at[d] + 1, n - 1)
  BY DEF Reached, InContainer, Stands
<1>2. Framed(InsertChild(f)) /\ Opener(InsertChild(f)) = Opener(f)
  BY <1>1, ObjectFrames DEF Framed, Opener
<1>3. Nest(s, p, at, n + 1) /\ p # <<>> /\ Len(p) = d /\ Top(p) = InsertChild(f)
  BY <1>0, <1>1, <1>2, NestTopped
<1>4. at[d] \in 1 .. n - 1 /\ d \in Nat \ {0}
  <2>0. Opener(f) = "{"
    BY <1>1, ObjectFrames DEF Opener
  <2>1. at[d] \in 1 .. n /\ s[at[d]].k = "{" /\ d \in Nat \ {0}
    BY <1>1, <2>0, Innermost
  <2>2. at[d] # n
    BY <1>1, <2>1
  <2> HIDE DEF d
  <2>3. \A a \in 1 .. n : a # n => a \in 1 .. n - 1
    OBVIOUS
  <2> QED BY <2>1, <2>2, <2>3
<1>5. ASSUME NEW j \in n + 2 .. Len(s), NEW v \in Row(s, "value", n + 2, j)
      PROVE  HoldsSoFar(s, SetChild(p[d], v), at[d], j)
  <2> DEFINE mem == WithMember(ObjV(f.val.mem), f.name, v).mem
  <2>1. /\ SetChild(p[d], v).val.type = "object" /\ SetChild(p[d], v).val.mem = mem
        /\ SetChild(p[d], v).name = f.name
    <3>1. p[d] = InsertChild(f)
      BY <1>3 DEF Top
    <3>2. SetChild(p[d], v) = SetChild(f, v)
      BY <1>1, <3>1, ObjectFrames
    <3>3. IsObject(SetChild(f, v)) /\ SetChild(f, v).val.mem = mem /\ SetChild(f, v).name = f.name
      BY <1>1, ObjectFrames
    <3> QED BY <3>2, <3>3, ObjectFrames
  <2>2. at[d] + 1 \in 1 .. Len(s) /\ j \in at[d] + 1 .. Len(s) /\ n \in at[d] + 1 .. j - 2
    BY <1>4
  <2>3. PICK l : Members(f.val.mem, l) \in Row(s, "before", at[d] + 1, n - 1)
    BY <1>1
  <2>4. Members(WithMember(ObjV(Members(f.val.mem, l).mem), s[n].val.str, v).mem, s[n].val.str)
          \in Row(s, "members", at[d] + 1, j)
    BY <1>1, <2>2, <2>3, MemberRules
  <2>5. Members(f.val.mem, l).mem = f.val.mem
    BY DEF Members
  <2>6. Members(mem, f.name) \in Row(s, "members", at[d] + 1, j)
    BY <1>1, <2>4, <2>5
  <2> QED BY <2>1, <2>6 DEF HoldsSoFar
<1>6. Awaits(s, p, at, Len(p), (n + 1) + 1)
  BY <1>0, <1>3, <1>4, <1>5 DEF Awaits
<1> QED BY <1>3, <1>6 DEF Reached, InContainer

\* The value of a container that ends.
LEMMA ArrayEnds ==
  ASSUME NEW s, Len(s) \in Nat, NEW q, NEW at, NEW n \in Nat, n + 1 <= Len(s), s[n + 1].k = "]",
         \/ Reached(s, q, at, "first", n)
         \/ Reached(s, q, at, "next", n) /\ IsArray(Top(q))
  PROVE  /\ Nest(s, q, at, n) /\ q # <<>>
         /\ Top(q).val \in Row(s, "value", at[Len(q)], n + 1)
<1> DEFINE a == at[Len(q)]
<1>1. Nest(s, q, at, n) /\ q # <<>> /\ IsArray(Top(q))
  BY EmptyFrames DEF Reached, InContainer, Stands
<1>2. a \in 1 .. n /\ s[a].k = "["
  BY <1>1, Innermost, ArrayFrames DEF Opener
<1>3. a \in 1 .. Len(s) /\ n + 1 \in a .. Len(s) /\ a < n + 1 /\ (n + 1) - 1 = n
  BY <1>2, Indices
<1>4. CASE Reached(s, q, at, "first", n)
  <2>1. Top(q) = ArrayFrame /\ a = n
    BY <1>4 DEF Reached, InContainer, Stands
  <2>2. ArrV(<<>>) \in Row(s, "value", a, n + 1)
    BY <1>2, <1>3, <2>1, ValueRules
  <2> QED BY <1>1, <2>1, <2>2 DEF ArrayFrame
<1>5. CASE Reached(s, q, at, "next", n)
  <2>1. Top(q).val.el \in Row(s, "elements", a + 1, n)
    BY <1>1, <1>5, ArrayFrames DEF Reached, InContainer, Stands, HoldsSoFar
  <2>2. ArrV(Top(q).val.el) \in Row(s, "value", a, n + 1)
    BY <1>2, <1>3, <2>1, ValueRules
  <2>3. Top(q).val = ArrV(Top(q).val.el)
    BY <1>1, ArrayFrames
  <2> QED BY <1>1, <2>2, <2>3
<1> QED BY <1>4, <1>5

LEMMA ObjectEnds ==
  ASSUME NEW s, Len(s) \in Nat, NEW q, NEW at, NEW n \in Nat, n + 1 <= Len(s), s[n + 1].k = "}",
         \/ Reached(s, q, at, "next", n) /\ IsObject(Top(q))
         \/ Reached(s, q, at, "skipped", n)
         \/ Reached(s, q, at, "name", n) /\ Top(q).name = ""
  PROVE  /\ Nest(s, q, at, n) /\ q # <<>>
         /\ Top(q).val \in Row(s, "value", at[Len(q)], n + 1)
<1> DEFINE a == at[Len(q)]
           f == Top(q)
<1>1. Nest(s, q, at, n) /\ q # <<>> /\ IsObject(f)
  BY DEF Reached, InContainer, Stands
<1>2. a \in 1 .. n /\ s[a].k = "{" /\ f.val.type = "object" /\ f.val = ObjV(f.val.mem)
  <2>1. f.val = ObjV(f.val.mem) /\ f.val.type = "object"
    BY <1>1, ObjectFrames
  <2> QED BY <1>1, <2>1, Innermost DEF Opener
<1>3. a \in 1 .. Len(s) /\ n + 1 \in a .. Len(s) /\ a < n + 1 /\ (n + 1) - 1 = n
  BY <1>2, Indices
<1>4. Members(f.val.mem, f.name).mem = f.val.mem /\ Members(f.val.mem, f.name).last = f.name
  BY DEF Members
<1>5. CASE Reached(s, q, at, "next", n) \/ Reached(s, q, at, "skipped", n)
  <2>1. Members(f.val.mem, f.name) \in Row(s, "members", a + 1, n)
    BY <1>2, <1>5 DEF Reached, InContainer, Stands, HoldsSoFar
  <2>2. ObjV(f.val.mem) \in Row(s, "value", a, n + 1)
    BY <1>2, <1>3, <1>4, <2>1, ValueRules
  <2> QED BY <1>1, <1>2, <2>2
<1>6. CASE Reached(s, q, at, "name", n) /\ f.name = ""
  <2>1. Members(f.val.mem, f.name) \in Row(s, "before", a + 1, n)
    BY <1>6 DEF Reached, InContainer, Stands
  <2> DEFINE b == Members(f.val.mem, f.name)
  <2> HIDE DEF b
  <2>2. b.mem = f.val.mem /\ b.last = "" /\ b \in Row(s, "before", a + 1, n)
    BY <1>4, <1>6, <2>1 DEF b
  <2>3. ObjV(b.mem) \in Row(s, "value", a, n + 1)
    BY <1>2, <1>3, <2>2, ValueRules
  <2> QED BY <1>1, <1>2, <2>2, <2>3
<1> QED BY <1>5, <1>6

LEMMA NestLater ==
  ASSUME NEW s, NEW q, NEW at, NEW n \in Nat, NEW m \in Nat, n <= m, Nest(s, q, at, n)
  PROVE  Nest(s, q, at, m)
<1>1. 1 .. n \subseteq 1 .. m /\ at \in [1 .. Len(q) -> 1 .. n]
  BY DEF Nest
<1>2. at \in [1 .. Len(q) -> 1 .. m]
  BY <1>1
<1> QED BY <1>2 DEF Nest

\* The token n + 1 where a value is awaited.
LEMMA CommentBeforeValue ==
  ASSUME NEW s, Len(s) \in Nat, NEW q, NEW at, NEW n \in Nat, n + 1 <= Len(s),
         Reached(s, q, at, "value", n), IsComment(s[n + 1])
  PROVE  Reached(s, q, at, "value", n + 1)
<1>0. n + 1 \in Nat /\ n <= n + 1 /\ (n + 1) + 1 = n + 2
  BY Indices
<1>1. Nest(s, q, at, n + 1) /\ Awaits(s, q, at, Len(q), n + 1)
  BY <1>0, NestLater DEF Reached
<1>2. ASSUME NEW j \in n + 2 .. Len(s)
      PROVE  j \in n + 1 .. Len(s) /\ Row(s, "value", n + 2, j) \subseteq Row(s, "value", n + 1, j)
  <2>1. n + 1 \in 1 .. Len(s) /\ j \in n + 1 .. Len(s) /\ n + 1 < j
    OBVIOUS
  <2> QED BY <1>0, <2>1, ValueRules
<1>3. Awaits(s, q, at, Len(q), n + 2)
  BY <1>1, <1>2 DEF Awaits
<1> QED BY <1>0, <1>1, <1>3 DEF Reached, InContainer

LEMMA ContainerOpens ==
  ASSUME NEW s, Len(s) \in Nat, NEW q, NEW at, NEW n \in Nat, n + 1 <= Len(s),
         Reached(s, q, at, "value", n)
  PROVE  /\ s[n + 1].k = "{" => \E bt : Reached(s, Append(q, ObjectFrame), bt, "name", n + 1)
         /\ s[n + 1].k = "[" => \E bt : Reached(s, Append(q, ArrayFrame), bt, "first", n + 1)
<1>0. n + 1 \in 1 .. Len(s) /\ (n + 1) + 1 \in 1 .. Len(s) + 1 /\ n + 1 \in 0 .. Len(s)
      /\ (n + 1) + 1 > n + 1
  OBVIOUS
<1>1. Nest(s, q, at, n) /\ Awaits(s, q, at, Len(q), n + 1)
  BY DEF Reached
<1>2. ASSUME s[n + 1].k = "{"
      PROVE  \E bt : Reached(s, Append(q, ObjectFrame), bt, "name", n + 1)
  <2> DEFINE f == ObjectFrame
             p == Append(q, f)
  <2>1. Framed(f) /\ s[n + 1].k = Opener(f)
    BY <1>2, EmptyFrames DEF Framed
  <2>2. PICK bt : Nest(s, p, bt, n + 1) /\ bt[Len(p)] = n + 1 /\ p # <<>> /\ Top(p) = f
    BY <1>1, <2>1, NestPushed
  <2>3. Members(f.val.mem, f.name) \in Row(s, "before", bt[Len(p)] + 1, n + 1)
    BY <1>0, <2>2, EmptyFrames, BeforeRules
  <2>4. Stands(s, Top(p), bt[Len(p)], "name", n + 1)
    BY <2>2, <2>3, EmptyFrames DEF Stands
  <2> QED BY <2>2, <2>4 DEF Reached
<1>3. ASSUME s[n + 1].k = "["
      PROVE  \E bt : Reached(s, Append(q, ArrayFrame), bt, "first", n + 1)
  <2> DEFINE f == ArrayFrame
             p == Append(q, f)
  <2>1. Framed(f) /\ s[n + 1].k = Opener(f)
    BY <1>3, EmptyFrames DEF Framed
  <2>2. PICK bt : Nest(s, p, bt, n + 1) /\ bt[Len(p)] = n + 1 /\ p # <<>> /\ Top(p) = f
    BY <1>1, <2>1, NestPushed
  <2> QED BY <2>2 DEF Reached, Stands
<1> QED BY <1>2, <1>3

LEMMA ValueIsToken ==
  ASSUME NEW s, Len(s) \in Nat, NEW q, NEW at, NEW n \in Nat, n + 1 <= Len(s),
         Reached(s, q, at, "value", n), s[n + 1].k \in {"literal", "string"}
  PROVE  /\ q = <<>> => s[n + 1].val \in Row(s, "value", 1, n + 1)
         /\ q # <<>> => Reached(s, OnTop(q, SetChild(Top(q), s[n + 1].val)), at, "next", n + 1)
<1>1. n + 1 \in 1 .. Len(s) /\ n + 1 \in n + 1 .. Len(s) /\ n + 1 \in 1 .. n + 1 /\ n + 1 \in Nat
      /\ n <= n + 1
  OBVIOUS
<1>2. s[n + 1].val \in Row(s, "value", n + 1, n + 1)
  BY <1>1, ValueRules
<1>3. Nest(s, q, at, n) /\ Awaits(s, q, at, Len(q), n + 1)
  BY DEF Reached
<1> QED BY <1>1, <1>2, <1>3, ValueReturned

\* The token n + 1 in a container.
LEMMA CommentInArray ==
  ASSUME NEW s, Len(s) \in Nat, NEW q, NEW at, NEW n \in Nat, n + 1 <= Len(s),
         Reached(s, q, at, "next", n), IsArray(Top(q)), IsComment(s[n + 1])
  PROVE  Reached(s, q, at, "next", n + 1)
<1> DEFINE a == at[Len(q)]
<1>0. n + 1 \in Nat /\ n <= n + 1 /\ (n + 1) - 1 = n
  BY Indices
<1>1. Nest(s, q, at, n) /\ q # <<>> /\ Top(q).val.el \in Row(s, "elements", a + 1, n)
  BY ArrayFrames DEF Reached, InContainer, Stands, HoldsSoFar
<1>2. a \in 1 .. n /\ Nest(s, q, at, n + 1)
  BY <1>0, <1>1, Innermost, NestLater
<1>3. a + 1 \in 1 .. Len(s) /\ n + 1 \in a + 1 .. Len(s)
  BY <1>2, Indices
<1>4. Top(q).val.el \in Row(s, "elements", a + 1, n + 1)
  BY <1>0, <1>1, <1>3, ElementRules
<1>5. HoldsSoFar(s, Top(q), a, n + 1)
  BY <1>4, ArrayFrames DEF HoldsSoFar
<1> QED BY <1>1, <1>2, <1>5 DEF Reached, Stands

LEMMA InObjectMoves ==
  ASSUME NEW s, Len(s) \in Nat, NEW q, NEW at, NEW n \in Nat, n + 1 <= Len(s),
         \/ Reached(s, q, at, "next", n) /\ IsObject(Top(q))
         \/ Reached(s, q, at, "skipped", n)
  PROVE  /\ IsComment(s[n + 1]) => Reached(s, q, at, "skipped", n + 1)
         /\ s[n + 1].k = "," => Reached(s, q, at, "name", n + 1)
         /\ Reached(s, q, at, "skipped", n) /\ s[n + 1].k \notin {"}", "comment"} =>
              Reached(s, q, at, "name", n + 1)
<1> DEFINE a == at[Len(q)]
           f == Top(q)
           m == Members(f.val.mem, f.name)
<1>0. n + 1 \in Nat /\ n <= n + 1 /\ (n + 1) - 1 = n /\ n + 1 \in 0 .. Len(s)
  BY Indices
<1>1. Nest(s, q, at, n) /\ q # <<>> /\ IsObject(f) /\ m \in Row(s, "members", a + 1, n)
  BY ObjectFrames DEF Reached, InContainer, Stands, HoldsSoFar
<1>2. a \in 1 .. n /\ Nest(s, q, at, n + 1) /\ s[a].k = "{"
  BY <1>0, <1>1, Innermost, NestLater, ObjectFrames DEF Opener
<1>3. /\ a + 1 \in 1 .. Len(s) /\ n + 1 \in a + 1 .. Len(s) /\ a + 1 \in 1 .. Len(s) + 1
      /\ a + 1 <= n + 1 /\ (a # n => a + 1 < n + 1)
  BY <1>2, Indices
<1> HIDE DEF m, a
<1>4. ASSUME IsComment(s[n + 1])
      PROVE  Reached(s, q, at, "skipped", n + 1)
  <2>1. m \in Row(s, "members", a + 1, n + 1)
    BY <1>0, <1>1, <1>3, <1>4, MemberRules
  <2>2. HoldsSoFar(s, f, a, n + 1)
    BY <1>1, <2>1, ObjectFrames DEF HoldsSoFar, m
  <2> QED BY <1>1, <1>2, <1>4, <2>2 DEF Reached, Stands, a
<1>5. ASSUME m \in Row(s, "before", a + 1, n + 1)
      PROVE  Reached(s, q, at, "name", n + 1)
  BY <1>1, <1>2, <1>5 DEF Reached, Stands, m, a
<1>6. ASSUME s[n + 1].k = ","
      PROVE  Reached(s, q, at, "name", n + 1)
  <2>1. m \in Row(s, "before", a + 1, n + 1)
    BY <1>0, <1>1, <1>3, <1>6, BeforeRules DEF IsComment
  <2> QED BY <1>5, <2>1
<1>7. ASSUME Reached(s, q, at, "skipped", n), s[n + 1].k \notin {"}", "comment"}
      PROVE  Reached(s, q, at, "name", n + 1)
  <2>1. IsComment(s[n]) /\ a # n
    BY <1>2, <1>7 DEF Reached, InContainer, Stands, IsComment
  <2>2. a + 1 < n + 1 /\ ~IsComment(s[n + 1]) /\ s[n + 1].k # "}" /\ IsComment(s[(n + 1) - 1])
    BY <1>0, <1>3, <1>7, <2>1 DEF IsComment
  <2>3. Row(s, "members", a + 1, (n + 1) - 1) \subseteq Row(s, "before", a + 1, n + 1)
    BY <1>0, <1>3, <2>2, BeforeRules
  <2>4. m \in Row(s, "before", a + 1, n + 1)
    BY <1>0, <1>1, <2>3
  <2> QED BY <1>5, <2>4
<1> QED BY <1>4, <1>6, <1>7

LEMMA BeforeNameMoves ==
  ASSUME NEW s, Len(s) \in Nat, NEW q, NEW at, NEW n \in Nat, n + 1 <= Len(s),
         Reached(s, q, at, "name", n)
  PROVE  /\ IsComment(s[n + 1]) => Reached(s, q, at, "name", n + 1)
         /\ s[n + 1].k = "string" =>
              Reached(s, OnTop(q, [Top(q) EXCEPT !.name = s[n + 1].val.str]), at, "colon", n + 1)
<1> DEFINE a == at[Len(q)]
           f == Top(q)
<1>0. n + 1 \in Nat /\ n <= n + 1 /\ (n + 1) - 1 = n /\ n + 1 \in 0 .. Len(s)
  BY Indices
<1>1. Nest(s, q, at, n) /\ q # <<>> /\ IsObject(f)
      /\ Members(f.val.mem, f.name) \in Row(s, "before", a + 1, n)
  BY DEF Reached, InContainer, Stands
<1>2. a \in 1 .. n /\ Nest(s, q, at, n + 1)
  BY <1>0, <1>1, Innermost, NestLater
<1>3. a + 1 \in 1 .. Len(s) + 1 /\ a + 1 <= n + 1
  BY <1>2, Indices
<1>4. ASSUME IsComment(s[n + 1])
      PROVE  Reached(s, q, at, "name", n + 1)
  <2>1. Members(f.val.mem, f.name) \in Row(s, "before", a + 1, n + 1)
    BY <1>0, <1>1, <1>3, <1>4, BeforeRules
  <2> QED BY <1>1, <1>2, <2>1 DEF Reached, Stands
<1>5. ASSUME s[n + 1].k = "string"
      PROVE  Reached(s, OnTop(q, [f EXCEPT !.name = s[n + 1].val.str]), at, "colon", n + 1)
  <2> DEFINE name == s[n + 1].val.str
             g == [f EXCEPT !.name = name]
             mem == f.val.mem
  <2>1. f = [val |-> ObjV(mem), name |-> f.name]
    BY <1>1 DEF IsObject
  <2> HIDE DEF mem, f, name
  <2>2. g = [val |-> ObjV(mem), name |-> name]
    BY <2>1
  <2>3. IsObject(g) /\ g.val.mem = mem /\ g.name = name
    BY <2>2 DEF IsObject, ObjV
  <2> HIDE DEF g
  <2>4. Framed(g) /\ Opener(g) = Opener(f)
    BY <1>1, <2>3, ObjectFrames DEF Framed, Opener
  <2>5. /\ Nest(s, OnTop(q, g), at, n + 1) /\ OnTop(q, g) # <<>>
        /\ Len(OnTop(q, g)) = Len(q) /\ Top(OnTop(q, g)) = g
    BY <1>0, <1>1, <2>4, NestTopped DEF f
  <2>6. Members(g.val.mem, f.name) \in Row(s, "before", a + 1, (n + 1) - 1)
    BY <1>0, <1>1, <2>3 DEF mem
  <2>7. Stands(s, g, a, "colon", n + 1)
    BY <1>5, <2>3, <2>6 DEF Stands, name
  <2>8. Reached(s, OnTop(q, g), at, "colon", n + 1)
    BY <2>5, <2>7 DEF Reached
  <2> QED BY <2>8 DEF g, name
<1> QED BY <1>4, <1>5
-----------------------------------------------------------------------------
(* The steps of the reader. *)

\* What the first m tokens of s are known to be after the step.
Onward(s, m) ==
  /\ pc' \in Reading => \E at : Reached(s, nodes', at, pc', m)
  /\ pc' = "after" /\ successful' => root' \in Row(s, "value", 1, m)

LEMMA GoesOn ==
  ASSUME NEW s, NEW m, NEW q, NEW at, NEW place, Reached(s, q, at, place, m), place \in Reading,
         GoTo(place, q)
  PROVE  Onward(s, m)
BY DEF Onward, GoTo, Reading, InContainer

LEMMA Returns ==
  ASSUME NEW s, NEW m, NEW q, NEW v,
         q = <<>> => v \in Row(s, "value", 1, m),
         q # <<>> => \E at : Reached(s, OnTop(q, SetChild(Top(q), v)), at, "next", m),
         Return(q, v, TRUE)
  PROVE  Onward(s, m)
<1>1. CASE q = <<>>
  BY <1>1 DEF Onward, Return, Reading, InContainer
<1>2. CASE q # <<>>
  BY <1>2 DEF Onward, Return, Reading, InContainer
<1> QED BY <1>1, <1>2

LEMMA Fails ==
  ASSUME NEW s, NEW m, NEW q, NEW v, Return(q, v, FALSE) \/ GoTo("recover", q)
  PROVE  Onward(s, m)
BY DEF Onward, Return, GoTo, Reading, InContainer

LEMMA ValueStep ==
  ASSUME NEW s, Len(s) \in Nat, NEW n \in Nat, n + 1 <= Len(s), NEW at,
         Reached(s, nodes, at, pc, n), ReadValue(s[n + 1])
  PROVE  Onward(s, n + 1)
<1> DEFINE t == s[n + 1]
<1>1. Reached(s, Place, at, "value", n)
  <2>1. CASE pc = "first"
    <3>1. n <= Len(s)
      BY Indices
    <3>2. Place = OnTop(nodes, InsertChild(Top(nodes)))
      BY <2>1 DEF Place
    <3> QED BY <2>1, <3>1, <3>2, FirstElement
  <2>2. CASE pc = "value"
    BY <2>2 DEF Place
  <2> QED BY <2>1, <2>2 DEF ReadValue, AtValue
<1>2. CASE t.k = "comment" /\ GoTo("value", Place)
  BY <1>1, <1>2, CommentBeforeValue, GoesOn DEF IsComment, Reading
<1>3. CASE t.k = "{" /\ GoTo("name", Append(Place, ObjectFrame))
  <2>1. PICK bt : Reached(s, Append(Place, ObjectFrame), bt, "name", n + 1)
    BY <1>1, <1>3, ContainerOpens
  <2> QED BY <1>3, <2>1, GoesOn DEF Reading, InContainer
<1>4. CASE t.k = "[" /\ GoTo("first", Append(Place, ArrayFrame))
  <2>1. PICK bt : Reached(s, Append(Place, ArrayFrame), bt, "first", n + 1)
    BY <1>1, <1>4, ContainerOpens
  <2> QED BY <1>4, <2>1, GoesOn DEF Reading, InContainer
<1>5. CASE t.k \in {"literal", "string"} /\ Return(Place, t.val, TRUE)
  <2>1. /\ Place = <<>> => t.val \in Row(s, "value", 1, n + 1)
        /\ Place # <<>> => Reached(s, OnTop(Place, SetChild(Top(Place), t.val)), at, "next", n + 1)
    BY <1>1, <1>5, ValueIsToken
  <2> QED BY <1>5, <2>1, Returns
<1>6. CASE Return(Place, CurrentValue(Place), FALSE)
  BY <1>6, Fails
<1> QED BY <1>2, <1>3, <1>4, <1>5, <1>6 DEF ReadValue

\* The innermost container is left with its value.
LEMMA Ends ==
  ASSUME NEW s, Len(s) \in Nat, NEW n \in Nat, n + 1 <= Len(s), NEW at,
         Nest(s, nodes, at, n), nodes # <<>>,
         Top(nodes).val \in Row(s, "value", at[Len(nodes)], n + 1), Close(TRUE)
  PROVE  Onward(s, n + 1)
<1> DEFINE v == Top(nodes).val
           q == Below(nodes)
<1>1. /\ q = <<>> => v \in Row(s, "value", 1, n + 1)
      /\ q # <<>> => \E bt : Reached(s, OnTop(q, SetChild(Top(q), v)), bt, "next", n + 1)
  BY ContainerLeft
<1>2. Return(q, v, TRUE)
  BY DEF Close
<1> QED BY <1>1, <1>2, Returns

LEMMA ContainerStep ==
  ASSUME NEW s, Len(s) \in Nat, NEW n \in Nat, n + 1 <= Len(s), NEW at,
         Reached(s, nodes, at, pc, n), NEW t, t = s[n + 1],
         \/ ReadName(t)
         \/ ReadColon(t)
         \/ ReadComma(t)
         \/ ReadCommaAfterComment(t)
         \/ EndEmptyArray(t)
         \/ ReadSeparator(t)
  PROVE  Onward(s, n + 1)
<1>0. pc \in InContainer => Nest(s, nodes, at, n) /\ nodes # <<>> /\ Stands(s, Top(nodes), at[Len(nodes)], pc, n)
  BY DEF Reached
<1>1. CASE ReadName(t)
  <2>1. pc = "name" /\ Reached(s, nodes, at, "name", n)
    BY <1>1 DEF ReadName
  <2>2. CASE t.k = "comment" /\ GoTo("name", nodes)
    BY <2>1, <2>2, BeforeNameMoves, GoesOn DEF IsComment, Reading, InContainer
  <2>3. CASE t.k = "}" /\ Top(nodes).name = "" /\ Close(TRUE)
    BY <2>1, <2>3, ObjectEnds, Ends
  <2>4. CASE t.k = "string" /\ GoTo("colon", OnTop(nodes, [Top(nodes) EXCEPT !.name = t.val.str]))
    <3> DEFINE q == OnTop(nodes, [Top(nodes) EXCEPT !.name = t.val.str])
    <3>1. Reached(s, q, at, "colon", n + 1)
      BY <2>1, <2>4, BeforeNameMoves
    <3>2. GoTo("colon", q)
      BY <2>4
    <3> HIDE DEF q
    <3> QED BY <3>1, <3>2, GoesOn DEF Reading, InContainer
  <2>5. CASE GoTo("recover", nodes)
    BY <2>5, Fails
  <2> QED BY <1>1, <2>2, <2>3, <2>4, <2>5 DEF ReadName, AddErrorAndRecover
<1>2. CASE ReadColon(t)
  <2>1. Reached(s, nodes, at, "colon", n)
    BY <1>2 DEF ReadColon
  <2>2. CASE t.k = ":" /\ GoTo("value", OnTop(nodes, InsertChild(Top(nodes))))
    BY <2>1, <2>2, NextMember, GoesOn DEF Reading
  <2>3. CASE GoTo("recover", nodes)
    BY <2>3, Fails
  <2> QED BY <1>2, <2>2, <2>3 DEF ReadColon, AddErrorAndRecover
<1>3. CASE ReadComma(t)
  <2>1. Reached(s, nodes, at, "next", n) /\ IsObject(Top(nodes))
    <3>1. pc = "next" /\ InObject(nodes)
      BY <1>3 DEF ReadComma
    <3>2. Framed(Top(nodes)) /\ ~IsArray(Top(nodes))
      BY <1>0, <3>1, Innermost, ArrayFrames DEF InContainer, InObject
    <3> QED BY <3>1, <3>2 DEF Framed
  <2>2. CASE t.k = "}" /\ Close(TRUE)
    BY <2>1, <2>2, ObjectEnds, Ends
  <2>3. CASE t.k = "," /\ GoTo("name", nodes)
    BY <2>1, <2>3, InObjectMoves, GoesOn DEF Reading, InContainer
  <2>4. CASE t.k = "comment" /\ GoTo("skipped", nodes)
    BY <2>1, <2>4, InObjectMoves, GoesOn DEF Reading, InContainer, IsComment
  <2>5. CASE GoTo("recover", nodes)
    BY <2>5, Fails
  <2> QED BY <1>3, <2>2, <2>3, <2>4, <2>5 DEF ReadComma, AddErrorAndRecover
<1>4. CASE ReadCommaAfterComment(t)
  <2>1. Reached(s, nodes, at, "skipped", n)
    BY <1>4 DEF ReadCommaAfterComment
  <2>2. CASE t.k = "}" /\ Close(TRUE)
    BY <2>1, <2>2, ObjectEnds, Ends
  <2>3. CASE t.k = "comment" /\ GoTo("skipped", nodes)
    BY <2>1, <2>3, InObjectMoves, GoesOn DEF Reading, InContainer, IsComment
  <2>4. CASE t.k \notin {"}", "comment"} /\ GoTo("name", nodes)
    BY <2>1, <2>4, InObjectMoves, GoesOn DEF Reading, InContainer
  <2> QED BY <1>4, <2>2, <2>3, <2>4 DEF ReadCommaAfterComment
<1>5. CASE EndEmptyArray(t)
  <2>1. Reached(s, nodes, at, "first", n) /\ s[n + 1].k = "]" /\ Close(TRUE)
    BY <1>5 DEF EndEmptyArray
  <2>2. \/ Reached(s, nodes, at, "first", n)
        \/ Reached(s, nodes, at, "next", n) /\ IsArray(Top(nodes))
    BY <2>1
  <2>3. Nest(s, nodes, at, n) /\ nodes # <<>> /\ Top(nodes).val \in Row(s, "value", at[Len(nodes)], n + 1)
    BY <2>1, <2>2, ArrayEnds
  <2> QED BY <2>1, <2>3, Ends
<1>6. CASE ReadSeparator(t)
  <2>1. Reached(s, nodes, at, "next", n) /\ IsArray(Top(nodes))
    <3>1. pc = "next" /\ ~InObject(nodes)
      BY <1>6 DEF ReadSeparator
    <3>2. Framed(Top(nodes)) /\ ~IsObject(Top(nodes))
      BY <1>0, <3>1, Innermost, ObjectFrames DEF InContainer, InObject
    <3> QED BY <3>1, <3>2 DEF Framed
  <2>2. CASE t.k = "comment" /\ GoTo("next", nodes)
    BY <2>1, <2>2, CommentInArray, GoesOn DEF Reading, InContainer, IsComment
  <2>3. CASE t.k = "," /\ GoTo("value", OnTop(nodes, InsertChild(Top(nodes))))
    BY <2>1, <2>3, NextElement, GoesOn DEF Reading
  <2>4. CASE t.k = "]" /\ Close(TRUE)
    BY <2>1, <2>4, ArrayEnds, Ends
  <2>5. CASE GoTo("recover", nodes)
    BY <2>5, Fails
  <2> QED BY <1>6, <2>2, <2>3, <2>4, <2>5 DEF ReadSeparator, AddErrorAndRecover
<1> QED BY <1>1, <1>2, <1>3, <1>4, <1>5, <1>6
-----------------------------------------------------------------------------
\* The invariant: whatever follows the n tokens that have been read.
Begins(s, n) == Len(s) \in Nat /\ n <= Len(s) /\ \A i \in 1 .. n : s[i] = got[i]

Told(s, n) ==
  \E m \in 0 .. n : root \in Row(s, "value", 1, m) /\ \A i \in m + 1 .. n : IsComment(s[i])

GrammarInv ==
  Free => \A s :
    /\ Begins(s, Len(got)) =>
         /\ pc \in Reading => \E at : Reached(s, nodes, at, pc, Len(got))
         /\ pc = "after" /\ successful => Told(s, Len(got))
    /\ pc = "read" /\ successful /\ Begins(s, Len(got) - 1) =>
         Len(got) # 0 /\ Told(s, Len(got) - 1)

\* A token of a free text is the next one of what has been read.
LEMMA FreeToken ==
  ASSUME TextTypes, NEW t \in Offered, Take(t), Free'
  PROVE  /\ Free /\ Len(got) \in Nat
         /\ pc # "recover" =>
              /\ Len(got') = Len(got) + 1
              /\ \A s, n : n \in {Len(got), Len(got) + 1} /\ (Begins(s, n))' =>
                   Begins(s, Len(got)) /\ (n = Len(got) + 1 => s[n] = t)
<1>2. Free
  <2>1. ~Free => ~Free'
    BY GivenTaken DEF GivenTakes
  <2> QED BY <2>1
<1>3. Len(got) \in Nat
  BY DEF TextTypes
<1>4. ASSUME pc # "recover"
      PROVE  /\ Len(got') = Len(got) + 1 /\ got'[Len(got) + 1] = t
             /\ \A i \in 1 .. Len(got) : got'[i] = got[i]
  <2> DEFINE T == Tokens \cup {EOS}
  <2>1. got' = Append(got, t) /\ got \in Seq(T) /\ t \in T
    BY <1>2, <1>4, OfferedIs DEF Take, TextTypes
  <2> HIDE DEF T
  <2> QED BY <2>1, AppendProperties
<1>5. ASSUME pc # "recover", NEW s, NEW n \in {Len(got), Len(got) + 1}, (Begins(s, n))'
      PROVE  Begins(s, Len(got)) /\ (n = Len(got) + 1 => s[n] = t)
  <2>1. Len(s) \in Nat /\ n <= Len(s) /\ \A i \in 1 .. n : s[i] = got'[i]
    BY <1>5 DEF Begins
  <2>2. Len(got) <= n /\ \A i \in 1 .. Len(got) : i \in 1 .. n
    BY <1>3
  <2> QED BY <1>3, <1>4, <1>5, <2>1, <2>2 DEF Begins
<1> QED BY <1>2, <1>3, <1>4, <1>5
-----------------------------------------------------------------------------
(* The free texts. *)

LEMMA GrammarToken ==
  ASSUME PolicyInv, GrammarInv, NEW t \in Offered,
         \/ ReadValue(t)
         \/ ReadName(t)
         \/ ReadColon(t)
         \/ ReadComma(t)
         \/ ReadCommaAfterComment(t)
         \/ EndEmptyArray(t)
         \/ ReadSeparator(t)
         \/ Recover(t)
         \/ ParseEnd(t)
  PROVE  GrammarInv'
<1> SUFFICES ASSUME Free', NEW s
             PROVE  /\ (Begins(s, Len(got)))' =>
                         /\ pc' \in Reading => \E at : Reached(s, nodes', at, pc', Len(got'))
                         /\ pc' = "after" /\ successful' => (Told(s, Len(got)))'
                    /\ pc' = "read" /\ successful' /\ (Begins(s, Len(got) - 1))' =>
                         Len(got') # 0 /\ (Told(s, Len(got) - 1))'
  BY DEF GrammarInv
<1> DEFINE n == Len(got)
<1>1. TextTypes /\ Take(t)
  BY DEF PolicyInv, ReadValue, ReadName, ReadColon, ReadComma, ReadCommaAfterComment,
         EndEmptyArray, ReadSeparator, Recover, ParseEnd
<1>2. /\ Free /\ n \in Nat
      /\ pc # "recover" =>
           /\ Len(got') = n + 1
           /\ \A m : m \in {n, n + 1} /\ (Begins(s, m))' =>
                Begins(s, n) /\ (m = n + 1 => s[m] = t)
  BY <1>1, FreeToken
\* The token belongs to a value that is not finished yet.
<1>3. ASSUME pc \in Reading, ~Recover(t), ~ParseEnd(t)
      PROVE  /\ pc' # "read"
             /\ (Begins(s, Len(got)))' => Onward(s, n + 1) /\ Len(got') = n + 1
  <2>1. pc' # "read"
    BY <1>3 DEF ReadValue, ReadName, ReadColon, ReadComma, ReadCommaAfterComment, EndEmptyArray,
         ReadSeparator, Return, Close, GoTo, AddErrorAndRecover
  <2>2. ASSUME (Begins(s, Len(got)))' PROVE Onward(s, n + 1) /\ Len(got') = n + 1
    <3>1. pc # "recover"
      BY <1>3 DEF Reading, InContainer
    <3>2. Begins(s, n) /\ s[n + 1] = t /\ Len(got') = n + 1 /\ n + 1 <= Len(s) /\ Len(s) \in Nat
      BY <1>2, <2>2, <3>1 DEF Begins
    <3>3. PICK at : Reached(s, nodes, at, pc, n)
      BY <1>2, <1>3, <3>2 DEF GrammarInv
    <3>4. CASE ReadValue(t)
      BY <1>2, <3>2, <3>3, <3>4, ValueStep
    <3>5. CASE ~ReadValue(t)
      BY <1>2, <1>3, <3>2, <3>3, <3>5, ContainerStep
    <3> QED BY <3>2, <3>4, <3>5
  <2> QED BY <2>1, <2>2
<1>4. CASE pc \in Reading /\ ~Recover(t) /\ ~ParseEnd(t)
  <2>1. ASSUME (Begins(s, Len(got)))', pc' = "after", successful' PROVE (Told(s, Len(got)))'
    <3>1. root' \in Row(s, "value", 1, n + 1) /\ Len(got') = n + 1
      BY <1>3, <1>4, <2>1 DEF Onward
    <3>2. n + 1 \in 0 .. n + 1 /\ \A i \in (n + 1) + 1 .. n + 1 : IsComment(s[i])
      BY <1>2
    <3> QED BY <3>1, <3>2 DEF Told
  <2> QED BY <1>3, <1>4, <2>1 DEF Onward
<1>5. CASE Recover(t)
  <2>1. pc' \in {"after", "recover"} /\ ~(pc' = "after" /\ successful')
    BY <1>5 DEF Recover, Close, Return, GoTo
  <2> QED BY <2>1 DEF Reading, InContainer
<1>6. CASE ParseEnd(t)
  <2>1. pc = "after" /\ root' = root /\ successful' = successful
        /\ pc' = IF t.k = "comment" THEN "after" ELSE "read"
    BY <1>6 DEF ParseEnd
  <2>2. Len(got') = n + 1
    BY <1>2, <2>1
  <2>3. ASSUME successful, Begins(s, n) PROVE Told(s, n)
    BY <1>2, <2>1, <2>3 DEF GrammarInv
  <2>4. pc' \notin Reading
    BY <2>1 DEF Reading, InContainer
  <2>5. ASSUME pc' = "after", successful', (Begins(s, Len(got)))' PROVE (Told(s, Len(got)))'
    <3>1. Begins(s, n) /\ IsComment(s[n + 1])
      BY <1>2, <2>1, <2>2, <2>5 DEF IsComment
    <3>2. PICK m \in 0 .. n : root \in Row(s, "value", 1, m) /\ \A i \in m + 1 .. n : IsComment(s[i])
      BY <2>1, <2>3, <2>5, <3>1 DEF Told
    <3>3. m \in 0 .. n + 1 /\ \A i \in m + 1 .. n + 1 : i \in m + 1 .. n \/ i = n + 1
      BY <1>2
    <3>4. \A i \in m + 1 .. n + 1 : IsComment(s[i])
      BY <3>1, <3>2, <3>3
    <3> QED BY <2>1, <2>2, <3>2, <3>3, <3>4 DEF Told
  <2>6. ASSUME pc' = "read", successful', (Begins(s, Len(got) - 1))'
        PROVE  Len(got') # 0 /\ (Told(s, Len(got) - 1))'
    <3>1. Len(got') # 0 /\ Len(got') - 1 = n
      BY <1>2, <2>2
    <3>2. Begins(s, n)
      BY <1>2, <2>1, <2>6, <3>1
    <3>3. Told(s, n)
      BY <2>1, <2>3, <2>6, <3>2
    <3> QED BY <2>1, <3>1, <3>3 DEF Told
  <2> QED BY <2>4, <2>5, <2>6
<1>7. pc \in Reading \/ Recover(t) \/ ParseEnd(t)
  BY DEF Reading, InContainer, ReadValue, AtValue, ReadName, ReadColon, ReadComma,
         ReadCommaAfterComment, EndEmptyArray, ReadSeparator
<1> QED BY <1>4, <1>5, <1>6, <1>7

LEMMA GrammarReset ==
  ASSUME NEW of, Reset(of)
  PROVE  GrammarInv'
<1>1. got' = <<>> /\ nodes' = <<>> /\ pc' = "value"
  BY DEF Reset, ParseBegin
<1>2. ASSUME NEW s, Len(s) \in Nat
      PROVE  \E at : Reached(s, nodes', at, pc', Len(got'))
  <2> DEFINE at == [k \in 1 .. 0 |-> 0]
  <2>0. IsSequence(<<>>)
    <3>1. <<>> \in Seq({})
      OBVIOUS
    <3> QED BY <3>1, IsSequenceOf
  <2>1. IsSequence(<<>>) /\ at \in [1 .. 0 -> 1 .. 0] /\ Len(<<>>) = 0 /\ 1 .. 0 = {}
    BY <2>0
  <2> HIDE DEF at
  <2>2. Nest(s, <<>>, at, 0)
    BY <2>1 DEF Nest
  <2>3. Awaits(s, <<>>, at, 0, 0 + 1)
    BY DEF Awaits
  <2>4. Reached(s, <<>>, at, "value", 0)
    BY <2>1, <2>2, <2>3 DEF Reached, InContainer
  <2> QED BY <1>1, <2>1, <2>4
<1> QED BY <1>1, <1>2 DEF GrammarInv, Begins

LEMMA GrammarStep == PolicyInv /\ GrammarInv /\ [Next]_vars => GrammarInv'
<1> SUFFICES ASSUME PolicyInv, GrammarInv, [Next]_vars PROVE GrammarInv'
  OBVIOUS
<1>1. CASE \E of \in 0 .. Len(Texts) : Reset(of)
  BY <1>1, GrammarReset
<1>2. CASE ReaderStep
  <2>1. CASE StackExceeded
    BY <2>1 DEF StackExceeded, GrammarInv, Reading, InContainer
  <2> QED BY <1>2, <2>1, GrammarToken DEF ReaderStep
<1>3. CASE GetOutJson
  BY <1>3 DEF GetOutJson, GrammarInv, Reading, InContainer
<1>4. CASE CookSenddata
  BY <1>4 DEF CookSenddata, GrammarInv, Reading, InContainer
<1>5. CASE UNCHANGED vars
  <2>1. UNCHANGED <<text, got, nodes, pc, root, successful>>
    BY <1>5 DEF vars, readerVars
  <2> QED BY <2>1 DEF GrammarInv, Free, Begins, Told
<1> QED BY <1>1, <1>2, <1>3, <1>4, <1>5 DEF Next
-----------------------------------------------------------------------------
(* The other direction: what is a text of the grammar is read.  First what
   the reader does with a token, as far as it does not end in an error.     *)

LEMMA OpenedIs ==
  ASSUME NEW q, IsSequence(q), NEW f, NEW g
  PROVE  /\ IsSequence(Append(q, f)) /\ Append(q, f) # <<>> /\ Top(Append(q, f)) = f
         /\ Below(Append(q, f)) = q /\ OnTop(Append(q, f), g) = Append(q, g)
<1> DEFINE p == Append(q, f)
           r == Append(q, g)
           S == {q[i] : i \in DOMAIN q} \cup {f, g}
           n == Len(q)
<1>1. Longer(q, f, p) /\ Longer(q, g, r)
  BY AppendIs
<1>2. n \in Nat /\ q \in Seq(S)
  <2>1. q \in Seq({q[i] : i \in DOMAIN q})
    BY DEF IsSequence
  <2>2. n \in Nat /\ q \in [1 .. n -> {q[i] : i \in DOMAIN q}]
    BY <2>1
  <2>3. q \in [1 .. n -> S]
    BY <2>2
  <2> QED BY <2>2, <2>3, SeqDef
<1>3. p \in Seq(S) /\ r \in Seq(S)
  BY <1>2, AppendProperties
<1>4. /\ Len(p) = n + 1 /\ p[n + 1] = f /\ \A i \in 1 .. n : p[i] = q[i]
      /\ Len(r) = n + 1 /\ r[n + 1] = g /\ \A i \in 1 .. n : r[i] = q[i]
  BY <1>1 DEF Longer
<1> HIDE DEF p, r, S
<1>5. IsSequence(p) /\ p # <<>> /\ Top(p) = f
  BY <1>1, <1>2, <1>4, SequenceIs DEF Longer, Top
<1>6. Below(p) = q
  <2>1. Len(p) - 1 = n /\ DOMAIN q = 1 .. n
    BY <1>2, <1>4
  <2>2. Below(p) = [i \in 1 .. n |-> p[i]]
    <3>1. Below(p) = SubSeq(p, 1, n)
      BY <2>1 DEF Below
    <3>2. SubSeq(p, 1, n) = [i \in 1 .. n |-> p[i]]
      BY <1>2, <1>3, <1>4
    <3> QED BY <3>1, <3>2
  <2>3. q = [i \in 1 .. n |-> q[i]]
    BY <1>2
  <2> QED BY <1>4, <2>2, <2>3
<1>7. OnTop(p, g) = r
  <2>1. p = [i \in 1 .. n + 1 |-> p[i]] /\ r = [i \in 1 .. n + 1 |-> r[i]]
    BY <1>3, <1>4
  <2>2. OnTop(p, g) = [i \in 1 .. n + 1 |-> IF i = n + 1 THEN g ELSE p[i]]
    BY <1>4, <2>1 DEF OnTop
  <2>3. \A i \in 1 .. n + 1 : (IF i = n + 1 THEN g ELSE p[i]) = r[i]
    BY <1>2, <1>4
  <2> QED BY <2>1, <2>2, <2>3
<1> QED BY <1>5, <1>6, <1>7 DEF p, r
-----------------------------------------------------------------------------
\* The reader as it stands between two tokens, and as it is when a value has
\* been read of which q are the containers around it.
At(place, q) == [pc |-> place, nodes |-> q, root |-> Null]

Gave(q, v) ==
  IF q = <<>> THEN [pc |-> "after", nodes |-> q, root |-> v]
  ELSE At("next", OnTop(q, SetChild(Top(q), v)))

\* What a token does that does not end in an error.
OfValue(q, t, y) ==
  /\ t.k = "comment" => y = At("value", q)
  /\ t.k = "{" => y = At("name", Append(q, ObjectFrame))
  /\ t.k = "[" => y = At("first", Append(q, ArrayFrame))
  /\ t.k \in {"literal", "string"} => y = Gave(q, t.val)

Renamed(frame, name) == [frame EXCEPT !.name = name]

OfName(q, t, y) ==
  /\ t.k = "comment" => y = At("name", q)
  /\ t.k = "}" /\ Top(q).name = "" => y = Gave(Below(q), Top(q).val)
  /\ t.k = "string" => y = At("colon", OnTop(q, Renamed(Top(q), t.val.str)))

OfObject(place, q, t, y) ==
  /\ t.k = "}" => y = Gave(Below(q), Top(q).val)
  /\ t.k = "comment" => y = At("skipped", q)
  /\ t.k = "," \/ (place = "skipped" /\ t.k \notin {"}", "comment"}) => y = At("name", q)

OfArray(q, t, y) ==
  /\ t.k = "]" => y = Gave(Below(q), Top(q).val)
  /\ t.k = "comment" => y = At("next", q)
  /\ t.k = "," => y = At("value", OnTop(q, InsertChild(Top(q))))

Moves(x, t, y) ==
  /\ x.pc = "value" => OfValue(x.nodes, t, y)
  /\ x.pc = "first" =>
       /\ OfValue(OnTop(x.nodes, InsertChild(Top(x.nodes))), t, y)
       /\ t.k = "]" => y = Gave(Below(x.nodes), Top(x.nodes).val)
  /\ x.pc = "name" => OfName(x.nodes, t, y)
  /\ x.pc = "colon" /\ t.k = ":" => y = At("value", OnTop(x.nodes, InsertChild(Top(x.nodes))))
  /\ x.pc = "next" /\ ~InObject(x.nodes) => OfArray(x.nodes, t, y)
  /\ (x.pc = "next" /\ InObject(x.nodes)) \/ x.pc = "skipped" => OfObject(x.pc, x.nodes, t, y)
  /\ x.pc = "after" /\ t.k = "comment" => y = x

\* The reader on the first n tokens of s, from the beginning of parse.
Path(c, s, n) ==
  /\ c[0] = At("value", <<>>)
  /\ \A k \in 1 .. n : Moves(c[k - 1], s[k], c[k])
-----------------------------------------------------------------------------
\* The place where a value is put, and what the reader does with it.
Awaiting(x, q) ==
  \/ x = At("value", q)
  \/ \E p : x = At("first", p) /\ q = OnTop(p, InsertChild(Top(p)))

\* Before the first element of an array the reader moves as before any value.
LEMMA ValueMoves ==
  ASSUME NEW x, NEW q, Awaiting(x, q), NEW t, NEW y, Moves(x, t, y)
  PROVE  OfValue(q, t, y)
<1>1. CASE x = At("value", q)
  BY <1>1 DEF Moves, At
<1>2. ASSUME NEW p, x = At("first", p), q = OnTop(p, InsertChild(Top(p)))
      PROVE  OfValue(q, t, y)
  BY <1>2 DEF Moves, At
<1> QED BY <1>1, <1>2 DEF Awaiting

\* Frames with what the grammar says of them.
ArrayOf(els) == [val |-> ArrV(els)]
ObjectOf(m)  == [val |-> ObjV(m.mem), name |-> m.last]

LEMMA FramesOf ==
  /\ \A els : /\ ArrayOf(els).val = ArrV(els) /\ ArrayOf(els).val.type = "array"
              /\ ArrayOf(els).val.el = els
              /\ IsSequence(els) => IsArray(ArrayOf(els))
  /\ \A m : /\ ObjectOf(m).val = ObjV(m.mem) /\ ObjectOf(m).val.type = "object"
            /\ ObjectOf(m).val.mem = m.mem /\ ObjectOf(m).name = m.last
            /\ IsObject(ObjectOf(m))
  /\ ArrayFrame = ArrayOf(<<>>) /\ ObjectFrame = ObjectOf(Members(NoMembers, ""))
BY DEF ArrayOf, ObjectOf, ArrV, ObjV, IsArray, IsObject, ArrayFrame, ObjectFrame, Members

\* The rules of the grammar, read in the other direction: what a row consists of.
LEMMA ValueCases ==
  ASSUME NEW s, Len(s) \in Nat, NEW i \in 1 .. Len(s) + 1, NEW j \in 0 .. Len(s),
         NEW v \in Row(s, "value", i, j)
  PROVE  /\ i <= j
         /\ \/ IsComment(s[i]) /\ v \in Row(s, "value", i + 1, j)
            \/ i = j /\ s[i].k \in {"literal", "string"} /\ v = s[i].val
            \/ /\ i < j /\ s[i].k = "[" /\ s[j].k = "]"
               /\ \E els \in Row(s, "elements", i + 1, j - 1) : v = ArrV(els)
            \/ j = i + 1 /\ s[i].k = "[" /\ s[j].k = "]" /\ v = ArrV(<<>>)
            \/ /\ i < j /\ s[i].k = "{" /\ s[j].k = "}"
               /\ \E m \in Row(s, "members", i + 1, j - 1) : v = ObjV(m.mem)
            \/ /\ i < j /\ s[i].k = "{" /\ s[j].k = "}"
               /\ \E b \in Row(s, "before", i + 1, j - 1) : b.last = "" /\ v = ObjV(b.mem)
<1> DEFINE g == Grammar(s)
           arrays == {ArrV(els) : els \in Row(s, "elements", i + 1, j - 1)}
           mem == Row(s, "members", i + 1, j - 1)
           bef == {b \in Row(s, "before", i + 1, j - 1) : b.last = ""}
           objects == {ObjV(m.mem) : m \in mem \cup bef}
<1>1. v \in ValuesOf(s, g, i, j)
  BY RowIs
<1>2. ~(i > j)
  BY <1>1 DEF ValuesOf
<1>3. i <= j /\ (i # j => i < j)
  BY <1>2
<1>4. ValuesOf(s, g, i, j) =
        IF IsComment(s[i]) THEN Row(s, "value", i + 1, j)
        ELSE IF i = j THEN (IF s[i].k \in {"literal", "string"} THEN {s[i].val} ELSE {})
        ELSE IF s[i].k = "[" /\ s[j].k = "]"
          THEN arrays \cup (IF j = i + 1 THEN {ArrV(<<>>)} ELSE {})
        ELSE IF s[i].k = "{" /\ s[j].k = "}" THEN objects
        ELSE {}
  BY <1>2, Zenon DEF ValuesOf, Row
<1>5. v \in arrays => \E els \in Row(s, "elements", i + 1, j - 1) : v = ArrV(els)
  OBVIOUS
<1>6. v \in objects =>
        \/ \E m \in Row(s, "members", i + 1, j - 1) : v = ObjV(m.mem)
        \/ \E b \in Row(s, "before", i + 1, j - 1) : b.last = "" /\ v = ObjV(b.mem)
  OBVIOUS
<1> HIDE DEF arrays, objects, g
<1>7. CASE IsComment(s[i])
  BY <1>1, <1>3, <1>4, <1>7
<1>8. CASE ~IsComment(s[i]) /\ i = j
  BY <1>1, <1>3, <1>4, <1>8
<1>9. CASE ~IsComment(s[i]) /\ i # j /\ s[i].k = "[" /\ s[j].k = "]"
  <2>1. v \in arrays \/ (j = i + 1 /\ v = ArrV(<<>>))
    BY <1>1, <1>4, <1>9
  <2> QED BY <1>3, <1>5, <1>9, <2>1
<1>10. CASE ~IsComment(s[i]) /\ i # j /\ ~(s[i].k = "[" /\ s[j].k = "]")
  <2>1. s[i].k = "{" /\ s[j].k = "}" /\ v \in objects
    BY <1>1, <1>4, <1>10
  <2> QED BY <1>3, <1>6, <1>10, <2>1
<1> QED BY <1>7, <1>8, <1>9, <1>10

LEMMA LengthenedIs ==
  ASSUME NEW A, NEW B, NEW e \in Lengthened(A, B)
  PROVE  \E l \in A, v \in B : e = Append(l, v)
BY DEF Lengthened

LEMMA ElementCases ==
  ASSUME NEW s, Len(s) \in Nat, NEW i \in 1 .. Len(s) + 1, NEW j \in 0 .. Len(s),
         NEW e \in Row(s, "elements", i, j)
  PROVE  \/ \E v \in Row(s, "value", i, j) : e = <<v>>
         \/ i <= j /\ IsComment(s[j]) /\ e \in Row(s, "elements", i, j - 1)
         \/ \E d \in i .. j :
              s[d].k = "," /\ e \in Lengthened(Row(s, "elements", i, d - 1), Row(s, "value", d + 1, j))
<1> DEFINE L(d) == Lengthened(Row(s, "elements", i, d - 1), Row(s, "value", d + 1, j))
           Commas == {d \in i .. j : s[d].k = ","}
           one == {<<v>> : v \in Row(s, "value", i, j)}
           rest == IF i <= j /\ IsComment(s[j]) THEN Row(s, "elements", i, j - 1) ELSE {}
<1>1. e \in ElementsOf(s, Grammar(s), i, j)
  BY RowIs
<1>2. e \in one \cup rest \cup UNION {L(d) : d \in Commas}
  BY <1>1 DEF ElementsOf, Row
<1>3. CASE e \in one
  BY <1>3
<1>4. CASE e \in rest
  BY <1>4
<1>5. e \in one \/ e \in rest \/ \E d \in Commas : e \in L(d)
  <2> HIDE DEF one, rest, L, Commas
  <2> QED BY <1>2
<1> QED BY <1>3, <1>4, <1>5

LEMMA MemberCases ==
  ASSUME NEW s, Len(s) \in Nat, NEW i \in 1 .. Len(s) + 1, NEW j \in 0 .. Len(s),
         NEW m \in Row(s, "members", i, j)
  PROVE  \/ i <= j /\ IsComment(s[j]) /\ m \in Row(s, "members", i, j - 1)
         \/ \E d \in i .. j - 2 :
              /\ s[d].k = "string" /\ s[d + 1].k = ":"
              /\ \E b \in Row(s, "before", i, d - 1), v \in Row(s, "value", d + 2, j) :
                   m = Members(WithMember(ObjV(b.mem), s[d].val.str, v).mem, s[d].val.str)
<1> DEFINE L(d) == Enlarged(Row(s, "before", i, d - 1), s[d].val.str, Row(s, "value", d + 2, j))
           Names == {d \in i .. j - 2 : s[d].k = "string" /\ s[d + 1].k = ":"}
           rest == IF i <= j /\ IsComment(s[j]) THEN Row(s, "members", i, j - 1) ELSE {}
<1>1. m \in MembersOf(s, Grammar(s), i, j)
  BY RowIs
<1>2. m \in rest \cup UNION {L(d) : d \in Names}
  BY <1>1 DEF MembersOf, Row
<1>3. CASE m \in rest
  BY <1>3
<1>4. ASSUME NEW d \in Names, m \in L(d)
      PROVE  \E b \in Row(s, "before", i, d - 1), v \in Row(s, "value", d + 2, j) :
               m = Members(WithMember(ObjV(b.mem), s[d].val.str, v).mem, s[d].val.str)
  BY <1>4 DEF Enlarged, Members
<1>5. m \in rest \/ \E d \in Names : m \in L(d)
  <2> HIDE DEF rest, L, Names
  <2> QED BY <1>2
<1> QED BY <1>3, <1>4, <1>5

LEMMA BeforeCases ==
  ASSUME NEW s, Len(s) \in Nat, NEW i \in 1 .. Len(s) + 1, NEW j \in 0 .. Len(s),
         NEW b \in Row(s, "before", i, j)
  PROVE  \/ i > j /\ b = Members(NoMembers, "")
         \/ i <= j /\ IsComment(s[j]) /\ b \in Row(s, "before", i, j - 1)
         \/ /\ i <= j /\ ~IsComment(s[j]) /\ b \in Row(s, "members", i, j - 1)
            /\ s[j].k = "," \/ (s[j].k # "}" /\ i < j /\ IsComment(s[j - 1]))
<1> DEFINE separates == s[j].k = "," \/ (s[j].k # "}" /\ i < j /\ IsComment(s[j - 1]))
           comment == Row(s, "before", i, j - 1)
           members == Row(s, "members", i, j - 1)
<1>1. b \in BeforesOf(s, Grammar(s), i, j)
  BY RowIs
<1>2. b \in IF i > j THEN {Members(NoMembers, "")}
            ELSE IF IsComment(s[j]) THEN comment
            ELSE IF separates THEN members
            ELSE {}
  BY <1>1 DEF BeforesOf, Row, Members
<1>3. ~(i > j) => i <= j
  OBVIOUS
<1> HIDE DEF separates, comment, members
<1>4. \/ i > j /\ b = Members(NoMembers, "")
      \/ i <= j /\ IsComment(s[j]) /\ b \in comment
      \/ i <= j /\ ~IsComment(s[j]) /\ b \in members /\ separates
  BY <1>2, <1>3
<1> QED BY <1>4 DEF separates, comment, members

-----------------------------------------------------------------------------
(* Rows of the grammar, and what the reader makes of them. *)

\* What the grammar finds in the tokens i to j, the reader makes of them.
ReadsValue(s, c, i, j) ==
  \A v \in Row(s, "value", i, j) :
    /\ i <= j /\ ~IsComment(s[j])
    /\ \A q : IsSequence(q) /\ Awaiting(c[i - 1], q) => c[j] = Gave(q, v)

ReadsElements(s, c, i, j) ==
  \A els \in Row(s, "elements", i, j) :
    /\ i <= j /\ IsSequence(els)
    /\ \A q : IsSequence(q) /\ c[i - 1] = At("first", Append(q, ArrayFrame)) =>
         c[j] = At("next", Append(q, ArrayOf(els)))

ReadsMembers(s, c, i, j) ==
  \A m \in Row(s, "members", i, j) :
    /\ i <= j
    /\ \A q : IsSequence(q) /\ c[i - 1] = At("name", Append(q, ObjectFrame)) =>
         c[j] = At(IF IsComment(s[j]) THEN "skipped" ELSE "next", Append(q, ObjectOf(m)))

ReadsBefore(s, c, i, j) ==
  \A b \in Row(s, "before", i, j) :
    \A q : IsSequence(q) /\ c[i - 1] = At("name", Append(q, ObjectFrame)) =>
      c[j] = At("name", Append(q, ObjectOf(b)))

\* A value, from what its rows of a lower length are read as.
LEMMA ValueFollows ==
  ASSUME NEW s, Len(s) \in Nat, NEW c, Path(c, s, Len(s)),
         NEW i \in 1 .. Len(s) + 1, NEW j \in 0 .. Len(s),
         i <= j => ReadsValue(s, c, i + 1, j),
         i < j => /\ ReadsElements(s, c, i + 1, j - 1)
                  /\ ReadsMembers(s, c, i + 1, j - 1)
                  /\ ReadsBefore(s, c, i + 1, j - 1)
  PROVE  ReadsValue(s, c, i, j)
<1> SUFFICES ASSUME NEW v \in Row(s, "value", i, j)
             PROVE  /\ i <= j /\ ~IsComment(s[j])
                    /\ \A q : IsSequence(q) /\ Awaiting(c[i - 1], q) => c[j] = Gave(q, v)
  BY DEF ReadsValue
<1>1. i <= j
  BY ValueCases
<1>2. i \in 1 .. Len(s) /\ j \in 1 .. Len(s) /\ (i + 1) - 1 = i
  BY <1>1
<1>3. Moves(c[i - 1], s[i], c[i]) /\ Moves(c[j - 1], s[j], c[j])
  BY <1>2 DEF Path
<1>4. ASSUME NEW q, IsSequence(q), Awaiting(c[i - 1], q)
      PROVE  OfValue(q, s[i], c[i])
  BY <1>3, <1>4, ValueMoves
\* The five kinds of values.
<1>5. CASE IsComment(s[i]) /\ v \in Row(s, "value", i + 1, j)
  <2>1. ~IsComment(s[j])
    BY <1>1, <1>5 DEF ReadsValue
  <2>2. ASSUME NEW q, IsSequence(q), Awaiting(c[i - 1], q)
        PROVE  c[j] = Gave(q, v)
    <3>1. Awaiting(c[(i + 1) - 1], q)
      BY <1>2, <1>4, <1>5, <2>2 DEF OfValue, IsComment, Awaiting
    <3> QED BY <1>1, <1>5, <2>2, <3>1 DEF ReadsValue
  <2> QED BY <1>1, <2>1, <2>2
<1>6. CASE i = j /\ s[i].k \in {"literal", "string"} /\ v = s[i].val
  BY <1>1, <1>4, <1>6 DEF OfValue, IsComment
<1>7. CASE /\ i < j /\ s[i].k = "[" /\ s[j].k = "]"
           /\ \E els \in Row(s, "elements", i + 1, j - 1) : v = ArrV(els)
  <2>1. PICK els \in Row(s, "elements", i + 1, j - 1) : v = ArrV(els)
    BY <1>7
  <2>2. ASSUME NEW q, IsSequence(q), Awaiting(c[i - 1], q)
        PROVE  c[j] = Gave(q, v)
    <3> DEFINE p == Append(q, ArrayOf(els))
    <3>1. c[(i + 1) - 1] = At("first", Append(q, ArrayFrame))
      BY <1>2, <1>4, <1>7, <2>2 DEF OfValue
    <3>2. c[j - 1] = At("next", p)
      BY <1>7, <2>2, <3>1 DEF ReadsElements
    <3>3. Below(p) = q /\ ~InObject(p) /\ Top(p).val = v
      <4>1. Below(p) = q /\ Top(p) = ArrayOf(els)
        BY <2>2, OpenedIs
      <4> QED BY <2>1, <4>1, FramesOf DEF InObject
    <3> HIDE DEF p
    <3>4. OfArray(p, s[j], c[j])
      BY <1>3, <3>2, <3>3 DEF Moves, At
    <3> QED BY <1>7, <3>3, <3>4 DEF OfArray
  <2> QED BY <1>1, <1>7, <2>2 DEF IsComment
<1>8. CASE j = i + 1 /\ s[i].k = "[" /\ s[j].k = "]" /\ v = ArrV(<<>>)
  <2>1. ASSUME NEW q, IsSequence(q), Awaiting(c[i - 1], q)
        PROVE  c[j] = Gave(q, v)
    <3> DEFINE p == Append(q, ArrayFrame)
    <3>1. c[j - 1] = At("first", p)
      BY <1>2, <1>4, <1>8, <2>1 DEF OfValue
    <3>2. Below(p) = q /\ Top(p).val = v
      BY <1>8, <2>1, OpenedIs, FramesOf
    <3> HIDE DEF p
    <3>3. c[j] = Gave(Below(p), Top(p).val)
      BY <1>3, <1>8, <3>1 DEF Moves, At
    <3> QED BY <3>2, <3>3
  <2> QED BY <1>1, <1>8, <2>1 DEF IsComment
<1>9. CASE /\ i < j /\ s[i].k = "{" /\ s[j].k = "}"
           /\ \E m \in Row(s, "members", i + 1, j - 1) : v = ObjV(m.mem)
  <2>1. PICK m \in Row(s, "members", i + 1, j - 1) : v = ObjV(m.mem)
    BY <1>9
  <2>2. ASSUME NEW q, IsSequence(q), Awaiting(c[i - 1], q)
        PROVE  c[j] = Gave(q, v)
    <3> DEFINE p == Append(q, ObjectOf(m))
               place == IF IsComment(s[j - 1]) THEN "skipped" ELSE "next"
    <3>1. c[(i + 1) - 1] = At("name", Append(q, ObjectFrame))
      BY <1>2, <1>4, <1>9, <2>2 DEF OfValue
    <3>2. c[j - 1] = At(place, p)
      BY <1>9, <2>2, <3>1 DEF ReadsMembers
    <3>3. Below(p) = q /\ InObject(p) /\ Top(p).val = v
      <4>1. Below(p) = q /\ Top(p) = ObjectOf(m)
        BY <2>2, OpenedIs
      <4> QED BY <2>1, <4>1, FramesOf DEF InObject
    <3>4. place \in {"skipped", "next"}
      OBVIOUS
    <3> HIDE DEF p, place
    <3>5. OfObject(place, p, s[j], c[j])
      BY <1>3, <3>2, <3>3, <3>4 DEF Moves, At
    <3> QED BY <1>9, <3>3, <3>5 DEF OfObject
  <2> QED BY <1>1, <1>9, <2>2 DEF IsComment
<1>10. CASE /\ i < j /\ s[i].k = "{" /\ s[j].k = "}"
            /\ \E b \in Row(s, "before", i + 1, j - 1) : b.last = "" /\ v = ObjV(b.mem)
  <2>1. PICK b \in Row(s, "before", i + 1, j - 1) : b.last = "" /\ v = ObjV(b.mem)
    BY <1>10
  <2>2. ASSUME NEW q, IsSequence(q), Awaiting(c[i - 1], q)
        PROVE  c[j] = Gave(q, v)
    <3> DEFINE p == Append(q, ObjectOf(b))
    <3>1. c[(i + 1) - 1] = At("name", Append(q, ObjectFrame))
      BY <1>2, <1>4, <1>10, <2>2 DEF OfValue
    <3>2. c[j - 1] = At("name", p)
      BY <1>10, <2>2, <3>1 DEF ReadsBefore
    <3>3. Below(p) = q /\ Top(p).val = v /\ Top(p).name = ""
      <4>1. Below(p) = q /\ Top(p) = ObjectOf(b)
        BY <2>2, OpenedIs
      <4> QED BY <2>1, <4>1, FramesOf
    <3> HIDE DEF p
    <3>4. OfName(p, s[j], c[j])
      BY <1>3, <3>2 DEF Moves, At
    <3> QED BY <1>10, <3>3, <3>4 DEF OfName
  <2> QED BY <1>1, <1>10, <2>2 DEF IsComment
<1> QED
  <2>1. \/ IsComment(s[i]) /\ v \in Row(s, "value", i + 1, j)
        \/ i = j /\ s[i].k \in {"literal", "string"} /\ v = s[i].val
        \/ /\ i < j /\ s[i].k = "[" /\ s[j].k = "]"
           /\ \E els \in Row(s, "elements", i + 1, j - 1) : v = ArrV(els)
        \/ j = i + 1 /\ s[i].k = "[" /\ s[j].k = "]" /\ v = ArrV(<<>>)
        \/ /\ i < j /\ s[i].k = "{" /\ s[j].k = "}"
           /\ \E m \in Row(s, "members", i + 1, j - 1) : v = ObjV(m.mem)
        \/ /\ i < j /\ s[i].k = "{" /\ s[j].k = "}"
           /\ \E b \in Row(s, "before", i + 1, j - 1) : b.last = "" /\ v = ObjV(b.mem)
    BY ValueCases
  <2> QED BY <2>1, <1>5, <1>6, <1>7, <1>8, <1>9, <1>10

\* An array with an element more, which was null while it was read.
LEMMA ElementPut ==
  ASSUME NEW q, IsSequence(q), NEW els, IsSequence(els), NEW v
  PROVE  LET p == Append(q, ArrayOf(els))
             r == OnTop(p, InsertChild(Top(p)))
         IN  /\ IsSequence(r) /\ ~InObject(p) /\ IsSequence(Append(els, v))
             /\ Gave(r, v) = At("next", Append(q, ArrayOf(Append(els, v))))
<1> DEFINE f == ArrayOf(els)
           p == Append(q, f)
           g == InsertChild(f)
           r == OnTop(p, g)
           h == SetChild(g, v)
<1>1. IsArray(f) /\ f.val.type = "array" /\ f.val.el = els
  BY FramesOf
<1>2. IsArray(g) /\ g.val.type = "array" /\ h.val.el = Append(els, v)
  BY <1>1, ArrayFrames
<1>3. IsArray(h)
  BY <1>2, ArrayFrames
<1>4. h = ArrayOf(Append(els, v)) /\ IsSequence(Append(els, v))
  BY <1>2, <1>3 DEF IsArray, ArrayOf
<1> HIDE DEF f, g, h
<1>5. Top(p) = f /\ r = Append(q, g)
  BY OpenedIs
<1>6. IsSequence(r) /\ r # <<>> /\ Top(r) = g /\ OnTop(r, h) = Append(q, h)
  BY <1>5, OpenedIs
<1> HIDE DEF p, r
<1>7. Gave(r, v) = At("next", Append(q, h))
  BY <1>6 DEF Gave, h
<1>8. ~InObject(p)
  BY <1>1, <1>5 DEF InObject
<1> QED BY <1>4, <1>5, <1>6, <1>7, <1>8 DEF p, r, f, g

\* The elements of an array: one, or others and a comment, or others, a comma
\* and one more.
LEMMA ElementsFollow ==
  ASSUME NEW s, Len(s) \in Nat, NEW c, Path(c, s, Len(s)),
         NEW i \in 1 .. Len(s) + 1, NEW j \in 0 .. Len(s),
         ReadsValue(s, c, i, j), i <= j => ReadsElements(s, c, i, j - 1),
         \A d \in i .. j : ReadsElements(s, c, i, d - 1) /\ ReadsValue(s, c, d + 1, j)
  PROVE  ReadsElements(s, c, i, j)
<1> SUFFICES ASSUME NEW els \in Row(s, "elements", i, j)
             PROVE  /\ i <= j /\ IsSequence(els)
                    /\ \A q : IsSequence(q) /\ c[i - 1] = At("first", Append(q, ArrayFrame)) =>
                         c[j] = At("next", Append(q, ArrayOf(els)))
  BY DEF ReadsElements
<1>0. IsSequence(<<>>)
  BY EmptyFrames DEF IsArray
<1>1. CASE \E v \in Row(s, "value", i, j) : els = <<v>>
  <2>1. PICK v \in Row(s, "value", i, j) : els = <<v>>
    BY <1>1
  <2>2. els = Append(<<>>, v) /\ IsSequence(els)
    <3>1. <<v>> = Append(<<>>, v)
      OBVIOUS
    <3> QED BY <1>0, <2>1, <3>1, ElementPut
  <2>3. ASSUME NEW q, IsSequence(q), c[i - 1] = At("first", Append(q, ArrayFrame))
        PROVE  c[j] = At("next", Append(q, ArrayOf(els)))
    <3> DEFINE p == Append(q, ArrayOf(<<>>))
               r == OnTop(p, InsertChild(Top(p)))
    <3>1. IsSequence(r) /\ Gave(r, v) = At("next", Append(q, ArrayOf(Append(<<>>, v))))
      BY <1>0, <2>3, ElementPut
    <3>2. c[i - 1] = At("first", p)
      BY <2>3, FramesOf
    <3>3. Awaiting(c[i - 1], r)
      BY <3>2 DEF Awaiting
    <3> HIDE DEF r
    <3>4. c[j] = Gave(r, v)
      BY <3>1, <3>3 DEF ReadsValue
    <3> QED BY <2>2, <3>1, <3>4
  <2> QED BY <2>2, <2>3 DEF ReadsValue
<1>2. CASE i <= j /\ IsComment(s[j]) /\ els \in Row(s, "elements", i, j - 1)
  <2>1. IsSequence(els)
    BY <1>2 DEF ReadsElements
  <2>2. ASSUME NEW q, IsSequence(q), c[i - 1] = At("first", Append(q, ArrayFrame))
        PROVE  c[j] = At("next", Append(q, ArrayOf(els)))
    <3> DEFINE p == Append(q, ArrayOf(els))
    <3>1. c[j - 1] = At("next", p)
      BY <1>2, <2>2 DEF ReadsElements
    <3>2. ~InObject(p)
      BY <2>1, <2>2, ElementPut
    <3> HIDE DEF p
    <3>3. Moves(c[j - 1], s[j], c[j])
      BY <1>2 DEF Path
    <3>4. OfArray(p, s[j], c[j])
      BY <3>1, <3>2, <3>3 DEF Moves, At
    <3> QED BY <1>2, <3>4 DEF OfArray, IsComment, p
  <2> QED BY <1>2, <2>1, <2>2
<1>3. ASSUME NEW d \in i .. j, s[d].k = ",",
             els \in Lengthened(Row(s, "elements", i, d - 1), Row(s, "value", d + 1, j))
      PROVE  /\ i <= j /\ IsSequence(els)
             /\ \A q : IsSequence(q) /\ c[i - 1] = At("first", Append(q, ArrayFrame)) =>
                  c[j] = At("next", Append(q, ArrayOf(els)))
  <2>0. PICK l \in Row(s, "elements", i, d - 1), v \in Row(s, "value", d + 1, j) : els = Append(l, v)
    <3> DEFINE A == Row(s, "elements", i, d - 1)
               B == Row(s, "value", d + 1, j)
    <3>1. els \in Lengthened(A, B)
      BY <1>3
    <3> HIDE DEF A, B
    <3>2. \E l \in A, v \in B : els = Append(l, v)
      BY <3>1, LengthenedIs
    <3> QED BY <3>2 DEF A, B
  <2>1. ReadsElements(s, c, i, d - 1) /\ ReadsValue(s, c, d + 1, j) /\ i <= j
    OBVIOUS
  <2>2. IsSequence(l) /\ IsSequence(els)
    BY <1>0, <2>0, <2>1, ElementPut DEF ReadsElements
  <2>3. d \in 1 .. Len(s) /\ (d + 1) - 1 = d
    BY <2>1
  <2>4. ASSUME NEW q, IsSequence(q), c[i - 1] = At("first", Append(q, ArrayFrame))
        PROVE  c[j] = At("next", Append(q, ArrayOf(els)))
    <3> DEFINE p == Append(q, ArrayOf(l))
               r == OnTop(p, InsertChild(Top(p)))
    <3>1. /\ IsSequence(r) /\ ~InObject(p)
          /\ Gave(r, v) = At("next", Append(q, ArrayOf(els)))
      BY <2>0, <2>2, <2>4, ElementPut
    <3>2. c[d - 1] = At("next", p)
      BY <2>1, <2>4 DEF ReadsElements
    <3> HIDE DEF p, r
    <3>3. Moves(c[d - 1], s[d], c[d])
      BY <2>3 DEF Path
    <3>4. OfArray(p, s[d], c[d])
      BY <3>1, <3>2, <3>3 DEF Moves, At
    <3>5. Awaiting(c[(d + 1) - 1], r)
      BY <1>3, <2>3, <3>4 DEF OfArray, Awaiting, r
    <3> QED BY <2>1, <3>1, <3>5 DEF ReadsValue
  <2> QED BY <2>1, <2>2, <2>4
<1>4. \/ \E v \in Row(s, "value", i, j) : els = <<v>>
      \/ i <= j /\ IsComment(s[j]) /\ els \in Row(s, "elements", i, j - 1)
      \/ \E d \in i .. j :
           s[d].k = "," /\ els \in Lengthened(Row(s, "elements", i, d - 1), Row(s, "value", d + 1, j))
  BY ElementCases
<1> QED BY <1>1, <1>2, <1>3, <1>4

\* An object with a member more; its value was null, or the one of the member
\* that had the name before, while it was read.
LEMMA MemberPut ==
  ASSUME NEW q, IsSequence(q), NEW b, NEW name, NEW v
  PROVE  LET p == Append(q, ObjectOf(b))
             o == OnTop(p, Renamed(Top(p), name))
             r == OnTop(o, InsertChild(Top(o)))
             m == Members(WithMember(ObjV(b.mem), name, v).mem, name)
         IN  IsSequence(r) /\ Gave(r, v) = At("next", Append(q, ObjectOf(m)))
<1> DEFINE f == ObjectOf(b)
           p == Append(q, f)
           g == Renamed(Top(p), name)
           h == InsertChild(g)
           k == SetChild(h, v)
           mm == WithMember(ObjV(b.mem), name, v).mem
           m == Members(mm, name)
           o == OnTop(p, g)
           r == OnTop(o, InsertChild(Top(o)))
<1>1. Top(p) = f /\ IsSequence(p)
  BY OpenedIs
<1>2. IsObject(g) /\ g.val.mem = b.mem /\ g.name = name
  <2>1. f = [val |-> ObjV(b.mem), name |-> b.last]
    BY DEF ObjectOf
  <2> HIDE DEF f
  <2>2. g = [val |-> ObjV(b.mem), name |-> name]
    BY <1>1, <2>1 DEF Renamed
  <2> QED BY <2>2 DEF IsObject, ObjV
<1> HIDE DEF g
<1>3. IsObject(k) /\ k.val.mem = mm /\ k.name = name
  <2>1. k = SetChild(g, v)
    BY <1>2, ObjectFrames
  <2>2. IsObject(SetChild(g, v))
    BY <1>2, ObjectFrames
  <2>3. SetChild(g, v).val.mem = WithMember(ObjV(g.val.mem), g.name, v).mem /\ SetChild(g, v).name = g.name
    BY <1>2, ObjectFrames
  <2> QED BY <1>2, <2>1, <2>2, <2>3
<1> HIDE DEF h, mm
<1>4. k = ObjectOf(m)
  BY <1>3 DEF IsObject, ObjectOf, Members
<1> HIDE DEF k, f, m
<1>5. o = Append(q, g) /\ Top(o) = g /\ IsSequence(o)
  <2>1. o = Append(q, g)
    BY OpenedIs
  <2> HIDE DEF o
  <2> QED BY <2>1, OpenedIs
<1>6. r = Append(q, h) /\ IsSequence(r) /\ r # <<>> /\ Top(r) = h /\ OnTop(r, k) = Append(q, k)
  <2>1. r = OnTop(Append(q, g), h)
    BY <1>5 DEF h
  <2>2. OnTop(Append(q, g), h) = Append(q, h)
    BY OpenedIs
  <2>3. IsSequence(Append(q, h)) /\ Append(q, h) # <<>> /\ Top(Append(q, h)) = h
    BY OpenedIs
  <2>4. OnTop(Append(q, h), k) = Append(q, k)
    BY OpenedIs
  <2> HIDE DEF r
  <2> QED BY <2>1, <2>2, <2>3, <2>4
<1> HIDE DEF r
<1>7. Gave(r, v) = At("next", Append(q, k))
  BY <1>6 DEF Gave, k
<1> QED BY <1>4, <1>6, <1>7 DEF r, o, p, g, f, m, mm

\* Behind the name of a member and its colon its value is awaited, with which
\* the object is the one of m.
Ready(z, q, m, v) ==
  \E r : IsSequence(r) /\ Awaiting(z, r) /\ Gave(r, v) = At("next", Append(q, ObjectOf(m)))

LEMMA MemberBegun ==
  ASSUME NEW q, IsSequence(q), NEW b, NEW t, t.k = "string", NEW u, u.k = ":", NEW v,
         NEW x, x = At("name", Append(q, ObjectOf(b))), NEW y, Moves(x, t, y), NEW z, Moves(y, u, z)
  PROVE  Ready(z, q, Members(WithMember(ObjV(b.mem), t.val.str, v).mem, t.val.str), v)
<1> DEFINE p == Append(q, ObjectOf(b))
           name == t.val.str
           o == OnTop(p, Renamed(Top(p), name))
           r == OnTop(o, InsertChild(Top(o)))
           m == Members(WithMember(ObjV(b.mem), name, v).mem, name)
<1> HIDE DEF name
<1>1. IsSequence(r) /\ Gave(r, v) = At("next", Append(q, ObjectOf(m)))
  BY MemberPut
<1> HIDE DEF p, m
<1>2. OfName(p, t, y)
  BY DEF Moves, At, p
<1>3. y = At("colon", o)
  BY <1>2 DEF OfName, name
<1> HIDE DEF o
<1>4. z = At("value", r)
  BY <1>3 DEF Moves, At
<1> HIDE DEF r
<1>5. Ready(z, q, m, v)
  BY <1>1, <1>4 DEF Awaiting, Ready
<1> QED BY <1>5 DEF m, name

\* The members of an object: others and a comment, or a member behind what may
\* stand before it.
LEMMA MembersFollow ==
  ASSUME NEW s, Len(s) \in Nat, NEW c, Path(c, s, Len(s)),
         NEW i \in 1 .. Len(s) + 1, NEW j \in 0 .. Len(s),
         i <= j => ReadsMembers(s, c, i, j - 1),
         \A d \in i .. j - 2 : ReadsBefore(s, c, i, d - 1) /\ ReadsValue(s, c, d + 2, j)
  PROVE  ReadsMembers(s, c, i, j)
<1> SUFFICES ASSUME NEW m \in Row(s, "members", i, j)
             PROVE  /\ i <= j
                    /\ \A q : IsSequence(q) /\ c[i - 1] = At("name", Append(q, ObjectFrame)) =>
                         c[j] = At(IF IsComment(s[j]) THEN "skipped" ELSE "next",
                                   Append(q, ObjectOf(m)))
  BY DEF ReadsMembers
<1>1. CASE i <= j /\ IsComment(s[j]) /\ m \in Row(s, "members", i, j - 1)
  <2>1. ASSUME NEW q, IsSequence(q), c[i - 1] = At("name", Append(q, ObjectFrame))
        PROVE  c[j] = At("skipped", Append(q, ObjectOf(m)))
    <3> DEFINE p == Append(q, ObjectOf(m))
               place == IF IsComment(s[j - 1]) THEN "skipped" ELSE "next"
    <3>1. c[j - 1] = At(place, p)
      BY <1>1, <2>1 DEF ReadsMembers
    <3>2. place \in {"skipped", "next"}
      OBVIOUS
    <3>3. InObject(p)
      <4>1. Top(p) = ObjectOf(m)
        BY <2>1, OpenedIs
      <4> QED BY <4>1, FramesOf DEF InObject
    <3> HIDE DEF p, place
    <3>4. Moves(c[j - 1], s[j], c[j])
      BY <1>1 DEF Path
    <3>5. OfObject(place, p, s[j], c[j])
      BY <3>1, <3>2, <3>3, <3>4 DEF Moves, At
    <3> QED BY <1>1, <3>5 DEF OfObject, IsComment, p
  <2> QED BY <1>1, <2>1
<1>2. ASSUME NEW d \in i .. j - 2, s[d].k = "string", s[d + 1].k = ":",
             NEW b \in Row(s, "before", i, d - 1), NEW v \in Row(s, "value", d + 2, j),
             m = Members(WithMember(ObjV(b.mem), s[d].val.str, v).mem, s[d].val.str)
      PROVE  /\ i <= j
             /\ \A q : IsSequence(q) /\ c[i - 1] = At("name", Append(q, ObjectFrame)) =>
                  c[j] = At(IF IsComment(s[j]) THEN "skipped" ELSE "next", Append(q, ObjectOf(m)))
  <2>1. ReadsBefore(s, c, i, d - 1) /\ ReadsValue(s, c, d + 2, j) /\ i <= j
    OBVIOUS
  <2>2. ~IsComment(s[j])
    BY <2>1 DEF ReadsValue
  <2>3. /\ d \in 1 .. Len(s) /\ d + 1 \in 1 .. Len(s) /\ (d + 1) - 1 = d /\ (d + 2) - 1 = d + 1
    BY <2>1
  <2>4. Moves(c[d - 1], s[d], c[d]) /\ Moves(c[d], s[d + 1], c[d + 1])
    BY <2>3 DEF Path
  <2>5. ASSUME NEW q, IsSequence(q), c[i - 1] = At("name", Append(q, ObjectFrame))
        PROVE  c[j] = At("next", Append(q, ObjectOf(m)))
    <3> DEFINE x == c[d - 1]
               y == c[d]
               z == c[d + 1]
               t == s[d]
               u == s[d + 1]
               mm == Members(WithMember(ObjV(b.mem), t.val.str, v).mem, t.val.str)
    <3>1. x = At("name", Append(q, ObjectOf(b)))
      BY <2>1, <2>5 DEF ReadsBefore
    <3>2. /\ t.k = "string" /\ u.k = ":" /\ Moves(x, t, y) /\ Moves(y, u, z)
          /\ m = mm
      BY <1>2, <2>3, <2>4
    <3> HIDE DEF x, y, t, u
    <3>3. Ready(z, q, m, v)
      <4> HIDE DEF z
      <4>1. Ready(z, q, mm, v)
        BY <2>5, <3>1, <3>2, MemberBegun
      <4> QED BY <3>2, <4>1
    <3> HIDE DEF mm
    <3>4. PICK r : IsSequence(r) /\ Awaiting(z, r) /\ Gave(r, v) = At("next", Append(q, ObjectOf(m)))
      BY <3>3 DEF Ready
    <3>5. c[j] = Gave(r, v)
      BY <2>1, <2>3, <3>4 DEF ReadsValue
    <3> QED BY <3>4, <3>5
  <2> QED BY <2>1, <2>2, <2>5
<1>3. \/ i <= j /\ IsComment(s[j]) /\ m \in Row(s, "members", i, j - 1)
      \/ \E d \in i .. j - 2 :
           /\ s[d].k = "string" /\ s[d + 1].k = ":"
           /\ \E b \in Row(s, "before", i, d - 1), v \in Row(s, "value", d + 2, j) :
                m = Members(WithMember(ObjV(b.mem), s[d].val.str, v).mem, s[d].val.str)
  BY MemberCases
<1> QED BY <1>1, <1>2, <1>3

\* What may stand before a member.
LEMMA BeforeFollows ==
  ASSUME NEW s, Len(s) \in Nat, NEW c, Path(c, s, Len(s)),
         NEW i \in 1 .. Len(s) + 1, NEW j \in 0 .. Len(s), i - 1 <= j,
         i <= j => ReadsBefore(s, c, i, j - 1) /\ ReadsMembers(s, c, i, j - 1)
  PROVE  ReadsBefore(s, c, i, j)
<1> SUFFICES ASSUME NEW b \in Row(s, "before", i, j),
                    NEW q, IsSequence(q), c[i - 1] = At("name", Append(q, ObjectFrame))
             PROVE  c[j] = At("name", Append(q, ObjectOf(b)))
  BY DEF ReadsBefore
<1> DEFINE p == Append(q, ObjectOf(b))
<1>1. Top(p) = ObjectOf(b) /\ InObject(p)
  <2>1. Top(p) = ObjectOf(b)
    BY OpenedIs
  <2> QED BY <2>1, FramesOf DEF InObject
<1>2. i <= j => Moves(c[j - 1], s[j], c[j])
  BY DEF Path
<1>3. CASE i > j /\ b = Members(NoMembers, "")
  <2>1. i - 1 = j
    <3>1. i > j
      BY <1>3
    <3> QED BY <3>1
  <2> QED BY <1>3, <2>1, FramesOf
<1>4. CASE i <= j /\ IsComment(s[j]) /\ b \in Row(s, "before", i, j - 1)
  <2>1. c[j - 1] = At("name", p)
    BY <1>4 DEF ReadsBefore
  <2> HIDE DEF p
  <2>2. OfName(p, s[j], c[j])
    BY <1>2, <1>4, <2>1 DEF Moves, At
  <2> QED BY <1>4, <2>2 DEF OfName, IsComment, p
<1>5. CASE /\ i <= j /\ ~IsComment(s[j]) /\ b \in Row(s, "members", i, j - 1)
           /\ s[j].k = "," \/ (s[j].k # "}" /\ i < j /\ IsComment(s[j - 1]))
  <2> DEFINE place == IF IsComment(s[j - 1]) THEN "skipped" ELSE "next"
  <2>1. c[j - 1] = At(place, p)
    BY <1>5 DEF ReadsMembers
  <2>2. place \in {"skipped", "next"} /\ (IsComment(s[j - 1]) => place = "skipped")
    OBVIOUS
  <2> HIDE DEF p, place
  <2>3. OfObject(place, p, s[j], c[j])
    <3>1. Moves(At(place, p), s[j], c[j]) /\ InObject(p)
      BY <1>1, <1>2, <1>5, <2>1 DEF p
    <3>2. At(place, p).pc = place /\ At(place, p).nodes = p
      BY DEF At
    <3> QED BY <2>2, <3>1, <3>2 DEF Moves
  <2>4. s[j].k = "," \/ (place = "skipped" /\ s[j].k \notin {"}", "comment"})
    BY <1>5, <2>2 DEF IsComment
  <2> QED BY <2>3, <2>4 DEF OfObject, p
<1> QED BY BeforeCases, <1>3, <1>4, <1>5

\* The four of them for the rows i to j.
ReadsRow(s, c, i, j) ==
  ReadsValue(s, c, i, j) /\ ReadsElements(s, c, i, j) /\ ReadsMembers(s, c, i, j) /\ ReadsBefore(s, c, i, j)

LEMMA RowFollows ==
  ASSUME NEW s, Len(s) \in Nat, NEW c, Path(c, s, Len(s)),
         NEW i \in 1 .. Len(s) + 1, NEW j \in 0 .. Len(s), i - 1 <= j,
         \A a \in 1 .. Len(s) + 1, b \in 0 .. Len(s) :
           a - 1 <= b /\ b - a < j - i => ReadsRow(s, c, a, b)
  PROVE  ReadsRow(s, c, i, j)
<1>1. ReadsValue(s, c, i, j)
  <2>1. i <= j => ReadsValue(s, c, i + 1, j)
    BY DEF ReadsRow
  <2>2. i < j => ReadsRow(s, c, i + 1, j - 1)
    OBVIOUS
  <2> QED BY <2>1, <2>2, ValueFollows DEF ReadsRow
<1>2. i <= j => ReadsRow(s, c, i, j - 1)
  OBVIOUS
<1>3. ReadsElements(s, c, i, j)
  <2>1. ASSUME NEW d \in i .. j PROVE ReadsElements(s, c, i, d - 1) /\ ReadsValue(s, c, d + 1, j)
    <3>1. ReadsRow(s, c, i, d - 1)
      OBVIOUS
    <3>2. ReadsRow(s, c, d + 1, j)
      OBVIOUS
    <3> QED BY <3>1, <3>2 DEF ReadsRow
  <2> QED BY <1>1, <1>2, <2>1, ElementsFollow DEF ReadsRow
<1>4. ReadsMembers(s, c, i, j)
  <2>1. ASSUME NEW d \in i .. j - 2 PROVE ReadsBefore(s, c, i, d - 1) /\ ReadsValue(s, c, d + 2, j)
    <3>1. ReadsRow(s, c, i, d - 1)
      OBVIOUS
    <3>2. ReadsRow(s, c, d + 2, j)
      OBVIOUS
    <3> QED BY <3>1, <3>2 DEF ReadsRow
  <2> QED BY <1>2, <2>1, MembersFollow DEF ReadsRow
<1>5. ReadsBefore(s, c, i, j)
  BY <1>2, BeforeFollows DEF ReadsRow
<1> QED BY <1>1, <1>3, <1>4, <1>5 DEF ReadsRow

\* Every row, by induction over its length.
LEMMA RowsRead ==
  ASSUME NEW s, Len(s) \in Nat, NEW c, Path(c, s, Len(s)),
         NEW i \in 1 .. Len(s) + 1, NEW j \in 0 .. Len(s), i - 1 <= j
  PROVE  ReadsRow(s, c, i, j)
<1> DEFINE Below0(n) == \A a \in 1 .. Len(s) + 1, b \in 0 .. Len(s) :
                          a - 1 <= b /\ b - a + 1 < n => ReadsRow(s, c, a, b)
           T == {n \in Nat : Below0(n)}
           top == Len(s) + 1
<1>1. 0 \in T
  OBVIOUS
<1>2. ASSUME NEW n \in T PROVE n + 1 \in T
  <2>1. n \in Nat /\ Below0(n)
    OBVIOUS
  <2>2. ASSUME NEW a \in 1 .. Len(s) + 1, NEW b \in 0 .. Len(s), a - 1 <= b, b - a + 1 < n + 1
        PROVE  ReadsRow(s, c, a, b)
    <3>1. \A x \in 1 .. Len(s) + 1, y \in 0 .. Len(s) :
            x - 1 <= y /\ y - x < b - a => ReadsRow(s, c, x, y)
      BY <2>1, <2>2
    <3> QED BY <2>2, <3>1, RowFollows
  <2> QED BY <2>1, <2>2
<1>3. top \in T
  <2>1. T \in SUBSET Nat /\ top \in Nat
    OBVIOUS
  <2> HIDE DEF T, top
  <2> QED BY <1>1, <1>2, <2>1, SetInduction
<1> QED BY <1>3

\* A text of the grammar is read to its end, and gives its value.
LEMMA ReadThrough ==
  ASSUME NEW s, Len(s) \in Nat, NEW c, Path(c, s, Len(s)), NEW v \in Meanings(s)
  PROVE  c[Len(s)] = Gave(<<>>, v)
<1>1. PICK j \in 0 .. Len(s) : v \in Row(s, "value", 1, j) /\ \A i \in j + 1 .. Len(s) : IsComment(s[i])
  BY DEF Meanings, Row
<1>2. c[j] = Gave(<<>>, v)
  <2>1. ReadsValue(s, c, 1, j)
    BY RowsRead DEF ReadsRow
  <2>2. Awaiting(c[1 - 1], <<>>)
    BY DEF Path, Awaiting
  <2>3. IsSequence(<<>>)
    BY EmptyFrames DEF IsArray
  <2> QED BY <1>1, <2>1, <2>2, <2>3 DEF ReadsValue
<1> DEFINE T == {n \in Nat : j + n <= Len(s) => c[j + n] = Gave(<<>>, v)}
           rest == Len(s) - j
<1>3. 0 \in T
  BY <1>2
<1>4. ASSUME NEW n \in T PROVE n + 1 \in T
  <2> SUFFICES ASSUME j + (n + 1) <= Len(s) PROVE c[j + (n + 1)] = Gave(<<>>, v)
    OBVIOUS
  <2> DEFINE k == j + (n + 1)
  <2>1. k \in 1 .. Len(s) /\ k \in j + 1 .. Len(s) /\ k - 1 = j + n
    OBVIOUS
  <2>2. c[k - 1] = Gave(<<>>, v)
    BY <2>1
  <2>3. Moves(c[k - 1], s[k], c[k]) /\ s[k].k = "comment"
    BY <1>1, <2>1 DEF Path, IsComment
  <2> HIDE DEF k
  <2>4. Gave(<<>>, v).pc = "after"
    BY DEF Gave
  <2>5. c[k] = Gave(<<>>, v)
    BY <2>2, <2>3, <2>4 DEF Moves
  <2> QED BY <2>5 DEF k
<1>5. rest \in T
  <2>1. T \in SUBSET Nat /\ rest \in Nat
    OBVIOUS
  <2> HIDE DEF T, rest
  <2> QED BY <1>3, <1>4, <2>1, SetInduction
<1> QED BY <1>5

-----------------------------------------------------------------------------
(* The reader on a whole text. *)

\* The reader can be as x after n tokens of s; s does not bring it to an end.
Reaches(s, n, x) == \E c : Path(c, s, n) /\ c[n] = x
Lost(s) == \E c : Path(c, s, Len(s)) /\ c[Len(s)].pc # "after"

Stuck == At("recover", <<>>)

\* The reader at the beginning, one token further, and after an error.
LEMMA Begun ==
  ASSUME NEW s
  PROVE  Reaches(s, 0, At("value", <<>>))
<1> DEFINE c == [k \in 0 .. 0 |-> At("value", <<>>)]
<1>1. c[0] = At("value", <<>>)
  OBVIOUS
<1> HIDE DEF c
<1>2. Path(c, s, 0)
  BY <1>1 DEF Path
<1> QED BY <1>1, <1>2 DEF Reaches

LEMMA Further ==
  ASSUME NEW s, NEW n \in Nat, NEW x, Reaches(s, n, x), NEW y, Moves(x, s[n + 1], y)
  PROVE  Reaches(s, n + 1, y)
<1>1. PICK c : Path(c, s, n) /\ c[n] = x
  BY DEF Reaches
<1> DEFINE d == [k \in 0 .. n + 1 |-> IF k = n + 1 THEN y ELSE c[k]]
<1>2. d[n + 1] = y /\ \A k \in 0 .. n : d[k] = c[k]
  OBVIOUS
<1> HIDE DEF d
<1>3. d[0] = c[0] /\ d[n] = x
  BY <1>1, <1>2
<1>4. ASSUME NEW k \in 1 .. n + 1 PROVE Moves(d[k - 1], s[k], d[k])
  <2>1. CASE k = n + 1
    <3>1. k - 1 = n
      BY <2>1
    <3> QED BY <1>2, <1>3, <2>1, <3>1
  <2>2. CASE k # n + 1
    <3>1. k \in 1 .. n /\ k \in 0 .. n /\ k - 1 \in 0 .. n
      BY <2>2
    <3>2. d[k] = c[k] /\ d[k - 1] = c[k - 1]
      BY <1>2, <3>1
    <3> QED BY <1>1, <3>1, <3>2 DEF Path
  <2> QED BY <2>1, <2>2
<1>5. Path(d, s, n + 1)
  BY <1>1, <1>3, <1>4 DEF Path
<1> QED BY <1>2, <1>5 DEF Reaches

LEMMA Stays ==
  ASSUME NEW s, Len(s) \in Nat, NEW n \in 0 .. Len(s), Reaches(s, n, Stuck)
  PROVE  Lost(s)
<1>1. PICK c : Path(c, s, n) /\ c[n] = Stuck
  BY DEF Reaches
<1> DEFINE m == Len(s)
           d == [k \in 0 .. m |-> IF k <= n THEN c[k] ELSE Stuck]
<1>2. /\ \A k \in 0 .. m : k <= n => d[k] = c[k]
      /\ \A k \in 0 .. m : k >= n => d[k] = Stuck
  BY <1>1
<1> HIDE DEF d
<1>3. d[0] = c[0]
  BY <1>2
<1>4. ASSUME NEW k \in 1 .. m PROVE Moves(d[k - 1], s[k], d[k])
  <2>1. CASE k <= n
    <3>1. k - 1 \in 0 .. m /\ k \in 0 .. m /\ k - 1 <= n /\ k \in 1 .. n
      BY <2>1
    <3>2. d[k] = c[k] /\ d[k - 1] = c[k - 1]
      BY <1>2, <2>1, <3>1
    <3> QED BY <1>1, <3>1, <3>2 DEF Path
  <2>2. CASE ~(k <= n)
    <3>1. k - 1 \in 0 .. m /\ k - 1 >= n
      BY <2>2
    <3>2. d[k - 1] = Stuck
      BY <1>2, <3>1
    <3> QED BY <3>2 DEF Moves, Stuck, At
  <2> QED BY <2>1, <2>2
<1>5. Path(d, s, m) /\ d[m] = Stuck
  BY <1>1, <1>2, <1>3, <1>4 DEF Path
<1> QED BY <1>5 DEF Lost, Stuck, At

\* What is lost is no text of the grammar; what is read means what was read.
LEMMA LostMeansNothing ==
  ASSUME NEW s, Len(s) \in Nat, Lost(s)
  PROVE  Meanings(s) = {}
<1> SUFFICES ASSUME NEW v \in Meanings(s) PROVE FALSE
  OBVIOUS
<1>1. PICK c : Path(c, s, Len(s)) /\ c[Len(s)].pc # "after"
  BY DEF Lost
<1>2. c[Len(s)] = Gave(<<>>, v)
  BY <1>1, ReadThrough
<1> QED BY <1>1, <1>2 DEF Gave

LEMMA OneMeaning ==
  ASSUME NEW s, Len(s) \in Nat, NEW r, Reaches(s, Len(s), Gave(<<>>, r)), NEW v \in Meanings(s)
  PROVE  v = r
<1>1. PICK c : Path(c, s, Len(s)) /\ c[Len(s)] = Gave(<<>>, r)
  BY DEF Reaches
<1>2. Gave(<<>>, r) = Gave(<<>>, v)
  BY <1>1, ReadThrough
<1>3. Gave(<<>>, r).root = r /\ Gave(<<>>, v).root = v
  BY DEF Gave
<1> QED BY <1>2, <1>3
-----------------------------------------------------------------------------
\* What a token does to the reader.
Comes(t) ==
  \/ pc' \in Reading /\ Moves(At(pc, nodes), t, At(pc', nodes'))
  \/ pc' = "after" /\ successful' /\ Moves(At(pc, nodes), t, Gave(<<>>, root'))
  \/ /\ pc' = "recover" \/ (pc' = "after" /\ ~successful')
     /\ Moves(At(pc, nodes), t, Stuck)

\* The kinds of steps, and then the steps.
LEMMA ReturnComes ==
  ASSUME NEW t, NEW q, NEW v, Return(q, v, TRUE), Moves(At(pc, nodes), t, Gave(q, v))
  PROVE  Comes(t)
<1>1. CASE q = <<>>
  BY <1>1 DEF Comes, Return
<1>2. CASE q # <<>>
  <2>1. Gave(q, v) = At("next", OnTop(q, SetChild(Top(q), v)))
    BY <1>2 DEF Gave
  <2> QED BY <1>2, <2>1 DEF Comes, Return, Reading, InContainer
<1> QED BY <1>1, <1>2

LEMMA GoToComes ==
  ASSUME NEW t, NEW q, NEW place \in Reading, GoTo(place, q), Moves(At(pc, nodes), t, At(place, q))
  PROVE  Comes(t)
BY DEF Comes, GoTo

LEMMA ErrorComes ==
  ASSUME NEW t, NEW q, NEW v, Return(q, v, FALSE) \/ GoTo("recover", q),
         Moves(At(pc, nodes), t, Stuck)
  PROVE  Comes(t)
BY DEF Comes, Return, GoTo

LEMMA ValueComes ==
  ASSUME NEW t, ReadValue(t)
  PROVE  Comes(t)
<1>1. pc \in {"value", "first"} /\ (pc = "first" => t.k # "]")
  BY DEF ReadValue, AtValue
<1>2. ASSUME NEW y, OfValue(Place, t, y)
      PROVE  Moves(At(pc, nodes), t, y)
  <2>1. CASE pc = "value"
    BY <1>2, <2>1 DEF Moves, At, Place
  <2>2. CASE pc = "first"
    <3>1. Place = OnTop(nodes, InsertChild(Top(nodes)))
      BY <2>2 DEF Place
    <3> QED BY <1>1, <1>2, <2>2, <3>1 DEF Moves, At
  <2> QED BY <1>1, <2>1, <2>2
<1> DEFINE p == Place
<1> HIDE DEF p
<1>3. CASE t.k = "comment" /\ GoTo("value", p)
  <2>1. OfValue(p, t, At("value", p))
    BY <1>3 DEF OfValue
  <2> QED BY <1>2, <1>3, <2>1, GoToComes DEF Reading, p
<1>4. CASE t.k = "{" /\ GoTo("name", Append(p, ObjectFrame))
  <2> DEFINE q == Append(p, ObjectFrame)
  <2>1. OfValue(p, t, At("name", q))
    BY <1>4 DEF OfValue
  <2>2. GoTo("name", q)
    BY <1>4
  <2> HIDE DEF q
  <2> QED BY <1>2, <2>1, <2>2, GoToComes DEF Reading, InContainer, p
<1>5. CASE t.k = "[" /\ GoTo("first", Append(p, ArrayFrame))
  <2> DEFINE q == Append(p, ArrayFrame)
  <2>1. OfValue(p, t, At("first", q))
    BY <1>5 DEF OfValue
  <2>2. GoTo("first", q)
    BY <1>5
  <2> HIDE DEF q
  <2> QED BY <1>2, <2>1, <2>2, GoToComes DEF Reading, InContainer, p
<1>6. CASE t.k \in {"literal", "string"} /\ Return(p, t.val, TRUE)
  <2>1. OfValue(p, t, Gave(p, t.val))
    BY <1>6 DEF OfValue
  <2> QED BY <1>2, <1>6, <2>1, ReturnComes DEF p
<1>7. CASE t.k \notin {"comment", "{", "[", "literal", "string"} /\ Return(p, CurrentValue(p), FALSE)
  <2>1. OfValue(p, t, Stuck)
    BY <1>7 DEF OfValue
  <2> QED BY <1>2, <1>7, <2>1, ErrorComes DEF p
<1> QED BY <1>3, <1>4, <1>5, <1>6, <1>7 DEF ReadValue, p

LEMMA ContainerComes ==
  ASSUME NEW t,
         \/ ReadName(t)
         \/ ReadColon(t)
         \/ ReadComma(t)
         \/ ReadCommaAfterComment(t)
         \/ EndEmptyArray(t)
         \/ ReadSeparator(t)
  PROVE  Comes(t)
<1> DEFINE x == At(pc, nodes)
           q == Below(nodes)
           v == Top(nodes).val
<1>0. x.pc = pc /\ x.nodes = nodes
  BY DEF At
<1>c. ASSUME Close(TRUE), Moves(x, t, Gave(q, v)) PROVE Comes(t)
  BY <1>c, ReturnComes DEF Close
<1>e. ASSUME GoTo("recover", nodes), Moves(x, t, Stuck) PROVE Comes(t)
  BY <1>e, ErrorComes
<1>g. ASSUME NEW place \in Reading, NEW r, GoTo(place, r), Moves(x, t, At(place, r)) PROVE Comes(t)
  BY <1>g, GoToComes
<1>r. {"value", "name", "colon", "next", "skipped"} \subseteq Reading
  BY DEF Reading, InContainer
<1>n. ASSUME NEW place \in {"value", "name", "colon", "next", "skipped"}, NEW r,
             GoTo(place, r), Moves(x, t, At(place, r))
      PROVE  Comes(t)
  BY <1>g, <1>n, <1>r
<1> HIDE DEF x, q, v
<1>1. CASE ReadName(t)
  <2>1. ASSUME NEW y, OfName(nodes, t, y) PROVE Moves(x, t, y)
    BY <1>0, <1>1, <2>1 DEF Moves, ReadName
  <2>2. CASE t.k = "comment" /\ GoTo("name", nodes)
    <3>1. OfName(nodes, t, At("name", nodes))
      BY <2>2 DEF OfName
    <3> QED BY <1>n, <2>1, <2>2, <3>1
  <2>3. CASE t.k = "}" /\ Top(nodes).name = "" /\ Close(TRUE)
    <3>1. OfName(nodes, t, Gave(q, v))
      BY <2>3 DEF OfName, q, v
    <3> QED BY <1>c, <2>1, <2>3, <3>1
  <2>4. CASE t.k = "string" /\ GoTo("colon", OnTop(nodes, [Top(nodes) EXCEPT !.name = t.val.str]))
    <3> DEFINE r == OnTop(nodes, Renamed(Top(nodes), t.val.str))
    <3>1. OfName(nodes, t, At("colon", r))
      BY <2>4 DEF OfName
    <3>2. GoTo("colon", r)
      BY <2>4 DEF Renamed
    <3> HIDE DEF r
    <3> QED BY <1>n, <2>1, <3>1, <3>2
  <2>5. CASE /\ t.k \notin {"comment", "string"} /\ ~(t.k = "}" /\ Top(nodes).name = "")
             /\ GoTo("recover", nodes)
    <3>1. OfName(nodes, t, Stuck)
      BY <2>5 DEF OfName
    <3> QED BY <1>e, <2>1, <2>5, <3>1
  <2> QED BY <1>1, <2>2, <2>3, <2>4, <2>5 DEF ReadName, AddErrorAndRecover
<1>2. CASE ReadColon(t)
  <2> DEFINE r == OnTop(nodes, InsertChild(Top(nodes)))
  <2>1. CASE t.k = ":" /\ GoTo("value", r)
    <3>1. Moves(x, t, At("value", r))
      BY <1>0, <1>2 DEF Moves, ReadColon
    <3> HIDE DEF r
    <3> QED BY <1>n, <2>1, <3>1
  <2>2. CASE t.k # ":" /\ GoTo("recover", nodes)
    <3>1. Moves(x, t, Stuck)
      BY <1>0, <1>2, <2>2 DEF Moves, ReadColon
    <3> QED BY <1>e, <2>2, <3>1
  <2> QED BY <1>2, <2>1, <2>2 DEF ReadColon, AddErrorAndRecover
<1>3. CASE ReadComma(t)
  <2>1. ASSUME NEW y, OfObject("next", nodes, t, y) PROVE Moves(x, t, y)
    BY <1>0, <1>3, <2>1 DEF Moves, ReadComma
  <2>2. CASE t.k = "}" /\ Close(TRUE)
    <3>1. OfObject("next", nodes, t, Gave(q, v))
      BY <2>2 DEF OfObject, q, v
    <3> QED BY <1>c, <2>1, <2>2, <3>1
  <2>3. CASE t.k = "," /\ GoTo("name", nodes)
    <3>1. OfObject("next", nodes, t, At("name", nodes))
      BY <2>3 DEF OfObject
    <3> QED BY <1>n, <2>1, <2>3, <3>1
  <2>4. CASE t.k = "comment" /\ GoTo("skipped", nodes)
    <3>1. OfObject("next", nodes, t, At("skipped", nodes))
      BY <2>4 DEF OfObject
    <3> QED BY <1>n, <2>1, <2>4, <3>1
  <2>5. CASE t.k \notin {"}", ",", "comment"} /\ GoTo("recover", nodes)
    <3>1. OfObject("next", nodes, t, Stuck)
      BY <2>5 DEF OfObject
    <3> QED BY <1>e, <2>1, <2>5, <3>1
  <2> QED BY <1>3, <2>2, <2>3, <2>4, <2>5 DEF ReadComma, AddErrorAndRecover
<1>4. CASE ReadCommaAfterComment(t)
  <2>1. ASSUME NEW y, OfObject("skipped", nodes, t, y) PROVE Moves(x, t, y)
    BY <1>0, <1>4, <2>1 DEF Moves, ReadCommaAfterComment
  <2>2. CASE t.k = "}" /\ Close(TRUE)
    <3>1. OfObject("skipped", nodes, t, Gave(q, v))
      BY <2>2 DEF OfObject, q, v
    <3> QED BY <1>c, <2>1, <2>2, <3>1
  <2>3. CASE t.k = "comment" /\ GoTo("skipped", nodes)
    <3>1. OfObject("skipped", nodes, t, At("skipped", nodes))
      BY <2>3 DEF OfObject
    <3> QED BY <1>n, <2>1, <2>3, <3>1
  <2>4. CASE t.k \notin {"}", "comment"} /\ GoTo("name", nodes)
    <3>1. OfObject("skipped", nodes, t, At("name", nodes))
      BY <2>4 DEF OfObject
    <3> QED BY <1>n, <2>1, <2>4, <3>1
  <2> QED BY <1>4, <2>2, <2>3, <2>4 DEF ReadCommaAfterComment
<1>5. CASE EndEmptyArray(t)
  <2>1. pc = "first" /\ t.k = "]" /\ Close(TRUE)
    BY <1>5 DEF EndEmptyArray
  <2>2. Moves(x, t, Gave(q, v))
    BY <1>0, <2>1 DEF Moves, OfValue, q, v
  <2> QED BY <1>c, <2>1, <2>2
<1>6. CASE ReadSeparator(t)
  <2>1. ASSUME NEW y, OfArray(nodes, t, y) PROVE Moves(x, t, y)
    BY <1>0, <1>6, <2>1 DEF Moves, ReadSeparator
  <2>2. CASE t.k = "comment" /\ GoTo("next", nodes)
    <3>1. OfArray(nodes, t, At("next", nodes))
      BY <2>2 DEF OfArray
    <3> QED BY <1>n, <2>1, <2>2, <3>1
  <2>3. CASE t.k = "," /\ GoTo("value", OnTop(nodes, InsertChild(Top(nodes))))
    <3> DEFINE r == OnTop(nodes, InsertChild(Top(nodes)))
    <3>1. OfArray(nodes, t, At("value", r)) /\ GoTo("value", r)
      BY <2>3 DEF OfArray
    <3> HIDE DEF r
    <3> QED BY <1>n, <2>1, <3>1
  <2>4. CASE t.k = "]" /\ Close(TRUE)
    <3>1. OfArray(nodes, t, Gave(q, v))
      BY <2>4 DEF OfArray, q, v
    <3> QED BY <1>c, <2>1, <2>4, <3>1
  <2>5. CASE t.k \notin {"comment", ",", "]"} /\ GoTo("recover", nodes)
    <3>1. OfArray(nodes, t, Stuck)
      BY <2>5 DEF OfArray
    <3> QED BY <1>e, <2>1, <2>5, <3>1
  <2> QED BY <1>6, <2>2, <2>3, <2>4, <2>5 DEF ReadSeparator, AddErrorAndRecover
<1> QED BY <1>1, <1>2, <1>3, <1>4, <1>5, <1>6

\* Texts that reach the reader as they are; s begins with the tokens taken so far.
Whole == Free \/ (~text.cut /\ ~IsBehind)
Position  == IF Free THEN Len(got) ELSE text.at
Starts(s) == IF Free THEN Begins(s, Len(got)) ELSE s = TextTokens

\* Behind the root value one token was taken besides.
Parsed == IF Free THEN Len(got) - 1 ELSE Len(TextTokens)
Passed(s) == IF Free THEN Begins(s, Len(got) - 1) ELSE s = TextTokens

\* Behind a comment in an object the end of the text is a separator.
Ended(s) == ~Free /\ Position = Len(s) /\ pc = "name" /\ Lost(s)

PathInv ==
  Whole => \A s :
    /\ Starts(s) =>
         /\ pc \in Reading => Reaches(s, Position, At(pc, nodes)) \/ Ended(s)
         /\ pc = "after" /\ successful => Reaches(s, Position, Gave(<<>>, root))
         /\ pc = "recover" \/ (pc = "after" /\ ~successful) => Lost(s)
    /\ pc = "read" /\ Passed(s) =>
         /\ Free => Len(got) # 0
         /\ \/ successful /\ Reaches(s, Parsed, Gave(<<>>, root))
            \/ (Free => ~successful) /\ Lost(s)

\* A token of a given text is the next one, or the end of the text.
LEMMA GivenToken ==
  ASSUME TextTypes, NEW t \in Offered, Take(t), Whole', ~Free'
  PROVE  /\ ~Free /\ Whole /\ TextTokens' = TextTokens
         /\ Len(TextTokens) \in Nat /\ text.at \in 0 .. Len(TextTokens)
         /\ \/ /\ text.at < Len(TextTokens) /\ t = TextTokens[text.at + 1]
               /\ text'.at = text.at + 1
            \/ text.at = Len(TextTokens) /\ t = EOS /\ text'.at = text.at
<1>1. ~Free
  BY FreeTakes
<1>2. GivenTakes(t) /\ ~text'.cut /\ ~IsBehind'
  BY <1>1, GivenTaken DEF Whole
<1>3. text.of \in 1 .. Len(Texts) /\ Len(TextTokens) \in Nat
  <2>1. text.of \in 1 .. Len(Texts)
    BY <1>1, TextsAre DEF TextTypes, Free
  <2> QED BY <1>1, <2>1, TextsAre DEF TextTokens
<1>4. text.at \in 0 .. Len(TextTokens) /\ text.cut \in BOOLEAN
  BY <1>1, <1>3 DEF TextTypes
<1>5. ~IsBehind /\ TextTokens' = TextTokens
  BY <1>2 DEF GivenTakes
<1>6. \/ AtEnd /\ t = EOS /\ Stood(text.at, text.cut, TRUE)
      \/ /\ ~AtEnd /\ text.at + 1 <= Len(TextTokens)
         /\ t = NextToken /\ Stood(text.at + 1, text.cut, text.past)
  BY <1>2, <1>5 DEF GivenTakes, Stood
<1>7. ~text.cut
  BY <1>2, <1>6 DEF Stood
<1>8. CASE AtEnd /\ t = EOS /\ Stood(text.at, text.cut, TRUE)
  <2>1. text.at = Len(TextTokens)
    BY <1>1, <1>7, <1>8 DEF AtEnd
  <2> QED BY <1>1, <1>3, <1>4, <1>5, <1>7, <1>8, <2>1 DEF Whole, Stood
<1>9. CASE /\ ~AtEnd /\ text.at + 1 <= Len(TextTokens)
           /\ t = NextToken /\ Stood(text.at + 1, text.cut, text.past)
  <2>1. text.at < Len(TextTokens)
    BY <1>3, <1>4, <1>9
  <2> QED BY <1>1, <1>3, <1>4, <1>5, <1>7, <1>9, <2>1 DEF Whole, Stood, NextToken
<1> QED BY <1>6, <1>8, <1>9

\* The same of both.
NextOf(s, t) ==
  /\ Len(s) \in Nat /\ Position \in 0 .. Len(s)
  /\ \/ Position < Len(s) /\ t = s[Position + 1] /\ Position' = Position + 1
     \/ ~Free /\ Position = Len(s) /\ t = EOS /\ Position' = Position

LEMMA TapeToken ==
  ASSUME TextTypes, NEW t \in Offered, Take(t), Whole'
  PROVE  /\ Whole /\ Free' = Free
         /\ \A s : Starts(s)' => Starts(s) /\ Len(s) \in Nat
         /\ pc # "recover" =>
              /\ \A s : Starts(s)' => NextOf(s, t)
              /\ \A s : Passed(s)' => Starts(s)
              /\ Free => Parsed' = Len(got) /\ Len(got') # 0
<1>1. CASE Free'
  <2>1. Free /\ Len(got) \in Nat
    BY <1>1, FreeToken
  <2>2. CASE pc = "recover"
    <3>1. got' = got
      BY <2>1, <2>2 DEF Take
    <3> QED BY <1>1, <2>1, <2>2, <3>1 DEF Whole, Starts, Begins
  <2>3. CASE pc # "recover"
    <3>1. /\ Len(got') = Len(got) + 1
          /\ \A s, n : n \in {Len(got), Len(got) + 1} /\ (Begins(s, n))' =>
               Begins(s, Len(got)) /\ (n = Len(got) + 1 => s[n] = t)
      BY <1>1, <2>3, FreeToken
    <3>2. Position = Len(got) /\ Position' = Len(got) + 1 /\ Len(got') - 1 = Len(got) /\ Parsed' = Len(got)
      BY <1>1, <2>1, <3>1 DEF Position, Parsed
    <3>m. PICK m \in Nat : m = Len(got)
      BY <2>1
    <3>3. ASSUME NEW s, Starts(s)' PROVE Starts(s) /\ Len(s) \in Nat /\ NextOf(s, t)
      <4>1. /\ Len(s) \in Nat /\ Len(got') <= Len(s)
            /\ \A i \in 1 .. Len(got') : s[i] = got'[i]
        BY <1>1, <3>3 DEF Starts, Begins
      <4>2. (Begins(s, m + 1))'
        BY <3>1, <3>m, <4>1 DEF Begins
      <4>3. Begins(s, Len(got)) /\ s[Len(got) + 1] = t
        BY <3>1, <3>m, <4>2
      <4> QED BY <2>1, <3>1, <3>2, <4>1, <4>3 DEF Starts, NextOf
    <3>4. ASSUME NEW s, Passed(s)' PROVE Starts(s)
      <4>1. /\ Len(s) \in Nat /\ Len(got') - 1 <= Len(s)
            /\ \A i \in 1 .. Len(got') - 1 : s[i] = got'[i]
        BY <1>1, <3>4 DEF Passed, Begins
      <4>2. (Begins(s, m))'
        BY <3>2, <3>m, <4>1 DEF Begins
      <4>3. Begins(s, Len(got))
        BY <3>1, <3>m, <4>2
      <4> QED BY <2>1, <4>3 DEF Starts
    <3> QED BY <1>1, <2>1, <2>3, <3>2, <3>3, <3>4 DEF Whole
  <2> QED BY <2>2, <2>3
<1>2. CASE ~Free'
  <2>1. /\ ~Free /\ Whole /\ TextTokens' = TextTokens
        /\ Len(TextTokens) \in Nat /\ text.at \in 0 .. Len(TextTokens)
        /\ \/ /\ text.at < Len(TextTokens) /\ t = TextTokens[text.at + 1]
              /\ text'.at = text.at + 1
           \/ text.at = Len(TextTokens) /\ t = EOS /\ text'.at = text.at
    BY <1>2, GivenToken
  <2>2. Position = text.at /\ Position' = text'.at
    BY <1>2, <2>1 DEF Position
  <2>3. ASSUME NEW s, Starts(s)' \/ Passed(s)' PROVE s = TextTokens
    BY <1>2, <2>1, <2>3 DEF Starts, Passed
  <2>4. NextOf(TextTokens, t)
    BY <2>1, <2>2 DEF NextOf
  <2>5. ASSUME NEW s, Starts(s)' \/ Passed(s)'
        PROVE  Starts(s) /\ Len(s) \in Nat /\ NextOf(s, t)
    <3>1. s = TextTokens
      BY <2>3, <2>5
    <3>2. Starts(s) /\ Len(s) \in Nat
      BY <2>1, <3>1 DEF Starts
    <3> QED BY <2>4, <3>1, <3>2
  <2>6. Free' = Free /\ Whole /\ ~Free
    BY <1>2, <2>1 DEF Free
  <2> QED BY <2>5, <2>6
<1> QED BY <1>1, <1>2

\* A token that brings the reader from x to y, and one that is an error.
LEMMA Steps ==
  ASSUME NEW s, NEW t, NextOf(s, t), NEW x, NEW y, Reaches(s, Position, x), Moves(x, t, y)
  PROVE  \/ Reaches(s, Position', y)
         \/ ~Free /\ t = EOS /\ Position = Len(s) /\ Position' = Position
<1>1. CASE Position < Len(s) /\ t = s[Position + 1] /\ Position' = Position + 1
  BY <1>1, Further DEF NextOf
<1> QED BY <1>1 DEF NextOf

LEMMA LostAt ==
  ASSUME NEW s, NEW t, NextOf(s, t), NEW x, Reaches(s, Position, x), Moves(x, t, Stuck),
         x.pc # "after" \/ Position < Len(s)
  PROVE  Lost(s)
<1>1. CASE Position < Len(s) /\ t = s[Position + 1] /\ Position' = Position + 1
  <2>1. Reaches(s, Position + 1, Stuck) /\ Position + 1 \in 0 .. Len(s) /\ Len(s) \in Nat
    BY <1>1, Further DEF NextOf
  <2> QED BY <2>1, Stays
<1>2. CASE Position = Len(s) /\ x.pc # "after"
  BY <1>2 DEF Reaches, Lost
<1> QED BY <1>1, <1>2 DEF NextOf

\* The end of the text ends no value; only behind a comment is it no error.
LEMMA EndComes ==
  ASSUME pc \in Reading, NEW t, t = EOS,
         \/ ReadValue(t)
         \/ ReadName(t)
         \/ ReadColon(t)
         \/ ReadComma(t)
         \/ ReadCommaAfterComment(t)
         \/ EndEmptyArray(t)
         \/ ReadSeparator(t)
  PROVE  /\ pc' \in Reading => pc = "skipped" /\ pc' = "name"
         /\ ~(pc' = "after" /\ successful')
<1>1. t.k = "eos"
  BY DEF EOS
<1>2. CASE ReadValue(t)
  BY <1>1, <1>2 DEF ReadValue, Return, Reading, InContainer
<1>3. CASE ReadCommaAfterComment(t)
  BY <1>1, <1>3 DEF ReadCommaAfterComment, GoTo
<1>4. CASE ReadName(t) \/ ReadColon(t) \/ ReadComma(t) \/ EndEmptyArray(t) \/ ReadSeparator(t)
  <2>1. pc' = "recover"
    BY <1>1, <1>4 DEF ReadName, ReadColon, ReadComma, EndEmptyArray, ReadSeparator,
         AddErrorAndRecover, GoTo
  <2> QED BY <2>1 DEF Reading, InContainer
<1> QED BY <1>2, <1>3, <1>4

\* A token of a value that is not finished yet keeps what the invariant says.
LEMMA PathStep ==
  ASSUME pc \in Reading, NEW t, Comes(t), NEW s, NextOf(s, t),
         Reaches(s, Position, At(pc, nodes)) \/ Ended(s), Free' = Free,
         t = EOS => /\ pc' \in Reading => pc = "skipped" /\ pc' = "name"
                    /\ ~(pc' = "after" /\ successful')
  PROVE  /\ pc' \in Reading => Reaches(s, Position', At(pc', nodes')) \/ Ended(s)'
         /\ pc' = "after" /\ successful' => Reaches(s, Position', Gave(<<>>, root'))
         /\ pc' = "recover" \/ (pc' = "after" /\ ~successful') => Lost(s)
<1> DEFINE x == At(pc, nodes)
<1>0. x.pc = pc /\ pc # "after"
  BY DEF At, Reading, InContainer
<1>1. CASE Ended(s)
  <2>1. t = EOS /\ pc # "skipped" /\ Lost(s)
    BY <1>1 DEF Ended, NextOf
  <2> QED BY <2>1
<1>2. CASE Reaches(s, Position, x)
  <2>0. CASE ~Free /\ t = EOS /\ Position = Len(s) /\ Position' = Position
    <3>1. Lost(s)
      BY <1>0, <1>2, <2>0 DEF Reaches, Lost
    <3> QED BY <2>0, <3>1 DEF Ended
  <2>1. CASE ~(~Free /\ t = EOS /\ Position = Len(s) /\ Position' = Position)
    <3>1. ASSUME NEW y, Moves(x, t, y) PROVE Reaches(s, Position', y)
      BY <1>2, <2>1, <3>1, Steps
    <3>2. Moves(x, t, Stuck) => Lost(s)
      BY <1>0, <1>2, LostAt
    <3>3. CASE pc' \in Reading /\ Moves(x, t, At(pc', nodes'))
      <4>1. Reaches(s, Position', At(pc', nodes'))
        BY <3>1, <3>3
      <4> QED BY <3>3, <4>1 DEF Reading, InContainer
    <3>4. CASE pc' = "after" /\ successful' /\ Moves(x, t, Gave(<<>>, root'))
      <4>1. Reaches(s, Position', Gave(<<>>, root'))
        BY <3>1, <3>4
      <4> QED BY <3>4, <4>1 DEF Reading, InContainer
    <3>5. CASE (pc' = "recover" \/ (pc' = "after" /\ ~successful')) /\ Moves(x, t, Stuck)
      BY <3>2, <3>5 DEF Reading, InContainer
    <3> QED BY <3>3, <3>4, <3>5 DEF Comes
  <2> QED BY <2>0, <2>1
<1> QED BY <1>1, <1>2

LEMMA PathToken ==
  ASSUME PolicyInv, PathInv, NEW t \in Offered,
         \/ ReadValue(t)
         \/ ReadName(t)
         \/ ReadColon(t)
         \/ ReadComma(t)
         \/ ReadCommaAfterComment(t)
         \/ EndEmptyArray(t)
         \/ ReadSeparator(t)
         \/ Recover(t)
         \/ ParseEnd(t)
  PROVE  PathInv'
<1> SUFFICES ASSUME Whole', NEW s
             PROVE  /\ Starts(s)' =>
                         /\ pc' \in Reading => Reaches(s, Position', At(pc', nodes')) \/ Ended(s)'
                         /\ pc' = "after" /\ successful' => Reaches(s, Position', Gave(<<>>, root'))
                         /\ pc' = "recover" \/ (pc' = "after" /\ ~successful') => Lost(s)
                    /\ pc' = "read" /\ Passed(s)' =>
                         /\ Free' => Len(got') # 0
                         /\ \/ successful' /\ Reaches(s, Parsed', Gave(<<>>, root'))
                            \/ (Free' => ~successful') /\ Lost(s)
  BY DEF PathInv
<1>1. TextTypes /\ Take(t)
  BY DEF PolicyInv, ReadValue, ReadName, ReadColon, ReadComma, ReadCommaAfterComment,
         EndEmptyArray, ReadSeparator, Recover, ParseEnd
<1>2. /\ Whole /\ Free' = Free
      /\ Starts(s)' => Starts(s)
      /\ pc # "recover" =>
           /\ Starts(s)' => NextOf(s, t)
           /\ Passed(s)' => Starts(s)
           /\ Free => Parsed' = Len(got) /\ Len(got') # 0
  BY <1>1, TapeToken
<1>3. Starts(s) =>
        /\ pc \in Reading => Reaches(s, Position, At(pc, nodes)) \/ Ended(s)
        /\ pc = "after" /\ successful => Reaches(s, Position, Gave(<<>>, root))
        /\ pc = "recover" \/ (pc = "after" /\ ~successful) => Lost(s)
  BY <1>2 DEF PathInv
<1>4. CASE Recover(t)
  <2>1. pc = "recover" /\ pc' \in {"after", "recover"} /\ ~(pc' = "after" /\ successful')
    BY <1>4 DEF Recover, Close, Return, GoTo
  <2> QED BY <1>2, <1>3, <2>1 DEF Reading, InContainer
<1>5. CASE ParseEnd(t)
  <2>1. /\ pc = "after" /\ root' = root /\ successful' = successful
        /\ pc' = IF t.k = "comment" THEN "after" ELSE "read"
    BY <1>5 DEF ParseEnd
  <2> DEFINE x == Gave(<<>>, root)
  <2>2. x.pc = "after"
    BY DEF Gave
  <2>3. pc' \notin Reading /\ pc' # "recover"
    BY <2>1 DEF Reading, InContainer
  <2> HIDE DEF x
  \* A comment.
  <2>4. ASSUME Starts(s)', pc' = "after", successful' PROVE Reaches(s, Position', x)
    <3>1. NextOf(s, t) /\ t.k = "comment" /\ t # EOS /\ Reaches(s, Position, x)
      BY <1>2, <1>3, <2>1, <2>4 DEF EOS, x
    <3>2. Moves(x, t, x)
      BY <2>2 DEF Moves
    <3> QED BY <3>1, <3>2, Steps
  <2>5. ASSUME Starts(s)', pc' = "after", ~successful' PROVE Lost(s)
    BY <1>2, <1>3, <2>1, <2>5
  \* Another token.
  <2>6. ASSUME pc' = "read", Passed(s)'
        PROVE  \/ successful' /\ Reaches(s, Parsed', x)
               \/ (Free' => ~successful') /\ Lost(s)
    <3>1. Starts(s) /\ t.k # "comment"
      BY <1>2, <2>1, <2>6
    <3>2. CASE ~successful
      BY <1>3, <2>1, <3>1, <3>2
    <3>3. CASE successful /\ Free
      <4>1. Parsed' = Position
        BY <1>2, <2>1, <3>3 DEF Position
      <4> QED BY <1>3, <2>1, <3>1, <3>3, <4>1 DEF x
    <3>4. CASE successful /\ ~Free
      <4>1. Starts(s)'
        BY <1>2, <2>6, <3>4 DEF Starts, Passed
      <4>2. NextOf(s, t) /\ Reaches(s, Position, x)
        BY <1>2, <1>3, <2>1, <3>1, <3>4, <4>1 DEF x
      <4>3. CASE Position < Len(s)
        <5>1. Moves(x, t, Stuck)
          BY <2>2, <3>1 DEF Moves
        <5>2. Lost(s)
          BY <4>2, <4>3, <5>1, LostAt
        <5> QED BY <1>2, <3>4, <5>2
      <4>4. CASE ~(Position < Len(s))
        <5>1. Position = Len(s) /\ Len(s) \in Nat
          BY <4>2, <4>4 DEF NextOf
        <5>2. Parsed' = Len(s)
          BY <1>2, <3>4, <4>1 DEF Parsed, Starts
        <5> QED BY <2>1, <3>4, <4>2, <5>1, <5>2
      <4> QED BY <4>3, <4>4
    <3> QED BY <3>2, <3>3, <3>4
  <2>7. Free' => Len(got') # 0
    BY <1>2, <2>1
  <2> QED BY <2>1, <2>3, <2>4, <2>5, <2>6, <2>7 DEF x
<1>6. CASE ~Recover(t) /\ ~ParseEnd(t)
  <2>1. pc \in Reading /\ pc # "recover" /\ Comes(t)
    <3>1. Comes(t)
      BY <1>6, ValueComes, ContainerComes
    <3>2. pc \in Reading
      BY <1>6 DEF Reading, InContainer, ReadValue, AtValue, ReadName, ReadColon, ReadComma,
         ReadCommaAfterComment, EndEmptyArray, ReadSeparator
    <3> QED BY <3>1, <3>2 DEF Reading, InContainer
  <2>2. t = EOS => /\ pc' \in Reading => pc = "skipped" /\ pc' = "name"
                   /\ ~(pc' = "after" /\ successful')
    BY <1>6, <2>1, EndComes
  <2>3. pc' # "read"
    BY <2>1 DEF Comes, Reading, InContainer
  <2>4. ASSUME Starts(s)'
        PROVE  /\ pc' \in Reading => Reaches(s, Position', At(pc', nodes')) \/ Ended(s)'
               /\ pc' = "after" /\ successful' => Reaches(s, Position', Gave(<<>>, root'))
               /\ pc' = "recover" \/ (pc' = "after" /\ ~successful') => Lost(s)
    <3>1. NextOf(s, t) /\ (Reaches(s, Position, At(pc, nodes)) \/ Ended(s)) /\ Free' = Free
      BY <1>2, <1>3, <2>1, <2>4
    <3> QED BY <2>1, <2>2, <3>1, PathStep
  <2> QED BY <2>3, <2>4
<1> QED BY <1>4, <1>5, <1>6

LEMMA PathReset ==
  ASSUME NEW of, Reset(of)
  PROVE  PathInv'
<1>1. got' = <<>> /\ nodes' = <<>> /\ pc' = "value" /\ text'.at = 0
  BY DEF Reset, ParseBegin
<1>2. Len(<<>>) = 0 /\ Position' = 0
  BY <1>1 DEF Position
<1>3. pc' \in Reading /\ pc' \notin {"after", "recover", "read"}
  BY <1>1 DEF Reading
<1>4. ASSUME NEW s PROVE Reaches(s, Position', At(pc', nodes'))
  BY <1>1, <1>2, Begun
<1> QED BY <1>3, <1>4 DEF PathInv

LEMMA PathInvStep == PolicyInv /\ PathInv /\ [Next]_vars => PathInv'
<1> SUFFICES ASSUME PolicyInv, PathInv, [Next]_vars PROVE PathInv'
  OBVIOUS
<1>0. pc' \notin Reading \cup {"after", "recover", "read"} => PathInv'
  BY DEF PathInv
<1>1. CASE \E of \in 0 .. Len(Texts) : Reset(of)
  BY <1>1, PathReset
<1>2. CASE ReaderStep
  <2>1. CASE StackExceeded
    BY <1>0, <2>1 DEF StackExceeded, Reading, InContainer
  <2> QED BY <1>2, <2>1, PathToken DEF ReaderStep
<1>3. CASE GetOutJson
  BY <1>0, <1>3 DEF GetOutJson, Reading, InContainer
<1>4. CASE CookSenddata
  BY <1>0, <1>4 DEF CookSenddata, Reading, InContainer
<1>5. CASE UNCHANGED vars
  <2>1. UNCHANGED <<text, got, nodes, pc, root, successful>>
    BY <1>5 DEF vars, readerVars
  <2> QED BY <2>1 DEF PathInv, Whole, IsBehind, Position, Free, Starts, Passed, Parsed, Ended, Begins, TextTokens
<1> QED BY <1>1, <1>2, <1>3, <1>4, <1>5 DEF Next

\* A whole text whose end the reader has passed before its value was finished
\* means nothing.
BehindInv ==
  ~Free /\ ~text.cut /\ (IsBehind \/ (text.past /\ pc \in Reading)) => Lost(TextTokens)

LEMMA BehindToken ==
  ASSUME PolicyInv, PathInv, BehindInv, NEW t \in Offered,
         \/ ReadValue(t)
         \/ ReadName(t)
         \/ ReadColon(t)
         \/ ReadComma(t)
         \/ ReadCommaAfterComment(t)
         \/ EndEmptyArray(t)
         \/ ReadSeparator(t)
         \/ Recover(t)
         \/ ParseEnd(t)
  PROVE  BehindInv'
<1>1. TextTypes /\ Take(t) /\ pc \in ReaderPlaces /\ (pc' \in Reading => pc \in Reading)
  BY StepPlaces DEF PolicyInv
<1> SUFFICES ASSUME ~Free', ~text'.cut, IsBehind' \/ (text'.past /\ pc' \in Reading)
             PROVE  Lost(TextTokens')
  BY DEF BehindInv
<1>2. ~Free /\ GivenTakes(t)
  BY <1>1, FreeTakes, GivenTaken
<1>3. TextTokens' = TextTokens /\ ~text.cut
  BY <1>2 DEF GivenTakes, Stood
<1>4. CASE IsBehind \/ (text.past /\ pc \in Reading)
  BY <1>2, <1>3, <1>4 DEF BehindInv
<1>5. CASE ~IsBehind /\ ~(text.past /\ pc \in Reading)
  <2>1. AtEnd /\ t = EOS /\ pc \in Reading
    BY <1>1, <1>2, <1>5 DEF GivenTakes, Stood, Using, ReaderPlaces
  <2>2. Whole /\ Starts(TextTokens)
    BY <1>2, <1>3, <1>5 DEF Whole, Starts
  <2>3. Reaches(TextTokens, Position, At(pc, nodes)) \/ Ended(TextTokens)
    BY <2>1, <2>2 DEF PathInv
  <2>4. Position = Len(TextTokens)
    BY <1>2, <1>3, <2>1 DEF AtEnd, Position
  <2>5. At(pc, nodes).pc # "after"
    BY <2>1 DEF At, Reading, InContainer
  <2> QED BY <1>3, <2>3, <2>4, <2>5 DEF Reaches, Lost, Ended
<1> QED BY <1>4, <1>5

LEMMA BehindStep == PolicyInv /\ PathInv /\ BehindInv /\ [Next]_vars => BehindInv'
<1> SUFFICES ASSUME PolicyInv, PathInv, BehindInv, [Next]_vars PROVE BehindInv'
  OBVIOUS
<1>1. CASE \E of \in 0 .. Len(Texts) : Reset(of)
  <2>1. text'.behind = Nowhere /\ text'.past = FALSE
    BY <1>1 DEF Reset, ParseBegin
  <2> QED BY <2>1 DEF BehindInv, IsBehind
<1>2. ASSUME UNCHANGED text, pc' \in Reading => pc' = pc PROVE BehindInv'
  BY <1>2 DEF BehindInv, Free, IsBehind, TextTokens
<1>3. CASE ReaderStep
  <2>1. CASE StackExceeded
    BY <1>2, <2>1 DEF StackExceeded, Reading, InContainer
  <2> QED BY <1>3, <2>1, BehindToken DEF ReaderStep
<1>4. CASE GetOutJson
  BY <1>2, <1>4 DEF GetOutJson, Reading, InContainer
<1>5. CASE CookSenddata
  BY <1>2, <1>5 DEF CookSenddata, Reading, InContainer
<1>6. CASE UNCHANGED vars
  BY <1>2, <1>6 DEF vars, readerVars
<1> QED BY <1>1, <1>3, <1>4, <1>5, <1>6 DEF Next

LEMMA PathInvariant == Spec => [](PolicyInv /\ GrammarInv /\ PathInv /\ BehindInv)
<1>1. Init => PolicyInv /\ GrammarInv /\ PathInv /\ BehindInv
  BY PolicyInit DEF Init, GrammarInv, PathInv, BehindInv, Free, Reading, InContainer
<1>2. PolicyInv /\ GrammarInv /\ PathInv /\ BehindInv /\ [Next]_vars
        => (PolicyInv /\ GrammarInv /\ PathInv /\ BehindInv)'
  BY PolicyStep, GrammarStep, PathInvStep, BehindStep
<1> QED BY <1>1, <1>2, PTL DEF Spec
-----------------------------------------------------------------------------
(* Reader::readValue, readObject and readArray, with all they allow besides
   JSON: parse accepts just the rows of tokens of the reference grammar, of
   any length and nested to any depth the limit allows, and the value it makes
   of one is the only one that the grammar gives; a text that it does not
   accept has one error.  The end of the text is a token of the row, and so is
   what the reader goes on to behind it when a comment made the end pass for
   a separator. *)
THEOREM ReadsGrammarCorrect == Spec => []ReadsGrammar
<1>1. PolicyInv /\ GrammarInv /\ PathInv => ReadsGrammar
  <2> SUFFICES ASSUME PolicyInv, GrammarInv, PathInv PROVE ReadsGrammar
    OBVIOUS
  <2>1. OneError
    BY DEF PolicyInv, ErrorsCounted, OneError
  <2>2. ASSUME pc = "read", Free
        PROVE  Meanings(SubSeq(got, 1, Len(got) - 1)) = IF successful THEN {root} ELSE {}
    <3> DEFINE T == Tokens \cup {EOS}
               n == Len(got) - 1
               s == SubSeq(got, 1, n)
    <3>1. got \in Seq(T)
      BY DEF PolicyInv, TextTypes
    <3> HIDE DEF T
    <3>2. Len(got) \in Nat
      BY <3>1
    <3>3. Len(got) # 0
      <4>1. Begins(<<>>, Len(got) - 1) \/ Len(got) # 0
        BY DEF Begins
      <4>2. Passed(<<>>) => Len(got) # 0
        BY <2>2 DEF PathInv, Whole
      <4> QED BY <2>2, <4>1, <4>2 DEF Passed
    <3>4. n \in Nat /\ n <= Len(got)
      BY <3>2, <3>3
    <3>5. Len(s) = n /\ \A i \in 1 .. n : s[i] = got[i]
      <4> HIDE DEF n
      <4> QED BY <3>1, <3>2, <3>4
    <3> HIDE DEF s
    <3>6. Begins(s, n)
      <4> HIDE DEF n
      <4> QED BY <3>4, <3>5 DEF Begins
    <3>7. Parsed = n /\ Passed(s)
      BY <2>2, <3>6 DEF Parsed, Passed
    <3> HIDE DEF n
    <3>8. \/ successful /\ Reaches(s, Len(s), Gave(<<>>, root))
          \/ ~successful /\ Lost(s)
      BY <2>2, <3>5, <3>7 DEF PathInv, Whole
    <3>9. CASE ~successful
      <4>1. Meanings(s) = {}
        BY <3>4, <3>5, <3>8, <3>9, LostMeansNothing
      <4> QED BY <3>9, <4>1 DEF s, n
    <3>10. CASE successful
      <4>1. root \in Meanings(s)
        <5>1. Told(s, n)
          BY <2>2, <3>6, <3>10 DEF GrammarInv, n
        <5>2. PICK m \in 0 .. n : root \in Row(s, "value", 1, m) /\ \A i \in m + 1 .. n : IsComment(s[i])
          BY <5>1 DEF Told
        <5> QED BY <3>5, <5>2 DEF Meanings, Row
      <4>2. \A v \in Meanings(s) : v = root
        BY <3>4, <3>5, <3>8, <3>10, OneMeaning
      <4>3. Meanings(s) = {root}
        BY <4>1, <4>2
      <4> QED BY <3>10, <4>3 DEF s, n
    <3> QED BY <3>9, <3>10
  <2> QED BY <2>1, <2>2 DEF ReadsGrammar
<1> QED BY <1>1, PathInvariant, PTL

(* policy_entity::parse_in_json and the reader that all commands share: a text
   that was made of a value and that arrives whole is accepted and gives that
   value again, whatever the texts before it left in the reader and in the
   document's memory behind it. *)
THEOREM WholeTextReadCorrect == Spec => []WholeTextRead
<1>1. PolicyInv /\ PathInv /\ BehindInv => WholeTextRead
  <2> SUFFICES ASSUME PolicyInv, PathInv, BehindInv, pc = "read", ~Free, ~text.cut
               PROVE  successful /\ root = Texts[text.of].means
    BY DEF WholeTextRead
  <2> DEFINE s == TextTokens
             v == Texts[text.of].means
  <2>1. text.of \in DOMAIN Texts /\ s = Texts[text.of].tokens /\ Len(s) \in Nat
    <3>1. text.of \in 1 .. Len(Texts)
      BY TextsAre DEF PolicyInv, TextTypes, Free
    <3> QED BY <3>1, TextsAre DEF TextTokens
  <2>2. v \in Meanings(s)
    BY <2>1, WrittenAssumption
  <2>3. \/ successful /\ Reaches(s, Len(s), Gave(<<>>, root))
        \/ Lost(s)
    BY DEF PathInv, BehindInv, Whole, Passed, Parsed
  <2> HIDE DEF s, v
  <2>4. ~Lost(s)
    BY <2>1, <2>2, LostMeansNothing
  <2>5. successful /\ root = v
    BY <2>1, <2>2, <2>3, <2>4, OneMeaning
  <2> QED BY <2>5 DEF v
<1> QED BY <1>1, PathInvariant, PTL
=============================================================================
