---------------------------- MODULE JsonGrammar ----------------------------
(***************************************************************************)
(* A reference definition for JsonReader: which rows of tokens are values, *)
(* and which value each is.  It is JSON with what this reader allows       *)
(* besides:                                                                *)
(*   - comments before a value, a member or a separator, but not between a *)
(*     name and its colon, and not alone in an array;                      *)
(*   - a comma behind a member whose name is empty may close the object;   *)
(*   - behind a comment that follows a member, any token is a separator,   *)
(*     the end of the text too, behind which the reader goes on.           *)
(*                                                                         *)
(* Each of the four definitions says what the tokens i to j of s are, when *)
(* g says it of every shorter row.                                         *)
(***************************************************************************)
EXTENDS JsonReader

IsComment(t) == t.k = "comment"

(* The values. *)
ValuesOf(s, g, i, j) ==
  IF i > j THEN {}
  ELSE IF IsComment(s[i]) THEN g[<<"value", i + 1, j>>]
  ELSE IF i = j THEN (IF s[i].k \in {"literal", "string"} THEN {s[i].val} ELSE {})
  ELSE IF s[i].k = "[" /\ s[j].k = "]"
    THEN {ArrV(els) : els \in g[<<"elements", i + 1, j - 1>>]}
           \cup (IF j = i + 1 THEN {ArrV(<<>>)} ELSE {})
  ELSE IF s[i].k = "{" /\ s[j].k = "}"
    THEN {ObjV(m.mem) : m \in g[<<"members", i + 1, j - 1>>]
                          \cup {b \in g[<<"before", i + 1, j - 1>>] : b.last = ""}}
  ELSE {}

(* The lists of elements of an array, with comments behind them. *)
Lengthened(lists, values) == {Append(els, v) : els \in lists, v \in values}

ElementsOf(s, g, i, j) ==
  {<<v>> : v \in g[<<"value", i, j>>]}
    \cup (IF i <= j /\ IsComment(s[j]) THEN g[<<"elements", i, j - 1>>] ELSE {})
    \cup UNION {Lengthened(g[<<"elements", i, k - 1>>], g[<<"value", k + 1, j>>])
                : k \in {c \in i .. j : s[c].k = ","}}

(* The maps that members add up to, with comments behind them, and the name
   of the last member. *)
Enlarged(befores, name, values) ==
  {[mem |-> WithMember(ObjV(b.mem), name, v).mem, last |-> name] : b \in befores, v \in values}

MembersOf(s, g, i, j) ==
  (IF i <= j /\ IsComment(s[j]) THEN g[<<"members", i, j - 1>>] ELSE {})
    \cup UNION {Enlarged(g[<<"before", i, k - 1>>], s[k].val.str, g[<<"value", k + 2, j>>])
                : k \in {c \in i .. j - 2 : s[c].k = "string" /\ s[c + 1].k = ":"}}

(* The same of what may stand before a member: nothing, or members and a
   separator, and comments. *)
BeforesOf(s, g, i, j) ==
  IF i > j THEN {[mem |-> NoMembers, last |-> ""]}
  ELSE IF IsComment(s[j]) THEN g[<<"before", i, j - 1>>]
  ELSE IF s[j].k = "," \/ (s[j].k # "}" /\ i < j /\ IsComment(s[j - 1]))
    THEN g[<<"members", i, j - 1>>]
  ELSE {}

Rows(s) ==
  {"value", "elements", "members", "before"} \X (1 .. Len(s) + 1) \X (0 .. Len(s))

OfRow(s, g, p) ==
  CASE p[1] = "value"    -> ValuesOf(s, g, p[2], p[3])
    [] p[1] = "elements" -> ElementsOf(s, g, p[2], p[3])
    [] p[1] = "members"  -> MembersOf(s, g, p[2], p[3])
    [] p[1] = "before"   -> BeforesOf(s, g, p[2], p[3])

Grammar(s) == LET g[p \in Rows(s)] == OfRow(s, g, p) IN g

(* The values of a whole text, with comments behind it. *)
Meanings(s) ==
  UNION {Grammar(s)[<<"value", 1, j>>] :
           j \in {n \in 0 .. Len(s) : \A i \in n + 1 .. Len(s) : IsComment(s[i])}}

(* The texts that are given mean what they were made of. *)
ASSUME WrittenAssumption ==
  \A o \in DOMAIN Texts : Texts[o].means \in Meanings(Texts[o].tokens)
-----------------------------------------------------------------------------
(* parse accepts the texts of the grammar and no others, and the value it
   makes of one is the only one the grammar gives (Reader::readValue,
   readObject, readArray; behind the root value one token has been read).  The
   text here is the row of tokens that was read: the end of the text is one
   of them, and behind a comment more of them may follow it.  A text that it
   does not accept has one error. *)
ReadsGrammar ==
  /\ pc = "read" /\ Free =>
       Meanings(SubSeq(got, 1, Len(got) - 1)) = IF successful THEN {root} ELSE {}
  /\ OneError
=============================================================================
