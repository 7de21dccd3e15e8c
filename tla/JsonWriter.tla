----------------------------- MODULE JsonWriter -----------------------------
(***************************************************************************)
(* Json::FastWriter::write: the tokens of a value's text.  A string is     *)
(* one token (its characters are in JsonString).  A number that is an      *)
(* unsigned one in memory is written like any other, and is read again     *)
(* with the type that fits.                                                *)
(***************************************************************************)
EXTENDS JsonReader

CONSTANT NameOrder   (* the member names in the order of the map's keys     *)

(* getMemberNames, in the order of CZString's operator<.                    *)
MemberNames(v) == SelectSeq(NameOrder, LAMBDA n : n \in DOMAIN v.mem)

(* The type that decodeNumber gives a number that is not negative.          *)
Decoded(n) == IF n <= MaxInt THEN IntV(n) ELSE UIntV(n)

(* Items, each a sequence of tokens, with a comma between two of them. *)
Separated(items) ==
  LET joined[i \in 0 .. Len(items)] ==
        IF i = 0 THEN <<>>
        ELSE IF i = 1 THEN items[1]
        ELSE joined[i - 1] \o <<Punct(",")>> \o items[i]
  IN  joined[Len(items)]

RECURSIVE WriteValue(_)

(* The text of an object whose members come in the given order; clients
   write them in any. *)
ObjectText(v, names) ==
  <<Punct("{")>>
    \o Separated([i \in 1 .. Len(names) |->
                    <<Quoted(names[i]), Punct(":")>> \o WriteValue(Get(v, names[i]))])
    \o <<Punct("}")>>

ArrayText(v) ==
  <<Punct("[")>> \o Separated([i \in 1 .. Size(v) |-> WriteValue(v.el[i])]) \o <<Punct("]")>>

WriteValue(v) ==
  CASE v.type = "array"  -> ArrayText(v)
    [] v.type = "object" -> ObjectText(v, MemberNames(v))
    [] v.type = "string" -> <<Quoted(v.str)>>
    [] v.type = "uint"   -> <<Literal(Decoded(v.uint))>>
    [] OTHER             -> <<Literal(v)>>

Write(v) == WriteValue(v)
=============================================================================
