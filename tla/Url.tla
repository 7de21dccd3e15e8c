-------------------------------- MODULE Url --------------------------------
(***************************************************************************)
(* url_encode and url_decode, and how parse_body takes a body apart before *)
(* a value is decoded (http.cpp).  Characters are bytes, 0 .. 255.         *)
(***************************************************************************)
EXTENDS Integers, Sequences, SequencesExt

Percent == 37
Plus    == 43
Space   == 32
Amp     == 38
Equals  == 61

Unreserved == (65 .. 90) \cup (97 .. 122) \cup (48 .. 57) \cup {45, 95, 46, 42}

Nibble(d) == IF d >= 10 THEN 65 + (d - 10) ELSE 48 + d

\* Mutant: what separates the fields of a body is not encoded.
UrlEncodeOneKeepsAmp(ch) ==
  IF ch = Space THEN <<Plus>>
  ELSE IF ch \in Unreserved \cup {Amp} THEN <<ch>>
  ELSE <<Percent, Nibble((ch \div 16) % 16), Nibble(ch % 16)>>

UrlEncodeOne(ch) ==
  IF ch = Space THEN <<Plus>>
  ELSE IF ch \in Unreserved THEN <<ch>>
  ELSE <<Percent, Nibble((ch \div 16) % 16), Nibble(ch % 16)>>

UrlEncode(s) == FlattenSeq([i \in 1 .. Len(s) |-> UrlEncodeOne(s[i])])

(* A character that is no hexadecimal digit counts as 0. *)
NibbleValue(c) ==
  CASE c \in 48 .. 57  -> c - 48
    [] c \in 97 .. 102 -> c - 97 + 10
    [] c \in 65 .. 70  -> c - 65 + 10
    [] OTHER -> 0

UrlDecodeOne(high, low) == 16 * NibbleValue(high) + NibbleValue(low)

(* A '%' with fewer than two characters behind it is dropped; they stay. *)
UrlDecode(s) ==
  LET decode[i \in 1 .. Len(s) + 1] ==
        IF i = Len(s) + 1 THEN <<>>
        ELSE IF s[i] = Percent
          THEN IF i + 2 <= Len(s)
                 THEN <<UrlDecodeOne(s[i + 1], s[i + 2])>> \o decode[i + 3]
                 ELSE decode[i + 1]
        ELSE <<IF s[i] = Plus THEN Space ELSE s[i]>> \o decode[i + 1]
  IN  decode[1]

(* The positions of c in s, and of its first one. *)
Where(s, c) == {i \in 1 .. Len(s) : s[i] = c}

(* parse_body: the fields of a body, between the '&'s, and each one's key and
   value, before and behind its first '='. *)
FieldsOf(s) ==
  LET ends == Where(s, Amp) \cup {0, Len(s) + 1}
      next == {p \in ends \X ends : p[1] < p[2] /\ \A i \in ends : ~(p[1] < i /\ i < p[2])}
  IN  {SubSeq(s, p[1] + 1, p[2] - 1) : p \in next}

KeyValue(field) ==
  LET at == CHOOSE i \in Where(field, Equals) : \A j \in Where(field, Equals) : i <= j
  IN  [key |-> SubSeq(field, 1, at - 1), value |-> SubSeq(field, at + 1, Len(field))]

BodyMap(s) == {KeyValue(f) : f \in {g \in FieldsOf(s) : Where(g, Equals) # {}}}
=============================================================================
