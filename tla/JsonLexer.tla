----------------------------- MODULE JsonLexer -----------------------------
(***************************************************************************)
(* Reader::readToken and what it calls: how characters make tokens.  A     *)
(* text is a sequence of characters; a position is how many of them have   *)
(* been read (current_ - begin_).  A token is [type, start, end].          *)
(* Only tokens of one kind of string are told apart: JsonString has them.  *)
(***************************************************************************)
EXTENDS Integers, Sequences, FiniteSetsExt

Digits == {"0", "9"}
Blanks == {" ", "\n", "\r"}

(* Character p of a text, counted from 0 as in the code; behind the end    *)
(* getNextChar gives 0.                                                    *)
CharAt(s, p) == IF p < Len(s) THEN s[p + 1] ELSE "0x00"

(* The first position from p on whose character is not in set.             *)
Behind(s, p, set) == Min({q \in p .. Len(s) : CharAt(s, q) \notin set})

(* The position behind the next character. *)
Next1(s, p) == IF p < Len(s) THEN p + 1 ELSE p

ReadNumber(s, p) ==
  LET whole == Behind(s, p, Digits)
      point == IF CharAt(s, whole) = "." THEN Behind(s, whole + 1, Digits) ELSE whole
      sign  == IF CharAt(s, point + 1) \in {"+", "-"} THEN point + 2 ELSE point + 1
  IN  IF CharAt(s, point) = "e" THEN Behind(s, sign, Digits) ELSE point

(* readCStyleComment, behind the opening: characters are read while two are
   left; then one more, which must be a slash. *)
ReadCStyle(s, p) ==
  LET closed == {q \in p .. Len(s) - 2 : CharAt(s, q) = "*" /\ CharAt(s, q + 1) = "/"}
      stop   == IF closed # {} THEN Min(closed) + 1
                ELSE IF p < Len(s) THEN Len(s) - 1 ELSE p
  IN  [ok |-> CharAt(s, stop) = "/", end |-> Next1(s, stop)]

(* readCppStyleComment: up to and with the end of the line. *)
ReadCppStyle(s, p) ==
  LET q == Behind(s, p, {CharAt(s, i) : i \in 0 .. Len(s) - 1} \ {"\n", "\r"})
  IN  IF CharAt(s, q) = "\r" /\ CharAt(s, q + 1) = "\n" THEN q + 2 ELSE Next1(s, q)

ReadComment(s, p) ==
  CASE CharAt(s, p) = "*" -> ReadCStyle(s, p + 1)
    [] CharAt(s, p) = "/" -> [ok |-> TRUE, end |-> ReadCppStyle(s, p + 1)]
    [] OTHER -> [ok |-> FALSE, end |-> Next1(s, p)]

(* match: the rest of true, false or null; nothing is read if it differs. *)
Match(s, p, pattern) ==
  LET same == /\ Len(s) - p >= Len(pattern)
              /\ \A i \in 1 .. Len(pattern) : CharAt(s, p + i - 1) = pattern[i]
  IN  [ok |-> same, end |-> IF same THEN p + Len(pattern) ELSE p]

Punctuation == {"{", "}", "[", "]", ",", ":"}

(* readToken. *)
(* Mutant: the minus sign is left for readNumber to read.                  *)
ReadTokenKeepsMinus(s, p) ==
  LET start == Behind(s, p, Blanks)
      c     == CharAt(s, start)
      next  == Next1(s, start)
      Token(type, r) == [type |-> IF r.ok THEN type ELSE "error", start |-> start, end |-> r.end]
  IN  CASE c \in Punctuation -> Token(c, [ok |-> TRUE, end |-> next])
        [] c \in Digits \cup {"-"} -> Token("number", [ok |-> TRUE, end |-> ReadNumber(s, start)])
        [] c = "/" -> Token("comment", ReadComment(s, next))
        [] c = "n" -> Token("null", Match(s, next, <<"u", "l", "l">>))
        [] c = "0x00" -> Token("eos", [ok |-> TRUE, end |-> next])
        [] OTHER -> Token("error", [ok |-> FALSE, end |-> next])

ReadToken(s, p) ==
  LET start == Behind(s, p, Blanks)
      c     == CharAt(s, start)
      next  == Next1(s, start)
      Token(type, r) == [type |-> IF r.ok THEN type ELSE "error", start |-> start, end |-> r.end]
  IN  CASE c \in Punctuation -> Token(c, [ok |-> TRUE, end |-> next])
        [] c \in Digits \cup {"-"} -> Token("number", [ok |-> TRUE, end |-> ReadNumber(s, next)])
        [] c = "/" -> Token("comment", ReadComment(s, next))
        [] c = "n" -> Token("null", Match(s, next, <<"u", "l", "l">>))
        [] c = "0x00" -> Token("eos", [ok |-> TRUE, end |-> next])
        [] OTHER -> Token("error", [ok |-> FALSE, end |-> next])

(* The tokens that one call of readToken after another gives, from p on, up
   to the end of the text: what recoverFromError reads. *)
TokensFrom(s, p) ==
  LET token[i \in 1 .. Len(s) + 1] ==
        ReadToken(s, IF i = 1 THEN p ELSE token[i - 1].end)
  IN  token
=============================================================================
