----------------------------- MODULE JsonString -----------------------------
(***************************************************************************)
(* Strings between text and value: valueToQuotedStringN of the writer,     *)
(* Reader::readString and decodeString, and codePointToUTF8.  Characters   *)
(* are bytes, 0 .. 255; a text is a sequence of them.                      *)
(***************************************************************************)
EXTENDS Integers, Sequences, SequencesExt

Quote     == 34
Backslash == 92
LetterU   == 117

(* The characters with an escape of one letter, and the letter. *)
Letters == {<<34, 34>>, <<92, 92>>, <<8, 98>>, <<12, 102>>, <<10, 110>>, <<13, 114>>, <<9, 116>>}
HasLetter(c) == \E e \in Letters : e[1] = c
LetterOf(c)  == CHOOSE x \in 0 .. 255 : <<c, x>> \in Letters

HexDigit(d) == IF d < 10 THEN 48 + d ELSE 65 + d - 10

Hex4(n) ==
  <<HexDigit((n \div 4096) % 16), HexDigit((n \div 256) % 16), HexDigit((n \div 16) % 16), HexDigit(n % 16)>>

UnicodeEscape(n) == <<Backslash, LetterU>> \o Hex4(n)

\* Mutant: a backslash is written as it is.
EscapeKeepsBackslash(c) ==
  IF HasLetter(c) /\ c # Backslash THEN <<Backslash, LetterOf(c)>>
  ELSE IF c <= 31 THEN UnicodeEscape(c)
  ELSE <<c>>

Escape(c) ==
  IF HasLetter(c) THEN <<Backslash, LetterOf(c)>>
  ELSE IF c <= 31 THEN UnicodeEscape(c)
  ELSE <<c>>

(* CZString's operator< and operator==, the order of an object's names: as
   memcmp has it, and a shorter name before a longer one that begins alike. *)
Differ(a, b) == {i \in DOMAIN a \cap DOMAIN b : a[i] # b[i]}

NameLess(a, b) ==
  IF Differ(a, b) = {} THEN Len(a) < Len(b)
  ELSE \E i \in Differ(a, b) : a[i] < b[i] /\ \A j \in Differ(a, b) : i <= j

NameEqual(a, b) == Len(a) = Len(b) /\ Differ(a, b) = {}

(* valueToQuotedStringN.                                                   *)
QuotedString(s) ==
  <<Quote>> \o FlattenSeq([i \in 1 .. Len(s) |-> Escape(s[i])]) \o <<Quote>>

(* readString on the text after the opening quote: where the string ends,
   and whether a quote ends it.  A backslash takes the next character with
   it, whatever that is; at the end of the text there is none to take. *)
ReadString(s) ==
  LET read[i \in 0 .. Len(s)] ==
        IF i = Len(s) THEN [ok |-> FALSE, end |-> i]
        ELSE IF s[i + 1] = Backslash
          THEN IF i + 1 = Len(s) THEN [ok |-> FALSE, end |-> i + 1] ELSE read[i + 2]
        ELSE IF s[i + 1] = Quote THEN [ok |-> TRUE, end |-> i + 1]
        ELSE read[i + 1]
  IN  read[0]

Failed == [ok |-> FALSE, str |-> <<>>]

HexValue(c) ==
  CASE c \in 48 .. 57  -> c - 48
    [] c \in 97 .. 102 -> c - 97 + 10
    [] c \in 65 .. 70  -> c - 65 + 10
    [] OTHER -> -1

(* decodeUnicodeEscapeSequence: the four hexadecimal digits behind p, or -1. *)
HexAt(s, p) ==
  LET v(i) == HexValue(s[p + i])
  IN  IF Len(s) - p < 4 \/ \E i \in 1 .. 4 : v(i) = -1 THEN -1
      ELSE 16 * (16 * (16 * v(1) + v(2)) + v(3)) + v(4)

(* decodeUnicodeCodePoint: [code, end], the code -1 for an error.  The second
   half of a pair may be any sequence of four digits. *)
CodePointAt(s, p) ==
  LET first  == HexAt(s, p)
      second == IF Len(s) - (p + 4) >= 6 /\ s[p + 5] = Backslash /\ s[p + 6] = LetterU
                  THEN HexAt(s, p + 6) ELSE -1
  IN  IF first \notin 55296 .. 56319 THEN [code |-> first, end |-> p + 4]
      ELSE IF second = -1 THEN [code |-> -1, end |-> p + 4]
      ELSE [code |-> 65536 + 1024 * (first % 1024) + (second % 1024), end |-> p + 10]

(* codePointToUTF8. *)
Continuation(n) == 128 + (n % 64)

CodePointToUTF8(cp) ==
  IF cp <= 127 THEN <<cp>>
  ELSE IF cp <= 2047 THEN <<192 + ((cp \div 64) % 32), Continuation(cp)>>
  ELSE IF cp <= 65535
    THEN <<224 + ((cp \div 4096) % 16), Continuation(cp \div 64), Continuation(cp)>>
  ELSE <<240 + ((cp \div 262144) % 8), Continuation(cp \div 4096),
         Continuation(cp \div 64), Continuation(cp)>>

(* decodeString on what is between the quotes. *)
DecodeString(s) ==
  LET Put(c, rest) == [rest EXCEPT !.str = c \o @]
      decode[i \in 0 .. Len(s)] ==
        IF i = Len(s) THEN [ok |-> TRUE, str |-> <<>>]
        ELSE IF s[i + 1] # Backslash THEN Put(<<s[i + 1]>>, decode[i + 1])
        ELSE IF i + 1 = Len(s) THEN Failed
        ELSE LET letter == s[i + 2]
                 code   == CodePointAt(s, i + 2)
             IN  IF letter = LetterU
                   THEN IF code.code = -1 THEN Failed
                        ELSE Put(CodePointToUTF8(code.code), decode[code.end])
                 ELSE IF letter = 47 THEN Put(<<47>>, decode[i + 2])
                 ELSE IF \E e \in Letters : e[2] = letter
                   THEN Put(<<CHOOSE c \in 0 .. 255 : <<c, letter>> \in Letters>>, decode[i + 2])
                 ELSE Failed
  IN  decode[0]
=============================================================================
