------------------------------- MODULE Texts -------------------------------
(***************************************************************************)
(* The functions between characters and values, each against a reference   *)
(* definition, on every text up to a length: numbers and strings of a JSON *)
(* text, its tokens, the body of a command, and the keys of a connection   *)
(* cache.  A text grows by one character in each step.                     *)
(***************************************************************************)
EXTENDS JsonNumber, JsonString, JsonLexer, Url, IoKey

CONSTANTS
  Alphabet,     (* for each kind of text, its characters                    *)
  Longest       (* bound on the length of a text of each kind               *)

(* What the characters of a number, of a key, of a body and of a string are,
   and the units of UTF-16 in escapes; and the character that stands for the
   end of a text is in no text of tokens. *)
Characters ==
  /\ Alphabet["number"] \subseteq 0 .. 9
  /\ Alphabet["key"] \subseteq Int
  /\ Alphabet["body"] \subseteq 0 .. 255
  /\ Alphabet["string"] \subseteq 0 .. 255
  /\ Alphabet["unicode"] \subseteq 0 .. 65535
  /\ \A k \in {"digits", "comment", "word"} : "0x00" \notin Alphabet[k]

ASSUME AlphabetAssumption == Characters

VARIABLES sort, chars

NoText == sort \in DOMAIN Alphabet /\ chars = <<>>

Extend ==
  /\ Len(chars) < Longest[sort]
  /\ \E c \in Alphabet[sort] : chars' = Append(chars, c)
  /\ UNCHANGED sort

TextsSpec == NoText /\ [][Extend]_<<sort, chars>>
-----------------------------------------------------------------------------
(* The texts of numbers: without '-' there is a digit. *)
NumberTexts ==
  {t \in [minus : BOOLEAN, digits : {chars}, rest : {"", ".5", "e1", "e"}] :
     t.minus \/ t.digits # <<>>}

(* A number that is a port, a ratio, an in_path or a count of threads: an
   integer is used as it was written, a fraction as one of the two integers
   next to it, or the number is refused, never another one used.  From the
   text through decodeNumber, with its limits of LargestInt or LargestUInt
   or the way through a double, to asInt; and every number between the
   limits of Int is used. *)
NumberExactOrRefused ==
  sort = "number" =>
    \A t \in NumberTexts :
      LET read == DecodeNumber(t)
          n    == WrittenNumber(t)
      IN  /\ read.ok /\ ~AsIntThrows(read.value) =>
               2 * AsInt(read.value) \in IF t.rest = ".5" THEN {n - 1, n + 1} ELSE {n}
          /\ RightNumber(t) /\ n \in 2 * MinInt .. 2 * MaxInt =>
               read.ok /\ ~AsIntThrows(read.value)

(* Every integer that a Value can hold has a text that is read as the same
   Value again (valueToString, uintToString, decodeNumber), the smallest
   LargestInt too. *)
NumberReadsBack ==
  sort = "number" =>
    \A t \in NumberTexts :
      LET read == DecodeNumber(t)
          text == ValueToString(read.value)
      IN  read.ok /\ read.value.type # "real" =>
            text.digits # <<>> /\ DecodeNumber(text) = read

(* What a Value says of itself beforehand is what its conversions do then:
   isConvertibleTo tells whether asInt, asUInt, asBool or asString throws,
   and that it may stand for null whether they give 0; and FastWriter, which
   asks a number that isInt64 or isUInt64 for asLargestInt or asLargestUInt,
   gets it.  From the lower limit of LargestInt on they are true of just the
   integers within their limits, although the upper limits are no doubles;
   the value is then the number written.  (A number just below the lower
   limit may become that limit as a double, and is an Int64 then.) *)
OtherValues ==
  {Null, BoolV(TRUE), BoolV(FALSE), StrV(""), StrV("a"), ArrV(<<>>), ArrV(<<Null>>),
   ObjV(NoMembers), ObjV([n \in {"a"} |-> Null])}

ConvertsAsAsked(v) ==
  /\ ConvertibleToInt(v)  <=> ~AsIntThrows(v)
  /\ ConvertibleToUInt(v) <=> ~AsUIntThrows(v)
  /\ ConvertibleToBool(v) <=> ~AsBoolThrows(v)
  /\ ConvertibleToString(v) <=> ~AsStringThrows(v)
  /\ ~AsIntThrows(v) /\ ConvertibleToNull(v) => AsInt(v) = 0
  /\ ~AsBoolThrows(v) => (AsBool(v) <=> ~ConvertibleToNull(v))
  /\ IsInt(v)   => IsInt64(v) /\ ~AsIntThrows(v)
  /\ IsUInt(v)  => IsUInt64(v) /\ ~AsUIntThrows(v)
  /\ IsInt64(v)  => ~AsInt64Throws(v)
  /\ IsUInt64(v) => ~AsUInt64Throws(v)

ConvertibleAsAsked ==
  sort = "number" =>
    /\ \A v \in OtherValues : ConvertsAsAsked(v)
    /\ \A t \in NumberTexts :
         LET read == DecodeNumber(t)
             v    == read.value
             n    == WrittenNumber(t) \div 2
         IN  /\ ConvertsAsAsked(v)
             /\ t.rest = "" /\ read.ok /\ n >= MinLargestInt =>
                  /\ IsInt64(v)    <=> n <= MaxLargestInt
                  /\ IsUInt64(v)   <=> n \in 0 .. MaxLargestUInt
                  /\ IsIntegral(v) <=> n <= MaxLargestUInt
                  /\ IsIntegral(v) => v \in {IntV(n), UIntV(n)}

(* Together: what a number of a command becomes on its way, at both ends of
   every integer type. *)
NumbersKept == NumberExactOrRefused /\ NumberReadsBack /\ ConvertibleAsAsked

(* A string that FastWriter writes ends for the reader where it ended for
   the writer, whatever follows, and is the same string again. *)
QuotedReadsBack ==
  sort = "string" =>
    LET quoted == QuotedString(chars)
        read   == ReadString(Tail(quoted) \o <<Quote, Backslash>>)
    IN  /\ read = [ok |-> TRUE, end |-> Len(quoted) - 1]
        /\ DecodeString(SubSeq(quoted, 2, Len(quoted) - 1)) = [ok |-> TRUE, str |-> chars]

(* A string token ends at its first quote with an even number of
   backslashes before it, and is an error without one (readString). *)
StringEndsAtQuote ==
  sort = "string" =>
    LET Slashes(i) == Cardinality({j \in 1 .. i - 1 :
                                     \A k \in j .. i - 1 : chars[k] = Backslash})
        ends == {i \in 1 .. Len(chars) : chars[i] = Quote /\ Slashes(i) % 2 = 0}
        read == ReadString(chars)
    IN  /\ read.ok <=> ends # {}
        /\ read.ok => read.end = Min(ends)

(* A sequence of escapes \uXXXX that is right UTF-16, of surrogate pairs too,
   becomes the UTF-8 of the same characters (decodeUnicodeCodePoint,
   codePointToUTF8). *)
High(u) == u \in 55296 .. 56319
Low(u)  == u \in 56320 .. 57343

RightUTF16(units) ==
  \A i \in 1 .. Len(units) :
    /\ High(units[i]) => i < Len(units) /\ Low(units[i + 1])
    /\ Low(units[i])  => i > 1 /\ High(units[i - 1])

BytesOf(lead) == IF lead < 128 THEN 1 ELSE IF lead < 224 THEN 2 ELSE IF lead < 240 THEN 3 ELSE 4

UnitsOf(bytes) ==
  LET b(i) == bytes[i] % 64
      Point(i) == CASE BytesOf(bytes[i]) = 1 -> bytes[i]
                    [] BytesOf(bytes[i]) = 2 -> 64 * (bytes[i] - 192) + b(i + 1)
                    [] BytesOf(bytes[i]) = 3 -> 64 * (64 * (bytes[i] - 224) + b(i + 1)) + b(i + 2)
                    [] OTHER -> 64 * (64 * (64 * (bytes[i] - 240) + b(i + 1)) + b(i + 2)) + b(i + 3)
      Units(cp) == IF cp < 65536 THEN <<cp>>
                   ELSE <<55296 + ((cp - 65536) \div 1024), 56320 + ((cp - 65536) % 1024)>>
      from[i \in 1 .. Len(bytes) + 4] ==
        IF i > Len(bytes) THEN <<>> ELSE Units(Point(i)) \o from[i + BytesOf(bytes[i])]
  IN  from[1]

UnicodeIsUTF8 ==
  sort = "unicode" /\ RightUTF16(chars) =>
    LET decoded == DecodeString(FlattenSeq([i \in 1 .. Len(chars) |-> UnicodeEscape(chars[i])]))
        Shortest(u) == IF u < 128 THEN 1 ELSE IF u < 2048 THEN 2
                       ELSE IF High(u) \/ Low(u) THEN 2 ELSE 3
        length[i \in 0 .. Len(chars)] == IF i = 0 THEN 0 ELSE length[i - 1] + Shortest(chars[i])
    IN  /\ decoded.ok
        /\ UnitsOf(decoded.str) = chars
        /\ Len(decoded.str) = length[Len(chars)]

(* Together: a string is the same one for the writer, the reader and the
   client, with quotes, backslashes and any character. *)
StringsKept == QuotedReadsBack /\ StringEndsAtQuote /\ UnicodeIsUTF8

(* Three kinds of text are for the tokens: with numbers, comments, words.   *)
Lexical == sort \in {"digits", "comment", "word"}

(* A number token is the longest beginning of the text that looks like a
   number: digits, a fraction, an exponent (readNumber). *)
LooksLikeNumber(s) ==
  LET Row(i, j) == \A k \in i .. j : s[k] \in Digits
      Fraction(i, j) == i > j \/ (s[i] = "." /\ Row(i + 1, j))
      Exponent(i, j) ==
        \/ i > j
        \/ s[i] = "e" /\ (Row(i + 1, j) \/ (i < j /\ s[i + 1] \in {"+", "-"} /\ Row(i + 2, j)))
  IN  \E i \in 1 .. Len(s), j \in 1 .. Len(s) :
        i <= j /\ Row(2, i) /\ Fraction(i + 1, j) /\ Exponent(j + 1, Len(s))

LongestNumber ==
  Lexical /\ chars # <<>> /\ chars[1] \in Digits \cup {"-"} =>
    ReadToken(chars, 0).end = Max({n \in 1 .. Len(chars) : LooksLikeNumber(SubSeq(chars, 1, n))})

(* A comment ends with the first end of a comment behind its beginning.
   Without one it is an error, unless a slash happens to end the text
   (readCStyleComment). *)
CommentCloses ==
  Lexical /\ Len(chars) >= 2 /\ chars[1] = "/" /\ chars[2] = "*" =>
    LET ends  == {e \in 4 .. Len(chars) : chars[e - 1] = "*" /\ chars[e] = "/"}
        token == ReadToken(chars, 0)
    IN  IF ends # {} THEN token.type = "comment" /\ token.end = Min(ends)
        ELSE /\ token.end = Len(chars)
             /\ token.type = "comment" <=> Len(chars) > 2 /\ chars[Len(chars)] = "/"

(* Tokens follow each other with nothing but blanks between them until the
   text has ended, so that recoverFromError stops; and a text that is cut has
   the tokens of the whole text up to the one that is cut. *)
CutKeepsTokens ==
  Lexical =>
    LET tokens == TokensFrom(chars, 0)
        End(i) == IF i = 0 THEN 0 ELSE tokens[i].end
    IN  /\ tokens[Len(chars) + 1].type = "eos"
        /\ \A i \in 1 .. Len(chars) + 1 :
             /\ tokens[i].type = "eos" \/ tokens[i].end > End(i - 1)
             /\ \A p \in End(i - 1) .. tokens[i].start - 1 : CharAt(chars, p) \in Blanks
        /\ chars # <<>> =>
             LET cut == TokensFrom(Front(chars), 0)
             IN  \A i \in 1 .. Len(chars) :
                   tokens[i].end < Len(chars) => cut[i] = tokens[i]

(* Together: a text falls into its tokens, whole or cut. *)
TokensKept == LongestNumber /\ CommentCloses /\ CutKeepsTokens

(* The value that a client encodes into a body comes out of it whole and
   unchanged, whatever is in it and whatever field is before it
   (url_encode, parse_body, url_decode). *)
BodyGivesValueBack ==
  sort = "body" =>
    LET data == <<100>>
        body == <<97, Equals>> \o UrlEncode(<<Equals, Amp>>) \o <<Amp>>
                  \o data \o <<Equals>> \o UrlEncode(chars)
    IN  {UrlDecode(f.value) : f \in {g \in BodyMap(body) : g.key = data}} = {chars}

(* Two backends share a connection cache's entry just when their ports are
   equal and one address begins like the other; on addresses of which none
   is the beginning of another Io_Comp is a strict order, as map needs. *)
Alike(a, b) == IsPrefix(a, b) \/ IsPrefix(b, a)

BackendOrder(ips) ==
  LET keys == [ip : ips, port : {1, 2}]
  IN  \A x \in [ip : {chars}, port : {1, 2}], y \in keys :
        /\ ~Comp(x, y) /\ ~Comp(y, x) <=> x.port = y.port /\ Alike(x.ip, y.ip)
        /\ ~(Comp(x, y) /\ Comp(y, x))
        /\ \A z \in keys :
             /\ Alike(x.ip, y.ip) => x.ip = y.ip
             /\ Alike(y.ip, z.ip) => y.ip = z.ip
             /\ Alike(x.ip, z.ip) => x.ip = z.ip
             /\ Comp(x, y) /\ Comp(y, z)
             => Comp(x, z)

(* The order of the names of an object is a strict order of all of them: two
   names that begin alike are two members (CZString). *)
NamesOrder(names) ==
  \A x, y \in names :
    /\ NameEqual(x, y) <=> x = y
    /\ Cardinality({b \in {1, 2, 3} : \/ b = 1 /\ NameLess(x, y)
                                      \/ b = 2 /\ NameEqual(x, y)
                                      \/ b = 3 /\ NameLess(y, x)}) = 1
    /\ NameLess(chars, x) /\ NameLess(x, y) => NameLess(chars, y)

(* Together: the orders of the two kinds of maps, one of addresses and one
   of names; only the second one keeps all keys apart. *)
KeyOrder ==
  sort = "key" =>
    LET short == BoundedSeq(Alphabet["key"], 2)
    IN  BackendOrder(short) /\ NamesOrder(short \cup {chars})
=============================================================================
