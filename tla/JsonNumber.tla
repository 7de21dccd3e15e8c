----------------------------- MODULE JsonNumber -----------------------------
(***************************************************************************)
(* Numbers between text and value: Reader::decodeNumber, and valueToString *)
(* of the writer.                                                          *)
(*                                                                         *)
(* The text of a number is a record: whether it begins with '-', its       *)
(* digits, and the rest, which is none or makes decodeNumber leave the     *)
(* number to decodeDouble: ".5" stands for any fraction, "e1" for an       *)
(* exponent, and "e" for what an input stream takes for no number although *)
(* readNumber does (an exponent without digits).                           *)
(***************************************************************************)
EXTENDS JsonValue, SequencesExt

CONSTANT
  Rounded          (* which double a number becomes, both in halves; a      *)
                   (* number outside its domain is too large for a double   *)

(* The limits have two digits at least. *)
ASSUME LimitAssumption == MaxLargestInt >= 9

(* What is used of doubles: they keep the order, hold every Int and UInt,
   and of the limits of LargestInt and LargestUInt only the lower one, the
   upper ones becoming the next number. *)
ASSUME DoubleAssumption ==
  /\ DOMAIN Rounded \subseteq Int
  /\ Rounded \in [DOMAIN Rounded -> Int]
  /\ \A g, h \in DOMAIN Rounded : g <= h => Rounded[g] <= Rounded[h]
  /\ -2 * MaxUInt .. 2 * MaxUInt \subseteq DOMAIN Rounded
  /\ \A n \in -MaxUInt .. MaxUInt : Rounded[2 * n] = 2 * n
  /\ \A n \in {MinLargestInt, MaxLargestInt + 1, MaxLargestUInt + 1} :
       2 * n \in DOMAIN Rounded /\ Rounded[2 * n] = 2 * n
  /\ \A n \in {MaxLargestInt, MaxLargestUInt} :
       2 * n \in DOMAIN Rounded /\ Rounded[2 * n] = 2 * (n + 1)

NumberText(minus, digits, rest) ==
  [minus |-> minus, digits |-> digits, rest |-> rest]

Sign(t) == IF t.minus THEN -1 ELSE 1

(* The number that a row of digits means; none means 0. *)
Decimal(digits) ==
  LET number[i \in 0 .. Len(digits)] ==
        IF i = 0 THEN 0 ELSE 10 * number[i - 1] + digits[i]
  IN  number[Len(digits)]

(* The number that a text means, in halves. *)
WrittenNumber(t) ==
  Sign(t) * CASE t.rest = "e1" -> 20 * Decimal(t.digits)
              [] t.rest = ".5" -> 2 * Decimal(t.digits) + 1
              [] OTHER         -> 2 * Decimal(t.digits)

(* Whether an input stream takes the text for a number. *)
RightNumber(t) == t.rest # "e" /\ (t.rest = "e1" => t.digits # <<>>)

(* decodeDouble: an input stream reads the text (the C++ library) into the
   double next to it, or fails, and the reader adds an error. *)
DecodeDouble(t) ==
  IF RightNumber(t) /\ WrittenNumber(t) \in DOMAIN Rounded
    THEN [ok |-> TRUE, value |-> RealV(Rounded[WrittenNumber(t)])]
    ELSE [ok |-> FALSE, value |-> Null]

MaxIntegerValue(t) == IF t.minus THEN MaxLargestInt + 1 ELSE MaxLargestUInt

\* Mutant: the limit's last digit is not looked at.
ExceedsByTen(t, value, i) ==
  LET threshold == MaxIntegerValue(t) \div 10
  IN  /\ value >= threshold
      /\ \/ value > threshold
         \/ i < Len(t.digits)

(* Whether one more digit makes value exceed the limit.  At the limit's
   first digits only the last digit of the text may still fit. *)
Exceeds(t, value, i) ==
  LET threshold == MaxIntegerValue(t) \div 10
  IN  /\ value >= threshold
      /\ \/ value > threshold
         \/ i < Len(t.digits)
         \/ t.digits[i] > MaxIntegerValue(t) % 10

(* The loop over the digits, in arithmetic of LargestUInt's width.         *)
Scanned(t) ==
  LET scan[i \in 0 .. Len(t.digits)] ==
        IF i = 0 THEN [value |-> 0, double |-> FALSE]
        ELSE [value  |-> (10 * scan[i - 1].value + t.digits[i]) % (MaxLargestUInt + 1),
              double |-> scan[i - 1].double \/ Exceeds(t, scan[i - 1].value, i)]
  IN  scan[Len(t.digits)]

DecodeNumber(t) ==
  LET value == Scanned(t).value
  IN  IF Scanned(t).double \/ t.rest # "" THEN DecodeDouble(t)
      ELSE [ok    |-> TRUE,
            value |-> IF t.minus THEN IntV(-value)
                      ELSE IF value <= MaxInt THEN IntV(value)
                      ELSE UIntV(value)]

(* uintToString. *)
UIntToString(n) ==
  LET digits[k \in 0 .. n] ==
        IF k < 10 THEN <<k>> ELSE Append(digits[k \div 10], k % 10)
  IN  digits[n]

(* valueToString; the smallest LargestInt cannot be negated. *)
ValueToString(v) ==
  CASE v.type = "uint" -> NumberText(FALSE, UIntToString(v.uint), "")
    [] v.type = "int"  ->
         IF v.int = MinLargestInt
           THEN NumberText(TRUE, UIntToString(MaxLargestInt + 1), "")
         ELSE IF v.int < 0 THEN NumberText(TRUE, UIntToString(-v.int), "")
         ELSE NumberText(FALSE, UIntToString(v.int), "")
=============================================================================
