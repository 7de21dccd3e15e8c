----------------------------- MODULE JsonValue -----------------------------
(***************************************************************************)
(* Json::Value, as far as the dispatcher and the reader and the writer     *)
(* below it use it: what a value is, its members and elements, and the     *)
(* conversions asInt and asString, which throw for some values.            *)
(*                                                                         *)
(* A value is a record whose second field says what it holds.  A real is   *)
(* given in halves: [half |-> 3] is 1.5, enough to tell an integral real   *)
(* from another one.  A string is a name.                                  *)
(***************************************************************************)
EXTENDS Integers, Sequences, FiniteSets

CONSTANTS
  MaxInt,          (* Value::maxInt, the largest Int                        *)
  MaxLargestInt,   (* Value::maxLargestInt, the largest LargestInt          *)
  LongNames        (* the strings of more than seven characters             *)

ASSUME WidthAssumption ==
  /\ MaxInt \in Nat \ {0}
  /\ MaxLargestInt \in Nat
  /\ MaxInt <= MaxLargestInt

MinInt         == -MaxInt - 1
MaxUInt        == 2 * MaxInt + 1
MinLargestInt  == -MaxLargestInt - 1
MaxLargestUInt == 2 * MaxLargestInt + 1

(* The constructors of Value, one for each ValueType.                      *)
Null    == [type |-> "null"]
IntV(n) == [type |-> "int", int |-> n]
UIntV(n) == [type |-> "uint", uint |-> n]
RealV(h) == [type |-> "real", half |-> h]
BoolV(b) == [type |-> "boolean", bool |-> b]
StrV(s) == [type |-> "string", str |-> s]
ArrV(els) == [type |-> "array", el |-> els]
ObjV(members) == [type |-> "object", mem |-> members]

NoMembers == [n \in {} |-> Null]

InRange(h, min, max) == 2 * min <= h /\ h <= 2 * max

Truncated(h) == IF h >= 0 THEN h \div 2 ELSE -((-h) \div 2)

IsInt(v) ==
  \/ v.type = "int"  /\ v.int \in MinInt .. MaxInt
  \/ v.type = "uint" /\ v.uint <= MaxInt
  \/ v.type = "real" /\ InRange(v.half, MinInt, MaxInt) /\ v.half % 2 = 0

(* asInt, and when it throws. *)
AsIntThrows(v) ==
  \/ v.type \in {"int", "uint"} /\ ~IsInt(v)
  \/ v.type = "real" /\ ~InRange(v.half, MinInt, MaxInt)
  \/ v.type \in {"string", "array", "object"}

AsInt(v) ==
  CASE v.type = "int"     -> v.int
    [] v.type = "uint"    -> v.uint
    [] v.type = "real"    -> Truncated(v.half)
    [] v.type = "null"    -> 0
    [] v.type = "boolean" -> IF v.bool THEN 1 ELSE 0

IsUInt(v) ==
  \/ v.type = "int"  /\ v.int \in 0 .. MaxUInt
  \/ v.type = "uint" /\ v.uint <= MaxUInt
  \/ v.type = "real" /\ InRange(v.half, 0, MaxUInt) /\ v.half % 2 = 0

AsUIntThrows(v) ==
  \/ v.type \in {"int", "uint"} /\ ~IsUInt(v)
  \/ v.type = "real" /\ ~InRange(v.half, 0, MaxUInt)
  \/ v.type \in {"string", "array", "object"}

(* isConvertibleTo(intValue) and isConvertibleTo(uintValue). *)
ConvertibleToInt(v) ==
  \/ IsInt(v)
  \/ v.type = "real" /\ InRange(v.half, MinInt, MaxInt)
  \/ v.type \in {"boolean", "null"}

ConvertibleToUInt(v) ==
  \/ IsUInt(v)
  \/ v.type = "real" /\ InRange(v.half, 0, MaxUInt)
  \/ v.type \in {"boolean", "null"}

(* asLargestInt and asLargestUInt, 64 bits wide.  Their upper limits are no
   doubles: compared with a real they are the next number. *)
AsInt64Throws(v) ==
  \/ v.type = "uint" /\ v.uint > MaxLargestInt
  \/ v.type = "real" /\ ~InRange(v.half, MinLargestInt, MaxLargestInt + 1)
  \/ v.type \in {"string", "array", "object"}

AsUInt64Throws(v) ==
  \/ v.type = "int"  /\ v.int < 0
  \/ v.type = "real" /\ ~InRange(v.half, 0, MaxLargestUInt + 1)
  \/ v.type \in {"string", "array", "object"}

IsInt64(v) ==
  \/ v.type = "int"
  \/ v.type = "uint" /\ v.uint <= MaxLargestInt
  \/ v.type = "real" /\ 2 * MinLargestInt <= v.half /\ v.half < 2 * (MaxLargestInt + 1)
                     /\ v.half % 2 = 0

IsUInt64(v) ==
  \/ v.type = "int"  /\ v.int >= 0
  \/ v.type = "uint"
  \/ v.type = "real" /\ 0 <= v.half /\ v.half < 2 * (MaxLargestUInt + 1)
                     /\ v.half % 2 = 0

IsIntegral(v) == IsInt64(v) \/ IsUInt64(v)
IsNumeric(v)  == v.type \in {"int", "uint", "real"}

(* asDouble, in halves, and asBool: both throw for the same values.  The
   cast rounds an integer that no double holds; nothing but whether it is 0
   is asked of the result. *)
AsDouble(v) == IF v.type = "real" THEN v.half ELSE 2 * AsInt(v)

AsBoolThrows(v) == v.type \in {"string", "array", "object"}
AsBool(v) == IF v.type = "boolean" THEN v.bool ELSE AsDouble(v) # 0

(* asString, of which only one thing is asked: whether there are more than
   seven characters.  A real has ".0" or ".5" behind its integral part. *)
AsStringThrows(v) == v.type \in {"array", "object"}

SevenDigits == 10000000

AsStringIsLong(v) ==
  \/ v.type = "string" /\ v.str \in LongNames
  \/ v.type = "int"    /\ (v.int >= SevenDigits \/ v.int <= -(SevenDigits \div 10))
  \/ v.type = "uint"   /\ v.uint >= SevenDigits
  \/ v.type = "real"   /\ (\/ Truncated(v.half) >= SevenDigits \div 100
                           \/ Truncated(v.half) <= -(SevenDigits \div 1000))

(* isConvertibleTo the other types.  It asks a string, which is a name
   here, whether it is the empty one. *)
ConvertibleToNull(v) ==
  \/ IsNumeric(v) /\ AsDouble(v) = 0
  \/ v = Null \/ v = BoolV(FALSE) \/ v = StrV("") \/ v = ArrV(<<>>) \/ v = ObjV(NoMembers)

ConvertibleToBool(v)   == IsNumeric(v) \/ v.type \in {"boolean", "null"}
ConvertibleToString(v) == ConvertibleToBool(v) \/ v.type = "string"

(* operator[]: a null value becomes a container, a missing member or element
   is inserted as null, and every other type throws.  Get is what the access
   returns, With the container after it. *)
MemberThrows(v) == v.type \notin {"null", "object"}

Get(v, name) ==
  IF v.type = "object" /\ name \in DOMAIN v.mem THEN v.mem[name] ELSE Null

WithMember(v, name, new) ==
  ObjV([n \in DOMAIN v.mem \cup {name} |-> IF n = name THEN new ELSE v.mem[n]])

Size(v) ==
  CASE v.type = "array"  -> Len(v.el)
    [] v.type = "object" -> Cardinality(DOMAIN v.mem)
    [] OTHER             -> 0

(* clear() of a container keeps its type.                                  *)
ClearThrows(v) == v.type \notin {"null", "array", "object"}

Clear(v) ==
  CASE v.type = "object" -> ObjV(NoMembers)
    [] v.type = "array"  -> ArrV(<<>>)
    [] v.type = "null"   -> v
=============================================================================
