---------------------------- MODULE MCJsonPolicy ----------------------------
EXTENDS JsonPolicy, JsonWriter, JsonGrammar, SequencesExt

MCNameOrder == <<"", "a", "close_thread_num", "in_path", "ip", "open_thread_num",
                 "out_path", "port", "ratio", "ret_code">>

MCLongNames == {"10.0.0.1", "overrun"}

MCLeft == {1}

MCTokens == {Punct(c) : c \in {"{", "}", "[", "]", ",", ":", "comment", "error"}}
              \cup {EOS, Literal(IntV(1)), Quoted(""), Quoted("a")}

Record(names, values) == ObjV([n \in {names[i] : i \in DOMAIN names} |->
                                 values[CHOOSE i \in DOMAIN names : names[i] = n]])

Element(ip, port, ratio) == Record(<<"ip", "port", "ratio">>, <<ip, port, ratio>>)

Good  == Element(StrV("10.0.0.1"), IntV(80), IntV(10))
Other == Element(IntV(12345678), IntV(8001), Null)
Elements ==
  {Good, Other, Null, StrV("a"),
   Element(StrV("a"), IntV(80), IntV(1)),
   Element(StrV("10.0.0.1"), StrV("a"), IntV(1)),
   Element(StrV("10.0.0.1"), IntV(80), IntV(-1))}

Lists ==
  {ArrV(<<>>), ArrV(<<Good>>), Null, StrV("a"), Good}
    \cup {ArrV(<<Good, e>>) : e \in Elements}
    \cup {ArrV(<<e, Good>>) : e \in Elements}

Numbers == {IntV(12), IntV(0), IntV(-1), UIntV(2000000000), StrV("a"), RealV(25),
            RealV(-1), BoolV(TRUE), Null, ArrV(<<>>)}

Command(in, open, close, list) ==
  Record(<<"in_path", "out_path", "open_thread_num", "close_thread_num">>,
         <<in, list, open, close>>)

Base == ArrV(<<Good, Good>>)

(* The fields of a command come in different orders, with the list last or a
   number. *)
ListCommands == {Command(IntV(8001), IntV(10), IntV(21), l) : l \in Lists}
ListLast == {<<"close_thread_num", "in_path", "open_thread_num", "out_path">>}

NumberCommands ==
  {Command(n, IntV(10), IntV(21), Base) : n \in Numbers}
    \cup {Command(IntV(8001), n, IntV(21), Base) : n \in Numbers}
    \cup {Command(IntV(8001), IntV(10), n, Base) : n \in Numbers}
NumberLast == {<<"in_path", "out_path", "open_thread_num", "close_thread_num">>,
               <<"close_thread_num", "open_thread_num", "out_path", "in_path">>}

InOrder(set) == FoldSet(LAMBDA x, seq : Append(seq, x), <<>>, set)

(* The command that is left in memory. *)
LeftCommand == Command(IntV(7), IntV(3), IntV(4), ArrV(<<Good>>))

(* A text with a comment behind every number. *)
Commented(tokens) ==
  FlattenSeq([i \in 1 .. Len(tokens) |->
                IF tokens[i].k = "literal" THEN <<tokens[i], Punct("comment")>> ELSE <<tokens[i]>>])

MCGiven ==
  <<[tokens |-> Write(LeftCommand), means |-> LeftCommand]>>
  \o InOrder({[tokens |-> ObjectText(c, o), means |-> c] : c \in ListCommands, o \in ListLast}
    \cup {[tokens |-> ObjectText(c, o), means |-> c] : c \in NumberCommands, o \in NumberLast}
    \cup {[tokens |-> Commented(ObjectText(c, o)), means |-> c] :
            c \in {Command(IntV(8001), IntV(10), IntV(21), ArrV(<<Good>>))},
            o \in ListLast \cup NumberLast}
    \cup {[tokens |-> Write(v), means |-> v] :
            v \in {BoolV(FALSE), Record(<<"", "a">>, <<Base, Null>>), ArrV(<<ArrV(<<>>)>>)}})
=============================================================================
