----------------------------- MODULE JsonReader -----------------------------
(***************************************************************************)
(* Json::Reader::parse on a text given as tokens (characters are in        *)
(* JsonLexer, JsonString and JsonNumber).  readValue, readObject and       *)
(* readArray call each other; here the calls in progress are the open      *)
(* containers in nodes, outermost first, and pc is the place the innermost *)
(* one has reached.                                                        *)
(*                                                                         *)
(* The text is one of Given, which may be cut anywhere, inside a number or *)
(* a string even; or it is free: then a token is chosen when it is read,   *)
(* up to MaxTokens of them.                                                *)
(*                                                                         *)
(* parse copies the document up to its capacity, not up to its length: a   *)
(* terminating zero follows, and then the bytes that are left in that      *)
(* memory from an earlier text.  The zero is the token of the end for      *)
(* readToken, which then stands behind it and would read on; readString    *)
(* and readComment run over it, so that a string that is cut ends at a     *)
(* quote of what is left, and a comment at the end of a comment or of a    *)
(* line.                                                                   *)
(*                                                                         *)
(* Offsets, comments' texts and error messages are left out.  The code     *)
(* puts a child into its container before it reads it; here an unfinished  *)
(* container is in nodes, and becomes part of its parent when it is left,  *)
(* by an error as well.                                                    *)
(***************************************************************************)
EXTENDS JsonValue

CONSTANTS
  Given,         (* a sequence of texts: [tokens, means]                     *)
  Left,          (* the texts of Given left in the document's memory        *)
  Tokens,        (* the tokens of a free text                               *)
  MaxTokens,     (* bound on the length of a free text                      *)
  StackLimit     (* stackLimit_g                                            *)

ASSUME StackAssumption == StackLimit \in Nat \ {0}

Texts == Given     \* a definition of level constant: TLC evaluates it once

EOS         == [k |-> "eos"]
Punct(c)    == [k |-> c]
Literal(v)  == [k |-> "literal", val |-> v]
Quoted(s)   == [k |-> "string", val |-> StrV(s)]

(* A literal is a number, true, false or null.  A number that decodeDouble
   refuses is no literal but a token like any that begins no value. *)
IsToken(t) ==
  /\ t.k = "literal" => t.val.type \in {"null", "boolean", "int", "uint", "real"}
  /\ t.k = "string"  => t = Quoted(t.val.str)

IsSequence(s) == s \in Seq({s[i] : i \in DOMAIN s})

ASSUME TextAssumption ==
  /\ MaxTokens \in Nat
  /\ IsSequence(Texts) /\ Left \subseteq DOMAIN Texts
  /\ \A o \in DOMAIN Texts :
       /\ IsSequence(Texts[o].tokens)
       /\ \A i \in DOMAIN Texts[o].tokens : IsToken(Texts[o].tokens[i])
  /\ \A t \in Tokens : IsToken(t)

VARIABLES
  text,          (* [of |-> which of Given, or 0 for a free text,
                    at |-> the tokens taken, cut |-> whether it ended there,
                    past |-> whether its terminating zero has been read,
                    behind |-> where the reader is in what is left behind
                    it: nowhere, or at a place like of and at]              *)
  got,           (* history: what was read of a free text, and of what is
                    left behind it, up to the error                         *)
  nodes,         (* nodes_ without the root                                 *)
  pc,            (* where the reader is                                     *)
  errors,        (* how many entries errors_ has                            *)
  root,          (* the root value, json_in of the caller                   *)
  successful     (* what parse returns                                      *)

readerVars == <<text, got, nodes, pc, errors, root, successful>>

(* What is left of a number whose last digits are cut off. *)
Shorter(t) ==
  IF t.k # "literal" THEN {}
  ELSE CASE t.val.type = "int" /\ t.val.int > 9  -> {Literal(IntV(t.val.int \div 10))}
         [] t.val.type = "int" /\ t.val.int < 0  -> {Literal(IntV(0))}
         [] t.val.type = "uint"                  -> {Literal(IntV(t.val.uint \div 100))}
         [] t.val.type = "real"                  -> {Literal(IntV(Truncated(t.val.half)))}
         [] OTHER -> {}

Free == text.of = 0
TextTokens == IF Free THEN <<>> ELSE Texts[text.of].tokens
AtEnd == text.cut \/ (~Free /\ text.at = Len(TextTokens)) \/ (Free /\ Len(got) >= MaxTokens)
NextToken == TextTokens[text.at + 1]

(* The places in the memory behind the document from which tokens may come,
   and those where a cut string may end: at the last quote of a string, since
   what follows its first quote is no token.  A zero may follow any token. *)
Nowhere == [of |-> 0, at |-> 0]
IsBehind == text.behind # Nowhere

Places == UNION {{[of |-> o, at |-> i] : i \in 0 .. Len(Texts[o].tokens)} : o \in Left}
TokenAt(p) == IF p.at < Len(Texts[p.of].tokens) THEN Texts[p.of].tokens[p.at + 1] ELSE EOS
Onwards(p) == IF p.at < Len(Texts[p.of].tokens) THEN [p EXCEPT !.at = @ + 1] ELSE p
QuoteEnds == {Onwards(p) : p \in {q \in Places : TokenAt(q).k = "string"}}

(* The string that a cut string and the bytes behind it make. *)
Overrun == Quoted("overrun")

(* recoverFromError and the end of parse use nothing of what they skip, which
   is why what they skip behind the end is not told apart from the end. *)
Using == pc \notin {"recover", "after"}

(* The tokens that can come next. *)
Offered ==
  IF Free THEN IF AtEnd THEN {EOS} ELSE Tokens
  ELSE IF IsBehind THEN {TokenAt(text.behind), EOS}
  ELSE IF AtEnd THEN {EOS} \cup IF text.past /\ Using THEN {TokenAt(p) : p \in Places} ELSE {}
  ELSE {NextToken, EOS} \cup IF ~Using THEN {}
                             ELSE Shorter(NextToken)
                                    \cup IF NextToken.k = "string" THEN {Overrun} ELSE {}

(* Taking one of them: of what is left, at the end of the text, in a text
   that is cut before the next token, in a number, a string or a comment, or
   that goes on. *)
TakeBehind(t) ==
  text' = IF t = EOS THEN text ELSE [text EXCEPT !.behind = Onwards(@)]

TakeAtEnd(t) ==
  \/ t = EOS /\ text' = [text EXCEPT !.past = TRUE]
  \/ /\ t # EOS
     /\ \E p \in Places : TokenAt(p) = t /\ text' = [text EXCEPT !.behind = Onwards(p)]

TakeCut(t) ==
  \/ t = EOS /\ text' = [text EXCEPT !.cut = TRUE, !.past = TRUE]
  \/ t \in Shorter(NextToken) /\ text' = [text EXCEPT !.at = @ + 1, !.cut = TRUE]
  \/ /\ t = Overrun
     /\ \E p \in QuoteEnds : text' = [text EXCEPT !.cut = TRUE, !.past = TRUE, !.behind = p]
  \/ /\ t.k = "comment" /\ Using
     /\ text' = [text EXCEPT !.at = @ + 1, !.cut = TRUE, !.past = TRUE]

Take(t) ==
  /\ \/ Free /\ text' = text
     \/ ~Free /\ IsBehind /\ TakeBehind(t)
     \/ ~Free /\ ~IsBehind /\ AtEnd /\ TakeAtEnd(t)
     \/ ~Free /\ ~IsBehind /\ ~AtEnd /\ TakeCut(t)
     \/ /\ ~Free /\ ~IsBehind /\ ~AtEnd
        /\ t = NextToken /\ text' = [text EXCEPT !.at = @ + 1]
  /\ got' = IF Free /\ pc # "recover" THEN Append(got, t) ELSE got

Top(stack) == stack[Len(stack)]
Below(stack) == SubSeq(stack, 1, Len(stack) - 1)

ObjectFrame == [val |-> ObjV(NoMembers), name |-> ""]
ArrayFrame  == [val |-> ArrV(<<>>)]

InObject(stack) == Top(stack).val.type = "object"

(* The child that the innermost container is reading: the member called
   name, or the last element. *)
Child(frame) ==
  IF frame.val.type = "object" THEN Get(frame.val, frame.name)
  ELSE frame.val.el[Len(frame.val.el)]

SetChild(frame, v) ==
  IF frame.val.type = "object"
    THEN [frame EXCEPT !.val = WithMember(@, frame.name, v)]
    ELSE [frame EXCEPT !.val.el[Len(frame.val.el)] = v]

(* currentValue()[name] and currentValue()[index++]: an absent child is
   inserted as null; a member that is there already stays. *)
\* Mutant: the index of the element is not advanced.
InsertChildStays(frame) ==
  IF frame.val.type = "object"
    THEN SetChild(frame, Get(frame.val, frame.name))
    ELSE [frame EXCEPT !.val.el = <<Null>>]

InsertChild(frame) ==
  IF frame.val.type = "object"
    THEN SetChild(frame, Get(frame.val, frame.name))
    ELSE [frame EXCEPT !.val.el = Append(@, Null)]

OnTop(stack, frame) == [stack EXCEPT ![Len(stack)] = frame]

CurrentValue(stack) == IF stack = <<>> THEN root ELSE Child(Top(stack))

(* readValue returns v to its caller: parse, or the container around it,
   which goes on with its next separator, or looks for its own end. *)
Return(stack, v, ok) ==
  IF stack = <<>>
    THEN /\ nodes' = stack
         /\ root' = v
         /\ successful' = ok
         /\ pc' = "after"
    ELSE /\ nodes' = OnTop(stack, SetChild(Top(stack), v))
         /\ pc' = IF ok THEN "next" ELSE "recover"
         /\ UNCHANGED <<root, successful>>

Close(ok) == Return(Below(nodes), Top(nodes).val, ok)

GoTo(place, stack) ==
  /\ nodes' = stack
  /\ pc' = place
  /\ UNCHANGED <<root, successful>>

AddErrorAndRecover ==
  /\ errors' = errors + 1
  /\ GoTo("recover", nodes)

(* parse: everything an earlier text left in the reader is dropped.        *)
ParseBegin(of) ==
  /\ text' = [of |-> of, at |-> 0, cut |-> FALSE, past |-> FALSE, behind |-> Nowhere]
  /\ got' = <<>>
  /\ nodes' = <<>>
  /\ errors' = 0
  /\ successful' = FALSE
  /\ pc' = "value"

(* skipCommentTokens behind the root value; what follows is not looked at. *)
ParseEnd(t) ==
  /\ pc = "after"
  /\ Take(t)
  /\ pc' = IF t.k = "comment" THEN "after" ELSE "read"
  /\ UNCHANGED <<nodes, errors, root, successful>>

(* The node readValue fills.  readArray looks for its end, by character and
   not by token, before it inserts the first element. *)
Place == IF pc = "first" THEN OnTop(nodes, InsertChild(Top(nodes))) ELSE nodes

AtValue(t) ==
  /\ pc \in {"value", "first"}
  /\ pc = "first" => t.k # "]"

(* readValue throws when the nodes are too deep, before it reads a token.  *)
StackExceeded ==
  /\ \E t \in Offered : AtValue(t)
  /\ Len(nodes) >= StackLimit
  /\ pc' = "thrown"
  /\ UNCHANGED <<text, got, nodes, errors, root, successful>>

ReadValue(t) ==
  /\ AtValue(t)
  /\ Len(nodes) < StackLimit
  /\ Take(t)
  /\ \/ t.k = "comment" /\ GoTo("value", Place) /\ UNCHANGED errors
     \/ t.k = "{" /\ GoTo("name", Append(Place, ObjectFrame)) /\ UNCHANGED errors
     \/ t.k = "[" /\ GoTo("first", Append(Place, ArrayFrame)) /\ UNCHANGED errors
     \/ t.k \in {"literal", "string"} /\ Return(Place, t.val, TRUE) /\ UNCHANGED errors
     \/ /\ t.k \notin {"comment", "{", "[", "literal", "string"}
        /\ errors' = errors + 1
        /\ Return(Place, CurrentValue(Place), FALSE)

(* readObject.  The name is the one of the member before, until the next
   one has been read. *)
(* Mutant: an object may end behind any comma. *)
ReadNameOrEnd(t) ==
  /\ pc = "name"
  /\ Take(t)
  /\ LET frame == Top(nodes)
     IN  \/ t.k = "comment" /\ GoTo("name", nodes) /\ UNCHANGED errors
         \/ t.k = "}" /\ Close(TRUE) /\ UNCHANGED errors
         \/ /\ t.k = "string"
            /\ GoTo("colon", OnTop(nodes, [frame EXCEPT !.name = t.val.str]))
            /\ UNCHANGED errors
         \/ t.k \notin {"comment", "string", "}"} /\ AddErrorAndRecover

ReadName(t) ==
  /\ pc = "name"
  /\ Take(t)
  /\ LET frame == Top(nodes)
     IN  \/ t.k = "comment" /\ GoTo("name", nodes) /\ UNCHANGED errors
         \/ t.k = "}" /\ frame.name = "" /\ Close(TRUE) /\ UNCHANGED errors
         \/ /\ t.k = "string"
            /\ GoTo("colon", OnTop(nodes, [frame EXCEPT !.name = t.val.str]))
            /\ UNCHANGED errors
         \/ /\ t.k \notin {"comment", "string"}
            /\ ~(t.k = "}" /\ frame.name = "")
            /\ AddErrorAndRecover

ReadColon(t) ==
  /\ pc = "colon"
  /\ Take(t)
  /\ \/ /\ t.k = ":"
        /\ GoTo("value", OnTop(nodes, InsertChild(Top(nodes))))
        /\ UNCHANGED errors
     \/ t.k # ":" /\ AddErrorAndRecover

\* Mutant: the end of the text passes for a comma.
ReadCommaOrEos(t) ==
  /\ pc = "next" /\ InObject(nodes)
  /\ Take(t)
  /\ \/ t.k = "}" /\ Close(TRUE) /\ UNCHANGED errors
     \/ t.k \in {",", "eos"} /\ GoTo("name", nodes) /\ UNCHANGED errors
     \/ t.k = "comment" /\ GoTo("skipped", nodes) /\ UNCHANGED errors
     \/ t.k \notin {"}", ",", "eos", "comment"} /\ AddErrorAndRecover

ReadComma(t) ==
  /\ pc = "next" /\ InObject(nodes)
  /\ Take(t)
  /\ \/ t.k = "}" /\ Close(TRUE) /\ UNCHANGED errors
     \/ t.k = "," /\ GoTo("name", nodes) /\ UNCHANGED errors
     \/ t.k = "comment" /\ GoTo("skipped", nodes) /\ UNCHANGED errors
     \/ t.k \notin {"}", ",", "comment"} /\ AddErrorAndRecover

(* Behind a comment the separator's type is not checked any more, and the
   end of the text may be one. *)
ReadCommaAfterComment(t) ==
  /\ pc = "skipped"
  /\ Take(t)
  /\ \/ t.k = "}" /\ Close(TRUE)
     \/ t.k = "comment" /\ GoTo("skipped", nodes)
     \/ t.k \notin {"}", "comment"} /\ GoTo("name", nodes)
  /\ UNCHANGED errors

(* readArray. *)
EndEmptyArray(t) ==
  /\ pc = "first" /\ t.k = "]"
  /\ Take(t)
  /\ Close(TRUE)
  /\ UNCHANGED errors

ReadSeparator(t) ==
  /\ pc = "next" /\ ~InObject(nodes)
  /\ Take(t)
  /\ \/ t.k = "comment" /\ GoTo("next", nodes) /\ UNCHANGED errors
     \/ /\ t.k = ","
        /\ GoTo("value", OnTop(nodes, InsertChild(Top(nodes))))
        /\ UNCHANGED errors
     \/ t.k = "]" /\ Close(TRUE) /\ UNCHANGED errors
     \/ t.k \notin {"comment", ",", "]"} /\ AddErrorAndRecover

(* recoverFromError: skip to the end of the container or of the text.      *)
Recover(t) ==
  /\ pc = "recover"
  /\ Take(t)
  /\ IF t.k \in {IF InObject(nodes) THEN "}" ELSE "]", "eos"}
       THEN Close(FALSE)
       ELSE GoTo("recover", nodes)
  /\ UNCHANGED errors

ReaderStep ==
  \/ StackExceeded
  \/ \E t \in Offered :
       \/ ReadValue(t)
       \/ ReadName(t)
       \/ ReadColon(t)
       \/ ReadComma(t)
       \/ ReadCommaAfterComment(t)
       \/ EndEmptyArray(t)
       \/ ReadSeparator(t)
       \/ Recover(t)
       \/ ParseEnd(t)
-----------------------------------------------------------------------------
(* A text that parse does not accept has one error, however many containers
   that is passed through (recoverFromError), and one that it accepts none. *)
OneError == pc = "read" => errors = IF successful THEN 0 ELSE 1
=============================================================================
