----------------------------- MODULE JsonPolicy -----------------------------
(***************************************************************************)
(* policy_entity::do_one_action on the text of one command after another:  *)
(* reset, parse_in_json with the reader all commands share, get_out_json,  *)
(* cook_senddata.  get_out_json runs on whatever the reader left, also     *)
(* when parse failed.                                                      *)
(*                                                                         *)
(* What the command does to Path_Manager (module IoThreads) is recorded in *)
(* manager.  operator[] also inserts null members into json_in; they are   *)
(* left out, since json_in is cleared before it is looked at again.        *)
(***************************************************************************)
EXTENDS JsonReader

CONSTANTS
  FastWrite(_),  (* FastWriter::write, which module JsonWriter defines      *)
  Served         (* bound on the number of commands                         *)

ASSUME ServedAssumption == Served \in Nat

VARIABLES
  served,        (* commands begun                                          *)
  manager,       (* what this command did to Path_Manager                   *)
  answer         (* the tokens of the answer                                *)

vars == <<readerVars, served, manager, answer>>

NoEffect == [done |-> FALSE]

(* One element of out_path: what is read of it, and whether that throws.   *)
ElementThrows(e) ==
  \/ MemberThrows(e)
  \/ AsStringThrows(Get(e, "ip"))
  \/ AsIntThrows(Get(e, "port"))
  \/ AsIntThrows(Get(e, "ratio"))

ElementValid(e) ==
  /\ AsStringIsLong(Get(e, "ip"))
  /\ AsInt(Get(e, "port")) > 0
  /\ AsInt(Get(e, "ratio")) >= 0

PathValue(e) ==
  [ip |-> Get(e, "ip"), port |-> AsInt(Get(e, "port")), ratio |-> AsInt(Get(e, "ratio"))]

PathValues(list) ==
  LET valid == SelectSeq(list.el, ElementValid)
  IN  [i \in 1 .. Len(valid) |-> PathValue(valid[i])]

NumberFields == {"in_path", "open_thread_num", "close_thread_num"}

(* The checks of get_out_json, in the order in which they are made.        *)
(* Mutant: only the fields the lists are looked up by must be there.       *)
FieldMissingPaths(v) == \E f \in {"in_path", "out_path"} : Get(v, f) = Null

FieldMissing(v) == \E f \in NumberFields \cup {"out_path"} : Get(v, f) = Null

NumbersThrow(v) == \E f \in NumberFields : AsIntThrows(Get(v, f))

NumbersWrong(v) ==
  \/ AsInt(Get(v, "in_path")) <= 0
  \/ AsInt(Get(v, "open_thread_num")) < 0
  \/ AsInt(Get(v, "close_thread_num")) < 0

ListEmpty(v) ==
  \/ Get(v, "out_path").type # "array"
  \/ Size(Get(v, "out_path")) = 0

ListThrows(v) ==
  \E i \in 1 .. Size(Get(v, "out_path")) : ElementThrows(Get(v, "out_path").el[i])

(* The return code, or -1 for an exception, which nothing catches. *)
Code(v) ==
  IF MemberThrows(v) THEN -1
  ELSE IF FieldMissing(v) THEN 100
  ELSE IF NumbersThrow(v) THEN -1
  ELSE IF NumbersWrong(v) THEN 101
  ELSE IF ListEmpty(v) THEN 102
  ELSE IF ListThrows(v) THEN -1
  ELSE IF PathValues(Get(v, "out_path")) = <<>> THEN 200
  ELSE 0

Effect(v) ==
  [done  |-> TRUE,
   path  |-> AsInt(Get(v, "in_path")),
   list  |-> PathValues(Get(v, "out_path")),
   open  |-> AsInt(Get(v, "open_thread_num")),
   close |-> AsInt(Get(v, "close_thread_num"))]

Init ==
  /\ text = [of |-> 0, at |-> 0, cut |-> FALSE, past |-> FALSE, behind |-> Nowhere]
  /\ got = <<>> /\ nodes = <<>> /\ errors = 0
  /\ root = Null /\ successful = FALSE
  /\ pc = "idle"
  /\ served = 0 /\ manager = NoEffect /\ answer = <<>>

(* reset() clears json_in, which keeps its type; then parse begins.        *)
Reset(of) ==
  /\ pc = "idle" /\ served < Served
  /\ served' = served + 1
  /\ root' = Clear(root)
  /\ ParseBegin(of)
  /\ manager' = NoEffect /\ answer' = <<>>

(* Mutant: the list is updated before the thread counts are converted.     *)
GetOutJsonUpdatesFirst ==
  /\ pc = "read"
  /\ LET code == Code(root)
         listed == /\ ~MemberThrows(root) /\ ~FieldMissing(root)
                   /\ ~AsIntThrows(Get(root, "in_path"))
                   /\ ~ListEmpty(root) /\ ~ListThrows(root)
     IN  /\ manager' = IF code = 0 THEN Effect(root)
                       ELSE IF listed THEN [done |-> TRUE, path |-> 0, list |-> <<>>,
                                            open |-> 0, close |-> 0]
                       ELSE NoEffect
         /\ pc' = IF code = -1 THEN "thrown" ELSE "answer"
         /\ answer' = IF code = -1 THEN <<>> ELSE <<code>>
  /\ UNCHANGED <<text, got, nodes, errors, root, successful, served>>

GetOutJson ==
  /\ pc = "read"
  /\ LET code == Code(root)
     IN  /\ manager' = IF code = 0 THEN Effect(root) ELSE NoEffect
         /\ pc' = IF code = -1 THEN "thrown" ELSE "answer"
         /\ answer' = IF code = -1 THEN <<>> ELSE <<code>>
  /\ UNCHANGED <<text, got, nodes, errors, root, successful, served>>

(* cook_senddata writes {"ret_code": code}. *)
CookSenddata ==
  /\ pc = "answer"
  /\ answer' = FastWrite(ObjV([n \in {"ret_code"} |-> IntV(answer[1])]))
  /\ pc' = "idle"
  /\ UNCHANGED <<text, got, nodes, errors, root, successful, served, manager>>

Next ==
  \/ \E of \in 0 .. Len(Texts) : Reset(of)
  \/ ReaderStep /\ UNCHANGED <<served, manager, answer>>
  \/ GetOutJson
  \/ CookSenddata

Spec == Init /\ [][Next]_vars
-----------------------------------------------------------------------------
(* A text that a client or FastWriter made of a value and that arrived
   whole is accepted and gives that value again, whatever the texts before
   it left in the shared reader.  (Of a cut text nothing is said here.) *)
WholeTextRead ==
  pc = "read" /\ ~Free /\ ~text.cut => successful /\ root = Texts[text.of].means

(* A command whose text was cut and that is executed all the same differs
   from the whole one in one thing at most, the one at the cut: a number is
   closer to 0, or the list ends earlier.  Only the missing fields that
   get_out_json refuses make this so, since the reader leaves null for what
   is missing and asInt makes 0 of it.  Commands for which the reader has
   gone on behind the end of their text are excepted; which texts these can
   be is in FromThisText. *)
ReadableList(v) ==
  IF v.type # "array" THEN <<>>
  ELSE PathValues(ArrV(SelectSeq(v.el, LAMBDA e : ~ElementThrows(e))))

Closer(n, v) == ~AsIntThrows(v) => (0 <= n /\ n <= AsInt(v)) \/ n = 0

Differing ==
  LET v == Texts[text.of].means
      Same(n, field) == ~AsIntThrows(Get(v, field)) /\ n = AsInt(Get(v, field))
  IN  {f \in {"path", "open", "close", "list"} :
         CASE f = "path"  -> ~Same(manager.path, "in_path")
           [] f = "open"  -> ~Same(manager.open, "open_thread_num")
           [] f = "close" -> ~Same(manager.close, "close_thread_num")
           [] f = "list"  -> manager.list # ReadableList(Get(v, "out_path"))}

CutShortensOne ==
  manager.done /\ ~Free /\ ~IsBehind =>
    LET v    == Texts[text.of].means
        list == ReadableList(Get(v, "out_path"))
        n    == Len(manager.list) - 1
    IN  /\ Cardinality(Differing) <= 1
        /\ Closer(manager.path, Get(v, "in_path"))
        /\ Closer(manager.open, Get(v, "open_thread_num"))
        /\ Closer(manager.close, Get(v, "close_thread_num"))
        /\ "list" \in Differing =>
             n <= Len(list) /\ SubSeq(manager.list, 1, n) = SubSeq(list, 1, n)

(* An exception leaves Path_Manager as it was: every conversion that can
   throw comes before Update_Path and the launches. *)
ThrowLeavesManager == pc = "thrown" => ~manager.done

(* What a command does was said in its own text, up to where it was cut:
   nothing is left in json_in from the command before, not even when parse
   fails at its first token and leaves its root alone.  It is otherwise only
   when the reader has gone on behind the end of the text, into what is left
   there of an earlier one; and it goes on there only when the text ends in
   a comment, or behind one, or within a string, and never when it ends
   anywhere else.  (Of a free text, what lies behind it counts as its own.)
   And there is never a value in json_in for the next command that clear()
   throws for (policy_entity::reset). *)
EndsOpen ==
  \/ text.at > 0 /\ TextTokens[text.at].k = "comment"
  \/ text.cut /\ text.at < Len(TextTokens) /\ NextToken.k = "string"

FromThisText ==
  /\ manager.done /\ ~IsBehind =>
       \A f \in NumberFields \cup {"out_path"} :
         \/ ~Free /\ \E i \in 1 .. text.at : TextTokens[i] = Quoted(f)
         \/ Free /\ \E i \in 1 .. Len(got) : got[i] = Quoted(f)
  /\ IsBehind => EndsOpen
  /\ pc = "idle" => ~ClearThrows(root)
=============================================================================
