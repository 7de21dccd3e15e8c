------------------------------ MODULE JsonHeap ------------------------------
(***************************************************************************)
(* The memory of a Json::Value while Json::Reader fills it and the         *)
(* dispatcher uses it: who frees a string, a map, a comment, and which of  *)
(* the reader's pointers still point to a Value.  JsonReader says what is  *)
(* accepted and what it means; here any order of tokens that the reader    *)
(* can be in is read, and a step stands for the tokens from one change of  *)
(* memory to the next.                                                     *)
(*                                                                         *)
(* A block is what malloc or new returned.  A Value is no block: it lies   *)
(* in a map, where its address is the map and its key.  A key of an object *)
(* is a CZString with a pointer and a policy; a key of an array is its     *)
(* index.  The Values on the stack, the caller's root and the local init   *)
(* of each readObject and readArray that is running, are at 0, 1, 2, ...   *)
(* of one more map, which stands at Nil and is no block.                   *)
(***************************************************************************)
EXTENDS Integers, Sequences, FiniteSets, SequencesExt

CONSTANTS
  Names,        \* the names of members
  MaxElements,  \* bound on the elements of an array
  StackLimit,   \* stackLimit_g
  MaxBlocks     \* bound on the blocks at one time

ASSUME HeapAssumption ==
  /\ MaxElements \in Nat /\ MaxBlocks \in Nat /\ StackLimit \in Nat \ {0}
  /\ Names \cap Int = {}

VARIABLES
  memory,       \* the blocks and, at Nil, the stack
  nodes,        \* nodes_, addresses of Values
  running,      \* how many calls of readObject and readArray there are
  lastValue,    \* lastValue_, an address
  pending,      \* whether commentsBefore_ is not empty
  pc            \* where the reader is

vars == <<memory, nodes, running, lastValue, pending, pc>>

Nil    == 0     \* a null pointer
Caller == -1    \* characters that belong to a caller

Placements == {"before", "sameLine", "after"}

Value(type, ptr) == [type |-> type, ptr |-> ptr, allocated |-> type = "string", comments |-> Nil]
NullValue == Value("null", Nil)
IsContainer(v) == v.type \in {"object", "array"}

Chars  == [kind |-> "chars"]
NewMap == [kind |-> "map", key |-> [k \in {} |-> Nil], val |-> [k \in {} |-> NullValue]]
NoComments == [kind |-> "comments", at |-> [p \in Placements |-> Nil]]

With(f, x, y) == [z \in DOMAIN f \cup {x} |-> IF z = x THEN y ELSE f[z]]

WithChild(map, k, key, v) ==
  [map EXCEPT !.key = With(@, k, key), !.val = With(@, k, v)]

Blocks(m) == DOMAIN m \ {Nil}

Unused(m) ==
  CHOOSE id \in 1 .. Cardinality(DOMAIN m) :
    id \notin DOMAIN m /\ \A low \in 1 .. id - 1 : low \in DOMAIN m

Allocate(m, block) == With(m, Unused(m), block)
Free(m, ids) == [id \in DOMAIN m \ (ids \ {Nil}) |-> m[id]]

(* CZString: the copy of a key. *)
NameKey  == [ptr |-> Caller, policy |-> "duplicateOnCopy"]
IndexKey == [ptr |-> Nil, policy |-> "noDuplication"]

\* Mutant: the copy keeps the policy of the original.
CopyKeyKeepsPolicy(key, m) ==
  IF key.policy = "noDuplication" \/ key.ptr = Nil
    THEN [key |-> key, memory |-> m]
    ELSE [key |-> [key EXCEPT !.ptr = Unused(m)], memory |-> Allocate(m, Chars)]

CopyKey(key, m) ==
  IF key.policy = "noDuplication" \/ key.ptr = Nil
    THEN [key |-> key, memory |-> m]
    ELSE [key |-> [ptr |-> Unused(m), policy |-> "duplicate"], memory |-> Allocate(m, Chars)]

(* The pointers in a block, and what the destructors free by each of them,
   or Nil. *)
KeyOwns(key) == IF key.policy = "duplicate" THEN key.ptr ELSE Nil
ValueOwns(v) == IF IsContainer(v) \/ v.allocated THEN v.ptr ELSE Nil

Pointers(block) ==
  CASE block.kind = "chars"    -> {}
    [] block.kind = "comments" -> Placements \X {"text"}
    [] block.kind = "map"      -> (DOMAIN block.key) \X {"key", "value", "comments"}

Owns(block, p) ==
  CASE p[2] = "text"     -> block.at[p[1]]
    [] p[2] = "key"      -> KeyOwns(block.key[p[1]])
    [] p[2] = "value"    -> ValueOwns(block.val[p[1]])
    [] p[2] = "comments" -> block.val[p[1]].comments

Inside(block) == {Owns(block, p) : p \in Pointers(block)} \ {Nil}
OwnBlocks(v)  == {ValueOwns(v), v.comments} \ {Nil}

(* The destructors go on to what those blocks own: the least set that is
   closed under it. *)
AllOf(ids, m) ==
  LET inside == [id \in Blocks(m) |-> Inside(m[id])]
      closed == {S \in SUBSET Blocks(m) :
                   ids \subseteq S /\ \A id \in S : inside[id] \subseteq S}
  IN  {id \in Blocks(m) : \A S \in closed : id \in S}

Destroy(m, ids) == Free(m, AllOf(ids, m))

(* The Value at an address. *)
NoAddress == [map |-> -1, key |-> Nil]
RootAt    == [map |-> Nil, key |-> 0]

Alive(m, a) ==
  /\ a.map \in DOMAIN m
  /\ m[a.map].kind = "map"
  /\ a.key \in DOMAIN m[a.map].key

At(m, a) == m[a.map].val[a.key]

Put(m, a, v) == [m EXCEPT ![a.map].val[a.key] = v]

(* swapPayload: the comments stay where they are; other is what it leaves. *)
SwapPayload(m, a, v) ==
  LET old == At(m, a)
  IN  [memory |-> Put(m, a, [v EXCEPT !.comments = old.comments]),
       other  |-> [old EXCEPT !.comments = v.comments]]

(* operator=: everything is swapped, and the old Value goes with its comments. *)
Assign(m, a, v) == Destroy(Put(m, a, v), OwnBlocks(At(m, a)))

SetPayload(m, a, v) ==
  LET swapped == SwapPayload(m, a, v) IN Destroy(swapped.memory, OwnBlocks(swapped.other))

(* The locals of readObject and readArray: one more, and some go. *)
AddLocal(m, i, v) == [m EXCEPT ![Nil] = WithChild(@, i, IndexKey, v)]

DropLocals(m, gone) ==
  LET stack == m[Nil]
      kept  == DOMAIN stack.key \ gone
      left  == [m EXCEPT ![Nil].key = [i \in kept |-> stack.key[i]],
                         ![Nil].val = [i \in kept |-> stack.val[i]]]
  IN  Destroy(left, UNION {OwnBlocks(stack.val[i]) : i \in gone})

(* CommentInfo::setComment: the earlier comment of that placement is freed. *)
SetText(m, c, placement) ==
  LET left == Free(m, {m[c].at[placement]})
  IN  Allocate([left EXCEPT ![c].at[placement] = Unused(left)], Chars)

SetComment(m, a, placement) ==
  LET v    == At(m, a)
      commented == IF v.comments # Nil THEN m
                   ELSE Put(Allocate(m, NoComments), a, [v EXCEPT !.comments = Unused(m)])
  IN  SetText(commented, At(commented, a).comments, placement)

(* operator[] on a container: an absent member or element is inserted as null.
   The key is copied into the pair that is inserted, and with that into the
   map; then the pair goes. *)
InsertChild(m, a, k) ==
  LET map  == At(m, a).ptr
      pair == CopyKey(IF At(m, a).type = "object" THEN NameKey ELSE IndexKey, m)
      node == CopyKey(pair.key, pair.memory)
      left == Free(node.memory, {KeyOwns(pair.key)})
  IN  IF k \in DOMAIN m[map].key THEN m
      ELSE [left EXCEPT ![map] = WithChild(@, k, node.key, NullValue)]

(* resolveReference on the caller's root, which may still be null. *)
BecomesObject(m) ==
  IF At(m, RootAt).type # "null" THEN m
  ELSE Assign(Allocate(m, NewMap), RootAt, Value("object", Unused(m)))

Resolved(m, name) == InsertChild(BecomesObject(m), RootAt, name)
-----------------------------------------------------------------------------
Init ==
  /\ memory = [id \in {Nil} |-> WithChild(NewMap, 0, IndexKey, NullValue)]
  /\ nodes = <<>> /\ running = 0
  /\ lastValue = NoAddress /\ pending = FALSE
  /\ pc = "idle"

\* Mutant: the last value of an earlier text is not forgotten.
ParseBeginKeepsLast ==
  /\ pc = "idle" /\ pc' = "value"
  /\ nodes' = <<RootAt>>
  /\ pending' = FALSE
  /\ UNCHANGED <<memory, running, lastValue>>

ParseBegin ==
  /\ pc = "idle" /\ pc' = "value"
  /\ nodes' = <<RootAt>>
  /\ lastValue' = NoAddress /\ pending' = FALSE
  /\ UNCHANGED <<memory, running>>

(* readComment: a comment on the line of the last value belongs to that, and
   any other one to the next value. *)
ReadComment ==
  /\ pc # "idle"
  /\ \/ /\ lastValue # NoAddress
        /\ memory' = SetComment(memory, lastValue, "sameLine")
        /\ UNCHANGED pending
     \/ /\ pending' = TRUE
        /\ UNCHANGED memory
  /\ UNCHANGED <<nodes, running, lastValue, pc>>

Current == Last(nodes)

(* The beginning of readValue: the pending comments go to the current value. *)
AtValue == pc = "value" /\ Len(nodes) <= StackLimit /\ pending' = FALSE
Commented == IF pending THEN SetComment(memory, Current, "before") ELSE memory

(* readValue is left: parse, or the container around the value, goes on. *)
Return(ok) ==
  IF Len(nodes) = 1
    THEN pc' = "after" /\ UNCHANGED nodes
    ELSE pc' = (IF ok THEN "inside" ELSE "recover") /\ nodes' = Front(nodes)

ReadScalar ==
  /\ AtValue
  /\ memory' = SetPayload(Commented, Current, Value("number", Nil))
  /\ lastValue' = Current
  /\ Return(TRUE)
  /\ UNCHANGED running

ReadString ==
  /\ AtValue
  /\ memory' = SetPayload(Allocate(Commented, Chars), Current,
                          Value("string", Unused(Commented)))
  /\ lastValue' = Current
  /\ Return(TRUE)
  /\ UNCHANGED running

(* What the value was before stays in init until its container is complete. *)
OpenContainer(type) ==
  /\ AtValue
  /\ LET swapped == SwapPayload(Allocate(Commented, NewMap), Current,
                                Value(type, Unused(Commented)))
     IN  memory' = AddLocal(swapped.memory, running + 1, swapped.other)
  /\ running' = running + 1
  /\ pc' = "inside"
  /\ UNCHANGED <<nodes, lastValue>>

(* No value begins with the token: lastValue_ is not set on this way out. *)
BadValue ==
  /\ AtValue
  /\ memory' = Commented
  /\ Return(FALSE)
  /\ UNCHANGED <<running, lastValue>>

(* The exception destroys the locals on its way out. *)
StackExceeded ==
  /\ pc = "value" /\ Len(nodes) > StackLimit
  /\ memory' = DropLocals(memory, 1 .. running)
  /\ running' = 0
  /\ pc' = "idle"
  /\ UNCHANGED <<nodes, lastValue, pending>>

NextChild ==
  /\ pc = "inside"
  /\ LET v == At(memory, Current)
         count == Cardinality(DOMAIN memory[v.ptr].key)
     IN  \E k \in IF v.type = "object" THEN Names ELSE {count} \cap 0 .. MaxElements - 1 :
           /\ memory' = InsertChild(memory, Current, k)
           /\ nodes' = Append(nodes, [map |-> v.ptr, key |-> k])
  /\ pc' = "value"
  /\ UNCHANGED <<running, lastValue, pending>>

BadSeparator ==
  /\ pc = "inside" /\ pc' = "recover"
  /\ UNCHANGED <<memory, nodes, running, lastValue, pending>>

(* The container ends, or recoverFromError has found its end. *)
CloseContainer ==
  /\ pc \in {"inside", "recover"}
  /\ memory' = DropLocals(memory, {running})
  /\ running' = running - 1
  /\ lastValue' = Current
  /\ Return(pc = "inside")
  /\ UNCHANGED pending

ParseEnd ==
  /\ pc = "after" /\ pc' = "idle"
  /\ memory' = IF pending THEN SetComment(memory, RootAt, "after") ELSE memory
  /\ UNCHANGED <<nodes, running, lastValue, pending>>

Reader ==
  \/ ParseBegin \/ ReadComment
  \/ ReadScalar \/ ReadString \/ BadValue \/ StackExceeded
  \/ \E type \in {"object", "array"} : OpenContainer(type)
  \/ NextChild \/ BadSeparator \/ CloseContainer
  \/ ParseEnd

(* The dispatcher's use of json_in and json_out between two texts. *)
Root == At(memory, RootAt)

ClearRoot ==
  /\ Root.type \in {"null", "object", "array"}
  /\ memory' = IF Root.type = "null" THEN memory
               ELSE Destroy([memory EXCEPT ![Root.ptr] = NewMap], Inside(memory[Root.ptr]))

AccessMember(name) ==
  /\ Root.type \in {"null", "object"}
  /\ memory' = Resolved(memory, name)

AssignMember(name) ==
  /\ Root.type \in {"null", "object"}
  /\ LET m == Resolved(memory, name)
     IN  memory' = Assign(m, [map |-> At(m, RootAt).ptr, key |-> name], Value("number", Nil))

\* The policy_entity goes with its connection; another one is made.
ReplacePolicy == memory' = Assign(memory, RootAt, NullValue)

Policy ==
  /\ pc = "idle"
  /\ ClearRoot \/ ReplacePolicy \/ \E name \in Names : AccessMember(name) \/ AssignMember(name)
  /\ UNCHANGED <<nodes, running, lastValue, pending, pc>>

Next == (Reader \/ Policy) /\ Cardinality(Blocks(memory')) <= MaxBlocks

Spec == Init /\ [][Next]_vars
-----------------------------------------------------------------------------
\* Every block has one owner that will free it, in the middle of a text, after
\* an error or an exception and for the caller, although payloads are swapped
\* under Values with comments and keys are copied twice on their way into a map
\* (CZString, swapPayload, operator=, setComment, clear, the destructors).  No
\* pointer that owns something points to what is freed, no two to the same
\* block, also not two of one Value; no key is the caller's; and no block is
\* lost, also not in a circle: the Values on the stack own all, by steps.
SeparatePointers(block) ==
  \A p, q \in Pointers(block) : Owns(block, p) = Owns(block, q) => p = q \/ Owns(block, p) = Nil

OwnedOnce ==
  LET inside == [id \in DOMAIN memory |-> Inside(memory[id])]
  IN  /\ \A id \in DOMAIN memory :
           /\ inside[id] \subseteq Blocks(memory)
           /\ SeparatePointers(memory[id])
           /\ \A other \in DOMAIN memory \ {id} : inside[id] \cap inside[other] = {}
           /\ memory[id].kind = "map" =>
                \A k \in DOMAIN memory[id].key : memory[id].key[k].ptr # Caller
      /\ Blocks(memory) = AllOf(inside[Nil], memory)

\* While a text is read, the nodes of the reader and the value that the next
\* comment may be put on are Values that exist, also when a name comes twice
\* and the second value destroys the first one's members, and when texts
\* follow each other with a new root (nodes_, lastValue_).
PointersAlive ==
  pc # "idle" =>
    /\ \A i \in DOMAIN nodes : Alive(memory, nodes[i])
    /\ lastValue # NoAddress => Alive(memory, lastValue)
=============================================================================
