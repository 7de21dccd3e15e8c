------------------------------ MODULE AdminConn ------------------------------
(***************************************************************************)
(* The command server (main.cpp:71-245): one thread, one libevent loop,    *)
(* and per connection a receive buffer (interface_data), a parser          *)
(* (http_entity) and a policy (policy_entity).  RecvData appends what has  *)
(* arrived to the buffer, parses the buffer from its start, and when the   *)
(* parser says that the command is complete executes and answers it and    *)
(* forgets the whole buffer.                                               *)
(*                                                                         *)
(* A byte stream is cut anywhere, so what matters is where recv cuts a     *)
(* command.  A command is a sequence of tokens, the places where a cut     *)
(* makes a difference to the parser:                                       *)
(*                                                                         *)
(*   line    the request line and the other headers                        *)
(*   length  the header Content-Length, right for the body                 *)
(*   blank   the empty line that ends the head                             *)
(*   name    "data", then eq, "=", then the value, a JSON object:          *)
(*   fields  in_path, out_path, open_thread_num and the name of            *)
(*           close_thread_num, then its number in two digits               *)
(*   end     what closes the object                                        *)
(***************************************************************************)
EXTENDS Integers, Sequences, FiniteSets, SequencesExt

CONSTANTS
  Conns,    \* client connections to the update port
  MaxCmd,   \* bounds the commands of one client
  BufLen,   \* recv_buff_len, in tokens
  Kinds     \* the commands a client may send, see GetOutJson

ASSUME AdminConnAssumption ==
  /\ MaxCmd \in Nat /\ BufLen \in Nat \ {0}
  /\ Kinds \subseteq {"valid", "bad", "sample"}

VARIABLES
  link,      \* the server's end of each connection, see Links
  noFds,     \* the process has no descriptor left for accept
  left,      \* the client has closed its end or is gone
  cmds,      \* history: the commands the client sent
  wire,      \* tokens sent and not yet received
  buf,       \* recv_buff up to now_recv_len
  http,      \* the http_entity
  answers,   \* ret_codes sent
  executed,  \* history: commands that reached Path_Manager
  cutValue,  \* history: commands with a recv that ended within the value
  piped,     \* history: clients that sent a command before the last answer
  alive      \* the process runs

clientVars == <<left, cmds, piped>>
serverVars == <<buf, http, answers, executed, cutValue>>
vars == <<link, noFds, wire, clientVars, serverVars, alive>>

\* "backlog" accept has not taken it yet; "open" it has a session; "orphaned"
\* it is open without one, as fcntl failed on it; "closed" the server closed it
\* or accept found it broken.
Links == {"none", "backlog", "open", "orphaned", "closed"}

Body == <<"name", "eq", "fields", "digit", "digit", "end">>
BodyLen == Len(Body)
Digits == Cardinality({i \in DOMAIN Body : Body[i] = "digit"})
HeadParts(hasLength) ==
  IF hasLength THEN <<"line", "length", "blank">> ELSE <<"line", "blank">>
Tokens(n, hasLength) ==
  LET parts == HeadParts(hasLength) \o Body
  IN  [i \in DOMAIN parts |-> [cmd |-> n, part |-> parts[i]]]

\* What may lie behind a full buffer, which no '\0' ends.
Junk == [cmd : {0}, part : {"junk", "digit"}]
AllTokens == [cmd : 1..MaxCmd, part : {"line", "length", "blank"} \cup Range(Body)]

FreshHttp == [status |-> "init", hasLength |-> FALSE, data |-> {}]
\* Mutant: reset() that forgets to clear body_map.
ResetKeepsData(h) == [FreshHttp EXCEPT !.data = h.data]
ResetHttp(h) == FreshHttp

TypeOK ==
  /\ link \in [Conns -> Links]
  /\ noFds \in BOOLEAN
  /\ left \in [Conns -> BOOLEAN]
  /\ cmds \in [Conns -> Seq([kind : Kinds, hasLength : BOOLEAN])]
  /\ wire \in [Conns -> Seq(AllTokens)]
  /\ buf  \in [Conns -> Seq(AllTokens)]
  /\ \A c \in Conns : Len(buf[c]) <= BufLen
  /\ http \in [Conns -> [status    : {"init", "head"},
                         hasLength : BOOLEAN,
                         data      : SUBSET Seq(AllTokens \cup Junk)]]
  /\ \A c \in Conns : Cardinality(http[c].data) <= 1
  /\ answers  \in [Conns -> Seq({0, 100, 101})]
  /\ executed \in [Conns -> Seq([cmd : 1..MaxCmd, close : Nat])]
  /\ cutValue \in [Conns -> SUBSET (1..MaxCmd)]
  /\ piped \in [Conns -> BOOLEAN]
  /\ alive \in BOOLEAN

Init ==
  /\ link = [c \in Conns |-> "none"]
  /\ noFds = FALSE
  /\ left = [c \in Conns |-> FALSE]
  /\ cmds = [c \in Conns |-> <<>>]
  /\ wire = [c \in Conns |-> <<>>]
  /\ buf  = [c \in Conns |-> <<>>]
  /\ http = [c \in Conns |-> FreshHttp]
  /\ answers  = [c \in Conns |-> <<>>]
  /\ executed = [c \in Conns |-> <<>>]
  /\ cutValue = [c \in Conns |-> {}]
  /\ piped = [c \in Conns |-> FALSE]
  /\ alive = TRUE

-----------------------------------------------------------------------------
(* The parser.  It reads the buffer from its start at every call. *)

\* split(str, "\r\n\r\n"): the pieces between empty lines.  A piece of no
\* length is not counted, so a head without a byte of body is one piece.
IsBlank(t) == t.part = "blank"
PieceStarts(s) ==
  {i \in DOMAIN s : ~IsBlank(s[i]) /\ (i = 1 \/ IsBlank(s[i-1]))}
PieceFrom(s, i) ==
  LET ends == {j \in i..Len(s) : j = Len(s) \/ IsBlank(s[j+1])}
  IN  SubSeq(s, i, Min(ends))
Piece(s, n) ==
  PieceFrom(s, CHOOSE i \in PieceStarts(s) :
                 Cardinality({j \in PieceStarts(s) : j <= i}) = n)
HasBody(s) == Cardinality(PieceStarts(s)) >= 2

\* The first row of the head is not looked at: a Content-Length that the
\* loss of its request line has made the first row is not found.
ParseHeader(h, s) ==
  IF HasBody(s)
  THEN [h EXCEPT !.status = "head",
                 !.hasLength = \E i \in 2..Len(Piece(s, 1)) :
                                 Piece(s, 1)[i].part = "length"]
  ELSE h

\* Mutant: a body without "=" yet is entered with an empty value.
ParseBodyNoContinue(h, s) ==
  IF h.data = {}
  THEN [h EXCEPT !.data = {SubSeq(Piece(s, 2), 3, Len(Piece(s, 2)))}]
  ELSE h

\* body_map["data"] as a set of at most one value.  map::insert does not
\* replace: the value stays what it was when its "=" was first seen.
ParseBody(h, s) ==
  LET body == Piece(s, 2)
  IN  IF h.data = {} /\ Len(body) > 1 /\ body[1].part = "name" /\ body[2].part = "eq"
      THEN [h EXCEPT !.data = {SubSeq(body, 3, Len(body))}]
      ELSE h

\* Mutant: one byte short of the Content-Length is enough.
BodyDoneEarly(h, s) == h.hasLength => Len(Piece(s, 2)) >= BodyLen - 1

\* Without a Content-Length the first byte of a body completes the command.
BodyDone(h, s) == h.hasLength => Len(Piece(s, 2)) >= BodyLen

\* The parser after a call of parse_done on the buffer s; "done" is its 1.
ParseDone(h, s) ==
  LET h1 == IF h.status = "init" THEN ParseHeader(h, s) ELSE h
      h2 == IF h1.status = "head" THEN ParseBody(h1, s) ELSE h1
  IN  IF h2.status = "head" /\ BodyDone(h2, s)
      THEN [h2 EXCEPT !.status = "done"]
      ELSE h2

-----------------------------------------------------------------------------
(* The policy. *)

\* The JSON reader keeps what it has read when the text ends early, and stops
\* at the end of the object; get_out_json runs whatever parse_in_json says.
\* A value is usable when it has all four fields.
CloseNum(v) ==
  Cardinality({i \in 2..Len(v) : \A j \in 2..i : v[j].part = "digit"})
Usable(v) == v # <<>> /\ v[1].part = "fields" /\ CloseNum(v) > 0

\* ret_code of get_out_json.  "bad" has a negative number in it; "sample" has
\* its in_path in quotes, as conf/cmd.json.conf, and asInt throws on a string.
Throws == -1
GetOutJson(c, data) ==
  IF \E v \in data : Usable(v)
  THEN LET v == CHOOSE v \in data : TRUE
       IN  CASE cmds[c][v[1].cmd].kind = "valid"  -> 0
             [] cmds[c][v[1].cmd].kind = "bad"    -> 101
             [] cmds[c][v[1].cmd].kind = "sample" -> Throws
  ELSE 100

\* What get_out_json did to Path_Manager: the launches and retirements that
\* IoThreads starts from, of which the number to close is all that varies.
Effects(ret, data) ==
  IF ret = 0 THEN {[cmd |-> v[1].cmd, close |-> CloseNum(v)] : v \in data} ELSE {}

-----------------------------------------------------------------------------
(* The callbacks. *)

Registered(c) == alive /\ link[c] = "open"

\* GC: the interface_data is deleted with its buffer and its parser.
CloseConn(c) ==
  /\ link' = [link EXCEPT ![c] = "closed"]
  /\ buf'  = [buf EXCEPT ![c] = <<>>]
  /\ http' = [http EXCEPT ![c] = FreshHttp]

\* What was not received goes with the socket.
Discard(c) == wire' = [wire EXCEPT ![c] = <<>>]

\* reset() forgets the whole buffer, also what follows the command.
ResetConn(c, h) ==
  /\ buf'  = [buf EXCEPT ![c] = <<>>]
  /\ http' = [http EXCEPT ![c] = ResetHttp(h)]

\* send fails only towards a client that is gone; a partial send counts.
SendData(c, h, ret) ==
  \/ /\ ResetConn(c, h)
     /\ answers' = [answers EXCEPT ![c] = Append(@, ret)]
     /\ UNCHANGED link
  \/ /\ left[c]
     /\ CloseConn(c)
     /\ UNCHANGED answers

\* do_one_action and SendData, called from RecvData; an exception is caught
\* nowhere and ends the process.
DoOneAction(c, h) ==
  LET ret == GetOutJson(c, h.data)
  IN  \/ /\ ret = Throws
         /\ alive' = FALSE
         /\ UNCHANGED <<link, buf, http, answers, executed>>
      \/ /\ ret # Throws
         /\ executed' = [executed EXCEPT ![c] = @ \o SetToSeq(Effects(ret, h.data))]
         /\ SendData(c, h, ret)
         /\ UNCHANGED alive

\* Mutant: the free room without what is already in the buffer.
RoomWhole(c) == BufLen

Room(c) == BufLen - Len(buf[c])

\* recv of n tokens: any beginning of what is on the wire, as far as it fits.
RecvSome(c) ==
  /\ Registered(c)
  /\ \E n \in 1..Len(wire[c]) :
       LET filled == buf[c] \o SubSeq(wire[c], 1, n)
           last   == wire[c][n]
       IN  /\ n <= Room(c)
           /\ wire' = [wire EXCEPT ![c] = SubSeq(@, n+1, Len(@))]
           /\ cutValue' = IF last.part \in {"eq", "fields", "digit"}
                          THEN [cutValue EXCEPT ![c] = @ \cup {last.cmd}]
                          ELSE cutValue
           /\ \E tail \in {<<>>} \cup {<<j>> : j \in Junk} :
                LET h == ParseDone(http[c], filled \o tail)
                IN  /\ tail # <<>> => Len(filled) = BufLen
                    /\ \/ /\ h.status # "done"
                          /\ buf'  = [buf EXCEPT ![c] = filled]
                          /\ http' = [http EXCEPT ![c] = h]
                          /\ UNCHANGED <<link, answers, executed, alive>>
                       \/ /\ h.status = "done"
                          /\ DoOneAction(c, h)
  /\ UNCHANGED <<clientVars, noFds>>

\* recv returns 0 when the client closed, and also when the buffer is full;
\* it fails when the connection was reset.
RecvNothing(c) ==
  /\ Registered(c)
  /\ left[c] \/ (wire[c] # <<>> /\ Room(c) = 0)
  /\ CloseConn(c)
  /\ Discard(c)
  /\ UNCHANGED <<noFds, clientVars, answers, executed, cutValue, alive>>

RecvData(c) == RecvSome(c) \/ RecvNothing(c)

\* Mutant: the timeout is not armed again for the rest of a command.
RecvTimeoutIdle(c) ==
  /\ Registered(c) /\ buf[c] = <<>>
  /\ CloseConn(c)
  /\ Discard(c)
  /\ UNCHANGED <<noFds, clientVars, answers, executed, cutValue, alive>>

\* 100 ms after the registration; libevent reports the timeout alone, also
\* when the socket has become readable in the meantime.
RecvTimeout(c) ==
  /\ Registered(c)
  /\ CloseConn(c)
  /\ Discard(c)
  /\ UNCHANGED <<noFds, clientVars, answers, executed, cutValue, alive>>

\* accept takes the connection, and it gets a session with its timeout, or
\* fcntl fails on it and it is neither served nor closed; or accept takes it
\* off the queue and reports that it is broken.  With no descriptor left accept
\* fails, nothing changes, and epoll reports the listening socket again.
UpdateAcceptListen(c) ==
  /\ alive /\ link[c] = "backlog"
  /\ ~noFds
  /\ \/ /\ \E end \in {"open", "orphaned"} : link' = [link EXCEPT ![c] = end]
        /\ UNCHANGED <<wire, buf, http>>
     \/ CloseConn(c) /\ Discard(c)
  /\ UNCHANGED <<noFds, clientVars, answers, executed, cutValue, alive>>

\* The I/O threads and their sessions take descriptors and give them back.
Descriptors ==
  /\ alive
  /\ noFds' = ~noFds
  /\ UNCHANGED <<link, wire, clientVars, serverVars, alive>>

-----------------------------------------------------------------------------
(* The clients. *)

ClientConnects(c) ==
  /\ alive /\ link[c] = "none"
  /\ link' = [link EXCEPT ![c] = "backlog"]
  /\ UNCHANGED <<noFds, wire, clientVars, serverVars, alive>>

\* What the client takes for a connection of its own.
Reachable == {"backlog", "open", "orphaned"}

\* A client may wait for its answer first, or not.
ClientSends(c) ==
  /\ alive /\ link[c] \in Reachable /\ ~left[c]
  /\ Len(cmds[c]) < MaxCmd
  /\ \E kind \in Kinds, hasLength \in BOOLEAN :
       /\ cmds' = [cmds EXCEPT ![c] = Append(@, [kind |-> kind, hasLength |-> hasLength])]
       /\ wire' = [wire EXCEPT ![c] = @ \o Tokens(Len(cmds[c]) + 1, hasLength)]
  /\ piped' = [piped EXCEPT ![c] = @ \/ Len(answers[c]) < Len(cmds[c])]
  /\ UNCHANGED <<link, noFds, left, serverVars, alive>>

ClientCloses(c) ==
  /\ alive /\ link[c] \in Reachable /\ ~left[c]
  /\ left' = [left EXCEPT ![c] = TRUE]
  /\ UNCHANGED <<link, noFds, wire, cmds, piped, serverVars, alive>>

Next ==
  \/ \E c \in Conns :
       \/ ClientConnects(c) \/ ClientSends(c) \/ ClientCloses(c)
       \/ UpdateAcceptListen(c) \/ RecvData(c) \/ RecvTimeout(c)
  \/ Descriptors

Spec == Init /\ [][Next]_vars

\* The loop runs, and the timer of a registered event runs out.  Nobody has to
\* give a descriptor back.
Fairness == \A c \in Conns :
  WF_vars(UpdateAcceptListen(c)) /\ WF_vars(RecvTimeout(c) \/ RecvData(c))
FairSpec == Spec /\ Fairness

-----------------------------------------------------------------------------
(* Properties *)

\* Whatever the cuts, and however far ahead a client sends, a command changes
\* Path_Manager at most once, and the commands of a connection do so in the
\* order in which they were sent (RecvData and reset, main.cpp:76-200).
CommandOnce ==
  \A c \in Conns : \A i, j \in DOMAIN executed[c] :
    i < j => executed[c][i].cmd < executed[c][j].cmd

\* A client as HTTP/1.1 wants it: it gives the length of each body and waits
\* for an answer before the next command, and its commands fit the buffer.
InTurn(c) ==
  /\ ~piped[c]
  /\ \A k \in DOMAIN cmds[c] : cmds[c][k].hasLength
  /\ Len(Tokens(1, TRUE)) <= BufLen

\* Such a client gets, as its k-th answer, the ret_code its k-th command
\* deserves, and a valid one has been executed with the numbers it was sent
\* with, unless a recv ended within the value of that very command: cuts
\* elsewhere and cuts of earlier commands do no harm (parse_done and
\* do_one_action on a buffer that is parsed again at every recv).
AnswerRight ==
  \A c \in Conns : InTurn(c) =>
    \A k \in DOMAIN answers[c] \ cutValue[c] :
      /\ answers[c][k] = (IF cmds[c][k].kind = "valid" THEN 0 ELSE 101)
      /\ answers[c][k] = 0 =>
           [cmd |-> k, close |-> Digits] \in Range(executed[c])

\* Such a client is not answered before the server has read its command to
\* the end, so that no rest of it is taken for the next command (parse_done
\* against Content-Length, http.cpp:219-227).
AnsweredWhole ==
  \A c \in Conns :
    InTurn(c) /\ link[c] = "open" /\ Len(answers[c]) = Len(cmds[c]) =>
      wire[c] = <<>> /\ buf[c] = <<>>

\* A client that sent a command gets an answer or sees the connection closed,
\* also when its command was lost behind another one or cannot be parsed: the
\* receive timeout is armed at every registration (main.cpp:118, 177, 234).
\* Two clients are excepted: one that waits in the queue of a process that runs
\* out of descriptors over and over, and one on whose connection fcntl failed
\* (main.cpp:224-229), which waits for as long as it likes.
Settled(c) ==
  \/ Len(answers[c]) = Len(cmds[c])
  \/ link[c] = "closed"
  \/ ~alive
CommandSettled ==
  <>[] ~noFds =>
    \A c \in Conns :
      (cmds[c] # <<>> /\ link[c] # "none") ~> Settled(c) \/ link[c] = "orphaned"

\* "return -1 error, 0 continue receive ,1 parse done" (http.cpp:179): a
\* command that says how long it is is not done before all of it is there, so
\* it is executed with the number it was sent with.
ParseDoneWhole ==
  \A c \in Conns : InTurn(c) =>
    \A i \in DOMAIN executed[c] : executed[c][i].close = Digits

=============================================================================
