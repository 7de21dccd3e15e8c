# comio: a TLA+ verification project

comio is a small HTTP/TCP dispatcher. A **command thread** listens on the update
port (9999) and executes JSON commands; each command names a listening port
(`in_path`), its weighted list of backends (`out_path`) and how many I/O threads
to open and to close on the port. An **I/O thread** accepts clients on its port and
relays requests and answers between them and the backends. The threads share one
object, `Path_Manager`.

This directory holds TLA+ modules translated from the source, TLC configurations
that check them on small instances, and proofs that TLAPS checks for all instances.
`PROJECT.json` maps every definition to the lines it models, and lists the runs, the
mutants (a plausible bug for every property, which the run must catch), the
disagreements found between the code and its own comments, and the hazards.

## 1. Inventory

| Component | State | Operations | Correct when |
|---|---|---|---|
| `Path_Manager`, accept registry (`path_manager.cpp:79-133`) | port -> (listening socket, accept mutex, `use_num`), under `_accept_dict_lock` | `Get_Path_Listen_Sock`, `Put_Path_Listen_Sock`, `InitListenSocket` | the socket and mutex live exactly as long as a thread can use them |
| `Path_Manager`, thread registry (`:135-185`) | port -> stack of thread pointers, under `_path_ptr_dict_lock` | `Add_Path_Ptr`, `Del_Path_Ptr` | it holds live, unretired threads, all of them, each once |
| `Path_Manager`, backends (`:3-77`) | port -> list of (address, ratio, credit), under `_path_dict_lock` | `Update_Path`, `Select_Path`, (`Delete_Path`: no caller) | requests are shared in proportion to the ratios |
| I/O thread, life cycle (`io_dispatch.cpp:56-96, 247-374`) | `thread_status`, `path_k`, socket and mutex copies, `event_base` | launch, retire, `ProcessTimer`, `ProcessListenEvent` | it can always be retired, then ends, and gives back what it took |
| I/O thread, sessions (`io_dispatch.cpp:18-245`, `io_storage.cpp`) | per client: two `Io_Storage` (descriptor, buffer, event) | `ProcessUpStream_Recv`, `ProcessDownStream_Recv`, `reg_add_event` | each client gets its answers, each descriptor is closed once, no event outlives its session |
| `Io_Manager` (`io_manager.cpp`) | backend address -> connected descriptor; one per I/O thread | `get_io`, `wait_3handshake`, `init_connet_fd`, destructor | what it hands out is open and connected to that backend or one its key does not tell apart; what it established is released |
| Command server (`main.cpp`) | per connection: receive and send buffers, parser, policy | `RecvData`, `SendData`, `UpdateAcceptListen` | a command is executed once and answered once, however TCP cuts it |
| HTTP parser (`http.cpp`) | status, header map, body map | `parse_done`, `parse_header`, `parse_body`, `reset` | the result does not depend on where the input was cut |
| Policy (`policy_interface.cpp`) | the command being executed, the global `Path_Manager` | `do_one_action`: `parse_in_json`, `get_out_json`, `cook_senddata` | what was refused has no effect |
| jsoncpp, as the policy uses it | a `Reader` and a `FastWriter` shared by all connections; per policy two `Value` trees | `Reader::parse`, `FastWriter::write`, accessors and conversions of `Value`, `clear`, `operator=`, destructors | a text means what was written, nothing of an earlier text is left, every block of memory has one owner |
| `easy_log` | current file, the count of records, the file's number | `write_record` with its rotation, `my_log_init` | the newest records are kept, in order |
| Helpers (`common.cpp`) | none | `InitListenSocket`, `get_sock_tcp_status`, time arithmetic | |
| libevent 1.4.14 | third party, an archive | | external definitions of `IoDispatch` |

**Interactions.** The command thread calls `Path_Manager` and creates I/O threads; it
retires one by writing `thread_status` through the registered pointer, with no lock.
An I/O thread calls `Select_Path` per request and `Put_Path_Listen_Sock` when it ends.
All I/O threads of a port share one listening socket and one accept mutex, of which
each keeps a copy made at launch. Within an I/O thread everything is a libevent
callback; the sessions share the thread's `Io_Manager` and so the backend sockets.

**What is hard.** (a) the reference count on the shared socket against launches, failed
launches and retirements in any order; (b) a pointer taken from the registry is written
later, while the thread it names may delete itself; (c) libevent 1.4 on epoll remembers
one reading event per descriptor, two sessions may wait on one cached connection, and
descriptor numbers are used again by the kernel; (d) error paths that go on as if
nothing had happened (`get_io` failing, `bind` failing); (e) credits that must stay
balanced over long sequences, in ints that can overflow; (f) a byte stream that is cut
anywhere, parsed from the start of the buffer at every recv; (g) a JSON reader that goes
on with what it has when a text is cut or wrong, and behind the end of one into old
memory, shared by all connections, and whose exceptions nothing catches; (h) the policies by which a `Value` owns names, strings and
comments while payloads are swapped under it. `PROJECT.json` lists 40 hazards, each at
its line, with the properties that cover it or the reason why none does.

## 2. Modules

| Module | Models | Lines |
|---|---|---|
| `PathManager` | the two registries; one operator per method | `path_manager.cpp:79-185`, `common.cpp:26-43` |
| `IoThreads` | EXTENDS `PathManager`: the command thread, the I/O threads' life, accept | `io_dispatch.cpp:56-96, 247-374`, `policy_interface.cpp:132-215` |
| `SelectPath` | weighted selection and replacement of the list | `path_manager.cpp:3-62` |
| `IoDispatch` | one I/O thread at work: sessions, connection cache, libevent, kernel | `io_dispatch.cpp:18-292`, `io_manager.cpp`, `io_storage.cpp` |
| `AdminConn` | the command server: connections, parser, policy | `main.cpp:48-245`, `http.cpp:108-230`, `http.h:18-95`, `policy_interface.cpp:106-275` |
| `SharedPort` | abstract: what the accept registry promises the threads of a port | none, a specification |
| `IoThreadsPort` | EXTENDS `IoThreads`: the refinement mapping to `SharedPort` | |
| `JsonValue` | `Json::Value`: types, members, conversions and when they throw | `json_value.cpp:345-431, 673-998, 1050-1107, 1270-1367` |
| `JsonReader` | EXTENDS `JsonValue`: `Reader::parse` on tokens, one action per place in `readValue`, `readObject`, `readArray` | `json_reader.cpp:104-256, 463-555, 753-783` |
| `JsonWriter` | EXTENDS `JsonReader`: `FastWriter` | `json_writer.cpp:337-398` |
| `JsonGrammar` | EXTENDS `JsonReader`; reference: which sequences of tokens are values, and which | none, a definition to check against |
| `JsonPolicy` | EXTENDS `JsonReader`, with `FastWriter::write` as a parameter: `do_one_action` on one command after the other | `policy_interface.cpp:131-275` |
| `JsonHeap` | who owns the memory of a `Value`, and the reader's pointers | `json_value.cpp:97-288, 485-531, 943-957, 1050-1110, 1379-1387`, `json_reader.cpp:126-246, 350-402` |
| `JsonNumber`, `JsonString`, `JsonLexer` | characters: numbers, strings, tokens and comments | `json_reader.cpp:258-461, 557-751`, `json_tool.h`, `json_writer.cpp:102-134, 257-318` |
| `Url`, `IoKey` | `url_encode`, `url_decode`, the fields of a body; the order of the connection cache | `http.cpp:3-106, 138-162`, `io_manager.h:12-53` |
| `Texts` | EXTENDS the three above and these two: every text up to a length against reference definitions | |
| `EasyLog` | log files in turn, failed opens, restarts | `easy_log.h:25-79`, `easy_log.cpp:25-68` |
| `MCIoThreads`, `MCSelectPath`, `MCIoDispatch`, `MCAdminConn`, `MCJsonPolicy`, `MCTexts` | instances for TLC | |
| `IoThreadsProofs` | proofs about `IoThreads` and `IoThreadsPort` | |
| `SelectPathProofs`, `IoDispatchProofs`, `AdminConnProofs`, `JsonPolicyProofs`, `JsonHeapProofs`, `TextsProofs`, `EasyLogProofs` | proofs about the modules of these names | |

### IoThreads and PathManager

Each method of `Path_Manager` holds its mutex from first line to last, so a call is one
atomic step. What a thread does outside a mutex is a step of its own. `pc[t]` is
where I/O thread `t` is; `adminPc` where the command thread is in `get_out_json`:

| Code | Action |
|---|---|
| `get_out_json`, after validation | `Command(k, n, m)` |
| `io_launch_one_thread` up to `pthread_create` | `LaunchGet` (contains `Get_Path_Listen_Sock`) |
| `pthread_create` succeeds / fails | `LaunchCreated` / `LaunchFailed` (gives the entry back, deletes the object) |
| `Add_Path_Ptr` | `LaunchAdd` |
| `io_retrieve_one_thread`: `Del_Path_Ptr`, then the write | `RetrieveDel`, `RetrieveMark` |
| `IoLoopThread` up to the loop | `StartLoop` |
| `ProcessListenEvent`: lock, accept and unlock, the rest | `AcceptLock`, `Accept`, `HandleAccepted` |
| `ProcessTimer` in state closing; in state close | `TimerClosing`; `TimerFreeBase`, `TimerPutSock` |
| return into libevent's loop | `LoopReturn` |

`LaunchCreated` and `LaunchAdd` are two steps, so the new thread runs before it is
registered. `bind` and `listen` failing are the socket states "stray" (unbound, so
`listen` picks another port) and "failed" (`socket` returned -1). A listening socket is
named by the launch that created it, so "the same socket" can be told from "a new one".
`accept` takes a waiting connection, takes a broken one off the queue with an error
("aborted"), or fails and leaves the queue as it is, also with connections waiting
(no descriptor is left). `HandleAccepted` makes a session ("served"), or loses the
connection: the thread finds itself retired ("stranded"), or `fcntl` fails ("orphaned");
in both cases the code returns with the descriptor open and nobody to close it.
The free of the `event_base` in its own loop is undefined behaviour: `LoopReturn`
either ends the loop or the process.

### SelectPath

A backend is its position in the list. `picks` and `total` are history variables: the
properties compare the credits with them. The sums are of an `int`'s width (`Wrap`), and
the shares are promised only for lists whose credits have room (`RatiosFit`): the sum
of the ratios once for each backend. Room for the sum alone is not enough.

### IoDispatch

`net` is the kernel (who owns a descriptor, what its peer did, what is unread, the epoll
set), `lib` is libevent (events inserted, timers in order, `evread` the table by
descriptor, the active queue), the rest the program. `get_io` is an operator on the
kernel state that returns the set of its outcomes, because its callers use descriptor,
kernel and cache entry together. The callbacks are single actions: the loop runs one at
a time. `AcceptLoses` is an accepted connection that gets no session (`fcntl` failed, or
the thread is retired), whose descriptor stays taken.

The cache is a set of entries. `Alike` is the pairs of backends of which neither is less for
`Io_Comp`, since it compares the common beginning of two addresses only: a lookup may hit the
entry of an alike backend (`Hits`), and `insert` may find one and keep the new connection out.
Which addresses are alike, and when `Io_Comp` is a strict weak order on them (`Ordered`), is
in `IoKey` and `Texts`; where it is none, a lookup may miss an entry that is there (`Misses`).
A handshake that `wait_3handshake` gave up on (peer "syn") leaves its socket open and
outside the cache, and may still end (`HandshakeEnds`, peer "late").

`Callback(s)` splits on what `recv` returns and on the callback that was
registered. `unset` tracks `_now_recv_len`, which the constructor leaves unassigned
(`io_storage.cpp:5-10`): reading it is a choice of outcomes (`RecvUnset`).

The libevent and kernel operators are marked external in the map; they state what the
callbacks rely on: `event_add` modifies or adds by its own table and reports failure
(which `reg_add_event` ignores), `event_del` clears the table entry of the descriptor
whosever it is, a closed descriptor leaves the epoll set, a number is used again.

Data is abstract: a request or a piece of an answer is a record naming its client. The
size of buffers and partial sends are left out.

### AdminConn

`UpdateAcceptListen` takes a connection and makes a session with its timeout, or loses it
when `fcntl` fails ("orphaned": open, with neither session nor timer), or finds it broken;
while the process has no descriptor left (`noFds`, which the I/O threads' sessions cause and
end at any time, `Descriptors`) it fails and the connection waits in the queue.
`RecvData`, with the parser, the policy and `SendData` it calls, is one action: the
loop runs it to its end. A command is a sequence of tokens, one per place where a cut
makes a difference to the parser; `recv` takes any beginning of what is on the wire
that fits. Cuts inside a token act like a cut before it or after it: half an empty
line separates nothing, half a number is a smaller number (two digits), half of the
other fields is a missing field. `Piece` is `split`: an empty line at the very
beginning leaves a few characters in front of the first piece and no piece of its
own. The body map is a set of at most one value, which `insert` does not replace.

Here jsoncpp is seen from outside (`JsonPolicy` has the inside): it keeps what it has read when the text ends early, `get_out_json` runs whatever
`parse_in_json` returned, and `asInt` throws on a string: `GetOutJson` gives the return
code of such a value, `Throws` for the exception. A buffer that is exactly full has
no final zero; what lies behind it is a choice of nothing, some byte or a digit.
`cmds`, `cutValue`, `piped` and `executed` are history variables. What a command does to
`Path_Manager` is `IoThreads`; here only the number to close tells a whole value from
a truncated one.

### SharedPort and IoThreadsPort

`SharedPort` says what the accept registry is for, in four actions: a port has a set of
users and, while there are any, one shared object; the first user makes it, new, the
last one ends it; one user at a time is inside. It knows no reference count, no launch
and no retirement. The mapping: a thread uses a port from `LaunchGet` to `TimerPutSock` or
`LaunchFailed`, a socket with its mutex is one object, the owner of the mutex is inside.

### JsonReader, JsonWriter, JsonPolicy

A text is a sequence of tokens, a value a record. The recursion of `readValue`,
`readObject` and `readArray` is a stack, `nodes`, and a place, `pc`; each token read is a
step. A text is one a client wrote, cut anywhere (inside a number, a string or a comment,
too), or it is *free*: any tokens, chosen as they are read, of which the end of the text is
one. `parse` copies the document up to its capacity, so behind the zero at the document's
length the reader may find bytes of an earlier text. The zero is one token of the end, and the
reader then stands behind it: what asks for a further token (behind a comment the separator is
not checked, and the end passes for one) reads on in that memory, as do a string and a comment that are cut. `text.past`
says whether the zero has been read, `text.behind` where in the memory the reader is: at a
place in a text of `Left` (`Places`), where each further token may be a zero again.
`TakeCut`, `TakeAtEnd` and `TakeBehind` are the three ways. What follows `parse` is one action each:
`GetOutJson`, `CookSenddata`. The texts' numbers, names and lists are chosen to give every
return code, every exception and every kind of refused element. `JsonGrammar` is written
from the other side: a table, given row by row from shorter rows, of what the tokens from one
place of a text to another mean as a value, as elements, as members or in front of a member.

### JsonHeap

The same reader, with memory for meaning: a block is what `malloc` or `new` returned; a
`Value` lies in a map and is addressed by map and key. The Values on the stack, the caller's
root and the local `init` of each `readObject` or `readArray` that is running (`running`),
are one more map, at `Nil`, which nobody frees. `Owns` says what the destructors free
by each pointer of a block, `AllOf` what they reach from there. A step goes from one
change of memory to the next. `CopyKey` is the
`CZString` copy with its policies, `SwapPayload`, `Assign`, `SetComment`, `InsertChild` and
`Destroy` are the methods of the same names. Between texts the policy clears its
root, looks members up (which inserts them), assigns one, or is deleted.

### Texts and what it extends

Pure functions on characters. A text of one of eight kinds grows by a character in each
step, so that TLC evaluates every property on every text up to the bound. Reals are
given in halves, enough to tell integral ones. `decodeDouble` refuses what an input stream
does not take for a number (an exponent without digits, a number too large) and gives the
double next to the number otherwise: `Rounded`, a function that is a parameter. Of it
`DoubleAssumption` says what the properties need, which holds of IEEE doubles: it keeps the order,
every `Int` and `UInt` is a double, the lower limit of `LargestInt` is one, and the upper limits of the
64-bit types become the next number. So a number just below -2^63 may become
-2^63, for which `isInt64` is true, and a fraction near an integer may become the integer:
`ConvertibleAsAsked` is stated so that it says what remains true, for integers from the lower
limit on, and `NumberExactOrRefused` that a fraction is used as one of the two integers next to it. `AlphabetAssumption` says what the
characters of a number, a key, a body and a string are: digits, integers, bytes, bytes; that
the escapes are units of UTF-16; and that no text of tokens has the character that stands
for the end of a text.

### EasyLog

Records are numbered in the order of the mutex. `my_log_init` opens a file twice, to clear
it and to append, and either may fail: `uncleared` and `dropped` are history variables.
The counter is of width `CountModulo`. The process may be restarted and begins
again with file 0.

## 3. Runs

| Run | Instance | Shows |
|---|---|---|
| `threads_safety` | 2 ports, 3 threads, 1 client, commands up to 2+2; 1,354,377 states | `RefCountExact`, `SharedSocketAlive`, `AcceptExclusive`, `RegistryLive`, `NoThreadLost`, `SharesPorts` (the refinement) |
| `threads_live` | 1 port, 2 threads, 2 clients; 194,109 states | `RetiredThreadExits`, `ServedUnlessRetired`, `PortReleased` |
| `select_path` | lists of 1-4 ratios in 0..3, 24 selections, narrow ints; 8,576 states | `CreditConserved`, `CreditIsBalance`, `FairShare` |
| `dispatch_fds` | 3 sessions (one a silent client, 1 request of the others), 4 descriptors, 3 backends of which 2 are alike; 373,888 states | `NoDanglingEvent`, `RegisteredHasTimer`, `ClientSocketOwned`, `CacheSound` |
| `dispatch_traffic` | 2 sessions with 2 requests and 1, 3 descriptors, 2 backends that are alike; 635,660 states | `AnswerOnce`, `RequestOnce`, `WaitEnds` |
| `admin` | 1 client, 2 commands of all kinds, buffer of 12 tokens (a command has 8 or 9); 46,036 states | `CommandOnce`, `AnswerRight`, `AnsweredWhole`, `CommandSettled` |
| `json` | two texts one after the other: commands in three orders of members, with and without comments, cut anywhere and read on behind their end, and free texts of up to 7 tokens; 7,010,687 states | `ReadsGrammar`, `WholeTextRead`, `CutShortensOne`, `FromThisText`, `ThrowLeavesManager` |
| `texts` | every text of eight kinds, up to 3-6 characters, doubles of 5 bits; 217,906 states | `NumbersKept`, `StringsKept`, `TokensKept`, `BodyGivesValueBack`, `KeyOrder` |
| `json_heap` | 2 names, 1 element, nesting of 2, 5 blocks at a time; 431,163 states | `OwnedOnce`, `PointersAlive` |
| `easy_log` | 3 files of 3 records, 22 records, a counter modulo 10, 1 restart; 1,047,050 states | `NewestKept`, `FilesInOrder` |
| `dispatch_downevent`, `admin_done` | 3 sessions with 2 requests and 1 each, 4 descriptors, 1 backend; and `admin` with 1 command | the violations of section 5 |

**Bounds.** `Threads` bounds the launches of a whole behaviour, since an object is not used
twice; three are enough for a second generation on a port whose first thread is
still ending, next to a thread on another port. `MaxPerCmd` = 2 allows closing more
than there are. `MaxPicks` = 24 is at least two rounds of the largest sum, 12, and
three more lists overflow an `int` of 48. Four descriptors for three sessions and the
backend connections are scarce: `socket` and `accept` fail, numbers are used again.
The three backends of `dispatch_fds` are two that are alike and one that is like neither, so
that a lookup can hit another backend's connection, and can miss. The instances have `Ordered`
TRUE; that it is FALSE is covered by the proofs, which hold for both.
`MaxReqs` bounds the requests of each client (the second of a connection is what meets a
buffer that was not reset), `Segments` the pieces of an answer. In
`AdminConn` a buffer of 12 tokens holds a command and the beginning of the next, so it
also fills up, and the second command meets what the first left behind. Connections share nothing but the process
and the JSON reader, so one is enough here, and `JsonPolicy` serves its texts one after
the other as the locks make them. In `json`, seven tokens are enough for an object with
a member, a comment behind it and what the comment lets pass; the memory behind every text
holds one whole command (`MCLeft`), of which the reader may enter any part. In `texts`, `MaxInt` = 7 and
`MaxLargestInt` = 63 put every limit of an integer type within four digits, and `MCRounded` is
a double of five bits: it tells every `UInt` apart and no upper limit of a 64-bit type, rounds
some fractions onto integers and has a largest number.
In `json_heap`, five blocks hold a map with a named member that has a comment while the
name is copied. In `easy_log`, 22 records are more than two rounds of the files and two of
the counter.

**Symmetry** is used in safety runs only. The models name ports, threads, connections,
sessions and descriptors by model values, never choose among them by CHOOSE and never
order them, so permutations are sound. **Deadlock** checking is off where the system may
rest: all objects launched and ended, a crash, a thread that has ended. In `SelectPath`
it is on: a list can always be replaced.

**Fairness.** Weak fairness on each I/O thread's own steps (`StartLoop`, `ListenStep`,
`TimerStep`) and on the command thread once it executes a command: the scheduler runs
every thread that can run, and a thread's timer is served by its loop at each turn.
For `ListenStep` and the accept mutex this is weaker than it may look: a waiting thread
may lose the mutex to another for as long as the others keep taking it, but each taking
consumes a connection, finds none, or fails, so as long as `accept` does not fail for ever
the mutex is finally free in the bounded instance. That is a premise and no
fairness: the three liveness properties of `threads_live` begin with `AcceptRecovers`, that `accept` does
not fail again and again with connections waiting, and say nothing of a process that stays out of
descriptors; nothing is assumed of what a single `accept` or `fcntl` returns. In `IoDispatch`: time passes (`Expire`) and callbacks run. In `AdminConn`:
the loop accepts, and a registered event gets either callback, since its timer runs out if nothing comes;
`CommandSettled` has the premise that the process is not out of descriptors for ever or again and
again (`<>[]~noFds`). No fairness on clients,
backends, commands or the kernel's choices.

**About the properties.** `FairShare` bounds a backend's lead by one request;
the lag is bounded by one request per other backend and not by one,
which is false for lists of about seven backends or more. `AnswerOnce` says that a
piece of an answer reaches at most one client, not that it reaches the one that asked:
two sessions that share a cached connection can get each other's answers, since an
answer goes to the session registered on the descriptor when it arrives. Nothing in the
repository promises otherwise, so this is listed as a hazard and is not a finding.
`AnswerRight` and `AnsweredWhole` are about clients that give a Content-Length and wait
for each answer; a client that sends ahead loses commands when `reset` forgets the
buffer, and `CommandOnce` and `CommandSettled` are what remains for it.
`ServedUnlessRetired` says under which conditions a client that connected is dropped: a thread
of the port was retired, `accept` found the connection broken, or `fcntl` failed on it.
`CommandSettled` excepts a client on whose connection `fcntl` failed: it has no timer either.
`CacheSound` excepts a connection whose handshake ended after the wait, and says of alike
backends that the connection handed out is to one of them. `FromThisText` and `CutShortensOne` are
about commands for which the reader stayed within the document; `FromThisText` also says where it does not:
only where the text ends in a comment or behind one, or in a string. What such a
text may take from an earlier one is then whatever the memory holds.

## 4. What is proved

Each theorem says that a specification has a property for every value of the constants
that satisfies the assumptions in the last column; the bounds of the runs are
constants like any other. TLC checked each inductive invariant on a small instance first.

| Theorem | Property | Assumptions |
|---|---|---|
| `IoThreadsProofs!TypeCorrect` | `TypeOK` | `NamesAssumption` (the null values are no objects, finitely many threads), `CommandAssumption` (counts are naturals) |
| `IoThreadsProofs!RefCountCorrect` | `RefCountExact` | the same |
| `IoThreadsProofs!SharedSocketCorrect` | `SharedSocketAlive` | the same |
| `IoThreadsProofs!AcceptCorrect` | `AcceptExclusive` | the same |
| `IoThreadsProofs!RegistryCorrect` | `RegistryLive` | the same |
| `IoThreadsProofs!NoThreadLostCorrect` | `NoThreadLost` | the same |
| `IoThreadsProofs!SharesPortsCorrect` | `SharesPorts`: `IoThreads` implements `SharedPort` | the same |
| `SelectPathProofs!CreditConservedCorrect` | `CreditConserved` | `RatioAssumption` (the lists are not empty, a ratio is an `int` and not negative) |
| `SelectPathProofs!CreditIsBalanceCorrect` | `CreditIsBalance` | the same |
| `SelectPathProofs!FairShareCorrect` | `FairShare` | the same |
| `IoDispatchProofs!DispatchTypeCorrect` | `TypeOK` | `IoDispatchAssumption` (a session is no backend, an answer has a piece), `AlikeAssumption` (a backend is like itself, and like another both ways; transitive where `Ordered`) |
| `IoDispatchProofs!NoDanglingEventCorrect` | `NoDanglingEvent` | the same |
| `IoDispatchProofs!RegisteredHasTimerCorrect` | `RegisteredHasTimer` | the same |
| `IoDispatchProofs!ClientSocketOwnedCorrect` | `ClientSocketOwned` | the same |
| `IoDispatchProofs!CacheSoundCorrect` | `CacheSound` | the same |
| `IoDispatchProofs!AnswerOnceCorrect` | `AnswerOnce` | the same |
| `IoDispatchProofs!RequestOnceCorrect` | `RequestOnce` | the same |
| `AdminConnProofs!AdminTypeCorrect` | `TypeOK` | `AdminConnAssumption` (the kinds of commands, a buffer of at least one token) |
| `AdminConnProofs!CommandOnceCorrect` | `CommandOnce` | the same |
| `AdminConnProofs!AnswerRightCorrect` | `AnswerRight` | the same |
| `AdminConnProofs!AnsweredWholeCorrect` | `AnsweredWhole` | the same |
| `EasyLogProofs!NewestKeptCorrect` | `NewestKept` | `LogAssumption` (a file and a record at least, a counter wider than one round of the files) |
| `EasyLogProofs!FilesInOrderCorrect` | `FilesInOrder` | the same |
| `JsonPolicyProofs!FromThisTextCorrect` | `FromThisText` | `TextAssumption` (texts and tokens are such, a number, a name or a sign), no other on the texts |
| `JsonPolicyProofs!ThrowLeavesManagerCorrect` | `ThrowLeavesManager` | the same |
| `JsonPolicyProofs!OneErrorCorrect` | `OneError` | the same |
| `JsonPolicyProofs!ReadsGrammarCorrect` | `ReadsGrammar`: the reader and the reference grammar accept the same rows of tokens, with the same value | the same |
| `JsonPolicyProofs!WholeTextReadCorrect` | `WholeTextRead` | the same, and `WrittenAssumption` (the value a given text was made of is one the reference grammar gives it) |
| `TextsProofs!NumbersKeptCorrect` | `NumbersKept` | `AlphabetAssumption` (a number has digits, a key integers, a body and a string bytes, a row of escapes units of UTF-16), `WidthAssumption` (`int` has a positive value and is no wider than `LargestInt`), `LimitAssumption` (the limits of `LargestInt` have two digits), `DoubleAssumption` (see `Texts` in section 2) |
| `TextsProofs!KeyOrderCorrect` | `KeyOrder` | `AlphabetAssumption` |
| `TextsProofs!BodyGivesValueBackCorrect` | `BodyGivesValueBack` | `AlphabetAssumption` |
| `TextsProofs!TokensKeptCorrect` | `TokensKept` | `AlphabetAssumption` (no text of tokens has the character that stands for the end of a text) |
| `TextsProofs!StringsKeptCorrect` | `StringsKept` | `AlphabetAssumption` |
| `JsonHeapProofs!OwnedOnceCorrect` | `OwnedOnce` | `HeapAssumption` (the bounds are naturals, a name is no index) |
| `JsonHeapProofs!PointersAliveCorrect` | `PointersAlive` | the same |
| `JsonHeapProofs!HeapInvariant` | `HeapInv` | the same |

### IoThreads

* `TypeInv` adds `AdminOK` to `TypeOK`: which of the command thread's variables mean
  something at which point, e.g. the object it is launching is still in "created".
  Without it `LaunchFailed` may put back the entry of no port.
* `SockInv` is inductive for the sockets. The three properties need each other: the
  count says who the last user is, and that user's release is harmless only because
  every other user is on another port. That needs `EntriesDistinct`: no two ports
  share a socket, and no port holds one an unlaunched thread has yet to make.
  `SockFrame` covers the steps that touch none of this, `SockJoin` a launch,
  `SockLeave` both ways of giving an entry back. `LastUser` is the cardinality argument.
* `RegInv` is inductive for the registry, independent of `SockInv`: with
  `RegistryLive` and `NoThreadLost` it says that the thread being launched is in use and
  allocated (`AdminThread`), and that a thread frees its information only in status
  close, which only a retired thread reaches (`Stages`). So the unlocked write in
  `io_retrieve_one_thread` is safe: the pointer has left the registry, and the
  thread cannot go before the write.
* `PortInv` adds to `SockInv` that a socket no launch has made yet is unused (`Unmade`), so
  that a Join finds a new object. There is one lemma for each way a step shows
  in `SharedPort` (`PortFrame` for a stutter), and one step for each action of `Next`.

### SelectPath

`CreditInv` is `Lists` (the lists are as long as each other and of the right types),
`CreditConserved`, and `Balances`: as long as an `int` has room, the stored credit is
earned less charged, the credits sum to the sum of the ratios, and none is below its
ratio less that sum (`Balanced`). The bounds make the additions exact, and the exact sum makes
the bounds hold: the largest credit is positive because the sum is, so charging it leaves
it above minus the sum; and one credit cannot exceed what the others lack
(`BalancedUpper`). `CreditConserved` needs no room: it is kept modulo the width
(`WrapEach`, `SumRatioWraps`). The sum of a sequence is a recursive function. What is said of it for
every length (`SumPlus`, `SumTimes`, `SumBounds`) is proved by `SetInduction` on the set of
lengths for which it holds; that follows from the least element of a set of naturals
(`LeastNat`), which the library's theorem on well-founded relations gives.

### IoDispatch

`DispatchInv` is the five properties and, as long as the thread has not ended, `Running`.
A callback passes through states in which the properties do not hold, between closing a
descriptor and deleting the event on it; so the parts of `Running` are operators on
a kernel record or a libevent record and not on the variables (`NetSound`, `EventsSound`),
and each operator of the module has a lemma on what it does to such a record. `NetSound`
says whose a descriptor is: a live session's client socket, one that got no session, a
cached connection, or a connection that failed or came late and that nobody has closed. `EventsSound` says that every
event libevent holds, inserted or active, is of a live session, that an inserted one has
exactly one timer, that what the table names as the reader of a descriptor is inserted
and is registered on that descriptor, and that no session is active twice. In the state after a failed
`get_io` a descriptor number may be stale, which is why the invariant speaks of the events
and never of what a session believes its descriptor to be.

`TrafficInv` follows the data. A request or piece is at a *spot*, a position in one of the
sequences that hold data (`Places`: the unread bytes of a socket, the requests a backend has,
a session's buffer, what a client got). `Distinct` says that what two spots hold of one request is
*apart*: it is pending at one spot only, with the number of pieces it has given, the
pieces of the answer elsewhere are among those, and no piece is at two spots. `AskedFor` says that no number is ahead of its client. Every step
only moves pieces to spots of their own (`Relocated`), drops them when a socket is closed
(`KeptDrops`), or makes new ones that are apart from all.

### AdminConn

`AdminInv` is the types and, per client, `Sound`: the naming tokens in the buffer followed by
those on the wire are in the order in which they were sent and belong to commands behind the
last one executed (`Lawful`); the token that names the parser's value is in the buffer (`Opened`); the parser is past
the head only if the buffer has a body or is exactly full (`HeadRead`). `recv` moves the border between
buffer and wire, which `Lawful` does not see; `reset` forgets the buffer, which leaves a part of the order.

`AnswerRight` and `AnsweredWhole` need more, but only of a client that waits: `Turn` says that it
has either nothing under way, and then the buffer and the wire are empty and the parser is
new, or its last command, the beginning of it in the buffer and the rest on the wire (`Coming`),
and that the parser is where that beginning puts it (`Reading`), except that a value may have been
entered early if that very command was cut within it. `TurnInv` adds `Right`, what was answered so far.

### EasyLog

`LogInv` says when each file was begun: there is a function `s` from the age of a file, in
rotations, to the record that opened it, such that a file of age `a` holds what came from `s[a]` up to
`s[a-1]`, but for what was dropped (`Content`), and such that the files are whole up to the age at which the counter
wrapped, and at least `Shortest` beyond (`Layout`). A rotation shifts `s` by one
(`Begun`). `Covered` finds the file of a record by the least age that begins before it.

### JsonPolicy

`PolicyInv` follows the names of members from the token that is read to the object in which
`get_out_json` looks for its fields. The value that `parse` returns is the outermost container,
which is at the bottom of the stack until it is closed, by its end or by an error that is passed through
every container around it; so what has to be kept (`Holds`) is that the bottom of the stack and
the root have members only with names read of this text (`NamesIn`), the empty name apart,
which the code uses before it has read one. Whatever lies above the bottom does not matter,
and every step only replaces, adds or removes the top (`Replaced`, `Pushed`, `Popped`).
`ErrorsCounted` has one error from the place where it is found to the end of `parse`: that gives
`OneError`, which no run checks by itself. `JsonPolicy` takes `FastWriter::write` as a
constant operator, since the prover cannot reach a recursive operator; the run gives it `Write`
of `JsonWriter`. TLC checked `PolicyInv` on the instance of the run `json`.
That the reader goes on behind the end of a text only where this ends open (`EndsOpen`) is
`LeftOpen`: a zero that has been read leads to no further token unless the last token of the
text was a comment or the cut fell into one, or a string was read over it (`LeftOpenKept`).

`GrammarInv` says of a free text what the tokens read so far will amount to, *whatever comes
next*: of every text `s` that begins with what was read, there is a place `at[k]` in which
each open container `k` was opened, such that any value that `s` may have behind the container that is
around it completes it (`Opened`, `Awaits`, `Nest`), and the innermost container holds what the grammar
finds behind its opener (`HoldsSoFar`, `Stands`). Because `s` runs over all continuations, a container
that is entered promises nothing about its end, and a step has only to apply one rule of the grammar
at the last token (`ValueRules`, `ElementRules`, `MemberRules`, `BeforeRules`); when a container is
left, what its outer one awaited is due (`ContainerLeft`). At the end of `parse` the text
itself is such an `s`. That the table of the grammar exists, so that its rows are what their
definitions say (`GrammarIs`), is shown by induction over the rank of a row, with `SetInduction`.
So what is accepted is a text of the grammar with that value.

The other direction needs the reader as a function of the text. `Moves` says what a token does
to the reader unless it is an error, in which case anything may follow; a `Path` is a sequence of such
steps over a text `s`. By induction over the length of the row `i` to `j` (`RowsRead`), a path
that stands before the token `i` where a value may begin stands behind the token `j` with that value
put in its place (`ReadsValue`), and likewise for elements, members and what may precede a member
(`ElementsFollow`, `MembersFollow`, `BeforeFollows`, each from shorter rows); so every path over
a text of the grammar ends behind a root value, the one the grammar gives (`ReadThrough`). `PathInv`
then says of the reader at work, on free texts and on given ones that arrive whole, that there is
a path to where it stands, and after an error that there is a path over the text that ends nowhere
(`Lost`), so that the text has no meaning at all (`LostMeansNothing`). Two values of one text would
be two ends of one path (`OneMeaning`): the grammar is unambiguous because the reader is
deterministic. `WholeTextReadCorrect` is the same for a given text, which by
`WrittenAssumption` means its value: TLC evaluates the grammar on the texts of the run,
those that `FastWriter` made of values and those with members in other orders.
A whole text for which the reader needed a token behind its end means nothing (`BehindInv`), so what
lies there does not matter to a text that does.
`GrammarInv` and `PathInv` speak of all continuations and of paths, which TLC cannot
enumerate; the run checks what follows from them.

### Texts

That a text has only characters of its kind is an inductive invariant of `TextsSpec`; the rest
is about each text by itself, and is induction over its length without an induction theorem
that takes an operator: the set of the lengths for which a fact holds contains 0 and the successor of each of its
members (`SetInduction`). That a recursive function has the values its definition gives comes
the same way (`Recursion`: there is a function with given steps).

* Numbers: the loop of `decodeNumber` is followed digit by digit (`IsScan`). As long as it has not
  left for a double, what it holds is the value of the digits read, and within the limit
  (`ScanExact`); a number within the limit that begins with no 0 keeps it in the loop (`ScanWhole`).
  What `uintToString` writes is such a number, with the value it was given (`WrittenIs`).
  What leaves for a double becomes `Rounded` of it: the order kept and the integers within an
  `int` being doubles hold a fraction between its two neighbours, and an integer beyond the
  limits of `int` beyond them.
* Orders: two keys either begin alike or have a first place where they part (`Parting`), which
  decides both orders (`NameLessIs`); transitivity compares two places (`NameLessThrough`).
* Bodies: the encoded text is the pieces of its characters one behind the other (`Pieces`), none with a
  sign of a field in it (`EncodedClean`). Decoding goes backwards from the end: the rest from the
  piece of a character on is that character and the rest from the next piece (`DecodeEncode`).
  So the one sign between the two fields is the one that parts them (`TwoFields`, `BodyBack`).
* Tokens: what `readNumber` passes are three rows of digits with their signs (`LooksIs`), and a longer
  beginning of the text has a character that no row takes (`NumberLooks`). A token begins where
  it was looked for and ends behind its begin (`TokenShape`); one that ends before the last
  character never looked at it, nor at the end of the text, and is the same without it (`TokenCut`).
  For the sequence of tokens both follow one token after another (`CutHolds`).
* Strings: what is written is again pieces one behind the other. The reader goes over the piece of a
  character without stopping (`ReadOne`), and the decoder gives the character and what the rest
  gives (`UnescapeOne`), from the end back (`QuotedBack`). That a string ends at its first quote
  behind an even row of backslashes needs that the reader never stands behind an odd row (`ReadStep`).
  UTF-8 is arithmetic: a character of 1 to 4 bytes is found again in them (`EncodesIs`). The
  units of a text in which each first half of a pair is followed by a second half are decoded to
  the bytes of the characters they mean (`UnitsDecoded`), those bytes are read as the same units
  (`UnitsBack`): both go from the last unit to the first and pass over the place between the halves
  of a pair, where nothing holds (`Backwards`). They are as few bytes as UTF-8 has for the
  characters, of which two are still to come between the halves of a pair (`UnitsLength`).

### JsonHeap

An operation of `Value` passes through memory in which some blocks have no owner yet, or no
longer: a new map before the Value has it, an old payload before it is destroyed. So the
invariant is about a memory and the set `O` of such blocks: `HeapOK(m, O)` says that a pointer
that owns something points to a block of the right kind that is not in `O`, that no two
pointers own the same, and that the blocks are the least set closed under ownership that
contains what the stack owns and `O` (`Reached`: no block is lost, and none is kept by a
circle). Memory changes in three ways only, and each has its lemma: a block is
allocated and joins `O` (`Allocated`); the pointers of one block are set to blocks of `O`, which
leave it, and what they owned joins it (`Redirected`); and blocks of `O` are freed with
all they own (`Destroyed`). A block that is given an owner owns nothing itself, unless the
owner is the stack; without that, the last of these facts could be lost to a circle. The
operations (`Swapped`, `Assigned`, `CommentSet`, `ChildInserted`, `LocalsDropped`, `MapCleared`) are
sequences of these, at whose ends `O` is empty again.

`HeapInv` adds the reader: a local for each node whose container is open (`Stack`), and the nodes are a
path (`IsPath`): each is a container whose map holds the next, and no map comes twice, so
that what is done to the last node leaves the others alone (`PathInPruned`). A path whose
Values keep their maps is kept whatever else was destroyed (`PathStays`), since the map of a
container that exists exists. TLC checked `HeapInv` on the instance of the run `json_heap`.

### Model-checked only

* Liveness: `RetiredThreadExits`, `ServedUnlessRetired`, `PortReleased`, `WaitEnds`,
  `CommandSettled`. The prover does not do liveness under fairness, nor ENABLED.
* `CutShortensOne`: what `get_out_json` finds of a command whose text was cut. It is about the texts
  of the run: a client could write a name twice, or a list that means nothing without its end.
* That `FastWriter::write` makes a text that means its value, which `WrittenAssumption` says of the
  texts of the run: `Write` of `JsonWriter` recurs over values, and the prover cannot unfold it.

## 5. Disagreements with the repository's own words

| Run | The repository says | The run shows |
|---|---|---|
| `dispatch_downevent` | "add recv event for downstream", `io_dispatch.cpp:218` | after a failed `get_io` the event goes on the previous backend's descriptor number, which may by now be another client's socket |
| `admin_done` | "0 continue receive ,1 parse done", `http.cpp:179` | a command with a right Content-Length that arrives in two pieces is "done" with the value of the first piece, and executed with a truncated number |

More disagreements are in the models but have no run of their own:

* A launch returns 0 ("ret 0:ok,else failed", `io_dispatch.cpp:310`) although `bind` or
  `socket` failed in `InitListenSocket`; the socket is "stray" or "failed" in `IoThreads`.
* `ProcessTimer` frees the `event_base` and the thread information ("lifestyle is one thread",
  `io_dispatch.h:18`) inside the running loop, which reads them on return (`LoopReturn`).
* After a failed `get_io` on a session's first request it registers on descriptor -1:
  `event_add` fails, there is no timeout ("add recv timeout", `io_dispatch.cpp:27`), and
  the session stays until the thread ends.
* The destructor of `Io_Manager` ("release all sd", `io_manager.h:73`) does not close a connection
  whose handshake was not over in time, which was never cached, also when it is established later;
  `CacheSound` says that no other is lost.
* A connection on which `fcntl` fails is neither served nor closed (`io_dispatch.cpp:269-273`,
  `main.cpp:224-229`): "orphaned" in `IoThreads` and `AdminConn`, "lost" in `IoDispatch`.
* The sample command, `conf/cmd.json.conf`, gives `in_path` as a string; `asInt` throws and
  nothing catches it, so it ends the process (`AdminConn`, kind "sample"; `Code` = -1 in
  `JsonPolicy`).
* `parse` reads a document over its end into its spare capacity (`Overrun`, `TakeAtEnd`); the reader takes
  any separator behind a comment in an object, a comma before "}" if the last name
  is empty, "-" for 0 and leading zeros, and an end of a comment that is only a slash at
  the end of the text (`JsonGrammar`, `JsonLexer`, `JsonNumber`).
* Two backend addresses of which one is the beginning of the other (127.0.0.1 and 127.0.0.10,
  on one port) are one key for `Io_Comp` and share a connection, and with such addresses
  the order is no strict weak order: `KeyOrder` says under which condition it is.

## 6. Not modelled yet, and the plan

The order is by how much of the system's behaviour a step adds.

1. An abstract specification of proportional shares, implemented by `SelectPath`.
2. `Drain`: `TimerClosing` waits twice the receive timeout before the loop is freed;
   with discrete time, which sessions can outlive it, and the handshake budget of
   `wait_3handshake`, which `select` shrinks over the life of a thread.

Not modelled, and why:

* libevent as such (a third-party archive; its rules are external definitions), and its
  global `current_base`, read by `event_set` without a lock.
* The parts of jsoncpp that the program links and never calls: `OurReader`, the factories
  `CharReaderBuilder` and `StreamWriterBuilder`, the styled writers (`print_all` is disabled),
  iterators, `Path`, removal, resizing and comparison of values. Offsets and messages of
  errors, the texts of comments, the decimals of doubles.
* `main` and `parse_config`: they start the command thread; what `parse_config` reads is
  thrown away, and its return code -2 for a file that cannot be opened is
  overwritten by -3.
* Sizes of buffers and partial sends of `IoDispatch`, clocks and the arithmetic on them
  (`my_time_add`, `my_time_diff`), log texts, `Delete_Path` and `close_io` (no caller), build
  files, the disabled test client `test_main.cpp.bak`.
* A port above 65535 is narrowed to a short by `InitListenSocket`; the models name a port
  by its key.
