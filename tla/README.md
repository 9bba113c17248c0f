# networking_in_c: models, checks and proofs

The repository is a collection of small, independent C programs written for a
networking course: clients and servers over TCP and UDP, each with its own
`main`, each one to three hundred lines. Nothing is shared between the
exercises. What is hard about them is not data structure but protocol: two or
more processes that block in `recv`, use the bytes they get without looking at
the count, and have to stay in step with a peer that may be slow, may stop, or
may send several messages before the first is read.

This directory models those programs in TLA+, checks the models with TLC and
proves their safety properties with TLAPS, for any number of processes
and any data.

    tlc -config SlidingWindow_serving.cfg MCSlidingWindow.tla     a run
    tlapm SlidingWindow_proof.tla                                 a module of proofs

The modules of proofs are `SlidingWindow_proof`, `Nagle_proof`,
`ProxyCache_proof`, `NameServers_proof`, `FileTransfer_proof`,
`DatagramCalculator_proof` and `Dialogues_proof`; `SequenceLemmas` has what
several of them need about sequences, least numbers, remainders and quotients.

PROJECT.json lists the runs, and which lines of the source each definition
models.

## 1. The system

| Part | Source | Processes and state | Operations | Status |
| --- | --- | --- | --- | --- |
| Sliding window | `lab10` | sequential TCP server, any number of clients; window, sequence number, the slot `df`, `last_seq` | handshake, window of packets, cumulative acknowledgement, in-band FIN | modelled, safety and refinement proved |
| Nagle | `lab9` | TCP server; client with two threads that share `unacked_packets` | type a character, send or buffer, receive an acknowledgement | modelled, safety proved |
| Caching proxy, its origin and its clients | `lab5` | origin server; proxy that forks for each connection; cached files, `proxylog.txt`; client of one request | fetch, conditional request, store, answer from the cache, rewrite the log; start and stop | modelled, safety proved |
| Iterative name servers | `lab6` | local, root, top level and authoritative UDP server; record files; `ip_lookuptable` | resolve, refer, rotate the addresses, move the record; start, stop, end over a client's `exit` | modelled, safety proved |
| Recursive name servers | `lab6/spot` | the same four processes, each asking the next | the same | modelled, safety proved |
| FTP | `lab8` | single-threaded server, clients; control and data connection, `passwd.txt` | log in, help, exit | modelled, safety proved |
| TCP calculators | `lab3`, `labs/math-*`, `template/client.c` | server that forks for each client (lab3) or serves one (labs) | menu, operands, answer | modelled, safety proved |
| UDP calculator | `assess` | one server on one socket | options, three datagrams, answer | modelled, safety proved |
| Web servers | `lab4`, `labs/multiserver.c`, `labs/my-*`, `labs/browserclient.c`, `template/server.c` | servers that fork for each connection, or serve one | request, page, messages on a persistent connection | modelled, safety proved |
| ns-2 | `ns2_impl` | a simulator's script and its trace | none of this repository | left out |
| Copy | `s2019103012n@14.139.161.31` | an earlier copy of all the above; of the sources only `lab6/authdns.c` differs, in one entry of its table | the same | left out |

`lab5/test.c` tries out a parser and does not link, `labs/test.c` is empty,
`upload.sh` copies the tree.

How the parts interact: only inside an exercise, and only through

* TCP connections over loopback. What the programs see of TCP and what the
  models keep of it: a FIFO of bytes without message boundaries, a backlog of
  connections that are complete before `accept`, `recv` returning 0 once the
  peer has closed, the first `send` to a closed peer succeeding and provoking a
  reset, the next one raising SIGPIPE, a close with unread data resetting at
  once, and a port that stays occupied for a while on the side that closed
  first.
* UDP datagrams over loopback (lab6, assess): they arrive in order, and one
  sent to a port to which nobody is bound is lost without notice.
* files (the proxy's cache and log, the record files, `passwd.txt`), which the
  children of the proxy share without a lock;
* one shared variable, `unacked_packets` in lab9.

What is hard, and what makes each part correct:

* *lab10.* The two sides count windows independently; nothing is checked on
  receipt; the end of the stream is a value in band, sent only from inside a
  window that is not full. Correct means: the data is printed in order and
  once, nothing is swallowed, the sender respects its window, an
  acknowledgement covers only what was printed, and a transfer completes and
  leaves the server to the next client.
* *lab9.* A race between two threads, and TCP joining segments. Correct means:
  no character typed is lost or sent twice, none waits for a whole segment of
  others, and a small segment is sent only when everything is acknowledged,
  which the race breaks.
* *lab5.* Children interleave at system calls; the log is rewritten without its
  newline. Correct means: answers are whole and current, and a cached file has
  its time in the log, which is broken in two ways; every request ends, which
  takes descriptors the proxy never gives back.
* *lab6.* Each server waits without a timeout, and rewrites its records at each
  query. Correct means: no record is lost, addresses are handed out in turn,
  each answer goes to its asker, and every query is answered.
* *lab8.* Commands and answers use different connections, and the data port is
  bound anew for each session; every login loses a descriptor, so that the calls
  that need one begin to fail. Correct means: sessions do not mix, commands
  and answers stay in step, nobody waits for ever.
* *calculators and web servers.* A client takes "a message" per `read`, which
  may be two; the parents keep the sockets of their children open, so that a
  child's end tells its client nothing. Correct means: the answer a client takes
  is that of its own operands, whatever an `int` of reduced width holds; it is
  known who may be stuck and why; whoever serves a client ends after it. Over
  UDP any three datagrams make a request: one client in three is answered in a run
  of the server, and one that is alone gets its own answer.

## 2. The plan

Done, in this order: `SlidingWindow` with `WindowTransfer` and the proof (the
core: the exercise with the longest protocol and the most ways to get out of
step), `Nagle`, `ProxyCache`, `FileTransfer`, `NameServers`; then `CInt`,
`Sockets` and with them `Dialogues` and `DatagramCalculator`; then the fault
models of `NameServers` (four processes that are started in any order and
stopped, lost datagrams) and of `ProxyCache` (clients, parents that are stopped
and started again, descriptors).

Proved since then (section 5): the remaining safety properties of
`SlidingWindow` and that it implements `WindowTransfer`; all safety properties
of `Nagle`, `FileTransfer`, `DatagramCalculator`, `ProxyCache`, `NameServers`
and `Dialogues`. With that every safety property that the passing runs check has
a theorem, four of them under a hypothesis without which they are false;
liveness stays with TLC.

The modules are written for proofs: constants with a named assumption, an
action per operation, no RECURSIVE operator, and at the end of a module the
strengthening of its invariants that is inductive (that of `Dialogues` is in
`Dialogues_proof`, where its proof is). An operator whose comment begins with
"Seeded fault" belongs to no model: it is a bug that the code might have had,
named by PROJECT.json next to the property that notices it.

## 3. The modules

### SlidingWindow (lab10), WindowTransfer, MCSlidingWindow

State: each client's place in `slidingwindow_algo` (`cpc`) and its variables
(`window`, `frames`, `start`, `i`, `seqno`), the packets under way in each
direction (`up`, `down`), the connection as the server's kernel sees it
(`conn`: open, closed by the client, reset), the `backlog`, the server's place
(`spc`) and its variables (`cur`, `win`, `t`, `df`, `last_seq`, `flag`), and the
history `printed`.

Actions follow the calls: `Connect`, `SendSyn`, `RecvReply`, `SendFrame`,
`SendFin`, `RecvWindowAck` for the client; `Accept`, `RecvSyn`, `RecvSynAck`,
`RecvFrame`, `RecvFailed`, `SendWindowAck` for the server; `ClientKilled` for
the user, `ServerGone` for a client whose server is down. Every `recv` asks for
`sizeof + 1` bytes, which is what every `send` writes, so that packets keep
their boundaries and a channel is a sequence of packets. At end of file `recv`
leaves `df` as it is, and the code does not notice: the stale packet is
processed again. `df` and `last_seq` start with any value of `Junk`.

`WindowTransfer` is the promise: senders with files, a receiver that obtains a
growing prefix, confirmations. The refinement reads `obtained` off `printed`.

`AckHonest` is stated for clients with a window above 0 whose first datum is not
FIN: for the others the server acknowledges what `last_seq` happened to hold.

### Nagle (lab9)

The load and the store of `unacked_packets` are actions of their own in both
threads. A `recv` of the server takes any number of the messages that are
there; it prints the first segment (the text up to its NUL), or nothing when
the handshake packet comes first, and the rest is `swallowed`. `stale` says that
the receiver thread's buffer begins with "ack", which is what it sees again when
`recv` returns 0.

The properties speak of runs of consecutive numbers: the n-th character typed is
n, so that what the segments and the buffer hold, end to end, is 1, 2, 3 and so
on (`KeystrokesKept`), and what was sent is divided among what is under way,
printed and swallowed (`EachCharacterOnce`).

### ProxyCache (lab5), MCProxyCache

One action is one system call on what the children share, or one answer of the
origin: opening the cached file, `TruncateFile` and `FillFile`, `AppendLog`,
`Lookup`, `ReadLog`, `TruncateLog`, `WriteLog`, `ServeCached`, `Answer`. The log
is a sequence of newlines and entries; a write at an offset overlays what
another child has written since (`Overlay`). The origin is two handlers with
the time between `stat` and reading the file (`HandleConnection`, `ReadFile`;
`HandleLastModified`, `ReadModified`). `Update` and `Unlink` are whoever edits
the origin's files; two updates in a second are possible and remembered in
`blurred`.

A client asks (`Ask`), and waits until it has an answer or its connection has
ended (`Arrived`): a child's end does not end it, because the parent, and the
children forked since, hold the same socket. Neither parent closes what it
accepts: `accepted` and `served` count the connections, `room` is what a child
found free when it was forked, and a call that opens a file looks at it
(`CanOpen`). `AcceptFails` and `OriginAcceptFails` are the parents that run out.
`StopProxy` and `StopOrigin` are Control-C, which reaches parent and children;
files that were being written then are remembered in `torn`. The proxy starts
again (`StartProxy`) when nothing is left of an earlier one, over the cache and
the log it left. A scenario says which of all this happens in a behaviour, and
how often.

### FileTransfer (lab8), MCFileTransfer

The server's places are its blocking calls and the closes that other processes
can see. The data port is three variables: a listening socket, the connection,
and whether one that the server closed first still occupies the port
(`lingers`). `lost` counts the descriptors that nothing closes: the streams on
`passwd.txt` and the sockets whose `bind` failed. With the control connection,
the listening socket and the data connection they are what the process has
(`Held`); when that is all it may have (`Full`), `fopen` fails in `Authorize`,
`socket` in `Listen`, and `accept` in `AcceptDataFails`, at once and whoever has
connected: a client that has is `cut` off and goes on without a server.
`command` begins with any contents, for nothing initialises it, and keeps the
last command when `recv` returns nothing.

### NameServers (lab6 and lab6/spot), MCNameServers

One module for both sets of programs: `recursive` says which, and `LocalDns` to
`SpotAuthDns` put each program together from what they share: `Send` to the next
server through a new socket, `PassOn` its reply, `Reply` to the sender. A server
is a place (`at`), its socket (`inbox`), the request it deals with (`serving`),
the server it asks (`peer`), the reply in the socket it asks through (`mail`)
and the reply it is about to send (`result`). Servers start in any order
(`Start`), are stopped (`Stop`), and end by themselves: the local one over any
client's `exit`, the authoritative one over a host its table does not suit
(`Resolve`). What a server that ends held is gone, and the datagrams it has sent
have no sender any more (`Orphaned`). `lost` and `forgot` remember that a
datagram was lost and that the rotation's counts were.

A record file is a sequence of records and newlines. `Moved` is the rewriting of
a file at each query: the line found goes to the end, and merges with what
follows or precedes it when the last line has no newline, the state in which
`authdns.txt` and `rootdns.txt` lie in the repository; `splits` says that two
records are longer than `linebuff`, so that `fgets` returns them in parts.
`Refer` is the root and the top level server, `Resolve` the authoritative one
with `ip_lookuptable`.

### Sockets, CInt, Dialogues (lab3, lab4, labs, template), MCDialogues

`Sockets` is what these programs use of the kernel. A connection has two ends,
one in the client and one in the process that serves it. Each has its place in
its program (`at`), what the kernel knows of its connection (`sock`), the texts
it has not read (`in`), those its last `read` returned (`buffer`) and its
variables (`mem`). `Write`, `Read` and `ReadInt` say what a call does to these
and where the program goes: `Read` returns any number of the texts that are
there, nothing at the end of the stream, and -1 once after a reset; `Write`
after the peer has closed succeeds once. `Finish` is the end of a process: that
of a child closes nothing, since its parent holds the socket as well; that of
math-server or my-server, which serve their client themselves, closes
everything. `Open`, `Accept` and `Connect` include ports that are taken,
connections that wait in the backlog, and variables that start with junk.

`Dialogues` is each program as the list of its calls, in their order: the
calculators of `lab3` (`CalcServer`, `CalcChild`, `CalcClient`) and `labs`
(`Math...`), the web servers `Persistent...`, `Nonpersistent...`, `Multi...` and
`Hello...` with their clients, the `Template...`. What is said is one of `Kinds`.
A client takes what the kernel gives it at the port its user names; that the
server there is one for it is the premise `Suited` of `AnswerIsMine` and
`StuckOnlyBy`, which holds of every connection of the run. `CInt` is the arithmetic of
an `int` that runs up to `INT_MAX`: wrapping, rounding towards 0, SIGFPE.

### DatagramCalculator (assess), MCDatagramCalculator

The server's place says what it takes the next datagram for: the question for
its menu, which it expects once, then an operation and two operands, from
whomever they come. A client sends three datagrams once it has received
anything, and prints the first that comes after them. `overlapped` remembers
that another client sent something since a client's start.

## 4. The runs

| Run | Instance | What it shows |
| --- | --- | --- |
| `sw_serving` | 2 clients, windows 1 to 3, 0 to 3 packets, 2 packets of socket buffer | flow control; a client that returns has had everything printed and acknowledged; accepted transfers complete; if every last window is cut short all clients are served; if one is full the server ends; the refinement |
| `sw_killed` | 2 clients, windows 0 to 2, 0 to 3 packets with FIN inside or at the end or not, kills at any point | order, losslessness, honest acknowledgements; what ends the server, and what leaves a client waiting |
| `nagle_threads` | 6 characters, segments of 2, either side may be stopped | nothing lost or doubled, bounded waiting, coalesced segments, the server ends with its client, everything is answered |
| `nagle_comment` | the same, without stopping | *violated*: a small segment is sent while one is unacknowledged |
| `proxy_sequential` | 2 files, 1 child at a time; 7 descriptors and 2 changes or removals; or 5 descriptors, 1 change, the servers started in any order and one of them stopped | answers stay whole and current although the log may be damaged or lack an entry; while the origin does not change the log covers the cache, and every request ends |
| `proxy_concurrent` | 1 file, 2 children, 1 change; 5 descriptors, or 3 and one stop | a file nobody is writing has contents |
| `proxy_lost` | 2 files, 1 child, 1 change | *violated*: a child that has found its file in the cache does not find its time in the log, and dies |
| `proxy_halfwritten` | 1 file, 2 children, 1 change | *violated*: a 304 is answered from a file that another child has just truncated |
| `ftp` | 3 clients, one without a good password, 2 helps each, kills, 7 descriptors of which any number are lost to begin with | sessions do not mix, lock step, why a client is turned away and why the server ends, nobody waits for ever |
| `names` | 2 clients, 3 hosts, both sets of programs; 4 queries over files in order, 3 over files with a line that does not end, split or not; or 2 queries, all servers off to begin with and one process stopped | records are kept, addresses rotate, answers reach their askers, every query is answered unless something is lost |
| `dialogues` | 7 settings of 2 servers and 2 clients, which cover the fourteen programs, 4-bit integers, anybody may be stopped | answers are right, who is stuck and why, whoever serves a client ends after it |
| `datagrams` | 4 clients, killed at any point, 1 server, 4-bit integers | one client in three is answered; one that is alone gets its own answer |

The three violated runs are findings of PROJECT.json: each quotes the comment
of the source that the run refutes. That of `proxy_lost` was reproduced with the
compiled programs: the merged line, the lost entry, the child that dies and the
client that waits.

*Bounds, and why they are enough.* lab10: payloads of 0 to 3 packets against
windows of 1 to 3 give a last window that is never opened, full, and cut short
after one and two packets; a second client shows what one leaves behind for the
next; a buffer of 2 blocks the sender in a window of 3. lab9: six characters
are three full segments, so that two can be unacknowledged while a third is
typed; `MaxBelow` cuts the endless decrement at -3, after which more of it tells
nothing apart. lab5: two requests per file and one change already lose an entry;
seven connections leave room for what follows from it, and for the requests
that find 1, 2, 3 or 4 descriptors free; one stop, at any of the points at
which a file or its entry is half written, is followed by a restart and by
requests for that file; with one file and two children every pair of calls that
touches the file meets. lab6: four queries for one host take the rotation of
three addresses once round; with servers to start and one stop, a query each is
enough for one to be under way, at any of the four servers, when another is
stopped. lab8: three clients are a session, one after it that may find the port
occupied, and one that is refused; seven descriptors are enough for a session, a
login that finds the port occupied and loses two, and another session, and those
lost to begin with leave fewer, so that each of the calls that need one is
the first to fail in some behaviour.
lab3, lab4, labs: clients meet only at their server, in its backlog and at its
port, which two clients and two servers of one port show; the operations typed
are one that overflows, a negative difference, a quotient that truncates, one
that is fatal, one that is unknown, and the end, each in 4 bits (`INT_MAX` is 7), where -8 / -1
is what INT_MIN / -1 is in 32. assess: `OneInThree` gives one answer to three
clients and a second to a fourth, so that four are the first number at which
its bound moves.

*Fairness.* A process that is not blocked in a system call is run by the
operating system: weak fairness on each server's and each thread's steps. In
`sw_serving` users answer the prompts of a client they started, but need not
start one; in `nagle_threads` nobody needs to type; in `ftp` a user who is in a
session leaves it some time, for otherwise the single-threaded server serves
nobody else; in `names` the four servers run, but nobody needs to start one or
to ask; in `proxy_sequential` the children and the clients that have their
answer run, but nobody accepts, asks, starts or stops of necessity; in
`dialogues` only whoever serves a client runs of necessity. No fairness is
assumed of kills, stops, edits of files or ports becoming free. `datagrams` and
`proxy_concurrent` check safety only.

*Stated with a premise.* `EveryClientServed`, `EveryClientEnds`,
`EveryRequestEnds` and `EveryQueryAnswered` say `[]premise => ...`: the premises
exclude only what is known to break them (full last windows; kills and a server
that `fopen` ended; an origin that is stopped or changes a file, a child
without descriptors, a proxy stopped between a file and its entry; a datagram
lost and a host whose addresses do not suit the rotation), each of which is
reachable and has a property of its own or a hazard entry.

*Deadlock* is checked in all runs but `sw_killed`, where a client that waits for
an acknowledgement that never comes (window 0, in-band FIN) stops the system; in
the others a step that changes nothing stands for the states in which everything
has ended or nobody has anything to do, and these are defined one by one
(`Quiescent`, `Quiet`, `Done`, `Idle`, `Waiting`).

## 5. The proofs

Every invariant below is proved in the same way. The property is seldom
inductive; a strengthening that is stands at the end of its module (for
`Dialogues`, in the module of its proof). TLC
checked each of these strengthenings, as an invariant of the runs of its module,
before it was proved. A proof has a lemma for each action, and lemmas for what
actions have in common: what they leave alone, and what becomes of it.

### SlidingWindow

For any sets of clients, windows and data, any socket buffer above 0, any junk
and clients that may be killed (`ConstantsAssumption`), `SlidingWindow_proof`
has

* `TypeCorrect`: `Spec => []TypeOK`. `TypeOK` alone is not inductive: the count
  `t` is decremented, and stays natural because `spc = "recv"` only when it is
  not 0; `TypeInv` adds that.
* `Delivery`: `Spec => []DeliveryInv`.
* `PrintedInOrder` and `NothingIsLost`: `Spec => []InOrder`,
  `Spec => []NothingLost`, both from `DeliveryInv`.

That the next packet the server takes is the one it should print depends on how
many it has printed, on what is under way, and on whether the handshake packets
are behind it. `DeliveryInv` says for each client where the server is in its
stream, place by place: nothing received yet (`UnservedInv`), one handshake
packet to come (`HandshakeInv`), receiving (`ReceivingInv`: printed and under way
together are what was sent), and at any place what is under way is the tail of
the stream (`StreamInv`) and what was printed its head (`PrintedInv`);
`SenderInv` relates the client's counters, `QueueInv` keeps a client from being
queued and served at once.

The stale packets at end of file are why `InOrder` bounds what is printed by
`start` only while the connection is open, and why `ReceivingInv` states an
equation only as long as something is under way or the client is there.

The second part of the module goes on to how far the two sides can be apart within a
window, `PaceInv`: where the client is in its window (`WindowInv`), where the
server is in the same window while the client lives (`RoundInv`: what is printed,
what is still expected and what is sent add up), what a server that has turned
away leaves behind (`LeftInv`), what acknowledgements say (`AckInv`), and how
either ends (`LifeInv`, `DownInv`). From it follow, for every instance,
`AcknowledgementsHonest`, `ServerEndsOnlyWithoutFin` and `AbandonedOnlyByData`.

Three results have a hypothesis, because what they state is false without it:
TLC finds a counterexample to each on the instance of `sw_killed`. `WindowRespected` and `CompletionDelivers` assume that no
datum is FIN (`FIN \notin Data`): a datum that is FIN has the server end the
window. The first needs the addition that only the reply to the handshake
carries 0 (`PositiveInv`). `Refinement` (`Spec => ImplementsTransfer`) assumes
besides that no window is empty (`0 \notin Windows`): a window of 0 is
acknowledged without end. It maps each action to a step of `WindowTransfer` or
to a stutter, and needs that a client keeps the file and the window it has
chosen (`ChosenInv`).

### Nagle

For every `MSS` and number of keystrokes: `NothingTypedIsLost`, `WaitIsBounded`
and `ArrivesOnce`, from `SegmentInv`. `BufferInv` says what the buffer holds at
each line of the main thread, whatever `unacked_packets` has become, which
nothing else depends on; `UnderWay` says that what is under way are the last
segments sent, behind the packet of the handshake; `TakenInv` that what was
received has been printed or swallowed. `OrderInv`, that a segment holds larger
numbers than those before it, makes the parts disjoint.

### FileTransfer

For any number of clients, killed at any point, and of descriptors:
`SessionsDoNotMix`, `HelpInLockStep` and `TroubleIsCaused`, from `SessionInv`. It
relates the place of the server to that of each client: before the answer to its name, in its
session, after its `exit`; whose the listening socket and the connection of the
data port are (`PortInv`); and that a command or its text is under way exactly
once (`HelpUnderWay`). `lingers` is false while the server serves, so that a
client that is turned away at `listen` although there are descriptors meets the
remains of an earlier session. A client that was told the port and not accepted
may dial late, when the server has others; it must not find a listening socket
then, or it would get into the session of another. `UsedUp` says why it does not:
after a failed `accept` each login takes one descriptor more, and `socket` never
succeeds again. This is the last part of `TroubleHasCause`, an action property,
and what `OneSession` rests on. `TransferTypes` includes that the main loop always
finds a descriptor: `fopen` fails, and ends the server, before its `accept` would.

### DatagramCalculator

For any clients, requests and range of `int`: `AloneIsAnswered`, from
`StartInv`, and `OneInThreeAnswered`, from `CreditInv`. `AloneInv` says what
there is of a client that nobody else has sent anything next to, at each of its
places. `CreditInv` counts: a reply costs the server three datagrams, and each
client that starts brings one; what is left to be spent is the set `Tokens`,
whose cardinality, with what waits and what has been read, never exceeds the
clients started and the two that the menu is worth. The arithmetic is proved
too: that wrapping changes a number by a multiple of the range, that
the quotient truncates, and that the integer square root exists and is one
(`LeastNumber`: there is no induction over an operator here, so a least
counterexample is taken from the library's well-foundedness of numbers).

### ProxyCache

For any files, children and scenarios: `ProxyTypes`, with what a child knows at
each place (`PlaceInv`); `WholeFiles`; and `LogKeepsUp`, from `QuietInv`: as
long as the origin changes nothing, nobody rewrites the log, so that it only
grows by lines that are whole.

`FreshWhenAlone` has the hypothesis `Children = {c}`: with two children the
property is false (`proxy_halfwritten` shows one way). It is about the rewriting
of the log, by one child, over any number of requests, changes of the files and
stops of both servers. `FreshInv` says that a time in the log that can be read is
either older than the origin's, or the cached file is the origin's version
(`Honest`); it says it of the log and, while the log is being rewritten, of the
text it will be (`SoundLog`). Lines that have run together, and entries that are
lost, are covered: a name that is not found has no time, and then the child dies
instead of answering. `modify_logfile`'s text is the concatenation of a
sequence for each line; `Picks` and `FlattenPicks` say where an element of such
a concatenation comes from.

### NameServers

For any clients, names, record files, tables and scenarios, and both sets of
programs: `RecordsKept`, `AnswersAreMine` and `AddressesRotate`. They rest on
each other in this order.

`Requesting` (`TypeOK` and `RequestInv`) is about who waits for whom. Every
server asks through a new socket and waits, so that a request whose sender is
there is its only one, at the server that it says it has asked, and with the
text that it deals with (`SenderInv`); a request without a sender means that a
datagram will be lost (`KindInv`); and whom a server asks follows from its
program (`PeerInv`). Stopping a server takes its requests away and makes those
it has sent anonymous, after which its place is free to send another.

`RecordsKept` is about files only. A file that ends with a newline is well formed
for good (`FileInv`); `MovedIs` says where each element of a rewritten file comes
from, for a line that fits `linebuff` or not, and `MovedKeepsLines` that every
record still begins a line. No step adds a record either (`NoneAdded`), so that
a 404 stays true.

For `AnswersAreMine`, `Brings(s, h, x)` says that server `s` has what will be the
reply x to a request for `h`; that is made in `Resolve` or `Refer`, moves towards
the client unchanged, and suits the question all the way (`SuitsInv`).
`StepKinds` sorts the steps for this: those that bring nothing (`Quiet`), those
that make a reply, and those that pass one on.

`AddressesRotate` needs that the order of the counts is the order of the replies.
While nothing is lost, whoever has a request or a reply has above it a chain of
servers that wait (`Upstream`, `UpTo`), up to the local server, of which there is
one: so at most one reply is on its way (`AtMostOne`), and none while the
authoritative server takes a request (`NoneHas`). Hence `RotationInv`: the count of
a host is the number of replies to it, and one more while one is on its way.

### Dialogues

For any clients and servers, any combination of the fourteen programs
(`Scenarios`), any wishes and messages, and any range of `int`:
`DialogueTypes`, `AnswersAreOwn` and `StuckKnown`, the last two from
`ConversationsKept`, which has two parts.

`SocketInv` is about connections. Who is gone has closed its end, a server that
is down has closed those of all its children, and between two processes that
are there both ends are open (`Conn`); a client that is not connected has
nothing to read (`NoConn`); who is in a backlog is there once, and nobody serves
it yet (`Waits`). This is where the descriptors that the parents keep come in: a
child that is gone while its server listens has not closed anything.

`DialogueInv` is about what is said, one connection at a time. While client and
server are there, they are at one of the pairs of places of `CalcPhase` (lab3),
`MathPhase` (labs) or `WebPhase`, each with what either side has still to read
and what the one knows of the other's numbers: the operands move from the
client's variables into the stream and from there into the child's variables,
whose first values are junk. Two things can be under way from the child at a
time, its reply and the next menu (`ReplyAndMenu`); since `read` may return one
or both, the phases say of the client's buffer what they say of its stream. When
the server of lab3 is stopped, its client goes on by itself, through reads
that return nothing, until a write ends it; `CalcRest` is what is left then: at
`menu`, what it has read last is still the reply to what it has asked.
`CalcRestLeft` shows that every phase leaves that.

The proof that steps preserve this has a lemma for each side of each of the
three conversations (`CalcWhileUp`, `CalcWhileDown`, `CalcService`,
`MathWhileUp`, `MathServes`, `WebWhileUp`, `WebServes`), over lemmas that only
speak of phases and of sequences of one or two texts; `Undisturbed` says that a
step leaves the other conversations alone, which a stop of their common server
does not (`ShutdownTalks`). `AnswerIsMine` reads the reply off the phases, with
the arithmetic of `ResultIsRight`: what is computed in the width of an `int` is
what the user asked for, modulo that width. For `StuckOnlyBy`, a client that is
blocked is not gone and has an open connection, so that its server listens and a
phase holds; `CalcSilent`, `MathSilent` and `WebSilent` go through the phases in
which nobody has anything to read.

### What is only model-checked

Liveness, in all modules (the prover has no ENABLED): `AcceptedCompletes`,
`EveryClientServed` and `FullLastWindowEndsServer`, `ServerEndsWithClient` and
`AllAnswered`, `EveryClientEnds`, `EveryRequestEnds`, `EveryQueryAnswered` and
`ServiceEnds`. What the three findings refute.

## 6. What is left out

* The contents of messages beyond what the properties tell apart, wording of
  prompts, and the setup of sockets that fails only for want of resources, except
  where the program itself uses its descriptors up (lab5, lab8). Users of the
  calculators type numbers; a `write` is not split on its way.
* Input that overruns a buffer (`command[20]` in `ftpClient.c`, `username[20]`
  in `ftpServer.c`, `buffer[20]` in `authdns.c`, `timestamp[64]` in
  `proxy-server.c`), host names of fewer than three labels, names that are
  prefixes of each other, negative window sizes.
* The reply "ERROR" of a name server that cannot open its record file
  (`rootDns.c`, `topleveldomain.c`, lines 39-43, `authdns.c`, lines 62-66, and the
  same in `spot`): nobody here removes the files, and the servers keep none open.
* A server of assess that is stopped and started again. It sends its menu anew,
  which is worth one reply for one datagram instead of three: `OneInThree` is a
  bound for one run of the server.
* Datagrams that are lost although somebody is bound to their port, for want of
  buffer space; the servers are on loopback. Those that nobody is bound for are
  modelled.
* In the origin's `handle_connection` the buffer `file_contents` is not
  initialised before `strcat` appends to it; the executables observed begin with
  a NUL there, and the model takes it to be empty.
* A child of `multiserver.c` does not return after its page but accepts on a
  descriptor it has closed, which fails at once: that is its `leave`.
* The parts marked left out in section 1.
