------------------------------ MODULE ProxyCache ------------------------------
(***************************************************************************)
(* The caching proxy of lab5, its clients, and the origin server behind it.*)
(* The proxy forks a child for every connection; the children share the    *)
(* cached files and proxylog.txt, which holds the modification time of each*)
(* cached file, and take no lock.  One action is one system call on what   *)
(* they share, or one answer of the origin.  Neither parent ever closes a  *)
(* socket it has accepted: descriptors run out, and a client of a child    *)
(* that dies waits as long as the parent lives.  Proxy and origin may be   *)
(* stopped at any point and started again, over the files they left.       *)
(*                                                                         *)
(* proxylog.txt is a sequence of newlines and entries "file#time".  All    *)
(* entries are taken to have the same length, and no file name to be a     *)
(* part of another.                                                        *)
(***************************************************************************)
EXTENDS Integers, Sequences, FiniteSets, SequencesExt

CONSTANTS
  Files,       \* names requested
  Offered,     \* those the origin has in the beginning
  Children,    \* proxy children that can run at the same time
  Scenarios    \* what may happen in a behaviour, and bounds: changes of the
               \* origin's files, whether one may be removed, how often the user
               \* stops a server, the connections either can hold open, and
               \* whether both run to begin with

ASSUME ConstantsAssumption ==
  /\ Offered \subseteq Files /\ Files # {}
  /\ \A s \in Scenarios :
       /\ s.updates \in Nat /\ s.remove \in BOOLEAN /\ s.stops \in Nat
       /\ s.descriptors \in Nat \ {0} /\ s.running \in BOOLEAN

VARIABLES
  scenario,
  origin,   \* the origin's files: contents as a version, st_mtime in seconds
  updates,  \* how many more changes are made to them
  blurred,  \* history: files changed twice in the same second
  originUp, \* the origin accepts connections
  served,   \* connections it has accepted
  up,       \* the proxy accepts connections
  accepted, \* connections it has accepted
  stops,    \* how often the user will still stop one of them
  torn,     \* history: files a child was about to write or to enter when stopped
  cache,    \* the proxy's cached files
  log,      \* proxylog.txt
  pc,       \* where each child is
  room,     \* the descriptors that were free when it was forked
  client,   \* where its client is
  file,     \* the file its client asked for
  stamp,    \* timestamp, lastmodified_buffer
  got,      \* the version the origin sent
  text,     \* file_contents of modify_logfile
  since,    \* history: the origin's version when the request came
  reply     \* what the child sent to its client

originVars == <<origin, updates, blurred>>
serverVars == <<scenario, originUp, served, up, accepted, stops, torn>>
local      == <<room, client, file, since>>
vars == <<originVars, serverVars, cache, log, pc, local, stamp, got, text, reply>>

NL == [kind |-> "newline"]
Entry(f, t) == [kind |-> "entry", file |-> f, time |-> t]
Fragment == [kind |-> "fragment"]  \* the end of an entry overwritten in part

Garbage == -1  \* a timestamp that is none

Descriptors == scenario.descriptors

Versions == Nat \ {0}
Times    == Nat
Tokens   == {NL, Fragment} \cup [kind : {"entry"}, file : Files, time : Times]

\* "404" is condition 1, "fetched" conditions 2 and 4, "hit" condition 3.
\* doubled counts how often a text has had its newlines doubled.
Replies == [kind : {"none", "404", "fetched", "hit"},
            data : Seq(Versions), doubled : 0..2]
NoReply == [kind |-> "none", data |-> <<>>, doubled |-> 0]

Ended     == {"idle", "done", "crashed"}
Locations == Ended \cup
             {"hung", "recv", "open", "ask", "read", "absent", "store", "fill", "append",
              "lookup", "check", "reread", "rewrite", "refill", "readlog",
              "trunclog", "writelog", "serve", "answer"}

\* A child here has a connection to the origin and no answer yet.
OnOrigin == {"open", "ask", "read", "lookup", "check", "reread", "hung"}

TypeOK ==
  /\ scenario \in Scenarios
  /\ origin \in [Files -> [present : BOOLEAN, version : Versions, time : Times]]
  /\ updates \in Nat
  /\ blurred \subseteq Files
  /\ originUp \in BOOLEAN /\ served \in 0..Descriptors
  /\ up \in BOOLEAN /\ accepted \in 0..Descriptors
  /\ stops \in Nat
  /\ torn \subseteq Files
  /\ cache \in [Files -> [exists : BOOLEAN, data : Seq(Versions)]]
  /\ log \in Seq(Tokens)
  /\ pc \in [Children -> Locations]
  /\ room \in [Children -> 1..Descriptors]
  /\ client \in [Children -> {"typing", "waiting", "left", "ended"}]
  /\ file \in [Children -> Files]
  /\ stamp \in [Children -> Times \cup {Garbage}]
  /\ got \in [Children -> Versions]
  /\ text \in [Children -> Seq(Tokens)]
  /\ since \in [Children -> Versions]
  /\ reply \in [Children -> Replies]

Init ==
  /\ scenario \in Scenarios
  /\ origin = [f \in Files |-> [present |-> f \in Offered, version |-> 1, time |-> 0]]
  /\ updates = scenario.updates
  /\ blurred = {}
  /\ originUp = scenario.running /\ served = 0
  /\ up = scenario.running /\ accepted = 0
  /\ stops = scenario.stops
  /\ torn = {}
  /\ cache = [f \in Files |-> [exists |-> FALSE, data |-> <<>>]]
  /\ log = <<>>
  /\ pc = [c \in Children |-> "idle"]
  /\ room = [c \in Children |-> Descriptors]
  /\ client = [c \in Children |-> "ended"]
  /\ file \in [Children -> {CHOOSE f \in Files : TRUE}]
  /\ stamp = [c \in Children |-> 0]
  /\ got = [c \in Children |-> 1]
  /\ text = [c \in Children |-> <<>>]
  /\ since = [c \in Children |-> 1]
  /\ reply = [c \in Children |-> NoReply]

-----------------------------------------------------------------------------
(* What the functions on proxylog.txt do to its text.                      *)

\* Positions i and j of s are on one line; a newline ends its line.
SameLine(s, i, j) ==
  \A k \in 1..Len(s) : (i <= k /\ k < j) \/ (j <= k /\ k < i) => s[k] # NL

Names(s, i, f) == s[i].kind = "entry" /\ s[i].file = f

\* strstr finds the first "file#"; strtok ends at the newline, so an entry
\* with something after it on its line gives a text that is no time.
StampIn(s, f) ==
  LET i == CHOOSE n \in 1..Len(s) :
             Names(s, n, f) /\ \A k \in 1..(n - 1) : ~Names(s, k, f)
  IN  IF i = Len(s) \/ s[i + 1] = NL THEN s[i].time ELSE Garbage

Known(s, f) == \E i \in 1..Len(s) : Names(s, i, f)

\* modify_logfile replaces every line with the name in it by the new entry,
\* whatever else is on that line, its newline included.
Modified(s, f, t) ==
  LET OnItsLine(i) == \E j \in 1..Len(s) : SameLine(s, i, j) /\ Names(s, j, f)
      First(i)     == \A j \in 1..(i - 1) : ~SameLine(s, j, i)
  IN  FlattenSeq([i \in 1..Len(s) |->
        IF ~OnItsLine(i) THEN <<s[i]>>
        ELSE IF First(i) THEN <<Entry(f, t)>> ELSE <<>>])

\* Bytes of a text, an entry being far longer than a newline or a fragment.
Bytes(s) == LET E == Cardinality({i \in 1..Len(s) : s[i].kind = "entry"})
            IN  Len(s) + 99 * E

\* Writing s at the beginning of a file that has grown to t: what is longer
\* than s stays, from the middle of a token if need be.
Overlay(s, t) ==
  IF Bytes(s) >= Bytes(t) THEN s
  ELSE LET p == CHOOSE n \in 0..Len(t) :
                  /\ Bytes(SubSeq(t, 1, n)) >= Bytes(s)
                  /\ \A k \in 0..(n - 1) : Bytes(SubSeq(t, 1, k)) < Bytes(s)
       IN  s \o (IF Bytes(SubSeq(t, 1, p)) > Bytes(s) THEN <<Fragment>> ELSE <<>>)
             \o SubSeq(t, p + 1, Len(t))

-----------------------------------------------------------------------------
(* The two parents.                                                        *)

Goto(c, l) == pc' = [pc EXCEPT ![c] = l]

\* The buffers of children that have ended, or of one that begins.
Blank(C) ==
  /\ stamp' = [c \in Children |-> IF c \in C THEN 0 ELSE stamp[c]]
  /\ got' = [c \in Children |-> IF c \in C THEN 1 ELSE got[c]]
  /\ text' = [c \in Children |-> IF c \in C THEN <<>> ELSE text[c]]

\* The user starts the proxy, when nothing is left of an earlier one.
StartProxy ==
  /\ ~up /\ (\A c \in Children : pc[c] \in Ended)
  /\ up' = TRUE /\ accepted' = 0
  /\ pc' = [c \in Children |-> "idle"]
  /\ UNCHANGED <<scenario, originVars, originUp, served, stops, torn, cache, log, local,
                 stamp, got, text, reply>>

\* The user stops it, with its children; what they have not written is lost.
StopProxy ==
  /\ up /\ stops > 0 /\ stops' = stops - 1
  /\ up' = FALSE
  /\ torn' = torn \cup {file[c] : c \in {x \in Children : pc[x] \in {"fill", "refill", "append"}}}
  /\ pc' = [c \in Children |-> "idle"]
  /\ Blank(Children)
  /\ UNCHANGED <<scenario, originVars, originUp, served, accepted, cache, log, local, reply>>

\* The child finds the descriptors that the connections before it have left.
Accept(c) ==
  /\ up /\ accepted < Descriptors
  /\ pc[c] \in Ended /\ client[c] \in {"ended", "left"}
  /\ accepted' = accepted + 1
  /\ Goto(c, "recv")
  /\ room' = [room EXCEPT ![c] = Descriptors - accepted]
  /\ client' = [client EXCEPT ![c] = "typing"]
  /\ reply' = [reply EXCEPT ![c] = NoReply]
  /\ Blank({c})
  /\ UNCHANGED <<scenario, originVars, originUp, served, up, stops, torn, cache, log, file, since>>

\* The accept that finds no free descriptor makes the parent exit; its
\* children go on.
AcceptFails ==
  /\ up /\ accepted = Descriptors
  /\ up' = FALSE
  /\ UNCHANGED <<scenario, originVars, originUp, served, accepted, stops, torn, cache, log, pc,
                 local, stamp, got, text, reply>>

StartOrigin ==
  /\ ~originUp /\ (\A c \in Children : pc[c] \notin OnOrigin)
  /\ originUp' = TRUE /\ served' = 0
  /\ UNCHANGED <<scenario, originVars, up, accepted, stops, torn, cache, log, pc, local,
                 stamp, got, text, reply>>

\* recv at the end of a connection leaves an empty response, whose headers
\* the child looks for in vain: it dies on strstr's NULL.
StopOrigin ==
  /\ originUp /\ stops > 0 /\ stops' = stops - 1
  /\ originUp' = FALSE
  /\ pc' = [c \in Children |-> IF pc[c] \in OnOrigin THEN "crashed" ELSE pc[c]]
  /\ UNCHANGED <<scenario, originVars, served, up, accepted, torn, cache, log, local,
                 stamp, got, text, reply>>

OriginAcceptFails ==
  /\ originUp /\ served = Descriptors
  /\ originUp' = FALSE
  /\ UNCHANGED <<scenario, originVars, served, up, accepted, stops, torn, cache, log, pc,
                 local, stamp, got, text, reply>>

\* The socket of a child of the origin that died is closed after the parent
\* has exited too, and the children that were forked later.
Disconnect(c) ==
  /\ pc[c] = "hung" /\ ~originUp
  /\ Goto(c, "crashed")
  /\ UNCHANGED <<originVars, serverVars, cache, log, local, stamp, got, text, reply>>

-----------------------------------------------------------------------------
(* A client, which asks for one file.                                      *)

Ask(c, f) ==
  /\ client[c] = "typing"
  /\ client' = [client EXCEPT ![c] = "waiting"]
  /\ file' = [file EXCEPT ![c] = f]
  /\ since' = [since EXCEPT ![c] = origin[f].version]
  /\ UNCHANGED <<originVars, serverVars, cache, log, pc, room, stamp, got, text, reply>>

\* The proxy's side of a connection is open in the child, in the parent and
\* in the children that were forked later, with fewer descriptors.
Arrived(c) ==
  \/ reply[c] # NoReply
  \/ pc[c] = "idle"
  \/ /\ pc[c] = "crashed" /\ ~up
     /\ \A d \in Children : pc[d] \in Ended \/ room[d] > room[c]

Receive(c) ==
  /\ client[c] = "waiting" /\ Arrived(c)
  /\ client' = [client EXCEPT ![c] = "ended"]
  /\ UNCHANGED <<originVars, serverVars, cache, log, pc, room, file, since, stamp, got, text, reply>>

\* The user may end it, before it has asked or when it waits in vain; in
\* between that makes no difference to the child.
Killed(c) ==
  /\ client[c] = "typing" \/ (client[c] = "waiting" /\ pc[c] \in {"crashed", "hung"})
  /\ client' = [client EXCEPT ![c] =
                  IF @ = "typing" /\ pc[c] = "recv" THEN "left" ELSE "ended"]
  /\ UNCHANGED <<originVars, serverVars, cache, log, pc, room, file, since, stamp, got, text, reply>>

-----------------------------------------------------------------------------
(* The beginning of a child.                                               *)

\* read and create_client.  Without a request get_file_name returns no
\* pointer and the child dies; without an origin it exits; a connection the
\* origin will not accept ends with it.
Dial(c) ==
  /\ pc[c] = "recv" /\ client[c] # "typing"
  /\ IF client[c] # "left" /\ originUp /\ served < Descriptors
       THEN Goto(c, "open") /\ served' = served + 1
       ELSE Goto(c, "crashed") /\ UNCHANGED served
  /\ UNCHANGED <<scenario, originVars, originUp, up, accepted, stops, torn, cache, log, local,
                 stamp, got, text, reply>>

\* The descriptors that are free once the child has dialled suffice for n
\* open files.
CanOpen(c, n) == room[c] > n

\* fopen(filename,"r"): a file that cannot be opened passes for one that is
\* not in the cache.
Open(c) ==
  /\ pc[c] = "open"
  /\ Goto(c, IF cache[file[c]].exists /\ CanOpen(c, 1) THEN "lookup" ELSE "ask")
  /\ UNCHANGED <<originVars, serverVars, cache, log, local, stamp, got, text, reply>>

\* The child answers and exits.
Answer(c, kind, data, doubled) ==
  /\ reply' = [reply EXCEPT ![c] = [kind |-> kind, data |-> data, doubled |-> doubled]]
  /\ Goto(c, "done")
  /\ Blank({c})

-----------------------------------------------------------------------------
(* The file is not in the cache.                                           *)

\* The origin opens the file and takes its modification time.
HandleConnection(c) ==
  /\ pc[c] = "ask"
  /\ LET o == origin[file[c]]
     IN  IF o.present
           THEN /\ stamp' = [stamp EXCEPT ![c] = o.time]
                /\ Goto(c, "read")
           ELSE /\ Goto(c, "absent")
                /\ UNCHANGED stamp
  /\ UNCHANGED <<originVars, serverVars, cache, log, local, got, text, reply>>

\* The origin reads the file, which it may still do if it has been removed.
ReadFile(c) ==
  /\ pc[c] = "read"
  /\ got' = [got EXCEPT ![c] = origin[file[c]].version]
  /\ Goto(c, "store")
  /\ UNCHANGED <<originVars, serverVars, cache, log, local, stamp, text, reply>>

\* Condition 1.
NotFound(c) ==
  /\ pc[c] = "absent"
  /\ Answer(c, "404", <<>>, 0)
  /\ UNCHANGED <<originVars, serverVars, cache, log, local>>

After(l) == CASE l = "store"   -> "fill"   [] l = "fill"   -> "append"
              [] l = "rewrite" -> "refill" [] l = "refill" -> "readlog"

\* Seeded fault: the file is opened with "r+", which does not truncate it.
TruncateFileNot(c) ==
  /\ pc[c] \in {"store", "rewrite"}
  /\ cache' = [cache EXCEPT ![file[c]].exists = TRUE]
  /\ Goto(c, After(pc[c]))
  /\ UNCHANGED <<originVars, serverVars, log, local, stamp, got, text, reply>>

\* fopen(filename,"w") or "w+", the latter besides the stream that is read.
TruncateFile(c) ==
  /\ pc[c] \in {"store", "rewrite"}
  /\ IF CanOpen(c, IF pc[c] = "store" THEN 1 ELSE 2)
       THEN /\ cache' = [cache EXCEPT ![file[c]] = [exists |-> TRUE, data |-> <<>>]]
            /\ Goto(c, After(pc[c]))
       ELSE Goto(c, "crashed") /\ UNCHANGED cache
  /\ UNCHANGED <<originVars, serverVars, log, local, stamp, got, text, reply>>

\* Seeded fault: the file is not closed, and its buffer never written.
FillFileNot(c) ==
  /\ pc[c] \in {"fill", "refill"}
  /\ Goto(c, After(pc[c]))
  /\ UNCHANGED <<originVars, serverVars, cache, log, local, stamp, got, text, reply>>

\* fclose writes the buffer at the beginning of the file; if another child
\* has written more since the truncation, the rest of that stays.
FillFile(c) ==
  /\ pc[c] \in {"fill", "refill"}
  /\ LET f == file[c]
         d == cache[f].data
         new == <<got[c]>>
     IN  \/ cache' = [cache EXCEPT ![f].data = new]
         \/ /\ d # <<>> /\ Last(d) # got[c]
            /\ cache' = [cache EXCEPT ![f].data = Append(new, Last(d))]
  /\ Goto(c, After(pc[c]))
  /\ UNCHANGED <<originVars, serverVars, log, local, stamp, got, text, reply>>

\* Seeded fault: the entry is not put on a line of its own.
AppendLogNoNewline(c) ==
  /\ pc[c] = "append"
  /\ log' = Append(log, Entry(file[c], stamp[c]))
  /\ Goto(c, "answer")
  /\ UNCHANGED <<originVars, serverVars, cache, local, stamp, got, text, reply>>

\* fopen "a+", fprintf, fclose: one write at the end of proxylog.txt.
AppendLog(c) ==
  /\ pc[c] = "append"
  /\ log' = log \o <<NL, Entry(file[c], stamp[c])>>
  /\ Goto(c, "answer")
  /\ UNCHANGED <<originVars, serverVars, cache, local, stamp, got, text, reply>>

-----------------------------------------------------------------------------
(* The file is in the cache.                                               *)

\* get_file_timestamp; without an entry strstr returns NULL, without a
\* descriptor fopen does, and the child dies.
Lookup(c) ==
  /\ pc[c] = "lookup"
  /\ IF Known(log, file[c]) /\ CanOpen(c, 2)
       THEN /\ stamp' = [stamp EXCEPT ![c] = StampIn(log, file[c])]
            /\ Goto(c, "check")
       ELSE /\ Goto(c, "crashed")
            /\ UNCHANGED stamp
  /\ UNCHANGED <<originVars, serverVars, cache, log, local, got, text, reply>>

\* Seeded fault: the new time is not taken out of the response.
NewStampNot(c) == stamp[c]

\* The time that goes into the log.
NewStamp(c) == origin[file[c]].time

\* The origin compares the times.  Without the file it uses what stat did not
\* write and reads from no file: its child dies and the proxy's waits on.
HandleLastModified(c) ==
  /\ pc[c] = "check"
  /\ LET o == origin[file[c]]
     IN  \/ /\ ~o.present
            /\ Goto(c, "hung")
            /\ UNCHANGED stamp
         \/ /\ o.present /\ stamp[c] = o.time
            /\ Goto(c, "serve")
            /\ UNCHANGED stamp
         \/ /\ o.present /\ stamp[c] # o.time
            /\ stamp' = [stamp EXCEPT ![c] = NewStamp(c)]
            /\ Goto(c, "reread")
  /\ UNCHANGED <<originVars, serverVars, cache, log, local, got, text, reply>>

ReadModified(c) ==
  /\ pc[c] = "reread"
  /\ LET o == origin[file[c]]
     IN  IF o.present
           THEN /\ got' = [got EXCEPT ![c] = o.version]
                /\ Goto(c, "rewrite")
           ELSE /\ Goto(c, "hung")
                /\ UNCHANGED got
  /\ UNCHANGED <<originVars, serverVars, cache, log, local, stamp, text, reply>>

\* Condition 3.  Reading from the cache doubles the newlines, as reading at
\* the origin did.
ServeCached(c) ==
  /\ pc[c] = "serve"
  /\ Answer(c, "hit", cache[file[c]].data, 2)
  /\ UNCHANGED <<originVars, serverVars, cache, log, local>>

\* modify_logfile: read all, truncate, write all.  The stream that was read
\* is not closed.
ReadLog(c) ==
  /\ pc[c] = "readlog"
  /\ text' = [text EXCEPT ![c] = Modified(log, file[c], stamp[c])]
  /\ Goto(c, "trunclog")
  /\ UNCHANGED <<originVars, serverVars, cache, log, local, stamp, got, reply>>

TruncateLog(c) ==
  /\ pc[c] = "trunclog"
  /\ IF CanOpen(c, 3) THEN log' = <<>> /\ Goto(c, "writelog")
                      ELSE Goto(c, "crashed") /\ UNCHANGED log
  /\ UNCHANGED <<originVars, serverVars, cache, local, stamp, got, text, reply>>

WriteLog(c) ==
  /\ pc[c] = "writelog"
  /\ log' = Overlay(text[c], log)
  /\ text' = [text EXCEPT ![c] = <<>>]
  /\ Goto(c, "answer")
  /\ UNCHANGED <<originVars, serverVars, cache, local, stamp, got, reply>>

\* The end of conditions 2 and 4: what the origin sent goes to the client.
AnswerFetched(c) ==
  /\ pc[c] = "answer"
  /\ Answer(c, "fetched", <<got[c]>>, 1)
  /\ UNCHANGED <<originVars, serverVars, cache, log, local>>

-----------------------------------------------------------------------------
(* The origin's files change; st_mtime counts seconds.                     *)

Update(f) ==
  /\ updates > 0
  /\ origin[f].present
  /\ updates' = updates - 1
  /\ \E later \in {0, 1} :
       /\ origin' = [origin EXCEPT ![f].version = @ + 1, ![f].time = @ + later]
       /\ blurred' = IF later = 0 THEN blurred \cup {f} ELSE blurred
  /\ UNCHANGED <<serverVars, cache, log, pc, local, stamp, got, text, reply>>

Unlink(f) ==
  /\ scenario.remove
  /\ updates > 0
  /\ origin[f].present
  /\ updates' = updates - 1
  /\ origin' = [origin EXCEPT ![f].present = FALSE]
  /\ UNCHANGED <<blurred, serverVars, cache, log, pc, local, stamp, got, text, reply>>

-----------------------------------------------------------------------------
NotCached(c) == HandleConnection(c) \/ ReadFile(c) \/ NotFound(c) \/ AppendLog(c)
Cached(c)  == Lookup(c) \/ HandleLastModified(c) \/ ReadModified(c) \/ ServeCached(c)
           \/ ReadLog(c) \/ TruncateLog(c) \/ WriteLog(c)
Child(c) == \/ Dial(c) \/ Open(c) \/ NotCached(c) \/ Cached(c)
            \/ TruncateFile(c) \/ FillFile(c) \/ AnswerFetched(c) \/ Disconnect(c)

\* Whoever waits, waits for ever; the rest is up to users.
Idle ==
  /\ \A c \in Children : /\ pc[c] \in Ended \cup {"hung"}
                         /\ client[c] \in {"ended", "left"} \/ (client[c] = "waiting" /\ ~Arrived(c))
  /\ UNCHANGED vars

Next ==
  \/ \E c \in Children : \/ Child(c) \/ Accept(c) \/ Receive(c) \/ Killed(c)
                         \/ \E f \in Files : Ask(c, f)
  \/ StartProxy \/ StopProxy \/ AcceptFails
  \/ StartOrigin \/ StopOrigin \/ OriginAcceptFails
  \/ \E f \in Files : Update(f) \/ Unlink(f)
  \/ Idle

Spec == Init /\ [][Next]_vars

\* The children and the clients that wait for nobody run.
FairSpec == Spec /\ \A c \in Children : WF_vars(Child(c)) /\ WF_vars(Receive(c))

-----------------------------------------------------------------------------
(* Properties.                                                             *)

Answered(c) == pc[c] = "done" /\ reply[c].kind \in {"fetched", "hit"}

\* One client at a time: whatever has happened to the log, and wherever the
\* proxy was stopped between writing a file and its entry, a client gets the
\* whole file, in a version the origin still had when the request came or in
\* a later one, unless the file has changed twice in a second.
Fresh ==
  \A c \in Children : Answered(c) =>
    \/ file[c] \in blurred
    \/ \E v \in since[c]..origin[file[c]].version : reply[c].data = <<v>>

\* Several clients: a cached file that nobody is writing has contents, unless
\* the proxy was stopped while somebody did.
WholeWhenUnattended ==
  \A f \in Files \ torn :
    cache[f].exists /\ (\A c \in Children : file[c] = f => pc[c] \notin {"fill", "refill"})
      => cache[f].data # <<>>

\* As long as the origin changes nothing, every cached file has its time in
\* the log, or a child is about to write it there, unless one was when the
\* proxy was stopped.
LogCoversCache ==
  updates = scenario.updates =>
    \A f \in Files \ torn : cache[f].exists =>
      \/ Known(log, f) /\ StampIn(log, f) = origin[f].time
      \/ \E c \in Children : file[c] = f /\ pc[c] \in {"fill", "append"}

\* One client at a time: while the origin runs and changes nothing, no child
\* lacks descriptors, and the proxy was not stopped between a file and its
\* entry, every request ends, with an answer or with the proxy: no child dies,
\* and none waits for an answer that does not come.
Undisturbed ==
  /\ originUp /\ served < Descriptors /\ torn = {}
  /\ updates = scenario.updates
  /\ \A c \in Children : CanOpen(c, 3)
EveryRequestEnds ==
  []Undisturbed => \A c \in Children : client[c] = "waiting" ~> client[c] # "waiting"

\* proxy-server.c:217-219, FILE PRESENT IN THE PROXY SERVER, //check for last
\* modification date with the main server: a child that has found its file in
\* the cache finds the date in the log.
PresentIsChecked == \A c \in Children : pc[c] = "lookup" => Known(log, file[c])

\* proxy-server.c:234-235, condition 3 304 STATUS CODE [NOT MODIFIED], send
\* the contents from the proxy server: a hit answers with a whole file.
NotModifiedServesWhole ==
  \A c \in Children :
    pc[c] = "done" /\ reply[c].kind = "hit" => Len(reply[c].data) = 1

-----------------------------------------------------------------------------
(* The strengthening of the invariants above that is inductive.            *)

\* A child whose client has not asked has no file yet, and one that writes a
\* time has taken it out of a response.
PlaceInv ==
  \A c \in Children :
    /\ client[c] = "typing" => pc[c] \in {"recv", "idle"}
    /\ pc[c] \in {"read", "store", "fill", "append", "reread", "rewrite", "refill", "readlog"}
         => stamp[c] \in Times

\* As long as the origin changes nothing, the log only grows, by an entry on a
\* line of its own with the time its file has, and no child modifies it.
QuietInv ==
  /\ updates <= scenario.updates
  /\ updates = scenario.updates =>
       /\ \A i \in 1..Len(log) : log[i].kind = "entry" =>
            /\ log[i].time = origin[log[i].file].time
            /\ i = Len(log) \/ log[i + 1] = NL
       /\ \A c \in Children :
            /\ pc[c] \notin {"reread", "rewrite", "refill", "readlog", "trunclog", "writelog"}
            /\ pc[c] \in {"read", "store", "fill", "append", "check"}
                 => stamp[c] = origin[file[c]].time
       /\ \A f \in Files \ torn : cache[f].exists =>
            Known(log, f) \/ \E c \in Children : file[c] = f /\ pc[c] \in {"fill", "append"}

\* What a time in the log says of the cached file: if it is the origin's, the
\* file has the origin's version.
Honest(f, t) ==
  \/ f \in blurred
  \/ t < origin[f].time
  \/ t = origin[f].time /\ cache[f].data = <<origin[f].version>>

\* Only an entry with nothing behind it on its line has a time.
Readable(s, i) == i = Len(s) \/ s[i + 1] = NL

\* One client at a time: a log, or the text one will be.
SoundLog(s) ==
  \A i \in 1..Len(s) : s[i].kind = "entry" =>
    /\ \A j \in 1..Len(s) : Names(s, j, s[i].file) => i = j
    /\ cache[s[i].file].exists
    /\ Readable(s, i) => Honest(s[i].file, s[i].time)

\* The log has no time for f that is still the origin's.
Outdated(f) ==
  f \in blurred \/ \A i \in 1..Len(log) :
    Names(log, i, f) /\ Readable(log, i) => log[i].time < origin[f].time

\* One client at a time, at each place of the child.
AloneInv(c) ==
  LET f == file[c]
      o == origin[f]
      d == cache[f].data
  IN  /\ since[c] <= o.version
      /\ pc[c] \in {"ask", "read", "store"} => ~cache[f].exists \/ ~CanOpen(c, 1)
      /\ pc[c] \in {"fill", "append"} => cache[f].exists /\ ~Known(log, f)
      /\ pc[c] \in {"fill", "refill"} => d = <<>>
      /\ pc[c] \in {"append", "readlog"} => d = <<got[c]>>
      /\ pc[c] \in {"read", "reread", "store", "fill", "append", "rewrite", "refill", "readlog"}
           => stamp[c] <= o.time
      /\ pc[c] \in {"store", "fill", "append", "rewrite", "refill", "readlog"} =>
           f \in blurred \/ (stamp[c] = o.time => got[c] = o.version)
      /\ pc[c] \in {"store", "fill", "append", "rewrite", "refill", "readlog", "trunclog",
                    "writelog", "answer"}
           => since[c] <= got[c] /\ got[c] <= o.version
      /\ pc[c] \in {"check", "reread", "rewrite", "refill", "readlog"} => cache[f].exists
      /\ pc[c] = "check" =>
           /\ stamp[c] = Garbage \/ Honest(f, stamp[c])
           /\ \A i \in 1..Len(log) :
                Names(log, i, f) /\ Readable(log, i) => log[i].time = stamp[c]
      /\ pc[c] \in {"reread", "rewrite", "refill", "readlog"} => Outdated(f)
      /\ pc[c] \in {"trunclog", "writelog"} => SoundLog(text[c])
      /\ pc[c] = "writelog" => log = <<>>
      /\ pc[c] = "serve" => f \in blurred \/ \E v \in since[c]..o.version : d = <<v>>

FreshInv ==
  /\ SoundLog(log)
  /\ \A c \in Children : AloneInv(c)
  /\ Fresh

=============================================================================
