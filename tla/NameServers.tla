----------------------------- MODULE NameServers -----------------------------
(***************************************************************************)
(* The name servers of lab6 and lab6/spot, four processes each with one    *)
(* UDP socket: clients ask the local server; the iterative one (lab6) asks *)
(* the root, the top level and the authoritative server itself, in the     *)
(* recursive one (spot) each asks the next.  Every server is a single loop *)
(* that asks through a new socket for each request, waits for the reply    *)
(* without a timeout, and rewrites its record file at every request: the   *)
(* line it found goes to the end.  Servers are started in any order, and   *)
(* may be stopped and started again.                                       *)
(*                                                                         *)
(* A record file is a sequence of records and newlines.  No name is taken  *)
(* to be a prefix of another, and all to have the labels the parsing       *)
(* expects and to fit the buffers.                                         *)
(***************************************************************************)
EXTENDS Integers, Sequences, FiniteSets, SequencesExt

CONSTANTS
  Client,
  Hosts,      \* the names clients ask for
  Domain,     \* Domain[s][h]: what server s, root or tld, looks for when asked for h
  Scenarios,  \* the programs, record files and running servers to begin with,
              \* and bounds: queries of each client, processes stopped
  Addresses,  \* how many addresses the authoritative record of a host has
  Table       \* the hosts of ip_lookuptable

Zones == {"root", "tld", "auth"}
Servers == {"local"} \cup Zones

\* Whose socket is closed.
Nobody == "nobody"

VARIABLES
  recursive, \* which of the two sets of programs runs
  splits,    \* two records are longer than linebuff, so that fgets splits them
  began,     \* history: the record files in the beginning
  stops,     \* how many more processes are stopped
  files,     \* the record files
  value,     \* ip_lookuptable[].value
  at,        \* where each server is: "off", "recv", "send", "wait" or "reply"
  inbox,     \* the datagrams in each server's socket
  serving,   \* the request each server deals with, its client_addr and buffer
  peer,      \* the server that each asks
  mail,      \* the reply in the socket it asks through
  result,    \* the reply each server is about to send
  cpc,       \* where each client is
  asks,      \* how many more queries each client sends
  wanted,    \* history: the last name each client asked for, in a sequence
  answers,   \* history: the replies to clients, in order
  forgot,    \* history: the authoritative server has ended, and its counts with it
  lost       \* history: a datagram has been lost

scenario   == <<recursive, splits, began>>
recordVars == <<files, value, forgot>>
netVars    == <<at, inbox, serving, peer, mail, result>>
clientVars == <<cpc, asks, wanted, answers>>
vars == <<scenario, stops, recordVars, netVars, clientVars, lost>>

NL   == [kind |-> "newline"]
Rest == [kind |-> "rest"]           \* a record without its beginning
Record(n) == [kind |-> "record", name |-> n, spoiled |-> FALSE]

\* An answer: an address of a host, an address with something behind it, the
\* address of the next server, 404.
Address(h, n) == [kind |-> "address", host |-> h, n |-> n]
Spoiled  == [kind |-> "spoiled"]
Referral == [kind |-> "referral"]
NotFound == [kind |-> "404"]

Answers == {Spoiled, Referral, NotFound}
           \cup UNION {{Address(h, n) : n \in 0..(Addresses[h] - 1)} : h \in Hosts}

Names     == Hosts \cup {Domain[s][h] : s \in {"root", "tld"}, h \in Hosts}
Tokens(N) == {NL, Rest} \cup [kind : {"record"}, name : N, spoiled : BOOLEAN]

\* A record on every line, the last of which may be without its newline.
WellFormed(s) ==
  \A i \in 1..Len(s) : \/ s[i] = NL
                       \/ s[i] = Record(s[i].name) /\ (i = Len(s) \/ s[i + 1] = NL)

Exit == "exit"
Datagram(from, text) == [from |-> from, text |-> text]
Datagrams == [from : Client \cup Servers \cup {Nobody}, text : Hosts \cup {Exit}]
Requests  == [from : Client \cup Servers \cup {Nobody}, text : Hosts]

ASSUME ConstantsAssumption ==
  /\ Client \cap (Servers \cup {Nobody}) = {}
  /\ Exit \notin Hosts /\ Table \subseteq Hosts
  /\ Addresses \in [Hosts -> Nat \ {0}]
  /\ \A sc \in Scenarios :
       /\ sc.recursive \in BOOLEAN /\ sc.splits \in BOOLEAN
       /\ sc.up \subseteq Servers /\ sc.stops \in Nat /\ sc.asks \in [Client -> Nat]
       /\ sc.files \in [Zones -> Seq(Tokens(Names))] /\ sc.files.auth \in Seq(Tokens(Hosts))
       /\ \A s \in Zones : WellFormed(sc.files[s])

TypeOK ==
  /\ recursive \in BOOLEAN /\ splits \in BOOLEAN /\ stops \in Nat
  /\ files \in [Zones -> Seq(Tokens(Names))] /\ files.auth \in Seq(Tokens(Hosts))
  /\ began \in [Zones -> Seq(Tokens(Names))]
  /\ value \in [Table -> Nat]
  /\ at \in [Servers -> {"off", "recv", "send", "wait", "reply"}]
  /\ inbox \in [Servers -> Seq(Datagrams)] /\ serving \in [Servers -> Seq(Requests)]
  /\ mail \in [Servers -> Seq(Answers)] /\ result \in [Servers -> Answers]
  /\ \A s \in Servers :
       /\ Len(serving[s]) = (IF at[s] \in {"off", "recv"} THEN 0 ELSE 1)
       /\ mail[s] # <<>> => Len(mail[s]) = 1 /\ at[s] = "wait"
  /\ peer \in [Servers -> Zones]
  /\ cpc \in [Client -> {"prompt", "wait", "gone"}]
  /\ asks \in [Client -> Nat]
  /\ wanted \in [Client -> Seq(Hosts)] /\ \A c \in Client : Len(wanted[c]) <= 1
  /\ answers \in Seq([from : Client, name : Hosts, is : Answers])
  /\ forgot \in BOOLEAN
  /\ lost \in BOOLEAN

Init ==
  /\ \E sc \in Scenarios :
       /\ recursive = sc.recursive /\ splits = sc.splits /\ stops = sc.stops /\ asks = sc.asks
       /\ files = sc.files /\ began = sc.files
       /\ at = [s \in Servers |-> IF s \in sc.up THEN "recv" ELSE "off"]
  /\ value = [h \in Table |-> 0]
  /\ inbox = [s \in Servers |-> <<>>]
  /\ serving = [s \in Servers |-> <<>>]
  /\ peer = [s \in Servers |-> "root"]
  /\ mail = [s \in Servers |-> <<>>]
  /\ result = [s \in Servers |-> NotFound]
  /\ cpc = [c \in Client |-> "prompt"]
  /\ wanted = [c \in Client |-> <<>>]
  /\ answers = <<>>
  /\ forgot = FALSE
  /\ lost = FALSE

-----------------------------------------------------------------------------
(* A record file.                                                          *)

LineBegins(s, i) == i = 1 \/ (i > 1 /\ s[i - 1] = NL)
Glued(s, i) == i < Len(s) /\ s[i + 1] # NL

\* A record is found by the name a line begins with.
Finds(s, i, n) == LineBegins(s, i) /\ s[i].kind = "record" /\ s[i].name = n
Holds(s, n)    == \E i \in 1..Len(s) : Finds(s, i, n)
Place(s, n)    == CHOOSE i \in 1..Len(s) :
                    Finds(s, i, n) /\ \A k \in 1..(i - 1) : ~Finds(s, k, n)

\* The end of what fgets returns from position i on: the newline, or, when it
\* fills linebuff first, the end of one record.
ChunkEnd(s, i) ==
  IF splits /\ Glued(s, i) THEN i
  ELSE LET ends == {k \in i..Len(s) : s[k] = NL}
       IN  IF ends = {} THEN Len(s) ELSE CHOOSE k \in ends : \A j \in ends : k <= j

\* Seeded fault: the line found is not appended.
MovedAway(s, i) ==
  SubSeq(s, 1, i - 1) \o SubSeq(s, ChunkEnd(s, i) + 1, Len(s))

\* The other lines, then the line found.  A line that fgets has split loses
\* what follows its first record.
Moved(s, i) ==
  LET e == ChunkEnd(s, i)
      cut == splits /\ Glued(s, i)
      before == SubSeq(s, 1, i - 1)
      after  == IF cut THEN <<Rest>> \o SubSeq(s, e + 2, Len(s)) ELSE SubSeq(s, e + 1, Len(s))
      line   == IF cut THEN <<[s[i] EXCEPT !.spoiled = TRUE]>> ELSE SubSeq(s, i, e)
  IN  before \o after \o line

-----------------------------------------------------------------------------
(* Sending and stopping.                                                   *)

\* sendto a server that does not run succeeds all the same.
SendTo(s, d) ==
  IF at[s] = "off" THEN lost' = TRUE /\ UNCHANGED inbox
  ELSE inbox' = [inbox EXCEPT ![s] = Append(@, d)] /\ UNCHANGED lost

\* The datagrams q when the sockets of x have been closed.
Orphaned(q, x) ==
  [k \in 1..Len(q) |-> IF q[k].from = x THEN [q[k] EXCEPT !.from = Nobody] ELSE q[k]]

\* Server s ends, with its sockets, its variables and what they hold.
End(s) ==
  /\ at' = [at EXCEPT ![s] = "off"]
  /\ inbox' = [t \in Servers |-> IF t = s THEN <<>> ELSE Orphaned(inbox[t], s)]
  /\ serving' = [t \in Servers |-> IF t = s THEN <<>> ELSE Orphaned(serving[t], s)]
  /\ mail' = [mail EXCEPT ![s] = <<>>]
  /\ peer' = [peer EXCEPT ![s] = "root"]
  /\ result' = [result EXCEPT ![s] = NotFound]
  /\ IF s = "auth" THEN value' = [h \in Table |-> 0] /\ forgot' = TRUE
                   ELSE UNCHANGED <<value, forgot>>

Start(s) ==
  /\ at[s] = "off"
  /\ at' = [at EXCEPT ![s] = "recv"]
  /\ UNCHANGED <<scenario, stops, recordVars, inbox, serving, peer, mail, result, clientVars, lost>>

Stop(s) ==
  /\ stops > 0 /\ stops' = stops - 1
  /\ at[s] # "off" /\ End(s)
  /\ lost' = (lost \/ serving[s] # <<>> \/ inbox[s] # <<>>)
  /\ UNCHANGED <<scenario, files, clientVars>>

-----------------------------------------------------------------------------
(* The clients.                                                            *)

Ask(c, h) ==
  /\ cpc[c] = "prompt" /\ asks[c] > 0
  /\ asks' = [asks EXCEPT ![c] = @ - 1]
  /\ wanted' = [wanted EXCEPT ![c] = <<h>>]
  /\ SendTo("local", Datagram(c, h))
  /\ cpc' = [cpc EXCEPT ![c] = "wait"]
  /\ UNCHANGED <<scenario, stops, recordVars, at, serving, peer, mail, result, answers>>

\* "exit" ends the client and is sent to the local server as well.
Leave(c) ==
  /\ cpc[c] = "prompt"
  /\ SendTo("local", Datagram(c, Exit))
  /\ cpc' = [cpc EXCEPT ![c] = "gone"]
  /\ UNCHANGED <<scenario, stops, recordVars, at, serving, peer, mail, result,
                 asks, wanted, answers>>

Killed(c) ==
  /\ stops > 0 /\ stops' = stops - 1
  /\ cpc[c] = "wait"
  /\ cpc' = [cpc EXCEPT ![c] = "gone"]
  /\ UNCHANGED <<scenario, recordVars, netVars, asks, wanted, answers, lost>>

-----------------------------------------------------------------------------
(* What the servers have in common.                                        *)

Receives(s) == at[s] = "recv" /\ inbox[s] # <<>>

\* The request d leaves the socket of s, which goes on to l.
Take(s, d, l) ==
  /\ inbox' = [inbox EXCEPT ![s] = Tail(@)]
  /\ serving' = [serving EXCEPT ![s] = <<d>>]
  /\ at' = [at EXCEPT ![s] = l]

\* Ask peer[s], through a new socket.
Send(s) ==
  /\ at[s] = "send"
  /\ SendTo(peer[s], Datagram(s, serving[s][1].text))
  /\ at' = [at EXCEPT ![s] = "wait"]
  /\ UNCHANGED <<scenario, stops, recordVars, serving, peer, mail, result, clientVars>>

\* The reply of peer[s] will be the reply of s.
PassOn(s) ==
  /\ at[s] = "wait" /\ mail[s] # <<>>
  /\ result' = [result EXCEPT ![s] = mail[s][1]]
  /\ mail' = [mail EXCEPT ![s] = <<>>]
  /\ at' = [at EXCEPT ![s] = "reply"]
  /\ UNCHANGED <<scenario, stops, recordVars, inbox, serving, peer, clientVars, lost>>

\* A reply goes to the socket the request came from, if that is still open.
Deliver(s, from) ==
  /\ at' = [at EXCEPT ![s] = "recv"]
  /\ serving' = [serving EXCEPT ![s] = <<>>]
  /\ IF from \in Servers
       THEN mail' = [mail EXCEPT ![from] = <<result[s]>>] /\ UNCHANGED <<cpc, answers, lost>>
     ELSE IF from # Nobody /\ cpc[from] = "wait"
       THEN /\ answers' = Append(answers, [from |-> from, name |-> serving[s][1].text,
                                           is |-> result[s]])
            /\ cpc' = [cpc EXCEPT ![from] = "prompt"]
            /\ UNCHANGED <<mail, lost>>
     ELSE lost' = TRUE /\ UNCHANGED <<mail, cpc, answers>>
  /\ UNCHANGED <<scenario, stops, recordVars, inbox, peer, result, asks, wanted>>

\* Seeded fault: the reply goes to the sender of the newest datagram.
ReplyToNewest(s) ==
  /\ at[s] = "reply"
  /\ Deliver(s, IF inbox[s] = <<>> THEN serving[s][1].from ELSE Last(inbox[s]).from)

Reply(s) == at[s] = "reply" /\ Deliver(s, serving[s][1].from)

-----------------------------------------------------------------------------
(* The local server.                                                       *)

\* "exit" from any client ends its loop, with the requests behind it.
LocalReceive ==
  /\ Receives("local")
  /\ LET d == Head(inbox["local"])
     IN  IF d.text = Exit
           THEN End("local") /\ lost' = (lost \/ Len(inbox["local"]) > 1)
           ELSE /\ Take("local", d, "send")
                /\ peer' = [peer EXCEPT !["local"] = "root"]
                /\ UNCHANGED <<mail, result, lost, value, forgot>>
  /\ UNCHANGED <<scenario, stops, files, clientVars>>

NextServer(s) == IF s = "root" THEN "tld" ELSE "auth"

\* The iterative local server takes no notice of what the root and the top
\* level server reply, "404" or an address.
AskNext ==
  /\ at["local"] = "wait" /\ mail["local"] # <<>> /\ peer["local"] # "auth"
  /\ mail' = [mail EXCEPT !["local"] = <<>>]
  /\ peer' = [peer EXCEPT !["local"] = NextServer(@)]
  /\ at' = [at EXCEPT !["local"] = "send"]
  /\ UNCHANGED <<scenario, stops, recordVars, inbox, serving, result, clientVars, lost>>

-----------------------------------------------------------------------------
(* The root and the top level server.                                      *)

\* They find the record, move it, and reply with it (lab6) or ask the server
\* it names (spot).
Refer(s) ==
  /\ Receives(s)
  /\ LET d == Head(inbox[s])
         n == Domain[s][d.text]
         f == files[s]
     IN  IF Holds(f, n)
           THEN /\ files' = [files EXCEPT ![s] = Moved(f, Place(f, n))]
                /\ Take(s, d, IF recursive THEN "send" ELSE "reply")
                /\ result' = [result EXCEPT ![s] = Referral]
                /\ peer' = [peer EXCEPT ![s] = NextServer(s)]
           ELSE /\ Take(s, d, "reply")
                /\ result' = [result EXCEPT ![s] = NotFound]
                /\ UNCHANGED <<files, peer>>
  /\ UNCHANGED <<scenario, stops, value, forgot, mail, clientVars, lost>>

-----------------------------------------------------------------------------
(* The authoritative server.                                               *)

\* Seeded fault: the count goes down.
RotatedDown(h) == value[h] - 1

\* ip_lookuptable[i].value++
Rotated(h) == value[h] + 1

\* Seeded fault: IP_FOR_EACH_DNS_RECORDS is one too many.
PointerOneMore(h) == value[h] % 4

\* Seeded fault: rotate_dns_ip returns the count after it has gone up.
PointerAfter(h) == (value[h] + 1) % 3

\* rotate_dns_ip(buffer)%IP_FOR_EACH_DNS_RECORDS, for a host in the table
Pointer(h) == value[h] % 3

\* The addresses that the record at position i contributes to its line; what
\* follows it without a newline runs into the last one.
AddressesAt(s, i) ==
  LET h == s[i].name
  IN  [k \in 1..Addresses[h] |->
         IF k = Addresses[h] /\ (Glued(s, i) \/ s[i].spoiled)
           THEN Spoiled ELSE Address(h, k - 1)]

\* The words after the name in the line that fgets returns from i on.
Words(s, i) ==
  FlattenSeq([k \in 1..(ChunkEnd(s, i) + 1 - i) |->
    IF s[i + k - 1].kind = "record" THEN AddressesAt(s, i + k - 1) ELSE <<>>])

\* A host that is not in the table, or a word that is not there, makes
\* strtok's NULL be used: the server dies.
Resolve ==
  /\ Receives("auth")
  /\ LET d == Head(inbox["auth"])
         h == d.text
         f == files.auth
         words == Words(f, Place(f, h))
     IN  \/ /\ ~Holds(f, h)
            /\ Take("auth", d, "reply")
            /\ result' = [result EXCEPT !["auth"] = NotFound]
            /\ UNCHANGED <<files, value, forgot, peer, mail>>
         \/ /\ Holds(f, h) /\ h \in Table /\ Pointer(h) < Len(words)
            /\ Take("auth", d, "reply")
            /\ result' = [result EXCEPT !["auth"] = words[Pointer(h) + 1]]
            /\ value' = [value EXCEPT ![h] = Rotated(h)]
            /\ files' = [files EXCEPT !.auth = Moved(f, Place(f, h))]
            /\ UNCHANGED <<forgot, peer, mail>>
         \/ /\ Holds(f, h) /\ (h \in Table => Pointer(h) >= Len(words))
            /\ End("auth")
            /\ UNCHANGED files
  /\ UNCHANGED <<scenario, stops, clientVars, lost>>

-----------------------------------------------------------------------------
(* The programs.                                                           *)

LocalDns       == LocalReceive \/ Send("local") \/ AskNext \/ Reply("local")
                  \/ (peer["local"] = "auth" /\ PassOn("local"))
RootDns        == Refer("root") \/ Reply("root")
TopLevelDomain == Refer("tld") \/ Reply("tld")
AuthDns        == Resolve \/ Reply("auth")

SpotLocalDns       == LocalReceive \/ Send("local") \/ PassOn("local") \/ Reply("local")
SpotRootDns        == Refer("root") \/ Send("root") \/ PassOn("root") \/ Reply("root")
SpotTopLevelDomain == Refer("tld") \/ Send("tld") \/ PassOn("tld") \/ Reply("tld")
SpotAuthDns        == Resolve \/ Reply("auth")

Local == (~recursive /\ LocalDns) \/ (recursive /\ SpotLocalDns)
Root  == (~recursive /\ RootDns) \/ (recursive /\ SpotRootDns)
TopLevel == (~recursive /\ TopLevelDomain) \/ (recursive /\ SpotTopLevelDomain)
Auth  == (~recursive /\ AuthDns) \/ (recursive /\ SpotAuthDns)

\* Nobody has anything to do but users.
Idle ==
  /\ \A s \in Servers : \/ at[s] = "off"
                        \/ at[s] = "recv" /\ inbox[s] = <<>>
                        \/ at[s] = "wait" /\ mail[s] = <<>>
  /\ UNCHANGED vars

Next ==
  \/ \E c \in Client : Leave(c) \/ Killed(c) \/ \E h \in Hosts : Ask(c, h)
  \/ \E s \in Servers : Start(s) \/ Stop(s)
  \/ Local \/ Root \/ TopLevel \/ Auth
  \/ Idle

Spec == Init /\ [][Next]_vars

\* The servers run when they have something to do; nobody needs to start one,
\* or to ask.
FairSpec == Spec /\ WF_vars(Local) /\ WF_vars(Root) /\ WF_vars(TopLevel) /\ WF_vars(Auth)

-----------------------------------------------------------------------------
(* Properties.                                                             *)

Ends(s) == s # <<>> /\ Last(s) = NL

\* A record file whose last line ends with a newline loses no record, however
\* often its lines are moved and its server is stopped in between.
KnownStaysKnown ==
  \A s \in Zones : Ends(began[s]) =>
    \A n \in Names : Holds(began[s], n) => Holds(files[s], n)

\* The replies to a name are its own addresses in turn, whoever asks, in
\* whatever order the other names are asked for, and whichever other servers
\* are stopped in between, as long as no reply is lost and the authoritative
\* server goes on.
Resolved(i, h) == answers[i].name = h /\ answers[i].is # NotFound
RepliesBefore(j, h) == Cardinality({i \in 1..(j - 1) : Resolved(i, h)})
RoundRobin ==
  Ends(began.auth) /\ ~lost /\ ~forgot =>
    \A h \in Hosts : \A j \in 1..Len(answers) :
      Resolved(j, h) => answers[j].is = Address(h, RepliesBefore(j, h) % 3)

\* A client that has its reply has the reply to what it asked last: an address
\* of that host, or 404 if a server that is asked has no record.  No reply to
\* a request of a server that was stopped is taken for another's
\* (spot/localDns.c, line 59: the socket is a new one each time).
Lacks(s, h) == ~Holds(files[s], IF s = "auth" THEN h ELSE Domain[s][h])
Suits(h, x) ==
  IF x = NotFound THEN \E s \in Zones : (recursive \/ s = "auth") /\ Lacks(s, h)
  ELSE Ends(began.auth) => \E n \in 0..2 : x = Address(h, n)
AnswerIsMine ==
  \A c \in Client : \A h \in Hosts :
    cpc[c] = "prompt" /\ wanted[c] # <<>> /\ h = wanted[c][1] =>
      \E i \in 1..Len(answers) : \E x \in Answers :
        /\ answers[i] = [from |-> c, name |-> h, is |-> x] /\ Suits(h, x)
        /\ \A j \in (i + 1)..Len(answers) : answers[j].from # c

\* As long as no datagram is lost, because a server does not run, is stopped
\* with a request, or ends over a client's "exit" with others behind it, and
\* nobody asks for a host that is not in ip_lookuptable (spot/authDns.c, line
\* 32) or has fewer addresses than the rotation counts (authdns.c, line 82),
\* every query is answered: nothing else halts a server, no two of them wait
\* for each other, and stopping one that has no request harms nobody.
RotationFits(h) == h \in Table /\ Addresses[h] >= 3
EveryQueryAnswered ==
  /\ []~lost
  /\ [](\A c \in Client : wanted[c] # <<>> => RotationFits(wanted[c][1]))
  => \A c \in Client : cpc[c] = "wait" ~> cpc[c] # "wait"

-----------------------------------------------------------------------------
(* The strengthening of the invariants above that is inductive.            *)

\* What server s has, the request it deals with first.
Pending(s) == serving[s] \o inbox[s]

\* Whoever has sent a request, and has its socket open.
Live(x)   == x \in Servers \/ (x \in Client /\ cpc[x] # "gone")
Waits(x)  == IF x \in Servers THEN at[x] = "wait" /\ mail[x] = <<>> ELSE cpc[x] = "wait"
Asked(x)  == IF x \in Servers THEN peer[x] ELSE "local"
Wanted(x) == IF x \in Servers THEN serving[x][1].text ELSE wanted[x][1]

\* A request whose sender is still there is the only one of its sender, who
\* waits for the answer to it.
SenderInv ==
  \A x \in Client \cup Servers : Live(x) =>
    \A s \in Servers : \A j \in 1..Len(Pending(s)) : Pending(s)[j].from = x =>
      /\ Waits(x) /\ Asked(x) = s /\ Pending(s)[j].text = Wanted(x)
      /\ \A i \in 1..Len(Pending(s)) : Pending(s)[i].from = x => i = j

\* Only clients send "exit", they know only the local server, and a request
\* whose sender has been stopped will be lost.
KindInv ==
  \A s \in Servers : \A j \in 1..Len(Pending(s)) :
    /\ Pending(s)[j].from \in Client \/ Pending(s)[j].text = Exit => s = "local"
    /\ Pending(s)[j].from = Nobody => lost

\* Whom a server asks.
PeerInv ==
  \A s \in Servers : at[s] \in {"send", "wait"} =>
    IF s = "local" THEN recursive => peer[s] = "root"
    ELSE recursive /\ s # "auth" /\ peer[s] = NextServer(s)

RequestInv ==
  /\ SenderInv /\ KindInv /\ PeerInv
  /\ \A c \in Client : cpc[c] = "wait" => wanted[c] # <<>>

\* A record file with all its newlines keeps them, and its lines.
FileInv ==
  /\ \A s \in Zones : Ends(began[s]) => WellFormed(files[s]) /\ Ends(files[s])
  /\ KnownStaysKnown

\* Server s has what will be the reply to a client, at once or passed on, and
\* it is not what the iterative local server overlooks.
Has(s) ==
  \/ at[s] = "reply" /\ (recursive \/ s \in {"auth", "local"})
  \/ mail[s] # <<>> /\ (recursive \/ peer[s] = "auth")
Held(s) == IF at[s] = "reply" THEN result[s] ELSE mail[s][1]

Brings(s, h, x) == Has(s) /\ serving[s][1].text = h /\ Held(s) = x

SuitsInv ==
  \A s \in Servers : \A h \in Hosts : \A x \in Answers : Brings(s, h, x) => Suits(h, x)

\* The count of a host is that of the replies to it, the one on its way
\* included.
Replies(h) == RepliesBefore(Len(answers) + 1, h)
RotationInv ==
  Ends(began.auth) /\ ~lost /\ ~forgot =>
    \A h \in Hosts :
      /\ \A s \in Servers : \A x \in Answers \ {NotFound} : Brings(s, h, x) =>
           h \in Table /\ value[h] = Replies(h) + 1 /\ x = Address(h, Replies(h) % 3)
      /\ h \in Table /\ (\A s \in Servers : \A x \in Answers \ {NotFound} : ~Brings(s, h, x)) =>
           value[h] = Replies(h)

=============================================================================
