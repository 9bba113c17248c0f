----------------------------- MODULE FileTransfer -----------------------------
(***************************************************************************)
(* The FTP exercise of lab8.  The server handles one control connection    *)
(* after the other; for an authorised client it binds the data port anew,  *)
(* tells the client its number, accepts the data connection and obeys      *)
(* commands until "exit".  No socket sets SO_REUSEADDR, and what recv      *)
(* returns is not looked at.  Streams and some sockets are never closed,   *)
(* so that each call that opens something may find no descriptor left.     *)
(*                                                                         *)
(* TCP: the first send to a process that is gone makes its side reset the  *)
(* connection, the send after a reset raises SIGPIPE, and a process that   *)
(* ends with data it has not read resets the connection at once.  The side *)
(* that closes first keeps the port for a while.                           *)
(***************************************************************************)
EXTENDS Integers, Sequences, FiniteSets, SequencesExt

CONSTANTS
  Client,    \* runs of ftpClient
  Valid,     \* those started with a name and password of passwd.txt
  MaxTyped,  \* bound: how often a user types "help"
  MayKill,   \* TRUE if a client's user may kill it
  Descriptors \* those the server's process may have besides its first ones

ASSUME ConstantsAssumption ==
  /\ Valid \subseteq Client
  /\ MaxTyped \in Nat /\ Descriptors \in Nat \ {0}
  /\ MayKill \in BOOLEAN

None == "none"

VARIABLES
  spc,      \* where the server is
  cur,      \* the client whose control connection it has, in a sequence
  waiting,  \* clients in the backlog of the control port
  lost,     \* descriptors never closed: streams on passwd.txt, unbound sockets
  command,  \* command[] in file_transfer, not initialised
  listening,\* the data port has a listening socket
  lingers,  \* a closed data connection still occupies the data port
  conn,     \* data connection: "none", "open", "left" by the client, "reset"
  cpc,      \* where each client is
  told,     \* what the server has sent on the control connection
  line,     \* what the client has sent on it
  replies,  \* help texts on the data connection
  typed     \* "help" typed by each user

serverVars == <<spc, cur, lost, command>>
portVars   == <<listening, lingers, conn>>
vars == <<serverVars, waiting, portVars, cpc, told, line, replies, typed>>

Commands == {"help", "exit", "other"}

\* Every variable has its type.  Descriptors are never all lost: fopen fails, and
\* the server ends, before accept in main would fail and be tried for ever.
TypeOK ==
  /\ spc \in {"accept", "auth", "listen", "dial", "recv", "obey", "unlisten",
              "hangup", "down"}
  /\ cur \in Seq(Client)
  /\ waiting \in Seq(Client)
  /\ lost \in 0..(Descriptors - 1)
  /\ command \in Commands
  /\ listening \in BOOLEAN /\ lingers \in BOOLEAN
  /\ conn \in {"none", "open", "left", "reset"}
  /\ cpc \in [Client -> {"start", "login", "dial", "prompt", "help", "leave",
                         "cut", "denied", "refused", "gone", "killed"}]
  /\ told \in [Client -> {None, "port", "INVALID_CRED", "closed"}]
  /\ line \in [Client -> Seq(Commands)]
  /\ replies \in Nat
  /\ typed \in [Client -> 0..MaxTyped]

Init ==
  /\ spc = "accept" /\ cur = <<>> /\ waiting = <<>>
  /\ lost \in 0..(Descriptors - 1)
  /\ command = "other"
  /\ listening = FALSE /\ lingers = FALSE /\ conn = "none"
  /\ cpc = [c \in Client |-> "start"]
  /\ told = [c \in Client |-> None]
  /\ line = [c \in Client |-> <<>>]
  /\ replies = 0
  /\ typed = [c \in Client |-> 0]

\* The descriptors the server's process has: what it lost, the control
\* connection, the listening socket of the data port, the data connection.
Held ==
  lost + (IF cur = <<>> THEN 0 ELSE 1) + (IF listening THEN 1 ELSE 0)
       + (IF spc \in {"recv", "obey"} THEN 1 ELSE 0)

\* fopen, socket and accept fail, accept without waiting for a connection.
Full == Held >= Descriptors

-----------------------------------------------------------------------------
(* The client.                                                             *)

Becomes(c, l) == cpc' = [cpc EXCEPT ![c] = l]

\* connect, and the request with name and password.
Connect(c) ==
  /\ cpc[c] = "start"
  /\ spc # "down"
  /\ waiting' = Append(waiting, c)
  /\ Becomes(c, "login")
  /\ UNCHANGED <<serverVars, portVars, told, line, replies, typed>>

\* The reply: a port, INVALID_CRED, or nothing.  In the last case buffer still
\* holds the request, whose atoi is port 0; the client says that it is logged
\* in and fails to connect.
RecvReply(c) ==
  /\ cpc[c] = "login"
  /\ \/ told[c] = "port" /\ Becomes(c, "dial")
     \/ told[c] = "INVALID_CRED" /\ Becomes(c, "denied")
     \/ /\ told[c] = "closed" \/ (spc = "down" /\ told[c] = None)
        /\ Becomes(c, "refused")
  /\ UNCHANGED <<serverVars, waiting, portVars, told, line, replies, typed>>

\* The data connection.
Dial(c) ==
  /\ cpc[c] = "dial"
  /\ IF listening
       THEN conn' = "open" /\ Becomes(c, "prompt")
       ELSE Becomes(c, "refused") /\ UNCHANGED conn
  /\ UNCHANGED <<serverVars, waiting, listening, lingers, told, line, replies, typed>>

\* Only "help" and "exit" are sent; any other line just repeats the prompt.  If
\* the data connection was cut, recv returns at once, and when the server has
\* closed the control connection too a send may end the client by SIGPIPE.
Help(c) ==
  /\ typed[c] < MaxTyped
  /\ typed' = [typed EXCEPT ![c] = @ + 1]
  /\ \/ /\ cpc[c] = "prompt"
        /\ line' = [line EXCEPT ![c] = Append(@, "help")]
        /\ Becomes(c, "help")
     \/ /\ cpc[c] = "cut"
        /\ UNCHANGED cpc \/ (cur # <<c>> /\ Becomes(c, "gone"))
        /\ UNCHANGED line
  /\ UNCHANGED <<serverVars, waiting, portVars, told, replies>>

RecvHelp(c) ==
  /\ cpc[c] = "help"
  /\ replies > 0 \/ spc = "down"
  /\ replies' = 0
  /\ Becomes(c, "prompt")
  /\ UNCHANGED <<serverVars, waiting, portVars, told, line, typed>>

Exit(c) ==
  /\ \/ /\ cpc[c] = "prompt"
        /\ line' = [line EXCEPT ![c] = Append(@, "exit")]
        /\ Becomes(c, "leave")
     \/ /\ cpc[c] = "cut"
        /\ Becomes(c, "gone")
        /\ UNCHANGED line
  /\ UNCHANGED <<serverVars, waiting, portVars, told, replies, typed>>

\* close, and the end of the process.
Leave(c) ==
  /\ cpc[c] = "leave"
  /\ conn' = IF conn = "open" THEN "left" ELSE conn
  /\ Becomes(c, "gone")
  /\ UNCHANGED <<serverVars, waiting, listening, lingers, told, line, replies, typed>>

Kill(c) ==
  /\ MayKill
  /\ cpc[c] \in {"login", "dial", "prompt", "help", "cut"}
  /\ conn' = IF cpc[c] \in {"prompt", "help"} /\ conn = "open"
               THEN IF replies > 0 THEN "reset" ELSE "left"
               ELSE conn
  /\ Becomes(c, "killed")
  /\ UNCHANGED <<serverVars, waiting, listening, lingers, told, line, replies, typed>>

-----------------------------------------------------------------------------
(* The server.                                                             *)

Accept ==
  /\ spc = "accept"
  /\ waiting # <<>> /\ ~Full
  /\ cur' = <<Head(waiting)>>
  /\ waiting' = Tail(waiting)
  /\ spc' = "auth"
  /\ UNCHANGED <<lost, command, portVars, cpc, told, line, replies, typed>>

Tell(what) == told' = [told EXCEPT ![cur[1]] = what]

\* authorize_and_handle up to file_transfer.  fopen's failure is looked for as
\* a negative pointer, and fgets reads from NULL.
Authorize ==
  /\ spc = "auth"
  /\ IF Full
       THEN /\ spc' = "down"
            /\ UNCHANGED <<lost, told>>
       ELSE /\ lost' = lost + 1
            /\ IF cur[1] \in Valid
                 THEN spc' = "listen" /\ UNCHANGED told
                 ELSE spc' = "hangup" /\ Tell("INVALID_CRED")
  /\ UNCHANGED <<cur, command, waiting, portVars, cpc, line, replies, typed>>

\* socket may fail, and bind does while the port is occupied; then file_transfer
\* returns at once, and the socket that was not bound stays open.
Listen ==
  /\ spc = "listen"
  /\ \/ /\ Full \/ listening \/ lingers
        /\ spc' = "hangup"
        /\ lost' = IF Full THEN lost ELSE lost + 1
        /\ UNCHANGED <<listening, told>>
     \/ /\ ~Full /\ ~listening /\ ~lingers
        /\ spc' = "dial"
        /\ listening' = TRUE
        /\ Tell("port")
        /\ UNCHANGED lost
  /\ UNCHANGED <<cur, command, waiting, lingers, conn, cpc, line, replies, typed>>

\* accept on the data port, for as long as it takes.  command is not initialised.
AcceptData ==
  /\ spc = "dial"
  /\ conn # "none" /\ ~Full
  /\ spc' = "recv"
  /\ command' \in Commands
  /\ UNCHANGED <<cur, lost, waiting, portVars, cpc, told, line, replies, typed>>

\* accept fails.  The close of the listening socket resets the connection of a
\* client that has already connected, whatever that is doing.
AcceptDataFails ==
  /\ spc = "dial" /\ Full
  /\ spc' = "hangup"
  /\ listening' = FALSE /\ conn' = "none"
  /\ IF cpc[cur[1]] \in {"prompt", "help", "leave"}
       THEN Becomes(cur[1], "cut")
       ELSE UNCHANGED cpc
  /\ UNCHANGED <<cur, lost, command, waiting, lingers, told, line, replies, typed>>

\* recv on the control connection; at its end command keeps what it holds.
RecvCommand ==
  /\ spc = "recv"
  /\ LET c == cur[1]
     IN  \/ /\ line[c] # <<>>
            /\ command' = Head(line[c])
            /\ line' = [line EXCEPT ![c] = Tail(@)]
         \/ /\ line[c] = <<>> /\ cpc[c] \in {"gone", "killed"}
            /\ UNCHANGED <<command, line>>
  /\ spc' = "obey"
  /\ UNCHANGED <<cur, lost, waiting, portVars, cpc, told, replies, typed>>

\* Seeded fault: the 502 follows the help text.
SendTextTwice ==
  /\ spc = "obey"
  /\ command # "exit"
  /\ CASE conn = "reset" -> spc' = "down" /\ UNCHANGED <<conn, replies>>
       [] conn = "left"  -> spc' = "recv" /\ conn' = "reset" /\ UNCHANGED replies
       [] conn = "open"  -> spc' = "recv" /\ replies' = replies + 2 /\ UNCHANGED conn
  /\ UNCHANGED <<cur, lost, command, waiting, listening, lingers, cpc, told, line, typed>>

\* A text on the data connection: the help, or 502.
SendText ==
  /\ spc = "obey"
  /\ command # "exit"
  /\ CASE conn = "reset" -> spc' = "down" /\ UNCHANGED <<conn, replies>>
       [] conn = "left"  -> spc' = "recv" /\ conn' = "reset" /\ UNCHANGED replies
       [] conn = "open"  -> spc' = "recv" /\ replies' = replies + 1 /\ UNCHANGED conn
  /\ UNCHANGED <<cur, lost, command, waiting, listening, lingers, cpc, told, line, typed>>

\* Seeded fault: every command ends the session.
CloseDataAlways ==
  /\ spc = "obey"
  /\ lingers' = (lingers \/ conn = "open")
  /\ conn' = "none"
  /\ replies' = 0
  /\ spc' = "unlisten"
  /\ UNCHANGED <<cur, lost, command, waiting, listening, cpc, told, line, typed>>

\* "exit": close the data connection.  If the client has not closed it, the
\* server's side will linger.
CloseData ==
  /\ spc = "obey"
  /\ command = "exit"
  /\ lingers' = (lingers \/ conn = "open")
  /\ conn' = "none"
  /\ replies' = 0
  /\ spc' = "unlisten"
  /\ UNCHANGED <<cur, lost, command, waiting, listening, cpc, told, line, typed>>

\* Seeded fault: the listening socket is not closed.
CloseListeningNot ==
  /\ spc = "unlisten"
  /\ spc' = "hangup"
  /\ UNCHANGED <<cur, lost, command, waiting, portVars, cpc, told, line, replies, typed>>

CloseListening ==
  /\ spc = "unlisten"
  /\ listening' = FALSE
  /\ spc' = "hangup"
  /\ UNCHANGED <<cur, lost, command, waiting, lingers, conn, cpc, told, line, replies, typed>>

\* Seeded fault: the descriptor of the control connection is not given back.
HangUpLeaks ==
  /\ spc = "hangup"
  /\ IF told[cur[1]] = None THEN Tell("closed") ELSE UNCHANGED told
  /\ cur' = <<>>
  /\ spc' = "accept"
  /\ lost' = lost + 1
  /\ UNCHANGED <<command, waiting, portVars, cpc, line, replies, typed>>

\* Seeded fault: the control connection is not closed.
HangUpNot ==
  /\ spc = "hangup"
  /\ cur' = <<>>
  /\ spc' = "accept"
  /\ UNCHANGED <<lost, command, waiting, portVars, cpc, told, line, replies, typed>>

\* Back in main: close the control connection.
HangUp ==
  /\ spc = "hangup"
  /\ IF told[cur[1]] = None THEN Tell("closed") ELSE UNCHANGED told
  /\ cur' = <<>>
  /\ spc' = "accept"
  /\ UNCHANGED <<lost, command, waiting, portVars, cpc, line, replies, typed>>

\* The kernel gives the port up, once the client has closed its side too.
LingerEnds ==
  /\ lingers
  /\ \A c \in Client : cpc[c] # "leave"
  /\ lingers' = FALSE
  /\ UNCHANGED <<serverVars, waiting, listening, conn, cpc, told, line, replies, typed>>

-----------------------------------------------------------------------------
User(c)   == Connect(c) \/ Help(c) \/ Kill(c)
Runs(c)   == RecvReply(c) \/ Dial(c) \/ RecvHelp(c) \/ Leave(c)
Server    == \/ Accept \/ Authorize \/ Listen \/ AcceptData \/ AcceptDataFails
             \/ RecvCommand \/ SendText \/ CloseData \/ CloseListening \/ HangUp

Over(c) == cpc[c] \in {"denied", "refused", "gone", "killed"}
\* All clients have ended, or cannot connect.
Done ==
  /\ \A c \in Client : Over(c) \/ (spc = "down" /\ cpc[c] = "start")
  /\ UNCHANGED vars

Next ==
  \/ \E c \in Client : User(c) \/ Runs(c) \/ Exit(c)
  \/ Server \/ LingerEnds
  \/ Done

Spec == Init /\ [][Next]_vars

\* Processes that are not blocked run; a user in a session ends it some time.
FairSpec ==
  /\ Spec
  /\ WF_vars(Server)
  /\ \A c \in Client : WF_vars(Runs(c)) /\ WF_vars(Exit(c))

-----------------------------------------------------------------------------
(* Properties.                                                             *)

InSession(c) == cpc[c] \in {"prompt", "help"}

\* The two connections of a session belong together: a client with a data
\* connection is the one whose commands the server receives, although the
\* server takes whoever connects to the data port.
OneSession ==
  \A c \in Client :
    InSession(c) /\ spc # "down" => cur = <<c>>

\* Lock step: one command at most is under way, and each help text goes to the
\* client that waits for it.
LockStep ==
  \A c \in Client : cpc[c] = "help" /\ spc # "down" =>
    Len(line[c]) + replies + (IF spc = "obey" THEN 1 ELSE 0) = 1

\* The server ends only on account of a killed client (ftpServer.c, line 65), or
\* because fopen found no descriptor (line 118).  While it runs, a client with a
\* good password is turned away, with the message that it is logged in, only if
\* an earlier session left the data port occupied (line 33), which takes a server
\* that closed its side first, or if there is no descriptor for the listening
\* socket (line 23).  One that was told the port and is refused there, or whose
\* connection is reset before accept, meets a server that could not have one for
\* the data connection (line 57), and that no later client finds any better.
TroubleHasCause ==
  /\ [](spc = "down" => Full \/ (cur # <<>> /\ cpc[cur[1]] = "killed"))
  /\ [][\A c \in Client :
          /\ cur = <<c>> /\ spc = "listen" /\ spc' = "hangup" =>
               Full \/ (lingers /\ conn = "none")
          /\ told[c] = "port" /\ cpc[c] # cpc'[c] /\ cpc'[c] \in {"refused", "cut"} =>
               spc = "down" \/ lost + 2 >= Descriptors]_vars

\* Without kills, and unless fopen fails, every client that connects is told
\* to go, leaves a session, or is turned away: nobody waits for ever.
EveryClientEnds ==
  [](spc # "down" /\ \A c \in Client : cpc[c] # "killed") =>
    \A c \in Client : cpc[c] = "login" ~> Over(c)

-----------------------------------------------------------------------------
(* The strengthening of the invariants above that is inductive.  Apart from *)
(* EndInv it speaks of the time until the server ends.                     *)

\* The server has told c the port of the data connection and not closed it.
Serving(c) == cur = <<c>> /\ spc \in {"dial", "recv", "obey"}

\* c has sent its name, and the server has not answered.
Unserved(c) == told[c] = None /\ line[c] = <<>> /\ cpc[c] \in {"login", "killed"}

\* The server has one client from accept to close.
CurrentInv ==
  /\ spc = "accept" => cur = <<>>
  /\ spc \notin {"accept", "down"} => \E c \in Client : cur = <<c>>

\* When the data port has a socket, a connection, and texts on it.
PortInv ==
  /\ listening <=> spc \in {"dial", "recv", "obey", "unlisten"}
  /\ conn # "none" => spc \in {"dial", "recv", "obey"}
  /\ spc \in {"recv", "obey"} => conn # "none"
  /\ replies # 0 => spc \in {"recv", "obey"}
  /\ spc \in {"dial", "recv", "obey"} => ~lingers

\* The backlog holds clients not yet answered, each once.
QueueInv ==
  /\ \A j, k \in DOMAIN waiting : waiting[j] = waiting[k] => j = k
  /\ \A k \in DOMAIN waiting : Unserved(waiting[k]) /\ cur # <<waiting[k]>>

\* There will be no listening socket again.
UsedUp ==
  /\ ~listening
  /\ lost + 2 >= Descriptors
  /\ spc = "listen" => lost + 1 >= Descriptors

\* A "help" is sent, received, or answered.
HelpUnderWay(c) ==
  \/ line[c] = <<"help">> /\ replies = 0 /\ spc # "obey"
  \/ line[c] = <<>> /\ replies = 0 /\ spc = "obey" /\ command = "help"
  \/ line[c] = <<>> /\ replies = 1 /\ spc = "recv"

\* An "exit" is sent or received.
ExitUnderWay(c) ==
  /\ replies = 0
  /\ conn = IF cpc[c] = "leave" THEN "open" ELSE "left"
  /\ \/ line[c] = <<"exit">> /\ spc # "obey"
     \/ line[c] = <<>> /\ spc = "obey" /\ command = "exit"

\* How far each client is, and how far the server is with it.
ClientInv(c) ==
  /\ cpc[c] = "start" =>
       told[c] = None /\ line[c] = <<>> /\ cur # <<c>> /\ c \notin ToSet(waiting)
  /\ cur = <<c>> /\ spc \in {"auth", "listen"} => Unserved(c)
  /\ Serving(c) => told[c] = "port" /\ cpc[c] \notin {"start", "cut", "denied", "refused"}
  /\ cpc[c] \in {"login", "dial"} =>
       /\ line[c] = <<>>
       /\ told[c] = "port" => IF Serving(c) THEN spc = "dial" /\ conn = "none" ELSE UsedUp
  /\ cpc[c] = "dial" => told[c] = "port"
  /\ InSession(c) => Serving(c) /\ conn = "open"
  /\ cpc[c] = "prompt" => line[c] = <<>> /\ replies = 0 /\ spc # "obey"
  /\ cpc[c] = "help" => HelpUnderWay(c)
  /\ cpc[c] \in {"leave", "gone"} /\ Serving(c) => ExitUnderWay(c)
  /\ cpc[c] = "leave" => Serving(c) \/ lingers
  /\ cpc[c] = "killed" /\ Serving(c) => conn # "open"

\* Why the server has ended.
EndInv == spc = "down" => Full \/ (cur # <<>> /\ cpc[cur[1]] = "killed")

SessionInv ==
  /\ CurrentInv /\ EndInv
  /\ spc # "down" => PortInv /\ QueueInv /\ \A c \in Client : ClientInv(c)

=============================================================================
