------------------------------ MODULE Sockets ------------------------------
(***************************************************************************)
(* Processes that talk over TCP connections, as the programs of lab3, lab4 *)
(* and labs use them through socket, bind, listen, accept, fork, connect,  *)
(* read, write and exit.  A connection of client c has two ends, one in    *)
(* the client and one in the process that serves it: a child that the      *)
(* server has forked, or the server itself when it does not fork.          *)
(*                                                                         *)
(* A text is a pair <<kind, n>>.  One write puts one text into the stream; *)
(* a read of text takes any number of the texts that are there, a read of  *)
(* sizeof(int) bytes takes one number.                                     *)
(***************************************************************************)
EXTENDS Integers, Sequences

CONSTANTS
    Clients,    \* the client processes a user may start
    Servers,    \* the server processes a user may start
    Nobody,     \* no server
    Junk        \* what an int that nobody has assigned may hold

ASSUME SocketsAssumption == Nobody \notin Servers /\ Junk \subseteq Int

VARIABLES
    prog,       \* the program each process runs
    server,     \* "off", "up", "busy" (with its one client), "down"
    queue,      \* per server, the connections it has not accepted yet
    host,       \* per client, the server it is connected to
    at,         \* the place of each end in its program
    sock,       \* what the kernel knows of each end's connection
    in,         \* the texts each end has not read yet
    buffer,     \* the texts each end took with its last read
    mem         \* the int variables of each end

vars == <<prog, server, queue, host, at, sock, in, buffer, mem>>

Client(c) == <<"client", c>>
Child(c) == <<"child", c>>
Ends == {"client", "child"} \X Clients
Peer(e) == IF e = Client(e[2]) THEN Child(e[2]) ELSE Client(e[2])
Program(e) == IF e = Client(e[2]) THEN prog[e[2]] ELSE prog[host[e[2]]]

Text(kind) == <<kind, 0>>
Number(n) == <<"int", n>>

\* What fgets leaves in an empty buffer at the end of the user's input.
Silence == Text("")

Ints == [op : Int, num1 : Int, num2 : Int, ans : Int]
Same(n) == [op |-> n, num1 |-> n, num2 |-> n, ans |-> n]

\* math-server and my-server talk to the client they accept themselves.
Forks(s) == prog[s] \notin {"math", "hello"}

\* 8027 in lab3, 8023 in the web servers; the user chooses the others.
PortOf(s) == CASE prog[s] = "calc" -> 8027
               [] prog[s] = "math" -> 9000
               [] prog[s] = "template" -> 9001
               [] OTHER -> 8023
SamePort(s, t) == PortOf(s) = PortOf(t)
Listening(s) == server[s] \in {"up", "busy"}

----------------------------------------------------------------------------
(* Closing and ending *)

\* The ends in E are closed.  The peer of a closed end sees the end of the
\* stream, or a reset if the closed end had texts it did not read or was
\* never accepted.
CloseEnds(E) ==
    /\ sock' = [e \in Ends |->
          IF e \in E THEN "closed"
          ELSE IF Peer(e) \in E /\ sock[e] = "open"
               THEN IF in[Peer(e)] # <<>> \/ at[Peer(e)] = "off" THEN "reset" ELSE "eof"
               ELSE sock[e]]
    /\ in' = [e \in Ends |-> IF e \in E THEN <<>> ELSE in[e]]

\* The server's ends of all its connections.
EndsOf(s) == {Child(c) : c \in {d \in Clients : host[d] = s}}

\* The memory of the processes that had the ends in E.
Forget(E) ==
    /\ buffer' = [e \in Ends |-> IF e \in E THEN <<>> ELSE buffer[e]]
    /\ mem' = [e \in Ends |-> IF e \in E THEN Same(0) ELSE mem[e]]

\* Server s is no more, nor are its children.
Shutdown(s) ==
    /\ server' = [server EXCEPT ![s] = "down"]
    /\ queue' = [queue EXCEPT ![s] = <<>>]
    /\ at' = [e \in Ends |-> IF e \in EndsOf(s) THEN "gone" ELSE at[e]]
    /\ CloseEnds(EndsOf(s)) /\ Forget(EndsOf(s))
    /\ UNCHANGED <<prog, host>>

\* The process of end e ends.  After fork the parent has the connection's
\* descriptor as well and never closes it, so that a child's end closes
\* nothing.
Finish(e) ==
    IF e = Client(e[2])
    THEN /\ at' = [at EXCEPT ![e] = "gone"]
         /\ CloseEnds({e}) /\ Forget({e})
         /\ UNCHANGED <<prog, server, queue, host>>
    ELSE IF Forks(host[e[2]])
    THEN /\ at' = [at EXCEPT ![e] = "gone"]
         /\ Forget({e})
         /\ UNCHANGED <<prog, server, queue, host, sock, in>>
    ELSE Shutdown(host[e[2]])

----------------------------------------------------------------------------
(* Starting *)

\* socket, bind and listen.  bind fails when another server listens on the
\* port, and may fail when the port still has connections.
Open(s) ==
    /\ server[s] = "off"
    /\ \/ /\ \A t \in Servers \ {s} : SamePort(s, t) => ~Listening(t)
          /\ server' = [server EXCEPT ![s] = "up"]
       \/ /\ \/ \E t \in Servers \ {s} : SamePort(s, t) /\ Listening(t)
             \/ \E c \in Clients : host[c] # Nobody /\ SamePort(s, host[c])
          /\ server' = [server EXCEPT ![s] = "down"]
    /\ UNCHANGED <<prog, queue, host, at, sock, in, buffer, mem>>

\* accept, and fork: the process that serves the client begins at place
\* first with variables nobody has assigned.
Accept(s, first) ==
    /\ server[s] = "up" /\ queue[s] # <<>>
    /\ LET e == Child(Head(queue[s])) IN
          /\ at' = [at EXCEPT ![e] = first]
          /\ \E j \in Junk : mem' = [mem EXCEPT ![e] = Same(j)]
    /\ queue' = [queue EXCEPT ![s] = Tail(@)]
    /\ server' = [server EXCEPT ![s] = IF Forks(s) THEN "up" ELSE "busy"]
    /\ UNCHANGED <<prog, host, sock, in, buffer>>

\* connect to the port the user names: the kernel completes the connection
\* with whoever listens there, or the client exits.  The variables it begins
\* with are the caller's to choose.
Connect(c, first) ==
    /\ at[Client(c)] = "off"
    /\ \/ \E s \in Servers :
             /\ Listening(s)
             /\ host' = [host EXCEPT ![c] = s]
             /\ queue' = [queue EXCEPT ![s] = Append(@, c)]
             /\ sock' = [sock EXCEPT ![Client(c)] = "open", ![Child(c)] = "open"]
             /\ at' = [at EXCEPT ![Client(c)] = first]
       \/ /\ \E s \in Servers : \A t \in Servers : SamePort(s, t) => ~Listening(t)
          /\ at' = [at EXCEPT ![Client(c)] = "gone"]
          /\ UNCHANGED <<host, queue, sock>>
    /\ UNCHANGED <<prog, server, in, buffer>>

----------------------------------------------------------------------------
(* Reading and writing.  Each says what happens to the connection and where *)
(* the process goes; failed is the place after a call that returned -1.    *)

Go(e, l) == at' = [at EXCEPT ![e] = l] /\ UNCHANGED <<prog, server, queue, host>>

\* SIGPIPE ends a process that writes to a connection it could know to be
\* broken.
SigPipe(e) == Finish(e)

\* write: the first one after the peer has closed succeeds and is answered
\* by a reset; the one after that raises SIGPIPE.
Write(e, text, next, failed) ==
    \/ /\ sock[e] = "open" /\ text # Silence
       /\ in' = [in EXCEPT ![Peer(e)] = Append(@, text)]
       /\ Go(e, next) /\ UNCHANGED <<sock, buffer, mem>>
    \/ /\ sock[e] \in {"open", "eof"} /\ text = Silence
       /\ Go(e, next) /\ UNCHANGED <<sock, in, buffer, mem>>
    \/ /\ sock[e] = "eof" /\ text # Silence
       /\ sock' = [sock EXCEPT ![e] = "broken"]
       /\ Go(e, next) /\ UNCHANGED <<in, buffer, mem>>
    \/ /\ sock[e] = "reset"
       /\ sock' = [sock EXCEPT ![e] = "broken"]
       /\ Go(e, failed) /\ UNCHANGED <<in, buffer, mem>>
    \/ sock[e] = "broken" /\ SigPipe(e)

\* read and recv return what has come; 0 bytes at the end of the stream, and
\* -1 once after a reset.
NothingToRead(e) == in[e] = <<>> /\ sock[e] # "open"
Returned(e, next, failed) ==
    /\ sock' = [sock EXCEPT ![e] = IF @ = "reset" THEN "broken" ELSE @]
    /\ Go(e, IF sock[e] = "reset" THEN failed ELSE next)
    /\ UNCHANGED in

Read(e, next, failed) ==
    \/ \E k \in 1..Len(in[e]) :
          /\ buffer' = [buffer EXCEPT ![e] = SubSeq(in[e], 1, k)]
          /\ in' = [in EXCEPT ![e] = SubSeq(@, k + 1, Len(@))]
          /\ Go(e, next) /\ UNCHANGED sock
    \/ /\ NothingToRead(e)
       /\ buffer' = [buffer EXCEPT ![e] = <<>>]
       /\ Returned(e, next, failed)

\* Seeded fault: what else has come is lost.
ReadIntGreedily(e, v, next) ==
    /\ \/ /\ in[e] # <<>>
          /\ mem' = [mem EXCEPT ![e][v] = Head(in[e])[2]]
          /\ in' = [in EXCEPT ![e] = <<>>]
          /\ Go(e, next) /\ UNCHANGED sock
       \/ NothingToRead(e) /\ Returned(e, next, next) /\ UNCHANGED mem
    /\ UNCHANGED buffer

\* read(fd , &v , sizeof(int)), whose result nobody looks at.
ReadInt(e, v, next) ==
    /\ \/ /\ in[e] # <<>>
          /\ mem' = [mem EXCEPT ![e][v] = Head(in[e])[2]]
          /\ in' = [in EXCEPT ![e] = Tail(@)]
          /\ Go(e, next) /\ UNCHANGED sock
       \/ NothingToRead(e) /\ Returned(e, next, next) /\ UNCHANGED mem
    /\ UNCHANGED buffer

----------------------------------------------------------------------------
SocketsInit ==
    /\ server = [s \in Servers |-> "off"]
    /\ queue = [s \in Servers |-> <<>>]
    /\ host = [c \in Clients |-> Nobody]
    /\ at = [e \in Ends |-> "off"]
    /\ sock = [e \in Ends |-> "none"]
    /\ in = [e \in Ends |-> <<>>]
    /\ buffer = [e \in Ends |-> <<>>]
    /\ mem = [e \in Ends |-> Same(0)]
=============================================================================
