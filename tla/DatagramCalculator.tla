------------------------ MODULE DatagramCalculator ------------------------
(***************************************************************************)
(* The calculator of assess: one server with one UDP socket.  It answers   *)
(* the first datagram with its menu; after that any three datagrams make a *)
(* request, an operation and two operands, and the sender of the third is  *)
(* answered.  A client asks for the menu, and sends a request once it has  *)
(* received something.  The text "send options" is the number 0 to atoi.   *)
(* The module is about one run of the server.                              *)
(***************************************************************************)
EXTENDS CInt, Sequences, FiniteSets

CONSTANTS
    Clients,    \* the client processes users may start
    Wishes      \* the requests users type: op, num1, num2

ASSUME WishesAssumption == Wishes \subseteq [op : Int32, num1 : Int32, num2 : Int32]

VARIABLES
    server,     \* "off", what it reads next ("options", "op", "num1", "num2"), or "down"
    reg,        \* its variables operator and num1
    inbox,      \* the datagrams its socket holds: [from, n]
    at,         \* the place of each client
    wish,       \* what each client's user has typed
    reply,      \* the datagrams each client's socket holds
    got,        \* what each client has printed as its answer
    overlapped  \* whether another client sent anything since a client's start

vars == <<server, reg, inbox, at, wish, reply, got, overlapped>>

Menu == <<"menu", 0>>
Answer(n) == <<"answer", n>>
Nothing == <<"nothing", 0>>
NoWish == [op |-> 0, num1 |-> 0, num2 |-> 0]

Running == {"options", "sendOp", "sendNum1", "sendNum2", "answer"}

----------------------------------------------------------------------------
(* The client *)

\* sendto: a datagram for which no server has a socket is lost.
Send(c, n) ==
    /\ inbox' = IF server \in {"off", "down"} THEN inbox
                ELSE Append(inbox, [from |-> c, n |-> n])
    /\ overlapped' = [d \in Clients |->
          overlapped[d] \/ (d # c /\ at[d] \in Running)]

AskOptions(c) ==
    /\ at[c] = "off"
    /\ at' = [at EXCEPT ![c] = "options"]
    /\ Send(c, 0)
    /\ UNCHANGED <<server, reg, wish, reply, got>>

\* Whatever arrives is printed as the menu; the user types an operation and
\* its operands, one of them when the operation is the square root.
RecvOptions(c) ==
    /\ at[c] = "options" /\ reply[c] # <<>>
    /\ \E w \in Wishes :
          wish' = [wish EXCEPT ![c] = IF w.op = 3 THEN [w EXCEPT !.num2 = 0] ELSE w]
    /\ reply' = [reply EXCEPT ![c] = Tail(@)]
    /\ at' = [at EXCEPT ![c] = "sendOp"]
    /\ UNCHANGED <<server, reg, inbox, got, overlapped>>

SendRequest(c) ==
    /\ \/ at[c] = "sendOp" /\ Send(c, wish[c].op) /\ at' = [at EXCEPT ![c] = "sendNum1"]
       \/ at[c] = "sendNum1" /\ Send(c, wish[c].num1) /\ at' = [at EXCEPT ![c] = "sendNum2"]
       \/ at[c] = "sendNum2" /\ Send(c, wish[c].num2) /\ at' = [at EXCEPT ![c] = "answer"]
    /\ UNCHANGED <<server, reg, wish, reply, got>>

\* The first datagram that has come is taken for the answer.
RecvAnswer(c) ==
    /\ at[c] = "answer" /\ reply[c] # <<>>
    /\ got' = [got EXCEPT ![c] = Head(reply[c])]
    /\ reply' = [reply EXCEPT ![c] = <<>>]
    /\ at' = [at EXCEPT ![c] = "done"]
    /\ UNCHANGED <<server, reg, inbox, wish, overlapped>>

Killed(c) ==
    /\ at[c] \in Running
    /\ at' = [at EXCEPT ![c] = "killed"]
    /\ reply' = [reply EXCEPT ![c] = <<>>]
    /\ wish' = [wish EXCEPT ![c] = NoWish]
    /\ overlapped' = [overlapped EXCEPT ![c] = FALSE]
    /\ UNCHANGED <<server, reg, inbox, got>>

----------------------------------------------------------------------------
(* The server *)

StartServer ==
    /\ server = "off"
    /\ server' = "options"
    /\ UNCHANGED <<reg, inbox, at, wish, reply, got, overlapped>>

\* recvfrom keeps the sender's address for the reply.
Take == inbox # <<>> /\ inbox' = Tail(inbox)
ReplyTo(c, text) ==
    reply' = [reply EXCEPT ![c] = IF at[c] \in Running THEN Append(@, text) ELSE @]

SendOptions ==
    /\ server = "options" /\ Take
    /\ ReplyTo(Head(inbox).from, Menu)
    /\ server' = "op"
    /\ UNCHANGED <<reg, at, wish, got, overlapped>>

RecvOperands ==
    /\ Take
    /\ \/ /\ server = "op" /\ server' = "num1"
          /\ reg' = [reg EXCEPT !.op = Head(inbox).n]
       \/ /\ server = "num1" /\ server' = "num2"
          /\ reg' = [reg EXCEPT !.num1 = Head(inbox).n]
    /\ UNCHANGED <<at, wish, reply, got, overlapped>>

\* The int of a square root, which for a negative number is the least.
Root(n) == IF n < 0 THEN Least
           ELSE CHOOSE r \in 0..n : r * r <= n /\ n < (r + 1) * (r + 1)

Result(op, a, b) ==
    CASE op = 1 -> Wrap(a + b)
      [] op = 2 -> Wrap(a * b)
      [] op = 3 -> Root(a)
      [] op = 4 -> Quotient(a, b)
      [] OTHER -> 0

Division(b) == reg.op = 4 /\ RaisesFpe(reg.num1, b)

\* Seeded fault: the exchange of the menu is inside the loop.
LoopHeadWithMenu == "options"

\* The loop begins behind the exchange of the menu.
LoopHead == "op"

SendAnswer ==
    /\ server = "num2" /\ Take
    /\ LET d == Head(inbox) IN
          /\ ~Division(d.n)
          /\ ReplyTo(d.from, Answer(Result(reg.op, reg.num1, d.n)))
    /\ server' = LoopHead
    /\ UNCHANGED <<reg, at, wish, got, overlapped>>

\* SIGFPE ends the server, and its socket with what it holds.
DiesDividing ==
    /\ server = "num2" /\ inbox # <<>> /\ Division(Head(inbox).n)
    /\ server' = "down" /\ inbox' = <<>>
    /\ UNCHANGED <<reg, at, wish, reply, got, overlapped>>

----------------------------------------------------------------------------
Init ==
    /\ server = "off" /\ inbox = <<>> /\ reg = [op |-> 0, num1 |-> 0]
    /\ at = [c \in Clients |-> "off"]
    /\ wish = [c \in Clients |-> NoWish]
    /\ reply = [c \in Clients |-> <<>>]
    /\ got = [c \in Clients |-> Nothing]
    /\ overlapped = [c \in Clients |-> FALSE]

\* Everybody waits for a datagram that nobody will send.
Waiting ==
    /\ \A c \in Clients : \/ at[c] \in {"done", "killed"}
                          \/ at[c] \in {"options", "answer"} /\ reply[c] = <<>>
    /\ inbox = <<>> /\ server # "off"
    /\ UNCHANGED vars

Next ==
    \/ \E c \in Clients :
          \/ AskOptions(c) \/ RecvOptions(c) \/ SendRequest(c) \/ RecvAnswer(c) \/ Killed(c)
    \/ StartServer \/ SendOptions \/ RecvOperands \/ SendAnswer \/ DiesDividing
    \/ Waiting

Spec == Init /\ [][Next]_vars

----------------------------------------------------------------------------
(* Properties *)

Replies == {Menu} \cup {Answer(n) : n \in Int32}

\* Every variable has its type; what is sent, kept and answered fits into an int.
TypeOK ==
    /\ server \in {"off", "options", "op", "num1", "num2", "down"}
    /\ reg \in [op : Int32, num1 : Int32]
    /\ inbox \in Seq([from : Clients, n : Int32])
    /\ at \in [Clients -> Running \cup {"off", "done", "killed"}]
    /\ wish \in [Clients -> [op : Int32, num1 : Int32, num2 : Int32]]
    /\ reply \in [Clients -> Seq(Replies)]
    /\ got \in [Clients -> Replies \cup {Nothing}]
    /\ overlapped \in [Clients -> BOOLEAN]

Started == {c \in Clients : at[c] # "off"}
Done == {c \in Clients : at[c] = "done"}

\* The server sends its menu once (qn1_server.c, line 69), and a client sends
\* its request only after a reply: at most one client in three, rounded up,
\* gets its answer, however they are timed, and the others wait for ever.  This
\* is per run of the server: one that is started again sends its menu again.
OneInThree == 3 * Cardinality(Done) <= Cardinality(Started) + 2

\* A client that nobody else has sent anything next to, from its first datagram
\* to its answer, gets the answer to what its user typed: the three datagrams
\* of a request (lines 74, 79 and 83) are then its own, whatever clients that
\* were killed or still wait have left behind.
AloneIsRight ==
    \A c \in Done :
        LET w == wish[c] IN
        ~overlapped[c] =>
            /\ got[c][1] = "answer"
            /\ CASE w.op = 1 -> IsWrapped(got[c][2], w.num1 + w.num2)
                 [] w.op = 2 -> IsWrapped(got[c][2], w.num1 * w.num2)
                 [] w.op = 3 /\ w.num1 >= 0 ->
                       /\ got[c][2] * got[c][2] <= w.num1
                       /\ w.num1 < (got[c][2] + 1) * (got[c][2] + 1)
                 [] w.op = 4 -> IsQuotient(got[c][2], w.num1, w.num2)
                 [] OTHER -> got[c][2] \in {0, Least}

----------------------------------------------------------------------------
(* The strengthening of the invariants above that is inductive *)

\* Only a client that runs has a socket that holds anything.
SocketInv == \A c \in Clients : reply[c] # <<>> => at[c] \in Running

\* Every reply costs three datagrams.  What is left of this at each place of a
\* client: a reply that waits in its socket has cost three that the client has
\* not sent yet, and one that is done has been given more than it sent.
Share(l) ==
    CASE l \in {"sendOp", "done"} -> 3
      [] l = "sendNum1" -> 2
      [] l = "sendNum2" -> 1
      [] OTHER -> 0
Tokens ==
    {t \in UNION {{c} \X (0..Len(reply[c])) \X (1..3) : c \in Clients} :
        t[2] = 0 => t[3] <= Share(at[t[1]])}

\* How many datagrams the server has read of a request; the menu is worth two.
HasRead == CASE server \in {"off", "options", "num2"} -> 2
             [] server = "num1" -> 1
             [] OTHER -> 0

\* Every client that has started has brought one datagram into the exchange.
CreditInv ==
    /\ IsFiniteSet(Started) /\ IsFiniteSet(Tokens)
    /\ Cardinality(Tokens) + Len(inbox) + HasRead <= Cardinality(Started) + 2

\* What there is of a client that nobody else has sent anything next to: while
\* it waits for the menu, its datagram is the last; afterwards the server has
\* nothing but the client's own datagrams before it.
AloneInv(c) ==
    LET w  == wish[c]
        op == [from |-> c, n |-> w.op]
        n1 == [from |-> c, n |-> w.num1]
        n2 == [from |-> c, n |-> w.num2]
    IN
    /\ at[c] = "options" =>
          /\ \A i \in DOMAIN inbox : inbox[i].from = c => i = Len(inbox)
          /\ reply[c] # <<>> => server = "op" /\ inbox = <<>> /\ Len(reply[c]) = 1
    /\ at[c] \in {"sendOp", "sendNum1", "sendNum2"} => reply[c] = <<>>
    /\ at[c] = "sendOp" => server = "op" /\ inbox = <<>>
    /\ at[c] = "sendNum1" => \/ server = "op" /\ inbox = <<op>>
                             \/ server = "num1" /\ inbox = <<>>
    /\ at[c] = "sendNum2" => \/ server = "op" /\ inbox = <<op, n1>>
                             \/ server = "num1" /\ inbox = <<n1>>
                             \/ server = "num2" /\ inbox = <<>>
    /\ at[c] = "answer" =>
          \/ /\ reply[c] = <<>>
             /\ \/ server = "op" /\ inbox = <<op, n1, n2>>
                \/ server = "num1" /\ inbox = <<n1, n2>>
                \/ server = "num2" /\ inbox = <<n2>>
                \/ server = "down"
          \/ /\ server = "op" /\ inbox = <<>>
             /\ reply[c] = <<Answer(Result(w.op, w.num1, w.num2))>>
             /\ ~(w.op = 4 /\ RaisesFpe(w.num1, w.num2))
    /\ at[c] \in {"sendNum1", "sendNum2", "answer"} =>
          /\ server \in {"num1", "num2"} => reg.op = w.op
          /\ server = "num2" => reg.num1 = w.num1
    /\ at[c] = "done" => /\ got[c] = Answer(Result(w.op, w.num1, w.num2))
                         /\ ~(w.op = 4 /\ RaisesFpe(w.num1, w.num2))

\* Before a client starts, nothing is there of it.
StartInv ==
    \A c \in Clients :
        /\ at[c] = "off" => ~overlapped[c] /\ \A i \in DOMAIN inbox : inbox[i].from # c
        /\ ~overlapped[c] => AloneInv(c)

CalculatorInv == SocketInv /\ CreditInv /\ StartInv

=============================================================================
