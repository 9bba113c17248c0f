----------------------------- MODULE Dialogues -----------------------------
(***************************************************************************)
(* The programs that take turns over one TCP connection: the calculators   *)
(* of lab3 and labs, the web servers and clients of lab4 and labs, and the *)
(* template they were written from.  Every client of a forking server has  *)
(* a child of its own; math-server and my-server serve one client and end. *)
(***************************************************************************)
EXTENDS Sockets, CInt

CONSTANTS
    Wishes,     \* the operations users ask for: op, num1, num2
    Messages,   \* the lines other than "exit" users type into persistent-client
    Scenarios   \* which programs are started together

ASSUME DialoguesAssumption ==
    /\ \A w \in Wishes : {w.op, w.num1, w.num2} \subseteq Int32
    /\ Junk \subseteq Int32
    /\ Messages \cap {"exit", ""} = {}
    /\ \A sc \in Scenarios : DOMAIN sc = Servers \cup Clients

----------------------------------------------------------------------------
(* What calc-multiserver.c and math-server.c compute *)

Known(m) == m.op \in 1..4
Fatal(m) == m.op = 4 /\ RaisesFpe(m.num1, m.num2)
Result(m) == Wrap(CASE m.op = 1 -> m.num1 + m.num2
                    [] m.op = 2 -> m.num1 - m.num2
                    [] m.op = 3 -> m.num1 * m.num2
                    [] m.op = 4 -> Quotient(m.num1, m.num2))

Answer(n) == <<"answer", n>>
Menu == Text("menu")
Bye == Text("bye")

\* A client that uses no int it has not been given.
Begin(c, first) == Connect(c, first) /\ UNCHANGED mem

----------------------------------------------------------------------------
(* lab3: a menu, an operation, two operands, an answer, and again *)

CalcServer(s) ==
    /\ prog[s] = "calc"
    /\ Open(s) \/ Accept(s, "showMenu")

CalcChild(e) ==
    /\ Program(e) = "calc"
    /\ \/ at[e] = "showMenu" /\ Write(e, Menu, "op", "op")
       \/ at[e] = "op" /\ ReadInt(e, "op", "ask1")
       \/ at[e] = "ask1" /\ mem[e].op = 5 /\ Write(e, Bye, "leave", "leave")
       \/ at[e] = "ask1" /\ mem[e].op # 5 /\ Write(e, Text("ask1"), "num1", "num1")
       \/ at[e] = "num1" /\ ReadInt(e, "num1", "ask2")
       \/ at[e] = "ask2" /\ Write(e, Text("ask2"), "num2", "num2")
       \/ at[e] = "num2" /\ ReadInt(e, "num2", "reply")
       \/ at[e] = "reply" /\ ~Known(mem[e]) /\ Write(e, Bye, "leave", "leave")
       \/ at[e] = "reply" /\ Fatal(mem[e]) /\ Finish(e)
       \/ /\ at[e] = "reply" /\ Known(mem[e]) /\ ~Fatal(mem[e])
          /\ Write(e, Answer(Result(mem[e])), "showMenu", "showMenu")
       \/ at[e] = "leave" /\ Finish(e)

\* The user reads a prompt and thinks of an operation and its operands.
Wish(e) == \E w \in Wishes :
    mem' = [mem EXCEPT ![e].op = w.op, ![e].num1 = w.num1, ![e].num2 = w.num2]

CalcDialogue(e) ==
    \/ at[e] = "menu" /\ Read(e, "sayOp", "leave") /\ Wish(e)
    \/ at[e] = "sayOp" /\ Write(e, Number(mem[e].op), "prompt1", "prompt1")
    \/ at[e] = "prompt1" /\ Read(e, "sayNum1", "leave") /\ UNCHANGED mem
    \/ at[e] = "sayNum1" /\ mem[e].op = 5 /\ Finish(e)
    \/ /\ at[e] = "sayNum1" /\ mem[e].op # 5
       /\ Write(e, Number(mem[e].num1), "prompt2", "prompt2")
    \/ at[e] = "prompt2" /\ Read(e, "sayNum2", "leave") /\ UNCHANGED mem
    \/ at[e] = "sayNum2" /\ Write(e, Number(mem[e].num2), "answer", "answer")
    \/ at[e] = "answer" /\ Read(e, "menu", "leave") /\ UNCHANGED mem
    \/ at[e] = "leave" /\ Finish(e)

CalcClient(c) ==
    /\ prog[c] = "calc"
    /\ Begin(c, "menu") \/ CalcDialogue(Client(c))

----------------------------------------------------------------------------
(* template: the client is that of lab3, the server listens and returns *)

TemplateServer(s) ==
    /\ prog[s] = "template"
    /\ Open(s) \/ (server[s] = "up" /\ Shutdown(s))

TemplateClient(c) ==
    /\ prog[c] = "template"
    /\ Begin(c, "menu") \/ CalcDialogue(Client(c))

----------------------------------------------------------------------------
(* labs/math: operands first, then the operation; the answer is an int *)

MathServer(s) ==
    /\ prog[s] = "math"
    /\ Open(s) \/ Accept(s, "ask1")

MathService(e) ==
    /\ Program(e) = "math"
    /\ \/ at[e] = "ask1" /\ Write(e, Text("ask1"), "num1", "leave")
       \/ at[e] = "num1" /\ ReadInt(e, "num1", "ask2")
       \/ at[e] = "ask2" /\ Write(e, Text("ask2"), "num2", "leave")
       \/ at[e] = "num2" /\ ReadInt(e, "num2", "ask3")
       \/ at[e] = "ask3" /\ Write(e, Menu, "op", "leave")
       \/ at[e] = "op" /\ ReadInt(e, "op", "compute")
       \/ /\ at[e] = "compute" /\ mem[e].op # 5 /\ ~Fatal(mem[e])
          /\ mem' = [mem EXCEPT ![e].ans = IF Known(mem[e]) THEN Result(mem[e]) ELSE @]
          /\ Go(e, "reply") /\ UNCHANGED <<sock, in, buffer>>
       \/ at[e] = "reply" /\ Write(e, Number(mem[e].ans), "ask1", "ask1")
       \/ /\ at[e] = "leave" \/ (at[e] = "compute" /\ (mem[e].op = 5 \/ Fatal(mem[e])))
          /\ Finish(e)

MathClient(c) ==
    LET e == Client(c) IN
    /\ prog[c] = "math"
    /\ \/ Connect(c, "prompt1") /\ \E j \in Junk : mem' = [mem EXCEPT ![e].ans = j]
       \/ at[e] = "prompt1" /\ Read(e, "sayNum1", "leave") /\ Wish(e)
       \/ at[e] = "sayNum1" /\ Write(e, Number(mem[e].num1), "prompt2", "prompt2")
       \/ at[e] = "prompt2" /\ Read(e, "sayNum2", "leave") /\ UNCHANGED mem
       \/ at[e] = "sayNum2" /\ Write(e, Number(mem[e].num2), "prompt3", "prompt3")
       \/ at[e] = "prompt3" /\ Read(e, "sayOp", "leave") /\ UNCHANGED mem
       \/ at[e] = "sayOp" /\ Write(e, Number(mem[e].op), "told", "told")
       \/ at[e] = "told" /\ mem[e].op # 5 /\ Go(e, "answer") /\ UNCHANGED <<sock, in, buffer, mem>>
       \/ at[e] = "answer" /\ ReadInt(e, "ans", "prompt1")
       \/ /\ at[e] = "leave" \/ (at[e] = "told" /\ mem[e].op = 5)
          /\ Finish(e)

----------------------------------------------------------------------------
(* lab4 and labs: a request and a page, once or with messages after it *)

PersistentServer(s) ==
    /\ prog[s] = "persistent"
    /\ Open(s) \/ Accept(s, "request")

\* Seeded fault: an empty message is not answered.
PersistentReplySkipsEmpty(e) ==
    /\ at[e] = "reply" /\ buffer[e] # <<Text("exit")>>
    /\ IF buffer[e] = <<>> THEN Go(e, "message") /\ UNCHANGED <<sock, in, buffer, mem>>
       ELSE Write(e, Text("ack"), "message", "message")

\* A read that returned 0 leaves an empty message, which is answered.
PersistentReply(e) ==
    /\ at[e] = "reply" /\ buffer[e] # <<Text("exit")>>
    /\ Write(e, Text("ack"), "message", "message")

PersistentChild(e) ==
    /\ Program(e) = "persistent"
    /\ \/ at[e] = "request" /\ Read(e, "page", "page") /\ UNCHANGED mem
       \/ at[e] = "page" /\ Write(e, Text("html"), "message", "message")
       \/ at[e] = "message" /\ Read(e, "reply", "leave") /\ UNCHANGED mem
       \/ PersistentReply(e)
       \/ /\ at[e] = "leave" \/ (at[e] = "reply" /\ buffer[e] = <<Text("exit")>>)
          /\ Finish(e)

PersistentClient(c) ==
    LET e == Client(c) IN
    /\ prog[c] = "persistent"
    /\ \/ Begin(c, "sayRequest")
       \/ at[e] = "sayRequest" /\ Write(e, Text("request"), "html", "html")
       \/ at[e] = "html" /\ Read(e, "sayMessage", "leave") /\ UNCHANGED mem
       \/ at[e] = "sayMessage" /\ Write(e, Text("exit"), "leave", "leave")
       \/ at[e] = "sayMessage" /\ \E t \in Messages : Write(e, Text(t), "ack", "ack")
       \/ at[e] = "sayMessage" /\ Write(e, Silence, "silent", "silent")
       \/ at[e] \in {"ack", "silent"} /\ Read(e, "sayMessage", "leave") /\ UNCHANGED mem
       \/ at[e] = "leave" /\ Finish(e)

NonpersistentServer(s) ==
    /\ prog[s] = "nonpersistent"
    /\ Open(s) \/ Accept(s, "request")

\* One request, one page.
OnePage(e, text) ==
    \/ at[e] = "request" /\ Read(e, "page", "page") /\ UNCHANGED mem
    \/ at[e] = "page" /\ Write(e, Text(text), "leave", "leave")
    \/ at[e] = "leave" /\ Finish(e)

NonpersistentChild(e) == Program(e) = "nonpersistent" /\ OnePage(e, "html")

MultiServer(s) ==
    /\ prog[s] = "multi"
    /\ Open(s) \/ Accept(s, "request")

\* The child does not return: it goes on to accept on the descriptor it has
\* closed, which fails and ends it.
MultiChild(e) == Program(e) = "multi" /\ OnePage(e, "html")

HelloServer(s) ==
    /\ prog[s] = "hello"
    /\ Open(s) \/ Accept(s, "request")

HelloService(e) == Program(e) = "hello" /\ OnePage(e, "hi")

OneRequest(c) ==
    LET e == Client(c) IN
    \/ Begin(c, "sayRequest")
    \/ at[e] = "sayRequest" /\ Write(e, Text("request"), "html", "html")
    \/ at[e] = "html" /\ Read(e, "leave", "leave") /\ UNCHANGED mem
    \/ at[e] = "leave" /\ Finish(e)

NonpersistentClient(c) == prog[c] = "nonpersistent" /\ OneRequest(c)
BrowserClient(c) == prog[c] = "browser" /\ OneRequest(c)

HelloClient(c) ==
    LET e == Client(c) IN
    /\ prog[c] = "hello"
    /\ \/ Begin(c, "sayRequest")
       \/ at[e] = "sayRequest" /\ Write(e, Text("request"), "leave", "leave")
       \/ at[e] = "leave" /\ Finish(e)

----------------------------------------------------------------------------
\* Control-C: the terminal's signal reaches a server and its children.
Stop(s) == Listening(s) /\ Shutdown(s)
Killed(c) == at[Client(c)] \notin {"off", "gone"} /\ Finish(Client(c))

ServerStep(s) ==
    \/ CalcServer(s) \/ TemplateServer(s) \/ MathServer(s)
    \/ PersistentServer(s) \/ NonpersistentServer(s) \/ MultiServer(s) \/ HelloServer(s)

\* What is done for client c.
Service(c) ==
    /\ host[c] # Nobody
    /\ \/ CalcChild(Child(c)) \/ MathService(Child(c))
       \/ PersistentChild(Child(c)) \/ NonpersistentChild(Child(c))
       \/ MultiChild(Child(c)) \/ HelloService(Child(c))

ClientStep(c) ==
    \/ CalcClient(c) \/ TemplateClient(c) \/ MathClient(c)
    \/ PersistentClient(c) \/ NonpersistentClient(c) \/ BrowserClient(c) \/ HelloClient(c)

----------------------------------------------------------------------------
(* What waits for what *)

ReadPlaces == {"menu", "prompt1", "prompt2", "prompt3", "answer", "html", "ack",
               "silent", "op", "num1", "num2", "request", "message"}

Blocked(e) == at[e] \in ReadPlaces /\ in[e] = <<>> /\ sock[e] = "open"

\* The client waits for a process that waits for it or has ended.
Stuck(c) == Blocked(Client(c)) /\ (Blocked(Child(c)) \/ at[Child(c)] = "gone")

\* Connected to a server that has its one client.
Unserved(c) == Blocked(Client(c)) /\ at[Child(c)] = "off" /\ server[host[c]] = "busy"

Idle ==
    /\ \A c \in Clients : at[Client(c)] \in {"off", "gone"} \/ Stuck(c) \/ Unserved(c)
    /\ \A s \in Servers : server[s] # "off"
    /\ UNCHANGED vars

Init == SocketsInit /\ prog \in Scenarios

Next ==
    \/ \E s \in Servers : ServerStep(s) \/ Stop(s)
    \/ \E c \in Clients : Service(c) \/ ClientStep(c) \/ Killed(c)
    \/ Idle

\* The operating system runs the servers and their children; nobody needs
\* to start, use or leave a client.
Spec == Init /\ [][Next]_vars /\ \A c \in Clients : WF_vars(Service(c))

----------------------------------------------------------------------------
(* Properties *)

Places == ReadPlaces \cup {"off", "gone", "leave", "showMenu", "ask1", "ask2", "ask3",
                           "compute", "reply", "page", "told", "sayOp", "sayNum1",
                           "sayNum2", "sayRequest", "sayMessage"}

\* What the programs and the users say.
Kinds == {"menu", "ask1", "ask2", "bye", "answer", "int", "request", "html", "hi", "ack",
          "exit", ""} \cup Messages

\* Every variable has its type; what ints hold fits into their width although
\* the operations of calc-multiserver.c and math-server.c do not look.
TypeOK ==
    /\ prog \in Scenarios
    /\ server \in [Servers -> {"off", "up", "busy", "down"}]
    /\ queue \in [Servers -> Seq(Clients)]
    /\ host \in [Clients -> Servers \cup {Nobody}]
    /\ at \in [Ends -> Places]
    /\ sock \in [Ends -> {"none", "open", "eof", "reset", "broken", "closed"}]
    /\ in \in [Ends -> Seq(Kinds \X Int32)]
    /\ buffer \in [Ends -> Seq(Kinds \X Int32)]
    /\ mem \in [Ends -> [op : Int32, num1 : Int32, num2 : Int32, ans : Int32]]

\* n is what m asks for.
Right(m, n) ==
    CASE m.op = 1 -> IsWrapped(n, m.num1 + m.num2)
      [] m.op = 2 -> IsWrapped(n, m.num1 - m.num2)
      [] m.op = 3 -> IsWrapped(n, m.num1 * m.num2)
      [] m.op = 4 -> IsQuotient(n, m.num1, m.num2)

\* The server that a client has been given the port of is one that it is for;
\* that of the template serves nobody.
WebServers == {"persistent", "nonpersistent", "multi", "hello"}
WebClients == {"persistent", "nonpersistent", "browser", "hello"}
Suited(c) ==
    \/ prog[host[c]] = "template"
    \/ prog[c] \in {"calc", "template"} /\ prog[host[c]] = "calc"
    \/ prog[c] = "math" /\ prog[host[c]] = "math"
    \/ prog[c] \in WebClients /\ prog[host[c]] \in WebServers

\* What a client of a calculator takes for its answer is the answer to the
\* operation and operands it has typed, although it takes whatever one read
\* returns.  An unknown operation is answered with the farewell by lab3 and
\* with anything by labs, whose client also prints a stale answer once the
\* server has ended (math-client.c, line 92).
AnswerIsMine ==
    \A c \in Clients : host[c] # Nobody /\ Suited(c) =>
        LET e == Client(c) IN
        /\ (at[e] = "menu" /\ buffer[e] # <<>>) =>
              IF Known(mem[e]) THEN buffer[e][1][1] = "answer" /\ Right(mem[e], buffer[e][1][2])
              ELSE buffer[e][1] = Bye
        /\ (prog[c] = "math" /\ at[e] = "prompt1" /\ Known(mem[e]) /\ Listening(host[c])) =>
              Right(mem[e], mem[e].ans)

\* A client that waits for a process that waits for it, or has ended without
\* its parent closing the connection, has: read the answer and the next menu
\* of calc-multiserver.c (lines 122 and 86) at once; asked it for what ends the
\* child; gone on after the page of a server that sends one only; or typed
\* nothing (persistent-client.c, line 74).  Everybody else gets on.
StuckOnlyBy ==
    \A c \in Clients :
        LET e == Client(c) IN
        host[c] # Nobody /\ Suited(c) /\ Stuck(c) =>
          \/ prog[host[c]] = "calc" /\ at[e] = "menu" /\ Len(buffer[e]) = 2
          \/ /\ prog[host[c]] = "calc" /\ at[Child(c)] = "gone"
             /\ IF at[e] = "menu" THEN ~Known(mem[e]) ELSE at[e] = "answer" /\ Fatal(mem[e])
          \/ /\ prog[host[c]] \in {"nonpersistent", "multi"} /\ prog[c] = "persistent"
             /\ at[e] = "ack" /\ at[Child(c)] = "gone"
          \/ at[e] = "silent"

\* A process that serves a client ends after it, although no program takes a
\* read that returns 0 for the end (persistent-server.c, line 87): the second
\* write to nobody ends it.
ServiceEnds ==
    \A c \in Clients :
        (at[Client(c)] = "gone") ~> (at[Child(c)] \in {"off", "gone"})
=============================================================================
