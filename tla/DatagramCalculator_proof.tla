---------------------- MODULE DatagramCalculator_proof ----------------------
(***************************************************************************)
(* Theorems about DatagramCalculator, for any clients, requests and range  *)
(* of ints: its types, what becomes of a client that is alone, and how     *)
(* many of the clients are answered.                                       *)
(***************************************************************************)
EXTENDS DatagramCalculator, SequenceLemmas

----------------------------------------------------------------------------
(* The operations *)

LEMMA IntRange == /\ Least \in Int /\ Least < 0 /\ Span \in Nat /\ Span > 0
                  /\ Int32 = Least..INT_MAX /\ Int32 \subseteq Int
                  /\ Least + Span = INT_MAX + 1 /\ 0 \in Int32
  BY IntAssumption DEF Least, Span, Int32

\* Wrap yields the int that differs by a multiple of the number of ints.
LEMMA WrapWraps ==
  ASSUME NEW x \in Int
  PROVE  Wrap(x) \in Int32 /\ IsWrapped(Wrap(x), x)
  <1>1. /\ Wrap(x) \in Int /\ Least <= Wrap(x) /\ Wrap(x) <= Least + Span - 1
        /\ (Wrap(x) - x) % Span = 0
    BY IntRange, WrapAround DEF Wrap
  <1>2. QED
    BY <1>1, IntRange, IntAssumption DEF IsWrapped

\* C's division.
LEMMA QuotientDivides ==
  ASSUME NEW a \in Int32, NEW b \in Int32, ~RaisesFpe(a, b)
  PROVE  Quotient(a, b) \in Int32 /\ IsQuotient(Quotient(a, b), a, b)
  <1>1. a \in Int /\ b \in Int /\ b # 0
    BY IntRange DEF RaisesFpe
  <1>2. PICK t : t = Quotient(a, b)
    OBVIOUS
  <1>3. Truncated(a, b) = t /\ \A x : Abs(x) = Magnitude(x)
    BY <1>2 DEF Truncated, Quotient, Abs, Magnitude
  <1>4. /\ t \in Int /\ t <= Magnitude(a) /\ -t <= Magnitude(a)
        /\ t > 0 /\ t = Magnitude(a) => (a < 0 /\ b = -1) \/ (a > 0 /\ b = 1)
        /\ Magnitude(t * b) <= Magnitude(a) /\ Magnitude(a - t * b) < Magnitude(b)
    BY <1>1, <1>3, TruncatedQuotient
  <1>5. IsQuotient(t, a, b)
    BY <1>3, <1>4 DEF IsQuotient
  <1>6. t \in Int32
    <2>1. a >= Least /\ a <= INT_MAX /\ Least = -INT_MAX - 1 /\ INT_MAX \in Int
      BY IntAssumption, IntRange DEF Least
    <2>2. t >= Least /\ t <= INT_MAX + 1
      BY <1>1, <1>4, <2>1 DEF Magnitude
    <2>3. t # INT_MAX + 1
      <3>1. SUFFICES ASSUME t = INT_MAX + 1 PROVE FALSE
        OBVIOUS
      <3>2. t > 0 /\ Magnitude(a) = t /\ a = Least
        BY <1>1, <1>4, <2>1, <3>1, IntAssumption DEF Magnitude
      <3>3. b = -1
        BY <1>4, <3>2, IntRange
      <3>4. QED
        BY <3>2, <3>3 DEF RaisesFpe
    <2>4. QED
      BY <1>4, <2>1, <2>2, <2>3 DEF Int32
  <1>7. QED
    BY <1>2, <1>5, <1>6

\* A number has a square root.
LEMMA RootExists ==
  ASSUME NEW n \in Nat
  PROVE  \E r \in 0..n : r * r <= n /\ n < (r + 1) * (r + 1)
  <1> DEFINE T == {k \in Nat : n < k * k}
  <1>1. n + 1 \in T
    BY SMT
  <1>2. PICK x \in T : \A y \in T : x <= y
    BY <1>1, LeastNumber
  <1>3. x # 0 /\ x \in Nat /\ n < x * x
    BY SMT
  <1>4. x - 1 \in Nat /\ x - 1 \notin T
    BY <1>2, <1>3
  <1>5. (x - 1) * (x - 1) <= n
    BY <1>3, <1>4
  <1>6. PICK r \in Nat : r = x - 1 /\ x = r + 1
    BY <1>3, <1>4
  <1>7. r * r <= n /\ n < (r + 1) * (r + 1)
    BY <1>3, <1>5, <1>6
  <1>8. r <= n
    <2>1. r = 0 \/ r <= r * r
      OBVIOUS
    <2>2. QED
      BY <1>7, <2>1
  <1>9. QED
    BY <1>7, <1>8

LEMMA RootIsRoot ==
  ASSUME NEW n \in Int32
  PROVE  /\ Root(n) \in Int32
         /\ n >= 0 => Root(n) * Root(n) <= n /\ n < (Root(n) + 1) * (Root(n) + 1)
         /\ n < 0 => Root(n) = Least
  <1>1. CASE n < 0
    BY <1>1, IntRange, IntAssumption DEF Root
  <1>2. CASE n >= 0
    <2>1. n \in Nat /\ n <= INT_MAX
      BY <1>2, IntRange
    <2>2. \E r \in 0..n : r * r <= n /\ n < (r + 1) * (r + 1)
      BY <2>1, RootExists
    <2>3. Root(n) = CHOOSE r \in 0..n : r * r <= n /\ n < (r + 1) * (r + 1)
      BY <1>2, <2>1 DEF Root
    <2>4. Root(n) \in 0..n /\ Root(n) * Root(n) <= n /\ n < (Root(n) + 1) * (Root(n) + 1)
      BY <2>2, <2>3
    <2>5. QED
      BY <1>2, <2>1, <2>4, IntRange, IntAssumption
  <1>3. QED
    BY <1>1, <1>2, IntRange

\* What the server computes is an int.
LEMMA ResultIsInt ==
  ASSUME NEW op \in Int32, NEW a \in Int32, NEW b \in Int32, ~(op = 4 /\ RaisesFpe(a, b))
  PROVE  Result(op, a, b) \in Int32
  <1>1. a \in Int /\ b \in Int /\ a + b \in Int /\ a * b \in Int
    BY IntRange
  <1>2. CASE op = 1
    <2>1. Result(op, a, b) = Wrap(a + b)
      BY <1>2 DEF Result
    <2>2. QED
      BY <1>1, <2>1, WrapWraps
  <1>3. CASE op = 2
    <2>1. Result(op, a, b) = Wrap(a * b)
      BY <1>3 DEF Result
    <2>2. QED
      BY <1>1, <2>1, WrapWraps
  <1>4. CASE op = 3
    <2>1. Result(op, a, b) = Root(a)
      BY <1>4 DEF Result
    <2>2. QED
      BY <2>1, RootIsRoot
  <1>5. CASE op = 4
    <2>1. Result(op, a, b) = Quotient(a, b)
      BY <1>5 DEF Result
    <2>2. QED
      BY <1>5, <2>1, QuotientDivides
  <1>6. CASE op \notin {1, 2, 3, 4}
    <2>1. Result(op, a, b) = 0
      BY <1>6 DEF Result
    <2>2. QED
      BY <2>1, IntRange
  <1>7. QED
    BY <1>2, <1>3, <1>4, <1>5, <1>6
----------------------------------------------------------------------------
(* Type correctness *)

Dgram == [from : Clients, n : Int32]

LEMMA TypeInit == Init => TypeOK
  <1> SUFFICES ASSUME Init PROVE TypeOK
    OBVIOUS
  <1>1. server = "off" /\ reg \in [op : Int32, num1 : Int32]
    BY IntRange DEF Init
  <1>2. inbox \in Seq(Dgram) /\ <<>> \in Seq(Replies)
    BY EmptySeq DEF Init
  <1>3. NoWish \in [op : Int32, num1 : Int32, num2 : Int32]
    BY IntRange DEF NoWish
  <1>4. /\ at \in [Clients -> {"off"}]
        /\ wish \in [Clients -> [op : Int32, num1 : Int32, num2 : Int32]]
        /\ reply \in [Clients -> Seq(Replies)]
        /\ got \in [Clients -> {Nothing}]
        /\ overlapped \in [Clients -> BOOLEAN]
    BY <1>2, <1>3 DEF Init
  <1>5. QED
    BY <1>1, <1>2, <1>4 DEF TypeOK, Dgram

\* What a client sends.
LEMMA SendTypes ==
  ASSUME TypeOK, NEW c \in Clients, NEW n \in Int32, Send(c, n)
  PROVE  inbox' \in Seq(Dgram) /\ overlapped' \in [Clients -> BOOLEAN]
  <1>1. [from |-> c, n |-> n] \in Dgram
    BY DEF Dgram
  <1>2. inbox \in Seq(Dgram)
    BY DEF TypeOK, Dgram
  <1>3. inbox' = inbox \/ inbox' = Append(inbox, [from |-> c, n |-> n])
    BY DEF Send
  <1>4. inbox' \in Seq(Dgram)
    BY <1>1, <1>2, <1>3, AppendProperties
  <1>5. overlapped' \in [Clients -> BOOLEAN]
    BY DEF Send, TypeOK
  <1>6. QED
    BY <1>4, <1>5

LEMMA ClientTypes ==
  ASSUME TypeOK, NEW c \in Clients,
         AskOptions(c) \/ RecvOptions(c) \/ SendRequest(c) \/ RecvAnswer(c) \/ Killed(c)
  PROVE  TypeOK'
  <1>1. CASE AskOptions(c)
    <2>1. inbox' \in Seq(Dgram) /\ overlapped' \in [Clients -> BOOLEAN]
      BY <1>1, SendTypes, IntRange DEF AskOptions
    <2>2. at' \in [Clients -> Running \cup {"off", "done", "killed"}]
      BY <1>1 DEF AskOptions, TypeOK, Running
    <2>3. QED
      BY <1>1, <2>1, <2>2 DEF AskOptions, TypeOK, Dgram
  <1>2. CASE RecvOptions(c)
    <2>1. reply[c] \in Seq(Replies) /\ reply[c] # <<>>
      BY <1>2 DEF RecvOptions, TypeOK
    <2>2. Tail(reply[c]) \in Seq(Replies)
      BY <2>1, HeadTailProperties
    <2>3. reply' \in [Clients -> Seq(Replies)]
      BY <1>2, <2>2 DEF RecvOptions, TypeOK
    <2>4. wish' \in [Clients -> [op : Int32, num1 : Int32, num2 : Int32]]
      <3>1. PICK w \in Wishes :
              wish' = [wish EXCEPT ![c] = IF w.op = 3 THEN [w EXCEPT !.num2 = 0] ELSE w]
        BY <1>2 DEF RecvOptions
      <3>2. w \in [op : Int32, num1 : Int32, num2 : Int32]
        BY WishesAssumption
      <3>3. [w EXCEPT !.num2 = 0] \in [op : Int32, num1 : Int32, num2 : Int32]
        BY <3>2, IntRange
      <3>4. QED
        BY <3>1, <3>2, <3>3 DEF TypeOK
    <2>5. at' \in [Clients -> Running \cup {"off", "done", "killed"}]
      BY <1>2 DEF RecvOptions, TypeOK, Running
    <2>6. QED
      BY <1>2, <2>3, <2>4, <2>5 DEF RecvOptions, TypeOK
  <1>3. CASE SendRequest(c)
    <2>1. wish[c].op \in Int32 /\ wish[c].num1 \in Int32 /\ wish[c].num2 \in Int32
      BY DEF TypeOK
    <2>2. inbox' \in Seq(Dgram) /\ overlapped' \in [Clients -> BOOLEAN]
      BY <1>3, <2>1, SendTypes DEF SendRequest
    <2>3. at' \in [Clients -> Running \cup {"off", "done", "killed"}]
      BY <1>3 DEF SendRequest, TypeOK, Running
    <2>4. QED
      BY <1>3, <2>2, <2>3 DEF SendRequest, TypeOK, Dgram
  <1>4. CASE RecvAnswer(c)
    <2>1. Head(reply[c]) \in Replies
      BY <1>4, HeadTailProperties DEF RecvAnswer, TypeOK
    <2>2. got' \in [Clients -> Replies \cup {Nothing}]
      BY <1>4, <2>1 DEF RecvAnswer, TypeOK
    <2>3. reply' \in [Clients -> Seq(Replies)]
      BY <1>4, EmptySeq DEF RecvAnswer, TypeOK
    <2>4. at' \in [Clients -> Running \cup {"off", "done", "killed"}]
      BY <1>4 DEF RecvAnswer, TypeOK
    <2>5. QED
      BY <1>4, <2>2, <2>3, <2>4 DEF RecvAnswer, TypeOK
  <1>5. CASE Killed(c)
    <2>1. NoWish \in [op : Int32, num1 : Int32, num2 : Int32]
      BY IntRange DEF NoWish
    <2>2. reply' \in [Clients -> Seq(Replies)]
      BY <1>5, EmptySeq DEF Killed, TypeOK
    <2>3. wish' \in [Clients -> [op : Int32, num1 : Int32, num2 : Int32]]
      BY <1>5, <2>1 DEF Killed, TypeOK
    <2>4. at' \in [Clients -> Running \cup {"off", "done", "killed"}] /\ overlapped' \in [Clients -> BOOLEAN]
      BY <1>5 DEF Killed, TypeOK
    <2>5. QED
      BY <1>5, <2>2, <2>3, <2>4 DEF Killed, TypeOK
  <1>6. QED
    BY <1>1, <1>2, <1>3, <1>4, <1>5

\* The first datagram in the socket of the server.
LEMMA FirstDatagram ==
  ASSUME TypeOK, inbox # <<>>
  PROVE  /\ Head(inbox) \in Dgram /\ Head(inbox).from \in Clients /\ Head(inbox).n \in Int32
         /\ Tail(inbox) \in Seq(Dgram) /\ Head(inbox) = inbox[1]
         /\ Len(inbox) \in Nat \ {0} /\ Len(Tail(inbox)) = Len(inbox) - 1
         /\ \A i \in 1..(Len(inbox) - 1) : Tail(inbox)[i] = inbox[i + 1]
  <1>1. inbox \in Seq(Dgram)
    BY DEF TypeOK, Dgram
  <1>2. Head(inbox) \in Dgram /\ Tail(inbox) \in Seq(Dgram) /\ Head(inbox) = inbox[1]
    BY <1>1, HeadTailProperties
  <1>3. Len(inbox) \in Nat \ {0}
    BY <1>1, EmptySeq, LenProperties
  <1>4. Len(Tail(inbox)) = Len(inbox) - 1 /\ \A i \in 1..(Len(inbox) - 1) : Tail(inbox)[i] = inbox[i + 1]
    BY <1>1, HeadTailProperties
  <1>5. QED
    BY <1>2, <1>3, <1>4 DEF Dgram

LEMMA ReplyTypes ==
  ASSUME TypeOK, NEW c \in Clients, NEW x \in Replies, ReplyTo(c, x)
  PROVE  reply' \in [Clients -> Seq(Replies)]
  <1>1. Append(reply[c], x) \in Seq(Replies)
    BY AppendProperties DEF TypeOK
  <1>2. QED
    BY <1>1 DEF ReplyTo, TypeOK

LEMMA ServerTypes ==
  ASSUME TypeOK, StartServer \/ SendOptions \/ RecvOperands \/ SendAnswer \/ DiesDividing
  PROVE  TypeOK'
  <1>1. CASE StartServer
    BY <1>1 DEF StartServer, TypeOK
  <1>2. CASE SendOptions
    <2>1. inbox # <<>> /\ inbox' = Tail(inbox)
      BY <1>2 DEF SendOptions, Take
    <2>2. Head(inbox).from \in Clients /\ inbox' \in Seq(Dgram)
      BY <2>1, FirstDatagram
    <2>3. reply' \in [Clients -> Seq(Replies)]
      <3>1. Menu \in Replies
        BY DEF Replies
      <3>2. QED
        BY <1>2, <2>2, <3>1, ReplyTypes DEF SendOptions
    <2>4. QED
      BY <1>2, <2>2, <2>3 DEF SendOptions, TypeOK, Dgram
  <1>3. CASE RecvOperands
    <2>1. inbox # <<>> /\ inbox' = Tail(inbox)
      BY <1>3 DEF RecvOperands, Take
    <2>2. Head(inbox).n \in Int32 /\ inbox' \in Seq(Dgram)
      BY <2>1, FirstDatagram
    <2>3. reg' \in [op : Int32, num1 : Int32] /\ server' \in {"num1", "num2"}
      BY <1>3, <2>2 DEF RecvOperands, TypeOK
    <2>4. QED
      BY <1>3, <2>2, <2>3 DEF RecvOperands, TypeOK, Dgram
  <1>4. CASE SendAnswer
    <2> DEFINE d == Head(inbox)
    <2>1. /\ inbox # <<>> /\ inbox' = Tail(inbox) /\ server' = "op"
          /\ ~Division(d.n) /\ ReplyTo(d.from, Answer(Result(reg.op, reg.num1, d.n)))
          /\ UNCHANGED <<reg, at, wish, got, overlapped>>
      BY <1>4 DEF SendAnswer, Take, LoopHead
    <2>2. d.from \in Clients /\ d.n \in Int32 /\ inbox' \in Seq(Dgram)
      BY <2>1, FirstDatagram
    <2> HIDE DEF d
    <2>3. Result(reg.op, reg.num1, d.n) \in Int32
      BY <2>1, <2>2, ResultIsInt DEF Division, TypeOK
    <2>4. Answer(Result(reg.op, reg.num1, d.n)) \in Replies
      BY <2>3 DEF Replies
    <2>5. reply' \in [Clients -> Seq(Replies)]
      BY <2>1, <2>2, <2>4, ReplyTypes
    <2>6. QED
      BY <2>1, <2>2, <2>5 DEF TypeOK, Dgram
  <1>5. CASE DiesDividing
    <2>1. inbox' \in Seq(Dgram)
      BY <1>5, EmptySeq DEF DiesDividing
    <2>2. QED
      BY <1>5, <2>1 DEF DiesDividing, TypeOK, Dgram
  <1>6. QED
    BY <1>1, <1>2, <1>3, <1>4, <1>5

LEMMA TypeStep == TypeOK /\ [Next]_vars => TypeOK'
  <1> SUFFICES ASSUME TypeOK, [Next]_vars PROVE TypeOK'
    OBVIOUS
  <1>1. CASE UNCHANGED vars
    BY <1>1 DEF vars, TypeOK
  <1>2. QED
    BY <1>1, ClientTypes, ServerTypes DEF Next, Waiting

\* Every variable has its type, whatever ints clients send: what the server
\* computes is an int.
THEOREM CalculatorTypes == Spec => []TypeOK
  BY TypeInit, TypeStep, PTL DEF Spec
----------------------------------------------------------------------------
(* A client that nobody else sends anything next to *)

LEMMA StartInit == Init => SocketInv /\ StartInv
  <1> SUFFICES ASSUME Init PROVE SocketInv /\ StartInv
    OBVIOUS
  <1>1. \A c \in Clients : at[c] = "off" /\ reply[c] = <<>> /\ ~overlapped[c]
    BY DEF Init
  <1>2. DOMAIN inbox = {}
    BY EmptySeq DEF Init
  <1>3. QED
    BY <1>1, <1>2 DEF SocketInv, StartInv, AloneInv

LEMMA AppendToTuple ==
  ASSUME NEW x, NEW y, NEW z
  PROVE  Append(<<>>, x) = <<x>> /\ Append(<<x>>, y) = <<x, y>> /\ Append(<<x, y>>, z) = <<x, y, z>>
  <1> DEFINE T == {x, y, z}
  <1>1. <<>> \in Seq(T) /\ <<x>> \in Seq(T) /\ <<x, y>> \in Seq(T) /\ <<x, y, z>> \in Seq(T)
    OBVIOUS
  <1>2. Append(<<>>, x) = <<x>>
    OBVIOUS
  <1>3. Append(<<x>>, y) = <<x, y>>
    <2>1. Append(<<x>>, y) \in Seq(T) /\ Len(Append(<<x>>, y)) = 2
          /\ Append(<<x>>, y)[1] = x /\ Append(<<x>>, y)[2] = y
      BY <1>1
    <2>2. Len(<<x, y>>) = 2 /\ \A i \in 1..2 : i = 1 \/ i = 2
      OBVIOUS
    <2>3. \A i \in 1..2 : Append(<<x>>, y)[i] = <<x, y>>[i]
      BY <2>1, <2>2
    <2>4. QED
      BY <1>1, <2>1, <2>2, <2>3, SeqEqual
  <1>4. Append(<<x, y>>, z) = <<x, y, z>>
    <2>1. Append(<<x, y>>, z) \in Seq(T) /\ Len(Append(<<x, y>>, z)) = 3
          /\ Append(<<x, y>>, z)[1] = x /\ Append(<<x, y>>, z)[2] = y /\ Append(<<x, y>>, z)[3] = z
      BY <1>1
    <2>2. Len(<<x, y, z>>) = 3 /\ \A i \in 1..3 : i = 1 \/ i = 2 \/ i = 3
      OBVIOUS
    <2>3. \A i \in 1..3 : Append(<<x, y>>, z)[i] = <<x, y, z>>[i]
      BY <2>1, <2>2
    <2>4. QED
      BY <1>1, <2>1, <2>2, <2>3, SeqEqual
  <1>5. QED
    BY <1>2, <1>3, <1>4

\* What an appended datagram does to the socket of the server.
LEMMA SentTo ==
  ASSUME TypeOK, NEW c \in Clients, NEW n \in Int32, Send(c, n)
  PROVE  \/ inbox' = inbox /\ server \in {"off", "down"}
         \/ /\ inbox' = Append(inbox, [from |-> c, n |-> n]) /\ server \notin {"off", "down"}
            /\ Len(inbox') = Len(inbox) + 1 /\ Len(inbox) \in Nat
            /\ DOMAIN inbox = 1..Len(inbox) /\ DOMAIN inbox' = 1..(Len(inbox) + 1)
            /\ \A i \in 1..Len(inbox) : inbox'[i] = inbox[i]
            /\ inbox'[Len(inbox) + 1] = [from |-> c, n |-> n]
  <1>1. inbox \in Seq(Dgram) /\ [from |-> c, n |-> n] \in Dgram
    BY DEF TypeOK, Dgram
  <1> DEFINE s == Append(inbox, [from |-> c, n |-> n])
  <1>2. /\ Len(s) = Len(inbox) + 1 /\ s[Len(inbox) + 1] = [from |-> c, n |-> n]
        /\ \A i \in 1..Len(inbox) : s[i] = inbox[i]
        /\ s \in Seq(Dgram)
    BY <1>1, AppendProperties
  <1>3. Len(inbox) \in Nat /\ DOMAIN inbox = 1..Len(inbox) /\ DOMAIN s = 1..Len(s)
    BY <1>1, <1>2, LenProperties
  <1> HIDE DEF s
  <1>4. (inbox' = inbox /\ server \in {"off", "down"}) \/ (inbox' = s /\ server \notin {"off", "down"})
    BY DEF Send, s
  <1>5. CASE inbox' = s /\ server \notin {"off", "down"}
    <2>1. inbox' = Append(inbox, [from |-> c, n |-> n])
      BY <1>5 DEF s
    <2>2. QED
      BY <1>2, <1>3, <1>5, <2>1
  <1>6. QED
    BY <1>4, <1>5

\* The other clients, when c sends: those that run are not alone any more.
LEMMA OthersAtSend ==
  ASSUME TypeOK, StartInv, NEW c \in Clients, NEW n \in Int32, Send(c, n),
         UNCHANGED <<server, reg, wish, reply, got>>,
         NEW d \in Clients, d # c, at'[d] = at[d]
  PROVE  /\ at'[d] = "off" => ~overlapped'[d] /\ \A i \in DOMAIN inbox' : inbox'[i].from # d
         /\ ~overlapped'[d] => AloneInv(d)'
  <1>1. overlapped'[d] = (overlapped[d] \/ at[d] \in Running)
    BY DEF Send
  <1>2. ASSUME at[d] = "off"
        PROVE  ~overlapped'[d] /\ \A i \in DOMAIN inbox' : inbox'[i].from # d
    <2>1. ~overlapped[d] /\ \A i \in DOMAIN inbox : inbox[i].from # d
      BY <1>2 DEF StartInv
    <2>2. ~overlapped'[d]
      BY <1>1, <1>2, <2>1 DEF Running
    <2>3. \A i \in DOMAIN inbox' : inbox'[i].from # d
      <3>1. CASE inbox' = inbox
        BY <2>1, <3>1
      <3>2. CASE inbox' # inbox
        <4>1. PICK m \in Nat :
                 /\ DOMAIN inbox = 1..m /\ DOMAIN inbox' = 1..(m + 1)
                 /\ \A i \in 1..m : inbox'[i] = inbox[i]
                 /\ inbox'[m + 1] = [from |-> c, n |-> n]
          BY <3>2, SentTo
        <4>2. \A i \in 1..(m + 1) : i \in 1..m \/ i = m + 1
          OBVIOUS
        <4>3. QED
          BY <2>1, <4>1, <4>2
      <3>3. QED
        BY <3>1, <3>2
    <2>4. QED
      BY <2>2, <2>3
  <1>3. ASSUME ~overlapped'[d]
        PROVE  AloneInv(d)'
    <2>1. ~overlapped[d] /\ at[d] \notin Running
      BY <1>1, <1>3 DEF TypeOK
    <2>2. AloneInv(d)
      BY <2>1 DEF StartInv
    <2>3. QED
      BY <2>1, <2>2 DEF AloneInv, Running
  <1>4. QED
    BY <1>2, <1>3

LEMMA AskOptionsKeeps ==
  ASSUME TypeOK, SocketInv, StartInv, NEW c \in Clients, AskOptions(c)
  PROVE  StartInv'
  <1>1. /\ at[c] = "off" /\ at'[c] = "options" /\ Send(c, 0)
        /\ UNCHANGED <<server, reg, wish, reply, got>>
        /\ \A d \in Clients \ {c} : at'[d] = at[d]
    BY DEF AskOptions, TypeOK
  <1>2. \A i \in DOMAIN inbox : inbox[i].from # c
    BY <1>1 DEF StartInv
  <1>3. reply[c] = <<>>
    BY <1>1 DEF SocketInv, Running
  <1>4. \A i \in DOMAIN inbox' : inbox'[i].from = c => i = Len(inbox')
    <2>1. CASE inbox' = inbox
      BY <1>2, <2>1
    <2>2. CASE inbox' # inbox
      <3>1. PICK m \in Nat :
               /\ DOMAIN inbox = 1..m /\ DOMAIN inbox' = 1..(m + 1) /\ Len(inbox') = m + 1
               /\ \A i \in 1..m : inbox'[i] = inbox[i]
        BY <1>1, <2>2, SentTo, IntRange
      <3>2. \A i \in 1..(m + 1) : i \in 1..m \/ i = m + 1
        OBVIOUS
      <3>3. QED
        BY <1>2, <3>1, <3>2
    <2>3. QED
      BY <2>1, <2>2
  <1>5. AloneInv(c)'
    BY <1>1, <1>3, <1>4 DEF AloneInv
  <1>6. ASSUME NEW d \in Clients, d # c
        PROVE  /\ at'[d] = "off" => ~overlapped'[d] /\ \A i \in DOMAIN inbox' : inbox'[i].from # d
               /\ ~overlapped'[d] => AloneInv(d)'
    BY <1>1, <1>6, OthersAtSend, IntRange
  <1>7. QED
    BY <1>1, <1>5, <1>6 DEF StartInv

LEMMA SendRequestKeeps ==
  ASSUME TypeOK, SocketInv, StartInv, NEW c \in Clients, SendRequest(c)
  PROVE  StartInv'
  <1> DEFINE w  == wish[c]
             op == [from |-> c, n |-> w.op]
             n1 == [from |-> c, n |-> w.num1]
             n2 == [from |-> c, n |-> w.num2]
  <1>1. /\ UNCHANGED <<server, reg, wish, reply, got>>
        /\ \A d \in Clients \ {c} : at'[d] = at[d]
    BY DEF SendRequest, TypeOK
  <1>2. PICK n \in Int32 :
           /\ Send(c, n)
           /\ \/ at[c] = "sendOp" /\ n = w.op /\ at'[c] = "sendNum1"
              \/ at[c] = "sendNum1" /\ n = w.num1 /\ at'[c] = "sendNum2"
              \/ at[c] = "sendNum2" /\ n = w.num2 /\ at'[c] = "answer"
    <2>1. w.op \in Int32 /\ w.num1 \in Int32 /\ w.num2 \in Int32
      BY DEF TypeOK
    <2>2. CASE at[c] = "sendOp"
      BY <2>1, <2>2 DEF SendRequest, TypeOK
    <2>3. CASE at[c] = "sendNum1"
      BY <2>1, <2>3 DEF SendRequest, TypeOK
    <2>4. CASE at[c] = "sendNum2"
      BY <2>1, <2>4 DEF SendRequest, TypeOK
    <2>5. QED
      BY <2>2, <2>3, <2>4 DEF SendRequest
  <1>3. overlapped'[c] = overlapped[c]
    BY <1>2 DEF Send, TypeOK
  <1>4. ASSUME ~overlapped[c]
        PROVE  AloneInv(c)'
    <2>1. AloneInv(c)
      BY <1>4 DEF StartInv
    <2>2. server \in {"op", "num1", "num2"} /\ reply[c] = <<>>
      BY <1>2, <2>1 DEF AloneInv
    <2>3. inbox' = Append(inbox, [from |-> c, n |-> n])
      BY <1>2, <2>2, SentTo
    <2>4. /\ \A x : Append(<<>>, x) = <<x>>
          /\ \A x, y : Append(<<x>>, y) = <<x, y>>
          /\ \A x, y, z : Append(<<x, y>>, z) = <<x, y, z>>
      BY AppendToTuple
    <2>5. CASE at[c] = "sendOp"
      <3>1. server = "op" /\ inbox = <<>> /\ n = w.op
        BY <1>2, <2>1, <2>5 DEF AloneInv
      <3>2. inbox' = <<op>>
        BY <2>3, <2>4, <3>1
      <3>3. QED
        BY <1>1, <1>2, <2>2, <2>5, <3>1, <3>2 DEF AloneInv
    <2>6. CASE at[c] = "sendNum1"
      <3>1. n = w.num1
        BY <1>2, <2>6
      <3>2. \/ server = "op" /\ inbox = <<op>>
            \/ server = "num1" /\ inbox = <<>> /\ reg.op = w.op
        BY <2>1, <2>6 DEF AloneInv
      <3>3. \/ server = "op" /\ inbox' = <<op, n1>>
            \/ server = "num1" /\ inbox' = <<n1>> /\ reg.op = w.op
        BY <2>3, <2>4, <3>1, <3>2
      <3>4. QED
        BY <1>1, <1>2, <2>2, <2>6, <3>3 DEF AloneInv
    <2>7. CASE at[c] = "sendNum2"
      <3>1. n = w.num2
        BY <1>2, <2>7
      <3>2. \/ server = "op" /\ inbox = <<op, n1>>
            \/ server = "num1" /\ inbox = <<n1>> /\ reg.op = w.op
            \/ server = "num2" /\ inbox = <<>> /\ reg.op = w.op /\ reg.num1 = w.num1
        BY <2>1, <2>7 DEF AloneInv
      <3>3. \/ server = "op" /\ inbox' = <<op, n1, n2>>
            \/ server = "num1" /\ inbox' = <<n1, n2>> /\ reg.op = w.op
            \/ server = "num2" /\ inbox' = <<n2>> /\ reg.op = w.op /\ reg.num1 = w.num1
        BY <2>3, <2>4, <3>1, <3>2
      <3>4. QED
        BY <1>1, <1>2, <2>2, <2>7, <3>3 DEF AloneInv
    <2>8. QED
      BY <1>2, <2>5, <2>6, <2>7
  <1>5. ASSUME NEW d \in Clients, d # c
        PROVE  /\ at'[d] = "off" => ~overlapped'[d] /\ \A i \in DOMAIN inbox' : inbox'[i].from # d
               /\ ~overlapped'[d] => AloneInv(d)'
    BY <1>1, <1>2, <1>5, OthersAtSend
  <1>6. at'[c] # "off"
    BY <1>2
  <1>7. QED
    BY <1>3, <1>4, <1>5, <1>6 DEF StartInv
\* A step of client c alone that touches neither the server nor its socket.
LEMMA OthersAside ==
  ASSUME TypeOK, StartInv, NEW d \in Clients,
         UNCHANGED <<server, reg, inbox>>,
         at'[d] = at[d], wish'[d] = wish[d], reply'[d] = reply[d], got'[d] = got[d],
         overlapped'[d] = overlapped[d]
  PROVE  /\ at'[d] = "off" => ~overlapped'[d] /\ \A i \in DOMAIN inbox' : inbox'[i].from # d
         /\ ~overlapped'[d] => AloneInv(d)'
  <1>1. ASSUME ~overlapped[d]
        PROVE  AloneInv(d)'
    <2>1. AloneInv(d)
      BY <1>1 DEF StartInv
    <2>2. QED
      BY <2>1 DEF AloneInv
  <1>2. QED
    BY <1>1 DEF StartInv

LEMMA RecvOptionsKeeps ==
  ASSUME TypeOK, SocketInv, StartInv, NEW c \in Clients, RecvOptions(c)
  PROVE  StartInv'
  <1>1. /\ at[c] = "options" /\ at'[c] = "sendOp" /\ reply[c] # <<>> /\ reply'[c] = Tail(reply[c])
        /\ UNCHANGED <<server, reg, inbox, got, overlapped>>
    BY DEF RecvOptions, TypeOK
  <1>2. \A d \in Clients \ {c} : at'[d] = at[d] /\ wish'[d] = wish[d] /\ reply'[d] = reply[d]
    BY DEF RecvOptions, TypeOK
  <1>3. ASSUME ~overlapped[c]
        PROVE  AloneInv(c)'
    <2>1. server = "op" /\ inbox = <<>> /\ Len(reply[c]) = 1
      BY <1>1, <1>3 DEF StartInv, AloneInv
    <2>2. reply'[c] = <<>>
      <3>1. Tail(reply[c]) \in Seq(Replies) /\ Len(Tail(reply[c])) = Len(reply[c]) - 1
        BY <1>1, HeadTailProperties DEF TypeOK
      <3>2. Len(Tail(reply[c])) = 0
        BY <2>1, <3>1
      <3>3. Tail(reply[c]) = <<>>
        BY <3>1, <3>2, EmptySeq
      <3>4. QED
        BY <1>1, <3>3
    <2>3. QED
      BY <1>1, <2>1, <2>2 DEF AloneInv
  <1>4. \A d \in Clients \ {c} :
          /\ at'[d] = "off" => ~overlapped'[d] /\ \A i \in DOMAIN inbox' : inbox'[i].from # d
          /\ ~overlapped'[d] => AloneInv(d)'
    BY <1>1, <1>2, OthersAside
  <1>5. QED
    BY <1>1, <1>3, <1>4 DEF StartInv

LEMMA RecvAnswerKeeps ==
  ASSUME TypeOK, SocketInv, StartInv, NEW c \in Clients, RecvAnswer(c)
  PROVE  StartInv'
  <1>1. /\ at[c] = "answer" /\ at'[c] = "done" /\ reply[c] # <<>> /\ got'[c] = Head(reply[c])
        /\ UNCHANGED <<server, reg, inbox, wish, overlapped>>
    BY DEF RecvAnswer, TypeOK
  <1>2. \A d \in Clients \ {c} : at'[d] = at[d] /\ got'[d] = got[d] /\ reply'[d] = reply[d]
    BY DEF RecvAnswer, TypeOK
  <1>3. ASSUME ~overlapped[c]
        PROVE  AloneInv(c)'
    <2> DEFINE w == wish[c]
    <2>1. /\ reply[c] = <<Answer(Result(w.op, w.num1, w.num2))>>
          /\ ~(w.op = 4 /\ RaisesFpe(w.num1, w.num2))
      BY <1>1, <1>3 DEF StartInv, AloneInv
    <2>2. got'[c] = Answer(Result(w.op, w.num1, w.num2))
      BY <1>1, <2>1
    <2>3. QED
      BY <1>1, <2>1, <2>2 DEF AloneInv
  <1>4. \A d \in Clients \ {c} :
          /\ at'[d] = "off" => ~overlapped'[d] /\ \A i \in DOMAIN inbox' : inbox'[i].from # d
          /\ ~overlapped'[d] => AloneInv(d)'
    BY <1>1, <1>2, OthersAside
  <1>5. QED
    BY <1>1, <1>3, <1>4 DEF StartInv

LEMMA KilledKeeps ==
  ASSUME TypeOK, SocketInv, StartInv, NEW c \in Clients, Killed(c)
  PROVE  StartInv'
  <1>1. at'[c] = "killed" /\ UNCHANGED <<server, reg, inbox, got>>
    BY DEF Killed, TypeOK
  <1>2. \A d \in Clients \ {c} : /\ at'[d] = at[d] /\ wish'[d] = wish[d]
                                 /\ reply'[d] = reply[d] /\ overlapped'[d] = overlapped[d]
    BY DEF Killed, TypeOK
  <1>3. AloneInv(c)'
    BY <1>1 DEF AloneInv
  <1>4. \A d \in Clients \ {c} :
          /\ at'[d] = "off" => ~overlapped'[d] /\ \A i \in DOMAIN inbox' : inbox'[i].from # d
          /\ ~overlapped'[d] => AloneInv(d)'
    BY <1>1, <1>2, OthersAside
  <1>5. QED
    BY <1>1, <1>3, <1>4 DEF StartInv

\* The places at which a datagram of the server's socket is after the first one
\* has been taken.
LEMMA TakenFrom ==
  ASSUME TypeOK, Take, NEW c \in Clients
  PROVE  /\ (\A i \in DOMAIN inbox : inbox[i].from # c) => \A i \in DOMAIN inbox' : inbox'[i].from # c
         /\ (\A i \in DOMAIN inbox : inbox[i].from = c => i = Len(inbox)) =>
               /\ \A i \in DOMAIN inbox' : inbox'[i].from = c => i = Len(inbox')
               /\ Head(inbox).from = c => inbox' = <<>>
  <1>1. inbox # <<>> /\ inbox' = Tail(inbox)
    BY DEF Take
  <1>2. PICK n \in Nat : n = Len(inbox) /\ DOMAIN inbox = 1..n /\ n >= 1
    BY <1>1, FirstDatagram, LenProperties DEF TypeOK
  <1>3. /\ Len(inbox') = n - 1 /\ DOMAIN inbox' = 1..(n - 1) /\ inbox' \in Seq(Dgram)
        /\ \A i \in 1..(n - 1) : inbox'[i] = inbox[i + 1]
        /\ Head(inbox) = inbox[1]
    BY <1>1, <1>2, FirstDatagram, LenProperties
  <1>4. \A i \in 1..(n - 1) : i + 1 \in 1..n
    OBVIOUS
  <1>5. (\A i \in DOMAIN inbox : inbox[i].from # c) => \A i \in DOMAIN inbox' : inbox'[i].from # c
    BY <1>2, <1>3, <1>4
  <1>6. ASSUME \A i \in DOMAIN inbox : inbox[i].from = c => i = Len(inbox)
        PROVE  /\ \A i \in DOMAIN inbox' : inbox'[i].from = c => i = Len(inbox')
               /\ Head(inbox).from = c => inbox' = <<>>
    <2>1. ASSUME NEW i \in 1..(n - 1), inbox'[i].from = c
          PROVE  i = n - 1
      <3>1. i + 1 = n
        BY <1>2, <1>3, <1>4, <1>6, <2>1
      <3>2. QED
        BY <3>1
    <2>2. ASSUME Head(inbox).from = c
          PROVE  inbox' = <<>>
      <3>1. 1 \in 1..n
        BY <1>2
      <3>2. n = 1
        BY <1>2, <1>3, <1>6, <2>2, <3>1
      <3>3. Len(inbox') = 0
        BY <1>3, <3>2
      <3>4. QED
        BY <1>3, <3>3, EmptySeq
    <2>3. QED
      BY <1>3, <2>1, <2>2
  <1>7. QED
    BY <1>5, <1>6

LEMMA AppendOne ==
  ASSUME NEW x
  PROVE  Append(<<>>, x) = <<x>> /\ Len(<<x>>) = 1 /\ <<x>> # <<>>
  OBVIOUS

\* The server answers the menu or a request, with the first datagram's sender as
\* receiver; what c holds before it.
LEMMA AnsweredKeeps ==
  ASSUME TypeOK, StartInv, Take, NEW x, ReplyTo(Head(inbox).from, x),
         UNCHANGED <<reg, at, wish, got, overlapped>>, server' = "op",
         server = "options" \/ server = "num2",
         NEW c \in Clients,
         server = "num2" =>
           /\ ~Division(Head(inbox).n)
           /\ x = Answer(Result(reg.op, reg.num1, Head(inbox).n))
  PROVE  /\ at'[c] = "off" => ~overlapped'[c] /\ \A i \in DOMAIN inbox' : inbox'[i].from # c
         /\ ~overlapped'[c] => AloneInv(c)'
  <1>1. at[c] = "off" => ~overlapped[c] /\ \A i \in DOMAIN inbox' : inbox'[i].from # c
    BY TakenFrom DEF StartInv
  <1>2. /\ reply'[c] = reply[c] \/ (at[c] \in Running /\ reply'[c] = Append(reply[c], x))
        /\ c # Head(inbox).from => reply'[c] = reply[c]
        /\ c = Head(inbox).from /\ at[c] \in Running => reply'[c] = Append(reply[c], x)
    <2>1. Head(inbox).from \in Clients
      BY FirstDatagram DEF Take
    <2>2. QED
      BY <2>1 DEF ReplyTo, TypeOK
  <1>3. ASSUME ~overlapped[c]
        PROVE  AloneInv(c)'
    <2> DEFINE w  == wish[c]
               n2 == [from |-> c, n |-> w.num2]
    <2>1. AloneInv(c)
      BY <1>3 DEF StartInv
    <2>2. CASE at[c] = "options"
      <3>1. reply[c] = <<>>
        BY <2>1, <2>2 DEF AloneInv
      <3>2. /\ \A i \in DOMAIN inbox' : inbox'[i].from = c => i = Len(inbox')
            /\ Head(inbox).from = c => inbox' = <<>>
        BY <2>1, <2>2, TakenFrom DEF AloneInv
      <3>3. reply'[c] # <<>> => inbox' = <<>> /\ Len(reply'[c]) = 1
        <4>1. CASE Head(inbox).from = c
          BY <1>2, <2>2, <3>1, <3>2, <4>1, AppendOne DEF Running
        <4>2. CASE Head(inbox).from # c
          BY <1>2, <3>1, <4>2
        <4>3. QED
          BY <4>1, <4>2
      <3>4. QED
        BY <2>2, <3>2, <3>3 DEF AloneInv
    <2>3. CASE at[c] \in {"sendOp", "sendNum1", "sendNum2"}
      <3>1. FALSE
        BY <2>1, <2>3 DEF AloneInv, Take
      <3>2. QED
        BY <3>1
    <2>4. CASE at[c] = "answer"
      <3>1. server = "num2" /\ inbox = <<n2>> /\ reply[c] = <<>> /\ reg.op = w.op /\ reg.num1 = w.num1
        BY <2>1, <2>4 DEF AloneInv, Take
      <3>2. Head(inbox) = n2 /\ Tail(inbox) = <<>>
        BY <3>1
      <3>3. inbox' = <<>> /\ Head(inbox).from = c /\ Head(inbox).n = w.num2
        BY <3>2 DEF Take
      <3>4. reply'[c] = <<Answer(Result(w.op, w.num1, w.num2))>>
        BY <1>2, <2>4, <3>1, <3>3, AppendOne DEF Running
      <3>5. ~(w.op = 4 /\ RaisesFpe(w.num1, w.num2))
        BY <3>1, <3>3 DEF Division
      <3>6. QED
        BY <2>4, <3>3, <3>4, <3>5 DEF AloneInv
    <2>5. CASE at[c] \notin {"options", "sendOp", "sendNum1", "sendNum2", "answer"}
      BY <2>1, <2>5 DEF AloneInv
    <2>6. QED
      BY <2>2, <2>3, <2>4, <2>5
  <1>4. QED
    BY <1>1, <1>3

LEMMA TailOfTuple ==
  ASSUME NEW x, NEW y, NEW z
  PROVE  /\ Head(<<x>>) = x /\ Tail(<<x>>) = <<>>
         /\ Head(<<x, y>>) = x /\ Tail(<<x, y>>) = <<y>>
         /\ Head(<<x, y, z>>) = x /\ Tail(<<x, y, z>>) = <<y, z>>
  OBVIOUS

LEMMA RecvOperandsKeeps ==
  ASSUME TypeOK, StartInv, RecvOperands
  PROVE  StartInv'
  <1>1. /\ Take /\ UNCHANGED <<at, wish, reply, got, overlapped>>
        /\ \/ server = "op" /\ server' = "num1" /\ reg' = [reg EXCEPT !.op = Head(inbox).n]
           \/ server = "num1" /\ server' = "num2" /\ reg' = [reg EXCEPT !.num1 = Head(inbox).n]
    BY DEF RecvOperands
  <1>2. /\ server = "op" => reg'.op = Head(inbox).n
        /\ server = "num1" => reg'.num1 = Head(inbox).n /\ reg'.op = reg.op
    BY <1>1 DEF TypeOK
  <1>3. ASSUME NEW c \in Clients, ~overlapped[c]
        PROVE  AloneInv(c)'
    <2> DEFINE w  == wish[c]
               op == [from |-> c, n |-> w.op]
               n1 == [from |-> c, n |-> w.num1]
               n2 == [from |-> c, n |-> w.num2]
    <2>1. AloneInv(c) /\ inbox # <<>> /\ inbox' = Tail(inbox)
      BY <1>1, <1>3 DEF StartInv, Take
    <2>2. /\ Head(<<op>>) = op /\ Tail(<<op>>) = <<>>
          /\ Head(<<n1>>) = n1 /\ Tail(<<n1>>) = <<>>
          /\ Head(<<op, n1>>) = op /\ Tail(<<op, n1>>) = <<n1>>
          /\ Head(<<n1, n2>>) = n1 /\ Tail(<<n1, n2>>) = <<n2>>
          /\ Head(<<op, n1, n2>>) = op /\ Tail(<<op, n1, n2>>) = <<n1, n2>>
      BY TailOfTuple
    <2>3. CASE at[c] = "options"
      <3>1. reply[c] = <<>>
        BY <2>1, <2>3 DEF AloneInv
      <3>2. \A i \in DOMAIN inbox' : inbox'[i].from = c => i = Len(inbox')
        BY <1>1, <2>1, <2>3, TakenFrom DEF AloneInv
      <3>3. QED
        BY <1>1, <2>3, <3>1, <3>2 DEF AloneInv
    <2>4. CASE at[c] = "sendOp"
      BY <2>1, <2>4 DEF AloneInv
    <2>5. CASE at[c] = "sendNum1"
      <3>1. server = "op" /\ inbox = <<op>>
        BY <2>1, <2>5 DEF AloneInv
      <3>2. inbox' = <<>> /\ Head(inbox).n = w.op
        BY <2>1, <2>2, <3>1
      <3>3. QED
        BY <1>1, <1>2, <2>1, <2>5, <3>1, <3>2 DEF AloneInv
    <2>6. CASE at[c] = "sendNum2"
      <3>1. \/ server = "op" /\ inbox = <<op, n1>>
            \/ server = "num1" /\ inbox = <<n1>>
        BY <2>1, <2>6 DEF AloneInv
      <3>2. \/ server = "op" /\ inbox' = <<n1>> /\ Head(inbox) = op
            \/ server = "num1" /\ inbox' = <<>> /\ Head(inbox) = n1
        <4> HIDE DEF op, n1
        <4>1. QED
          BY <2>1, <2>2, <3>1
      <3>3. QED
        BY <1>1, <1>2, <2>1, <2>6, <3>2 DEF AloneInv
    <2>7. CASE at[c] = "answer"
      <3>1. /\ reply[c] = <<>>
            /\ \/ server = "op" /\ inbox = <<op, n1, n2>>
               \/ server = "num1" /\ inbox = <<n1, n2>>
        BY <1>1, <2>1, <2>7 DEF AloneInv
      <3>2. \/ server = "op" /\ inbox' = <<n1, n2>> /\ Head(inbox) = op
            \/ server = "num1" /\ inbox' = <<n2>> /\ Head(inbox) = n1
        <4> HIDE DEF op, n1, n2
        <4>1. QED
          BY <2>1, <2>2, <3>1
      <3>3. QED
        BY <1>1, <1>2, <2>1, <2>7, <3>1, <3>2 DEF AloneInv
    <2>8. CASE at[c] \notin {"options", "sendOp", "sendNum1", "sendNum2", "answer"}
      BY <1>1, <2>1, <2>8 DEF AloneInv
    <2>9. QED
      BY <2>3, <2>4, <2>5, <2>6, <2>7, <2>8
  <1>4. \A c \in Clients : at[c] = "off" => ~overlapped[c] /\ \A i \in DOMAIN inbox' : inbox'[i].from # c
    BY <1>1, TakenFrom DEF StartInv
  <1>5. QED
    BY <1>1, <1>3, <1>4 DEF StartInv
LEMMA SocketStep == TypeOK /\ SocketInv /\ [Next]_vars => SocketInv'
  <1> SUFFICES ASSUME TypeOK, SocketInv, [Next]_vars PROVE SocketInv'
    OBVIOUS
  <1> USE DEF SocketInv, Running
  <1>1. ASSUME NEW c \in Clients, AskOptions(c)
        PROVE  SocketInv'
    BY <1>1 DEF AskOptions, TypeOK
  <1>2. ASSUME NEW c \in Clients, RecvOptions(c)
        PROVE  SocketInv'
    BY <1>2 DEF RecvOptions, TypeOK
  <1>3. ASSUME NEW c \in Clients, SendRequest(c)
        PROVE  SocketInv'
    BY <1>3 DEF SendRequest, TypeOK
  <1>4. ASSUME NEW c \in Clients, RecvAnswer(c)
        PROVE  SocketInv'
    BY <1>4 DEF RecvAnswer, TypeOK
  <1>5. ASSUME NEW c \in Clients, Killed(c)
        PROVE  SocketInv'
    BY <1>5 DEF Killed, TypeOK
  <1>6. CASE UNCHANGED <<at, reply>>
    BY <1>6
  <1>7. ASSUME NEW c, NEW x, ReplyTo(c, x), UNCHANGED at
        PROVE  SocketInv'
    BY <1>7 DEF ReplyTo, TypeOK
  <1>8. CASE SendOptions \/ SendAnswer
    BY <1>7, <1>8 DEF SendOptions, SendAnswer
  <1>9. QED
    BY <1>1, <1>2, <1>3, <1>4, <1>5, <1>6, <1>8
    DEF Next, StartServer, RecvOperands, DiesDividing, Waiting, vars

LEMMA StartStep == TypeOK /\ SocketInv /\ StartInv /\ [Next]_vars => StartInv'
  <1> SUFFICES ASSUME TypeOK, SocketInv, StartInv, [Next]_vars PROVE StartInv'
    OBVIOUS
  <1>1. ASSUME NEW c \in Clients,
               AskOptions(c) \/ RecvOptions(c) \/ SendRequest(c) \/ RecvAnswer(c) \/ Killed(c)
        PROVE  StartInv'
    BY <1>1, AskOptionsKeeps, RecvOptionsKeeps, SendRequestKeeps, RecvAnswerKeeps, KilledKeeps
  <1>2. CASE StartServer
    <2>1. server = "off" /\ server' = "options" /\ UNCHANGED <<reg, inbox, at, wish, reply, got, overlapped>>
      BY <1>2 DEF StartServer
    <2>2. ASSUME NEW c \in Clients, ~overlapped[c]
          PROVE  AloneInv(c)'
      <3>1. AloneInv(c)
        BY <2>2 DEF StartInv
      <3>2. QED
        BY <2>1, <3>1 DEF AloneInv
    <2>3. QED
      BY <2>1, <2>2 DEF StartInv
  <1>3. CASE SendOptions
    <2>1. /\ server = "options" /\ server' = "op" /\ Take /\ ReplyTo(Head(inbox).from, Menu)
          /\ UNCHANGED <<reg, at, wish, got, overlapped>>
      BY <1>3 DEF SendOptions
    <2>2. QED
      BY <2>1, AnsweredKeeps DEF StartInv
  <1>4. CASE RecvOperands
    BY <1>4, RecvOperandsKeeps
  <1>5. CASE SendAnswer
    <2> DEFINE x == Answer(Result(reg.op, reg.num1, Head(inbox).n))
    <2>1. /\ server = "num2" /\ server' = "op" /\ Take /\ ReplyTo(Head(inbox).from, x)
          /\ ~Division(Head(inbox).n)
          /\ UNCHANGED <<reg, at, wish, got, overlapped>>
      BY <1>5 DEF SendAnswer, LoopHead
    <2>2. QED
      BY <2>1, AnsweredKeeps DEF StartInv
  <1>6. CASE DiesDividing
    <2>1. /\ server = "num2" /\ inbox # <<>> /\ server' = "down" /\ inbox' = <<>> /\ DOMAIN inbox' = {}
          /\ UNCHANGED <<reg, at, wish, reply, got, overlapped>>
      BY <1>6, EmptySeq DEF DiesDividing
    <2>2. ASSUME NEW c \in Clients, ~overlapped[c]
          PROVE  AloneInv(c)'
      <3>1. AloneInv(c)
        BY <2>2 DEF StartInv
      <3>2. at[c] \notin {"sendOp", "sendNum1", "sendNum2"}
        BY <2>1, <3>1 DEF AloneInv
      <3>3. at[c] = "answer" => reply[c] = <<>>
        BY <2>1, <3>1 DEF AloneInv
      <3>4. at[c] = "options" => reply[c] = <<>>
        BY <2>1, <3>1 DEF AloneInv
      <3>5. QED
        BY <2>1, <3>1, <3>2, <3>3, <3>4 DEF AloneInv
    <2>3. QED
      BY <2>1, <2>2 DEF StartInv
  <1>7. CASE UNCHANGED vars
    <2>1. UNCHANGED <<server, reg, inbox, at, wish, reply, got, overlapped>>
      BY <1>7 DEF vars
    <2>2. ASSUME NEW c \in Clients, ~overlapped[c]
          PROVE  AloneInv(c)'
      <3>1. AloneInv(c)
        BY <2>2 DEF StartInv
      <3>2. QED
        BY <2>1, <3>1 DEF AloneInv
    <2>3. QED
      BY <2>1, <2>2 DEF StartInv
  <1>8. QED
    BY <1>1, <1>2, <1>3, <1>4, <1>5, <1>6, <1>7 DEF Next, Waiting

\* What is before the server of a client that nobody else sends anything next to
\* is its own request, and its answer is the result of that, at any place.
THEOREM OwnRequests == Spec => [](TypeOK /\ SocketInv /\ StartInv)
  <1>1. Init => TypeOK /\ SocketInv /\ StartInv
    BY TypeInit, StartInit
  <1>2. TypeOK /\ SocketInv /\ StartInv /\ [Next]_vars => TypeOK' /\ SocketInv' /\ StartInv'
    BY TypeStep, SocketStep, StartStep
  <1>3. QED
    BY <1>1, <1>2, PTL DEF Spec

\* A client that nobody else has sent anything next to, from its first datagram to
\* its answer, gets the answer to what its user typed, in the arithmetic of ints.
THEOREM AloneIsAnswered == Spec => []AloneIsRight
  <1>1. ASSUME TypeOK, StartInv, NEW c \in Done, ~overlapped[c], NEW w, w = wish[c]
        PROVE  /\ got[c][1] = "answer"
               /\ CASE w.op = 1 -> IsWrapped(got[c][2], w.num1 + w.num2)
                    [] w.op = 2 -> IsWrapped(got[c][2], w.num1 * w.num2)
                    [] w.op = 3 /\ w.num1 >= 0 ->
                          /\ got[c][2] * got[c][2] <= w.num1
                          /\ w.num1 < (got[c][2] + 1) * (got[c][2] + 1)
                    [] w.op = 4 -> IsQuotient(got[c][2], w.num1, w.num2)
                    [] OTHER -> got[c][2] \in {0, Least}
    <2>1. c \in Clients /\ at[c] = "done"
      BY DEF Done
    <2>2. w.op \in Int32 /\ w.num1 \in Int32 /\ w.num2 \in Int32
      BY <1>1, <2>1 DEF TypeOK
    <2>3. PICK g : g = Result(w.op, w.num1, w.num2)
      OBVIOUS
    <2>4. got[c] = Answer(g) /\ ~(w.op = 4 /\ RaisesFpe(w.num1, w.num2))
      BY <1>1, <2>1, <2>3 DEF StartInv, AloneInv
    <2>5. got[c][1] = "answer" /\ got[c][2] = g
      BY <2>4 DEF Answer
    <2>6. w.num1 \in Int /\ w.num2 \in Int /\ w.num1 + w.num2 \in Int /\ w.num1 * w.num2 \in Int
      BY <2>2, IntRange
    <2>7. CASE w.op = 1
      <3>1. g = Wrap(w.num1 + w.num2)
        BY <2>3, <2>7 DEF Result
      <3>2. IsWrapped(g, w.num1 + w.num2)
        BY <2>6, <3>1, WrapWraps
      <3>3. QED
        BY <2>5, <2>7, <3>2
    <2>8. CASE w.op = 2
      <3>1. g = Wrap(w.num1 * w.num2)
        BY <2>3, <2>8 DEF Result
      <3>2. IsWrapped(g, w.num1 * w.num2)
        BY <2>6, <3>1, WrapWraps
      <3>3. QED
        BY <2>5, <2>8, <3>2
    <2>9. CASE w.op = 3
      <3>1. g = Root(w.num1)
        BY <2>3, <2>9 DEF Result
      <3>2. /\ w.num1 >= 0 => g * g <= w.num1 /\ w.num1 < (g + 1) * (g + 1)
            /\ w.num1 < 0 => g = Least
        BY <2>2, <3>1, RootIsRoot
      <3>3. CASE w.num1 >= 0
        BY <2>5, <2>9, <3>2, <3>3
      <3>4. CASE w.num1 < 0
        BY <2>5, <2>6, <2>9, <3>2, <3>4
      <3>5. QED
        BY <2>6, <3>3, <3>4
    <2>10. CASE w.op = 4
      <3>1. g = Quotient(w.num1, w.num2)
        BY <2>3, <2>10 DEF Result
      <3>2. IsQuotient(g, w.num1, w.num2)
        BY <2>2, <2>4, <2>10, <3>1, QuotientDivides
      <3>3. QED
        BY <2>5, <2>10, <3>2
    <2>11. CASE w.op \notin {1, 2, 3, 4}
      <3>1. g = 0
        BY <2>3, <2>11 DEF Result
      <3>2. QED
        BY <2>5, <2>11, <3>1
    <2>12. QED
      BY <2>7, <2>8, <2>9, <2>10, <2>11
  <1>2. TypeOK /\ StartInv => AloneIsRight
    BY <1>1 DEF AloneIsRight
  <1>3. QED
    BY <1>2, OwnRequests, PTL

----------------------------------------------------------------------------
(* Counting: what the replies have cost *)

IsToken(t) ==
    \E c \in Clients : \E k \in 0..Len(reply[c]), j \in 1..3 :
        t = <<c, k, j>> /\ (k = 0 => j <= Share(at[c]))

TokensAre == \A t : t \in Tokens <=> IsToken(t)

LEMMA TokensNow == TokensAre
  <1>1. ASSUME NEW t, t \in Tokens
        PROVE  IsToken(t)
    <2>1. PICK c \in Clients : t \in {c} \X (0..Len(reply[c])) \X (1..3)
      BY <1>1 DEF Tokens
    <2>2. PICK k \in 0..Len(reply[c]), j \in 1..3 : t = <<c, k, j>>
      BY <2>1
    <2>3. t[2] = 0 => t[3] <= Share(at[t[1]])
      BY <1>1 DEF Tokens
    <2>4. k = 0 => j <= Share(at[c])
      BY <2>2, <2>3
    <2>5. QED
      BY <2>2, <2>4 DEF IsToken
  <1>2. ASSUME NEW t, IsToken(t)
        PROVE  t \in Tokens
    <2>1. PICK c \in Clients : \E k \in 0..Len(reply[c]), j \in 1..3 :
            t = <<c, k, j>> /\ (k = 0 => j <= Share(at[c]))
      BY <1>2 DEF IsToken
    <2>2. t \in UNION {{d} \X (0..Len(reply[d])) \X (1..3) : d \in Clients}
      BY <2>1
    <2>3. t[2] = 0 => t[3] <= Share(at[t[1]])
      BY <2>1
    <2>4. QED
      BY <2>2, <2>3 DEF Tokens
  <1>3. QED
    BY <1>1, <1>2 DEF TokensAre

LEMMA TokensNext == TokensAre'
  BY TokensNow, PTL

LEMMA ShareIs ==
  ASSUME NEW l
  PROVE  /\ Share(l) \in 0..3
         /\ l \in {"sendOp", "done"} => Share(l) = 3
         /\ l = "sendNum1" => Share(l) = 2
         /\ l = "sendNum2" => Share(l) = 1
         /\ l \notin {"sendOp", "done", "sendNum1", "sendNum2"} => Share(l) = 0
  BY DEF Share

\* The tokens of a reply.
Cost(c, k) == {<<c, k, j>> : j \in 1..3}

LEMMA ThreeElements ==
  ASSUME NEW a, NEW b, NEW d, a # b, b # d, a # d
  PROVE  IsFiniteSet({a, b, d}) /\ Cardinality({a, b, d}) = 3
  <1>1. {a, b, d} = ({a} \cup {b}) \cup {d}
    OBVIOUS
  <1>2. IsFiniteSet({a}) /\ Cardinality({a}) = 1
    BY FS_Singleton
  <1>3. IsFiniteSet({a} \cup {b}) /\ Cardinality({a} \cup {b}) = 2
    <2>1. b \notin {a}
      OBVIOUS
    <2>2. QED
      BY <1>2, <2>1, FS_AddElement
  <1>4. d \notin {a} \cup {b}
    OBVIOUS
  <1>5. IsFiniteSet(({a} \cup {b}) \cup {d}) /\ Cardinality(({a} \cup {b}) \cup {d}) = 3
    BY <1>3, <1>4, FS_AddElement
  <1>6. QED
    BY <1>1, <1>5

LEMMA CostIsThree ==
  ASSUME NEW c, NEW k
  PROVE  IsFiniteSet(Cost(c, k)) /\ Cardinality(Cost(c, k)) = 3
  <1> DEFINE a == <<c, k, 1>>
             b == <<c, k, 2>>
             d == <<c, k, 3>>
  <1>1. a # b /\ b # d /\ a # d /\ Cost(c, k) = {a, b, d}
    <2>1. 1..3 = {1, 2, 3}
      OBVIOUS
    <2>2. QED
      BY <2>1 DEF Cost
  <1> HIDE DEF a, b, d
  <1>2. IsFiniteSet({a, b, d}) /\ Cardinality({a, b, d}) = 3
    BY <1>1, ThreeElements
  <1>3. QED
    BY <1>1, <1>2

\* What is left of a set that loses some elements and gains others.
LEMMA Exchange ==
  ASSUME NEW S, IsFiniteSet(S), NEW A, A \subseteq S, NEW B, IsFiniteSet(B),
         NEW T, T \subseteq (S \ A) \cup B
  PROVE  /\ IsFiniteSet(T) /\ Cardinality(T) \in Nat /\ Cardinality(S) \in Nat
         /\ Cardinality(A) \in Nat /\ Cardinality(B) \in Nat
         /\ Cardinality(T) <= (Cardinality(S) - Cardinality(A)) + Cardinality(B)
  <1>1. IsFiniteSet(A) /\ S \cap A = A
    BY FS_Subset
  <1>2. IsFiniteSet(S \ A) /\ Cardinality(S \ A) = Cardinality(S) - Cardinality(A)
    BY <1>1, FS_Difference
  <1>3. /\ IsFiniteSet((S \ A) \cup B) /\ IsFiniteSet((S \ A) \cap B)
        /\ Cardinality((S \ A) \cup B)
             = Cardinality(S \ A) + Cardinality(B) - Cardinality((S \ A) \cap B)
    BY <1>2, FS_Union, FS_Intersection
  <1>4. IsFiniteSet(T) /\ Cardinality(T) <= Cardinality((S \ A) \cup B)
    BY <1>3, FS_Subset
  <1>5. /\ Cardinality(S) \in Nat /\ Cardinality(A) \in Nat /\ Cardinality(B) \in Nat
        /\ Cardinality(T) \in Nat /\ Cardinality((S \ A) \cap B) \in Nat
        /\ Cardinality(S \ A) \in Nat /\ Cardinality((S \ A) \cup B) \in Nat
    BY <1>1, <1>2, <1>3, <1>4, FS_CardinalityType
  <1>6. QED
    BY <1>2, <1>3, <1>4, <1>5

LEMMA HasReadIs ==
  /\ HasRead \in 0..2
  /\ server \in {"off", "options", "num2"} => HasRead = 2
  /\ server = "num1" => HasRead = 1
  /\ server \notin {"off", "options", "num2", "num1"} => HasRead = 0
  BY DEF HasRead

LEMMA HasReadNext ==
  /\ HasRead' \in 0..2
  /\ server' \in {"off", "options", "num2"} => HasRead' = 2
  /\ server' = "num1" => HasRead' = 1
  /\ server' \notin {"off", "options", "num2", "num1"} => HasRead' = 0
  BY DEF HasRead

\* A step that pays for what it adds keeps the balance.
LEMMA Paid ==
  ASSUME TypeOK, TypeOK', CreditInv, IsFiniteSet(Started'),
         NEW A, A \subseteq Tokens, NEW B, IsFiniteSet(B), Tokens' \subseteq (Tokens \ A) \cup B,
         (Cardinality(B) + Len(inbox')) + (HasRead' + Cardinality(Started))
            <= (Cardinality(A) + Len(inbox)) + (HasRead + Cardinality(Started'))
  PROVE  CreditInv'
  <1>1. /\ IsFiniteSet(Started) /\ IsFiniteSet(Tokens)
        /\ (Cardinality(Tokens) + Len(inbox)) + HasRead <= Cardinality(Started) + 2
    BY DEF CreditInv
  <1>2. PICK T : T = Tokens'
    OBVIOUS
  <1>3. /\ IsFiniteSet(T) /\ Cardinality(T) \in Nat /\ Cardinality(Tokens) \in Nat
        /\ Cardinality(A) \in Nat /\ Cardinality(B) \in Nat
        /\ Cardinality(T) <= (Cardinality(Tokens) - Cardinality(A)) + Cardinality(B)
    BY <1>1, <1>2, Exchange
  <1>4. PICK n \in Nat, m \in Nat : n = Len(inbox) /\ m = Len(inbox')
    BY LenProperties DEF TypeOK
  <1>5. PICK s \in Nat, s1 \in Nat : s = Cardinality(Started) /\ s1 = Cardinality(Started')
    BY <1>1, FS_CardinalityType
  <1>6. PICK h \in 0..2, h1 \in 0..2 : h = HasRead /\ h1 = HasRead'
    BY HasReadIs, HasReadNext
  <1>7. (Cardinality(T) + m) + h1 <= s1 + 2
    <2>1. (Cardinality(Tokens) + n) + h <= s + 2
      BY <1>1, <1>4, <1>5, <1>6
    <2>2. (Cardinality(B) + m) + (h1 + s) <= (Cardinality(A) + n) + (h + s1)
      BY <1>4, <1>5, <1>6
    <2>3. QED
      BY ONLY <1>3, <2>1, <2>2, n \in Nat, m \in Nat, s \in Nat, s1 \in Nat, h \in 0..2, h1 \in 0..2
  <1>8. QED
    BY <1>2, <1>3, <1>4, <1>5, <1>6, <1>7 DEF CreditInv

\* A step of one client leaves the tokens of the others.
LEMMA TokensOfOthers ==
  ASSUME NEW c \in Clients,
         \A d \in Clients : d # c => at'[d] = at[d] /\ reply'[d] = reply[d],
         NEW t, t \in Tokens'
  PROVE  \/ t \in Tokens /\ t[1] # c
         \/ \E k \in 0..Len(reply'[c]) : \E j \in 1..3 :
               t = <<c, k, j>> /\ (k = 0 => j <= Share(at'[c]))
  <1>1. PICK d \in Clients : \E k \in 0..Len(reply'[d]) : \E j \in 1..3 :
          t = <<d, k, j>> /\ (k = 0 => j <= Share(at'[d]))
    BY TokensNext DEF TokensAre, IsToken
  <1>2. CASE d = c
    BY <1>1, <1>2
  <1>3. CASE d # c
    <2>1. PICK k \in 0..Len(reply[d]), j \in 1..3 : t = <<d, k, j>> /\ (k = 0 => j <= Share(at[d]))
      BY <1>1, <1>3
    <2>2. t \in Tokens
      BY <2>1, TokensNow DEF TokensAre, IsToken
    <2>3. QED
      BY <1>3, <2>1, <2>2
  <1>4. QED
    BY <1>2, <1>3

LEMMA SentLength ==
  ASSUME TypeOK, NEW c \in Clients, NEW n \in Int32, Send(c, n)
  PROVE  Len(inbox) \in Nat /\ Len(inbox') \in Nat /\ Len(inbox') <= Len(inbox) + 1
  <1>1. inbox \in Seq(Dgram) /\ [from |-> c, n |-> n] \in Dgram
    BY DEF TypeOK, Dgram
  <1>2. PICK k \in Nat : k = Len(inbox)
    BY <1>1, LenProperties
  <1>3. inbox' = inbox \/ inbox' = Append(inbox, [from |-> c, n |-> n])
    BY DEF Send
  <1>4. Len(inbox') = k \/ Len(inbox') = k + 1
    BY <1>1, <1>2, <1>3, AppendProperties
  <1>5. QED
    BY <1>2, <1>4

LEMMA AskOptionsCredit ==
  ASSUME TypeOK, TypeOK', SocketInv, CreditInv, NEW c \in Clients, AskOptions(c)
  PROVE  CreditInv'
  <1>1. /\ at[c] = "off" /\ at'[c] = "options" /\ reply' = reply /\ server' = server
        /\ \A d \in Clients : d # c => at'[d] = at[d] /\ reply'[d] = reply[d]
    BY DEF AskOptions, TypeOK
  <1>2. reply'[c] = <<>>
    BY <1>1 DEF SocketInv, Running
  <1>3. Len(inbox) \in Nat /\ Len(inbox') \in Nat /\ Len(inbox') <= Len(inbox) + 1
    BY SentLength, IntRange DEF AskOptions
  <1>4. IsFiniteSet(Started) /\ c \notin Started /\ Started' = Started \cup {c}
    BY <1>1 DEF Started, CreditInv
  <1>5. IsFiniteSet(Started') /\ Cardinality(Started') = Cardinality(Started) + 1
    BY <1>4, FS_AddElement
  <1>6. Tokens' \subseteq (Tokens \ {}) \cup {}
    <2>1. ASSUME NEW t, t \in Tokens'
          PROVE  t \in Tokens
      <3>1. SUFFICES ASSUME NEW k \in 0..Len(reply'[c]), NEW j \in 1..3, k = 0 => j <= Share(at'[c])
                     PROVE  FALSE
        BY <1>1, <2>1, TokensOfOthers
      <3>2. k = 0 /\ Share(at'[c]) = 0
        BY <1>1, <1>2, <3>1, EmptySeq, ShareIs
      <3>3. QED
        BY <3>1, <3>2
    <2>2. QED
      BY <2>1
  <1>7. HasRead' = HasRead /\ HasRead \in Int
    BY <1>1, HasReadIs DEF HasRead
  <1>8. Cardinality(Started) \in Nat
    BY <1>4, FS_CardinalityType
  <1>9. (0 + Len(inbox')) + (HasRead' + Cardinality(Started))
          <= (0 + Len(inbox)) + (HasRead + Cardinality(Started'))
    BY ONLY <1>3, <1>5, <1>7, <1>8
  <1>10. QED
    BY <1>5, <1>6, <1>9, FS_EmptySet, Paid

\* A step by which nobody starts.
LEMMA PaidRunning ==
  ASSUME TypeOK, TypeOK', CreditInv, Started' = Started,
         NEW A, A \subseteq Tokens, NEW B, IsFiniteSet(B), Tokens' \subseteq (Tokens \ A) \cup B,
         (Cardinality(B) + Len(inbox')) + HasRead' <= (Cardinality(A) + Len(inbox)) + HasRead
  PROVE  CreditInv'
  <1>1. IsFiniteSet(Started) /\ IsFiniteSet(Started') /\ IsFiniteSet(Tokens)
    BY DEF CreditInv
  <1>2. PICK s \in Nat : s = Cardinality(Started) /\ s = Cardinality(Started')
    BY <1>1, FS_CardinalityType
  <1>3. PICK n \in Nat, m \in Nat : n = Len(inbox) /\ m = Len(inbox')
    BY LenProperties DEF TypeOK
  <1>4. IsFiniteSet(A)
    BY <1>1, FS_Subset
  <1>5. PICK a \in Nat, b \in Nat : a = Cardinality(A) /\ b = Cardinality(B)
    BY <1>4, FS_CardinalityType
  <1>6. PICK h \in 0..2, h1 \in 0..2 : h = HasRead /\ h1 = HasRead'
    BY HasReadIs, HasReadNext
  <1>7. (b + m) + h1 <= (a + n) + h
    BY <1>3, <1>5, <1>6
  <1>8. (b + m) + (h1 + s) <= (a + n) + (h + s)
    BY ONLY <1>7, s \in Nat, n \in Nat, m \in Nat, a \in Nat, b \in Nat, h \in 0..2, h1 \in 0..2
  <1>9. QED
    BY <1>1, <1>2, <1>3, <1>5, <1>6, <1>8, Paid

LEMMA SmallArithmetic ==
  ASSUME NEW m \in Nat, NEW n \in Nat, NEW h \in 0..2
  PROVE  /\ (3 + n) + h <= (3 + n) + h
         /\ m <= n + 1 => (0 + m) + h <= (1 + n) + h
         /\ (0 + n) + h <= (0 + n) + h
  OBVIOUS

LEMMA RecvCredit ==
  ASSUME TypeOK, TypeOK', CreditInv, NEW c \in Clients,
         reply[c] # <<>>,
         \/ RecvOptions(c) /\ reply'[c] = Tail(reply[c])
         \/ RecvAnswer(c) /\ reply'[c] = <<>>
  PROVE  CreditInv'
  <1> DEFINE n == Len(reply[c])
  <1>1. /\ at[c] \notin {"off", "sendOp", "done", "sendNum1", "sendNum2"} /\ at'[c] # "off"
        /\ inbox' = inbox /\ server' = server
        /\ \A d \in Clients : d # c => at'[d] = at[d] /\ reply'[d] = reply[d]
    BY DEF RecvOptions, RecvAnswer, TypeOK
  <1>2. n \in Nat \ {0} /\ Len(reply'[c]) \in 0..(n - 1)
    <2>1. reply[c] \in Seq(Replies)
      BY DEF TypeOK
    <2>2. PICK k \in Nat : k = n /\ k # 0
      BY <2>1, EmptySeq, LenProperties
    <2>3. Len(Tail(reply[c])) = k - 1
      BY <2>1, <2>2, HeadTailProperties
    <2>4. Len(reply'[c]) = 0 \/ Len(reply'[c]) = k - 1
      BY <2>3, EmptySeq
    <2>5. QED
      BY <2>2, <2>4
  <1> HIDE DEF n
  <1>3. PICK m \in 0..(n - 1) : m = Len(reply'[c])
    BY <1>2
  <1>4. Cost(c, n) \subseteq Tokens
    <2>1. ASSUME NEW j \in 1..3
          PROVE  <<c, n, j>> \in Tokens
      <3>1. n \in 0..Len(reply[c]) /\ n # 0
        BY <1>2 DEF n
      <3>2. IsToken(<<c, n, j>>)
        BY <3>1 DEF IsToken
      <3>3. QED
        BY <3>2, TokensNow DEF TokensAre
    <2>2. QED
      BY <2>1 DEF Cost
  <1>5. Tokens' \subseteq (Tokens \ Cost(c, n)) \cup Cost(c, 0)
    <2>1. ASSUME NEW t, t \in Tokens'
          PROVE  t \in (Tokens \ Cost(c, n)) \cup Cost(c, 0)
      <3>1. CASE t \in Tokens /\ t[1] # c
        <4>1. t \notin Cost(c, n)
          BY <3>1 DEF Cost
        <4>2. QED
          BY <3>1, <4>1
      <3>2. ASSUME NEW k \in 0..Len(reply'[c]), NEW j \in 1..3, t = <<c, k, j>>
            PROVE  t \in (Tokens \ Cost(c, n)) \cup Cost(c, 0)
        <4>1. CASE k = 0
          BY <3>2, <4>1 DEF Cost
        <4>2. CASE k # 0
          <5>1. k \in 0..n /\ k # n /\ n = Len(reply[c])
            BY <1>2, <1>3 DEF n
          <5>2. IsToken(t)
            BY <3>2, <4>2, <5>1 DEF IsToken
          <5>3. t \in Tokens
            BY <5>2, TokensNow DEF TokensAre
          <5>4. t \notin Cost(c, n)
            BY <3>2, <5>1 DEF Cost
          <5>5. QED
            BY <5>3, <5>4
        <4>3. QED
          BY <4>1, <4>2
      <3>3. QED
        BY <1>1, <2>1, <3>1, <3>2, TokensOfOthers
    <2>2. QED
      BY <2>1
  <1>6. Started' = Started
    BY <1>1 DEF Started, TypeOK
  <1>7. HasRead' = HasRead /\ HasRead \in 0..2
    BY <1>1, HasReadIs DEF HasRead
  <1>8. Len(inbox) \in Nat
    BY LenProperties DEF TypeOK
  <1>9. IsFiniteSet(Cost(c, 0)) /\ Cardinality(Cost(c, 0)) = 3 /\ Cardinality(Cost(c, n)) = 3
    BY CostIsThree
  <1>10. (Cardinality(Cost(c, 0)) + Len(inbox')) + HasRead'
           <= (Cardinality(Cost(c, n)) + Len(inbox)) + HasRead
    BY <1>1, <1>7, <1>8, <1>9, SmallArithmetic
  <1>11. QED
    BY <1>4, <1>5, <1>6, <1>9, <1>10, PaidRunning

LEMMA SendRequestCredit ==
  ASSUME TypeOK, TypeOK', CreditInv, NEW c \in Clients, SendRequest(c)
  PROVE  CreditInv'
  <1>1. PICK s \in 1..3, n \in Int32 :
          /\ Send(c, n) /\ Share(at[c]) = s /\ Share(at'[c]) = s - 1
          /\ at[c] # "off" /\ at'[c] # "off" /\ reply' = reply /\ server' = server
          /\ \A d \in Clients : d # c => at'[d] = at[d]
    <2>1. wish[c].op \in Int32 /\ wish[c].num1 \in Int32 /\ wish[c].num2 \in Int32
      BY DEF TypeOK
    <2>2. /\ reply' = reply /\ server' = server
          /\ \A d \in Clients : d # c => at'[d] = at[d]
      BY DEF SendRequest, TypeOK
    <2>3. CASE at[c] = "sendOp" /\ Send(c, wish[c].op) /\ at'[c] = "sendNum1"
      BY <2>1, <2>2, <2>3, ShareIs
    <2>4. CASE at[c] = "sendNum1" /\ Send(c, wish[c].num1) /\ at'[c] = "sendNum2"
      BY <2>1, <2>2, <2>4, ShareIs
    <2>5. CASE at[c] = "sendNum2" /\ Send(c, wish[c].num2) /\ at'[c] = "answer"
      BY <2>1, <2>2, <2>5, ShareIs
    <2>6. QED
      BY <2>3, <2>4, <2>5 DEF SendRequest, TypeOK
  <1> DEFINE a == <<c, 0, s>>
  <1>2. {a} \subseteq Tokens
    <2>1. 0 \in 0..Len(reply[c])
      BY LenProperties DEF TypeOK
    <2>2. IsToken(a)
      BY <1>1, <2>1 DEF IsToken
    <2>3. QED
      BY <2>2, TokensNow DEF TokensAre
  <1>3. Tokens' \subseteq (Tokens \ {a}) \cup {}
    <2>1. ASSUME NEW t, t \in Tokens'
          PROVE  t \in Tokens /\ t # a
      <3>1. CASE t \in Tokens /\ t[1] # c
        BY <3>1
      <3>2. ASSUME NEW k \in 0..Len(reply'[c]), NEW j \in 1..3, t = <<c, k, j>>,
                   k = 0 => j <= Share(at'[c])
            PROVE  t \in Tokens /\ t # a
        <4>1. k \in 0..Len(reply[c]) /\ (k = 0 => j <= Share(at[c]))
          BY <1>1, <3>2
        <4>2. t \in Tokens
          BY <3>2, <4>1, TokensNow DEF TokensAre, IsToken
        <4>3. t # a
          BY <1>1, <3>2
        <4>4. QED
          BY <4>2, <4>3
      <3>3. QED
        BY <1>1, <2>1, <3>1, <3>2, TokensOfOthers
    <2>2. QED
      BY <2>1
  <1>4. Started' = Started
    BY <1>1 DEF Started, TypeOK
  <1>5. HasRead' = HasRead /\ HasRead \in 0..2
    BY <1>1, HasReadIs DEF HasRead
  <1>6. Len(inbox) \in Nat /\ Len(inbox') \in Nat /\ Len(inbox') <= Len(inbox) + 1
    BY <1>1, SentLength
  <1>7. Cardinality({a}) = 1 /\ IsFiniteSet({}) /\ Cardinality({}) = 0
    BY FS_Singleton, FS_EmptySet
  <1> HIDE DEF a
  <1>8. (Cardinality({}) + Len(inbox')) + HasRead' <= (Cardinality({a}) + Len(inbox)) + HasRead
    BY <1>5, <1>6, <1>7, SmallArithmetic
  <1>9. QED
    BY <1>2, <1>3, <1>4, <1>7, <1>8, PaidRunning

LEMMA KilledCredit ==
  ASSUME TypeOK, TypeOK', CreditInv, NEW c \in Clients, Killed(c)
  PROVE  CreditInv'
  <1>1. /\ at[c] # "off" /\ at'[c] = "killed" /\ reply'[c] = <<>> /\ inbox' = inbox /\ server' = server
        /\ \A d \in Clients : d # c => at'[d] = at[d] /\ reply'[d] = reply[d]
    BY DEF Killed, TypeOK, Running
  <1>2. Tokens' \subseteq (Tokens \ {}) \cup {}
    <2>1. ASSUME NEW t, t \in Tokens'
          PROVE  t \in Tokens
      <3>1. SUFFICES ASSUME NEW k \in 0..Len(reply'[c]), NEW j \in 1..3, k = 0 => j <= Share(at'[c])
                     PROVE  FALSE
        BY <1>1, <2>1, TokensOfOthers
      <3>2. k = 0 /\ Share(at'[c]) = 0
        BY <1>1, <3>1, EmptySeq, ShareIs
      <3>3. QED
        BY <3>1, <3>2
    <2>2. QED
      BY <2>1
  <1>3. Started' = Started
    BY <1>1 DEF Started, TypeOK
  <1>4. HasRead' = HasRead /\ HasRead \in 0..2
    BY <1>1, HasReadIs DEF HasRead
  <1>5. Len(inbox) \in Nat
    BY LenProperties DEF TypeOK
  <1>6. (Cardinality({}) + Len(inbox')) + HasRead' <= (Cardinality({}) + Len(inbox)) + HasRead
    BY <1>1, <1>4, <1>5, FS_EmptySet, SmallArithmetic
  <1>7. QED
    BY <1>2, <1>3, <1>6, FS_EmptySet, PaidRunning

\* A reply is paid for by what the server has read and the datagram it takes.
LEMMA AnsweredCredit ==
  ASSUME TypeOK, TypeOK', CreditInv, Take, NEW x \in Replies, ReplyTo(Head(inbox).from, x),
         at' = at, server' = "op", server = "options" \/ server = "num2"
  PROVE  CreditInv'
  <1> DEFINE c == Head(inbox).from
             B == Cost(c, Len(reply[c]) + 1)
  <1>1. c \in Clients /\ Len(inbox) \in Nat \ {0} /\ Len(inbox') = Len(inbox) - 1
    BY FirstDatagram DEF Take
  <1>2. PICK n \in Nat : n = Len(reply[c])
    BY <1>1, LenProperties DEF TypeOK
  <1>3. Len(reply'[c]) = n \/ Len(reply'[c]) = n + 1
    <2>1. reply[c] \in Seq(Replies)
      BY <1>1 DEF TypeOK
    <2>2. reply'[c] = reply[c] \/ reply'[c] = Append(reply[c], x)
      BY <1>1 DEF ReplyTo, TypeOK
    <2>3. Len(Append(reply[c], x)) = n + 1
      BY <1>2, <2>1, AppendProperties
    <2>4. QED
      BY <1>2, <2>2, <2>3
  <1>4. \A d \in Clients : d # c => at'[d] = at[d] /\ reply'[d] = reply[d]
    BY <1>1 DEF ReplyTo, TypeOK
  <1> HIDE DEF c
  <1>5. Tokens' \subseteq (Tokens \ {}) \cup B
    <2>1. ASSUME NEW t, t \in Tokens'
          PROVE  t \in Tokens \/ t \in B
      <3>1. SUFFICES ASSUME NEW k \in 0..Len(reply'[c]), NEW j \in 1..3, t = <<c, k, j>>,
                            k = 0 => j <= Share(at'[c])
                     PROVE  t \in Tokens \/ t \in B
        BY <1>1, <1>4, <2>1, TokensOfOthers
      <3>2. CASE k = n + 1
        BY <1>2, <3>1, <3>2 DEF Cost
      <3>3. CASE k # n + 1
        <4>1. k \in 0..Len(reply[c])
          BY <1>2, <1>3, <3>1, <3>3
        <4>2. IsToken(t)
          BY <1>1, <3>1, <4>1 DEF IsToken
        <4>3. QED
          BY <4>2, TokensNow DEF TokensAre
      <3>4. QED
        BY <3>2, <3>3
    <2>2. QED
      BY <2>1
  <1>6. Started' = Started
    BY DEF Started
  <1>7. HasRead = 2 /\ HasRead' = 0
    BY HasReadIs, HasReadNext
  <1>8. IsFiniteSet(B) /\ Cardinality(B) = 3 /\ Cardinality({}) = 0
    BY CostIsThree, FS_EmptySet
  <1> HIDE DEF B
  <1>9. (Cardinality(B) + Len(inbox')) + HasRead' <= (Cardinality({}) + Len(inbox)) + HasRead
    BY <1>1, <1>7, <1>8
  <1>10. QED
    BY <1>5, <1>6, <1>8, <1>9, PaidRunning

\* A step of the server that sends nothing.
LEMMA ReadCredit ==
  ASSUME TypeOK, TypeOK', CreditInv, at' = at, reply' = reply,
         Len(inbox') + HasRead' <= Len(inbox) + HasRead
  PROVE  CreditInv'
  <1>1. Tokens' \subseteq (Tokens \ {}) \cup {}
    BY DEF Tokens
  <1>2. Started' = Started
    BY DEF Started
  <1>3. (Cardinality({}) + Len(inbox')) + HasRead' <= (Cardinality({}) + Len(inbox)) + HasRead
    <2>1. PICK n \in Nat, m \in Nat : n = Len(inbox) /\ m = Len(inbox')
      BY LenProperties DEF TypeOK
    <2>2. PICK h \in 0..2, h1 \in 0..2 : h = HasRead /\ h1 = HasRead'
      BY HasReadIs, HasReadNext
    <2>3. (0 + m) + h1 <= (0 + n) + h
      BY <2>1, <2>2
    <2>4. QED
      BY <2>1, <2>2, <2>3, FS_EmptySet
  <1>4. QED
    BY <1>1, <1>2, <1>3, FS_EmptySet, PaidRunning

LEMMA CreditStep == TypeOK /\ SocketInv /\ CreditInv /\ [Next]_vars => CreditInv'
  <1> SUFFICES ASSUME TypeOK, SocketInv, CreditInv, [Next]_vars PROVE CreditInv'
    OBVIOUS
  <1> TypeOK'
    BY TypeStep
  <1>1. ASSUME NEW c \in Clients, AskOptions(c)
        PROVE  CreditInv'
    BY <1>1, AskOptionsCredit
  <1>2. ASSUME NEW c \in Clients, RecvOptions(c)
        PROVE  CreditInv'
    <2>1. reply[c] # <<>> /\ reply'[c] = Tail(reply[c])
      BY <1>2 DEF RecvOptions, TypeOK
    <2>2. QED
      BY <1>2, <2>1, RecvCredit
  <1>3. ASSUME NEW c \in Clients, SendRequest(c)
        PROVE  CreditInv'
    BY <1>3, SendRequestCredit
  <1>4. ASSUME NEW c \in Clients, RecvAnswer(c)
        PROVE  CreditInv'
    <2>1. reply[c] # <<>> /\ reply'[c] = <<>>
      BY <1>4 DEF RecvAnswer, TypeOK
    <2>2. QED
      BY <1>4, <2>1, RecvCredit
  <1>5. ASSUME NEW c \in Clients, Killed(c)
        PROVE  CreditInv'
    BY <1>5, KilledCredit
  <1>6. CASE StartServer
    <2>1. /\ server = "off" /\ server' = "options" /\ inbox' = inbox /\ at' = at /\ reply' = reply
          /\ Len(inbox) \in Nat
      BY <1>6, LenProperties DEF StartServer, TypeOK
    <2>2. HasRead = 2 /\ HasRead' = 2
      BY <2>1, HasReadIs, HasReadNext
    <2>3. QED
      BY <2>1, <2>2, ReadCredit
  <1>7. CASE SendOptions
    <2>1. Menu \in Replies
      BY DEF Replies
    <2>2. QED
      BY <1>7, <2>1, AnsweredCredit DEF SendOptions
  <1>8. CASE RecvOperands
    <2>1. Take /\ at' = at /\ reply' = reply
      BY <1>8 DEF RecvOperands
    <2>2. Len(inbox) \in Nat \ {0} /\ Len(inbox') = Len(inbox) - 1
      BY <2>1, FirstDatagram DEF Take
    <2>3. \/ HasRead = 0 /\ HasRead' = 1
          \/ HasRead = 1 /\ HasRead' = 2
      BY <1>8, HasReadIs, HasReadNext DEF RecvOperands
    <2>4. QED
      BY <2>1, <2>2, <2>3, ReadCredit
  <1>9. CASE SendAnswer
    <2> DEFINE d == Head(inbox)
    <2>1. /\ server = "num2" /\ server' = "op" /\ Take /\ at' = at /\ ~Division(d.n)
          /\ ReplyTo(d.from, Answer(Result(reg.op, reg.num1, d.n)))
      BY <1>9 DEF SendAnswer, LoopHead
    <2>2. reg.op \in Int32 /\ reg.num1 \in Int32 /\ d.n \in Int32
      BY <2>1, FirstDatagram DEF Take, TypeOK
    <2>3. Result(reg.op, reg.num1, d.n) \in Int32
      BY <2>1, <2>2, ResultIsInt DEF Division
    <2>4. Answer(Result(reg.op, reg.num1, d.n)) \in Replies
      BY <2>3 DEF Replies
    <2>5. QED
      BY <2>1, <2>4, AnsweredCredit
  <1>10. CASE DiesDividing
    <2>1. /\ server = "num2" /\ server' = "down" /\ inbox' = <<>> /\ at' = at /\ reply' = reply
          /\ Len(inbox) \in Nat
      BY <1>10, LenProperties DEF DiesDividing, TypeOK
    <2>2. HasRead = 2 /\ HasRead' = 0 /\ Len(inbox') = 0
      BY <2>1, HasReadIs, HasReadNext, EmptySeq
    <2>3. QED
      BY <2>1, <2>2, ReadCredit
  <1>11. CASE UNCHANGED vars
    BY <1>11 DEF vars, CreditInv, Started, Tokens, HasRead
  <1>12. QED
    BY <1>1, <1>2, <1>3, <1>4, <1>5, <1>6, <1>7, <1>8, <1>9, <1>10, <1>11 DEF Next, Waiting

LEMMA CreditInit == Init => CreditInv
  <1> SUFFICES ASSUME Init PROVE CreditInv
    OBVIOUS
  <1>1. Started = {} /\ HasRead = 2 /\ Len(inbox) = 0
    BY HasReadIs, EmptySeq DEF Init, Started
  <1>2. Tokens = {}
    <2>1. ASSUME NEW t, IsToken(t)
          PROVE  FALSE
      <3>1. PICK c \in Clients : \E k \in 0..Len(reply[c]), j \in 1..3 : k = 0 => j <= Share(at[c])
        BY <2>1 DEF IsToken
      <3>2. PICK k \in 0..Len(reply[c]), j \in 1..3 : k = 0 => j <= Share(at[c])
        BY <3>1
      <3>3. at[c] = "off" /\ reply[c] = <<>>
        BY DEF Init
      <3>4. k = 0 /\ Share(at[c]) = 0
        BY <3>3, EmptySeq, ShareIs
      <3>5. QED
        BY <3>2, <3>4
    <2>2. QED
      BY <2>1, TokensNow DEF TokensAre
  <1>3. QED
    BY <1>1, <1>2, FS_EmptySet DEF CreditInv

\* Every client that is done has got three datagrams more than it is owed.
LEMMA DoneHasPaid ==
  ASSUME TypeOK, CreditInv
  PROVE  IsFiniteSet(Done) /\ 3 * Cardinality(Done) <= Cardinality(Tokens)
  <1>1. IsFiniteSet(Done)
    <2>1. Done \subseteq Started
      BY DEF Done, Started
    <2>2. QED
      BY <2>1, FS_Subset DEF CreditInv
  <1>2. IsFiniteSet(1..3) /\ Cardinality(1..3) = 3
    <2>1. 1..3 = {1, 2, 3}
      OBVIOUS
    <2>2. PICK a, b, d : a = 1 /\ b = 2 /\ d = 3
      OBVIOUS
    <2>3. IsFiniteSet({a, b, d}) /\ Cardinality({a, b, d}) = 3
      <3>1. a # b /\ b # d /\ a # d
        BY <2>2
      <3>2. QED
        BY <3>1, ThreeElements
    <2>4. 1..3 = {a, b, d}
      BY <2>1, <2>2
    <2>5. QED
      BY <2>3, <2>4
  <1>3. /\ Cardinality(Done) \in Nat
        /\ Cardinality(Done \X (1..3)) = Cardinality(Done) * 3
    BY <1>1, <1>2, FS_Product, FS_CardinalityType
  <1> DEFINE f == [p \in Done \X (1..3) |-> <<p[1], 0, p[2]>>]
  <1>4. f \in Injection(Done \X (1..3), Tokens)
    <2>1. ASSUME NEW p \in Done \X (1..3)
          PROVE  f[p] \in Tokens
      <3>1. PICK c \in Done, j \in 1..3 : p = <<c, j>>
        OBVIOUS
      <3>2. c \in Clients /\ Share(at[c]) = 3 /\ 0 \in 0..Len(reply[c])
        BY ShareIs, LenProperties DEF Done, TypeOK
      <3>3. IsToken(<<c, 0, j>>)
        BY <3>2 DEF IsToken
      <3>4. QED
        BY <3>1, <3>3, TokensNow DEF TokensAre
    <2>2. ASSUME NEW p \in Done \X (1..3), NEW q \in Done \X (1..3), f[p] = f[q]
          PROVE  p = q
      BY <2>2
    <2>3. f \in [Done \X (1..3) -> Tokens]
      BY <2>1
    <2>4. \A p, q \in Done \X (1..3) : f[p] = f[q] => p = q
      BY <2>2
    <2> HIDE DEF f
    <2>5. QED
      BY <2>3, <2>4 DEF Injection, IsInjective
  <1>5. Cardinality(Done \X (1..3)) <= Cardinality(Tokens)
    <2>1. IsFiniteSet(Tokens)
      BY DEF CreditInv
    <2> HIDE DEF f
    <2>2. QED
      BY <1>4, <2>1, FS_Injection
  <1>6. QED
    BY <1>1, <1>3, <1>5

\* However the clients are timed, and whether they are killed: at most one in
\* three of those that have started, rounded up, has got an answer.
THEOREM OneInThreeAnswered == Spec => []OneInThree
  <1>1. Init => TypeOK /\ SocketInv /\ CreditInv
    BY TypeInit, StartInit, CreditInit
  <1>2. TypeOK /\ SocketInv /\ CreditInv /\ [Next]_vars => TypeOK' /\ SocketInv' /\ CreditInv'
    BY TypeStep, SocketStep, CreditStep
  <1>3. TypeOK /\ CreditInv => OneInThree
    <2> SUFFICES ASSUME TypeOK, CreditInv PROVE OneInThree
      OBVIOUS
    <2>1. PICK d \in Nat, t \in Nat, s \in Nat, n \in Nat, h \in 0..2 :
            /\ d = Cardinality(Done) /\ t = Cardinality(Tokens) /\ s = Cardinality(Started)
            /\ n = Len(inbox) /\ h = HasRead
      BY DoneHasPaid, FS_CardinalityType, LenProperties, HasReadIs DEF CreditInv, TypeOK
    <2>2. 3 * d <= t /\ (t + n) + h <= s + 2
      BY <2>1, DoneHasPaid DEF CreditInv
    <2>3. 3 * d <= s + 2
      BY ONLY <2>2, d \in Nat, t \in Nat, s \in Nat, n \in Nat, h \in 0..2
    <2>4. QED
      BY <2>1, <2>3 DEF OneInThree
  <1>4. QED
    BY <1>1, <1>2, <1>3, PTL DEF Spec

=============================================================================
