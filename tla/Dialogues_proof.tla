--------------------------- MODULE Dialogues_proof ---------------------------
(***************************************************************************)
(* Theorems about Dialogues, for any clients, servers, users and range of  *)
(* ints: its types, whose answer a client takes for its own, and who may   *)
(* wait for ever.                                                          *)
(***************************************************************************)
EXTENDS Dialogues, SequenceLemmas

----------------------------------------------------------------------------
(* The operations *)

LEMMA IntRange == /\ Least \in Int /\ Least < 0 /\ Span \in Nat /\ Span > 0
                  /\ Int32 = Least..INT_MAX /\ Int32 \subseteq Int
                  /\ Least + Span = INT_MAX + 1 /\ 0 \in Int32
  BY IntAssumption DEF Least, Span, Int32

\* Wrap yields the int that differs by a multiple of the number of ints.
LEMMA WrapWraps ==
  ASSUME NEW x \in Int
  PROVE  Wrap(x) \in Int32 /\ IsWrapped(Wrap(x), x)
  <1>1. /\ Wrap(x) \in Int /\ Least <= Wrap(x) /\ Wrap(x) <= Least + Span - 1
        /\ (Wrap(x) - x) % Span = 0
    BY IntRange, WrapAround DEF Wrap
  <1>2. QED
    BY <1>1, IntRange, IntAssumption DEF IsWrapped

LEMMA WrapIsIdentity ==
  ASSUME NEW x \in Int32
  PROVE  Wrap(x) = x
  <1>1. x - Least \in 0..(Span - 1)
    BY IntRange, IntAssumption
  <1>2. (x - Least) % Span = x - Least
    <2>1. PICK n \in Nat : n = Span /\ n > 0
      BY IntRange
    <2>2. PICK y \in 0..(n - 1) : y = x - Least
      BY <1>1, <2>1
    <2>3. y % n = y
      BY <2>1
    <2>4. QED
      BY <2>1, <2>2, <2>3
  <1>3. QED
    BY <1>2, IntRange DEF Wrap

\* C's division.
LEMMA QuotientDivides ==
  ASSUME NEW a \in Int32, NEW b \in Int32, ~RaisesFpe(a, b)
  PROVE  Quotient(a, b) \in Int32 /\ IsQuotient(Quotient(a, b), a, b)
  <1>1. a \in Int /\ b \in Int /\ b # 0
    BY IntRange DEF RaisesFpe
  <1>2. PICK t : t = Quotient(a, b)
    OBVIOUS
  <1>3. Truncated(a, b) = t /\ \A x : Abs(x) = Magnitude(x)
    BY <1>2 DEF Truncated, Quotient, Abs, Magnitude
  <1>4. /\ t \in Int /\ t <= Magnitude(a) /\ -t <= Magnitude(a)
        /\ t > 0 /\ t = Magnitude(a) => (a < 0 /\ b = -1) \/ (a > 0 /\ b = 1)
        /\ Magnitude(t * b) <= Magnitude(a) /\ Magnitude(a - t * b) < Magnitude(b)
    BY <1>1, <1>3, TruncatedQuotient
  <1>5. IsQuotient(t, a, b)
    BY <1>3, <1>4 DEF IsQuotient
  <1>6. t \in Int32
    <2>1. a >= Least /\ a <= INT_MAX /\ Least = -INT_MAX - 1 /\ INT_MAX \in Int
      BY IntAssumption, IntRange DEF Least
    <2>2. t >= Least /\ t <= INT_MAX + 1
      BY <1>1, <1>4, <2>1 DEF Magnitude
    <2>3. t # INT_MAX + 1
      <3>1. SUFFICES ASSUME t = INT_MAX + 1 PROVE FALSE
        OBVIOUS
      <3>2. t > 0 /\ Magnitude(a) = t /\ a = Least
        BY <1>1, <1>4, <2>1, <3>1, IntAssumption DEF Magnitude
      <3>3. b = -1
        BY <1>4, <3>2, IntRange
      <3>4. QED
        BY <3>2, <3>3 DEF RaisesFpe
    <2>4. QED
      BY <1>4, <2>1, <2>2, <2>3 DEF Int32
  <1>7. QED
    BY <1>2, <1>5, <1>6

\* What may be in an int variable, and what the server computes.
LEMMA IntSets ==
  /\ Junk \subseteq Int32 /\ Int32 \subseteq Int
  /\ \A w \in Wishes : w.op \in Int32 /\ w.num1 \in Int32 /\ w.num2 \in Int32
  BY DialoguesAssumption, IntRange

IntVars == [op : Int32, num1 : Int32, num2 : Int32, ans : Int32]

LEMMA ResultIsRight ==
  ASSUME NEW m \in IntVars, Known(m), ~Fatal(m)
  PROVE  Result(m) \in Int32 /\ Right(m, Result(m))
  <1>1. m.op \in 1..4 /\ m.num1 \in Int /\ m.num2 \in Int /\ m.num1 \in Int32 /\ m.num2 \in Int32
    BY IntRange DEF Known, IntVars
  <1>2. CASE m.op = 1
    <2>1. PICK x \in Int : x = m.num1 + m.num2
      BY <1>1
    <2>2. Result(m) = Wrap(x)
      BY <1>2, <2>1 DEF Result
    <2>3. Wrap(x) \in Int32 /\ IsWrapped(Wrap(x), x)
      BY WrapWraps
    <2>4. QED
      BY <1>2, <2>1, <2>2, <2>3 DEF Right
  <1>3. CASE m.op = 2
    <2>1. PICK x \in Int : x = m.num1 - m.num2
      BY <1>1
    <2>2. Result(m) = Wrap(x)
      BY <1>3, <2>1 DEF Result
    <2>3. Wrap(x) \in Int32 /\ IsWrapped(Wrap(x), x)
      BY WrapWraps
    <2>4. QED
      BY <1>3, <2>1, <2>2, <2>3 DEF Right
  <1>4. CASE m.op = 3
    <2>1. PICK x \in Int : x = m.num1 * m.num2
      BY <1>1
    <2>2. Result(m) = Wrap(x)
      BY <1>4, <2>1 DEF Result
    <2>3. Wrap(x) \in Int32 /\ IsWrapped(Wrap(x), x)
      BY WrapWraps
    <2>4. QED
      BY <1>4, <2>1, <2>2, <2>3 DEF Right
  <1>5. CASE m.op = 4
    <2>1. ~RaisesFpe(m.num1, m.num2)
      BY <1>5 DEF Fatal
    <2>2. PICK x : x = Quotient(m.num1, m.num2)
      OBVIOUS
    <2>3. x \in Int32 /\ IsQuotient(x, m.num1, m.num2)
      BY <1>1, <2>1, <2>2, QuotientDivides
    <2>4. Result(m) = Wrap(x)
      BY <1>5, <2>2 DEF Result
    <2>5. Wrap(x) = x
      BY <2>3, WrapIsIdentity
    <2>6. QED
      BY <1>5, <2>3, <2>4, <2>5 DEF Right
  <1>6. QED
    BY <1>1, <1>2, <1>3, <1>4, <1>5

----------------------------------------------------------------------------
(* Sequences of one text or two *)

LEMMA OnlyText ==
  ASSUME NEW S, NEW s \in Seq(S), Len(s) = 1
  PROVE  s[1] \in S /\ s = <<s[1]>>
  <1>1. 1 \in 1..Len(s) /\ s[1] \in S
    BY ElementOfSeq
  <1>2. PICK x : x = s[1]
    OBVIOUS
  <1>3. <<x>> \in Seq(S) /\ Len(<<x>>) = 1 /\ <<x>>[1] = x
    BY <1>1, <1>2
  <1>4. \A i \in 1..Len(s) : s[i] = <<x>>[i]
    BY <1>2
  <1>5. s = <<x>>
    BY <1>3, <1>4, SeqEqual
  <1>6. QED
    BY <1>1, <1>2, <1>5

LEMMA BothTexts ==
  ASSUME NEW S, NEW s \in Seq(S), Len(s) = 2
  PROVE  s[1] \in S /\ s[2] \in S /\ s = <<s[1], s[2]>>
  <1>1. s[1] \in S /\ s[2] \in S
    BY ElementOfSeq
  <1>2. PICK x, y : x = s[1] /\ y = s[2]
    OBVIOUS
  <1>3. <<x, y>> \in Seq(S) /\ Len(<<x, y>>) = 2 /\ <<x, y>>[1] = x /\ <<x, y>>[2] = y
    BY <1>1, <1>2
  <1>4. \A i \in 1..Len(s) : s[i] = <<x, y>>[i]
    <2>1. \A i \in 1..Len(s) : i = 1 \/ i = 2
      OBVIOUS
    <2>2. QED
      BY <1>2, <1>3, <2>1
  <1>5. s = <<x, y>>
    BY <1>3, <1>4, SeqEqual
  <1>6. QED
    BY <1>1, <1>2, <1>5

LEMMA OneText ==
  ASSUME NEW S, NEW x \in S
  PROVE  /\ <<x>> \in Seq(S)
         /\ Len(<<x>>) = 1
         /\ <<x>> # <<>>
         /\ <<x>>[1] = x
         /\ Head(<<x>>) = x
         /\ Tail(<<x>>) = <<>>
         /\ Append(<<>>, x) = <<x>>
         /\ SubSeq(<<x>>, 1, 1) = <<x>>
         /\ SubSeq(<<x>>, 2, 1) = <<>>
  <1>1. <<x>> \in Seq(S)
    OBVIOUS
  <1>2. Len(<<x>>) = 1
    OBVIOUS
  <1>3. <<x>> # <<>>
    OBVIOUS
  <1>4. <<x>>[1] = x
    OBVIOUS
  <1>5. Head(<<x>>) = x
    OBVIOUS
  <1>6. Tail(<<x>>) = <<>>
    OBVIOUS
  <1>7. Append(<<>>, x) = <<x>>
    OBVIOUS
  <1>8. SubSeq(<<x>>, 1, 1) = <<x>>
    BY <1>1, <1>2, SubSeqFull
  <1>9. SubSeq(<<x>>, 2, 1) = <<>>
    OBVIOUS
  <1>10. QED
    BY <1>1, <1>2, <1>3, <1>4, <1>5, <1>6, <1>7, <1>8, <1>9

LEMMA TwoTexts ==
  ASSUME NEW S, NEW x \in S, NEW y \in S
  PROVE  /\ <<x, y>> \in Seq(S)
         /\ Len(<<x, y>>) = 2
         /\ <<x, y>> # <<>>
         /\ <<x, y>>[1] = x
         /\ Head(<<x, y>>) = x
         /\ Tail(<<x, y>>) = <<y>>
         /\ Append(<<x>>, y) = <<x, y>>
         /\ SubSeq(<<x, y>>, 1, 1) = <<x>>
         /\ SubSeq(<<x, y>>, 2, 2) = <<y>>
         /\ SubSeq(<<x, y>>, 1, 2) = <<x, y>>
         /\ SubSeq(<<x, y>>, 3, 2) = <<>>
  <1>1. <<x, y>> \in Seq(S)
    OBVIOUS
  <1>2. Len(<<x, y>>) = 2
    OBVIOUS
  <1>3. <<x, y>> # <<>>
    OBVIOUS
  <1>4. <<x, y>>[1] = x
    OBVIOUS
  <1>5. Head(<<x, y>>) = x
    OBVIOUS
  <1>6. Tail(<<x, y>>) = <<y>>
    OBVIOUS
  <1>7. Append(<<x>>, y) = <<x, y>>
    <2>1. <<x>> \in Seq(S) /\ Len(<<x>>) = 1 /\ <<x>>[1] = x
      BY OneText
    <2>2. PICK z : z = Append(<<x>>, y)
      OBVIOUS
    <2>3. z \in Seq(S) /\ Len(z) = 2 /\ z[1] = x /\ z[2] = y
      BY <2>1, <2>2, AppendProperties
    <2>4. QED
      BY <2>2, <2>3, BothTexts
  <1>8. SubSeq(<<x, y>>, 1, 1) = <<x>>
    <2>1. PICK s, z : s = <<x, y>> /\ z = SubSeq(s, 1, 1)
      OBVIOUS
    <2>2. s[1] \in S /\ \A i \in 1..1 : s[i] \in S
      BY <2>1
    <2>3. z \in Seq(S) /\ Len(z) = 1 - 1 + 1 /\ \A i \in 1..(1 - 1 + 1) : z[i] = s[1 + i - 1]
      BY <2>1, <2>2, SubSeqProperties
    <2>4. Len(z) = 1 /\ z[1] = s[1]
      BY <2>3
    <2>5. QED
      BY <2>1, <2>3, <2>4, OnlyText
  <1>9. SubSeq(<<x, y>>, 2, 2) = <<y>>
    <2>1. PICK s, z : s = <<x, y>> /\ z = SubSeq(s, 2, 2)
      OBVIOUS
    <2>2. s[2] \in S /\ \A i \in 2..2 : s[i] \in S
      BY <2>1
    <2>3. z \in Seq(S) /\ Len(z) = 2 - 2 + 1 /\ \A i \in 1..(2 - 2 + 1) : z[i] = s[2 + i - 1]
      BY <2>1, <2>2, SubSeqProperties
    <2>4. Len(z) = 1 /\ z[1] = s[2]
      BY <2>3
    <2>5. QED
      BY <2>1, <2>3, <2>4, OnlyText
  <1>10. SubSeq(<<x, y>>, 1, 2) = <<x, y>>
    BY <1>1, <1>2, SubSeqFull
  <1>11. SubSeq(<<x, y>>, 3, 2) = <<>>
    OBVIOUS
  <1>12. QED
    BY <1>1, <1>2, <1>3, <1>4, <1>5, <1>6, <1>7, <1>8, <1>9, <1>10, <1>11

\* The same for any two texts, whatever set they are of.
LEMMA PairOfTexts ==
  ASSUME NEW x, NEW y
  PROVE  /\ Len(<<x, y>>) = 2 /\ <<x, y>> # <<>>
         /\ Head(<<x, y>>) = x /\ Tail(<<x, y>>) = <<y>>
         /\ Append(<<x>>, y) = <<x, y>>
         /\ SubSeq(<<x, y>>, 1, 1) = <<x>> /\ SubSeq(<<x, y>>, 2, 2) = <<y>>
         /\ SubSeq(<<x, y>>, 1, 2) = <<x, y>> /\ SubSeq(<<x, y>>, 3, 2) = <<>>
  <1>1. PICK S : S = {x, y}
    OBVIOUS
  <1>2. x \in S /\ y \in S
    BY <1>1
  <1>3. QED
    BY <1>2, TwoTexts

LEMMA FieldUpdate ==
  ASSUME NEW r \in IntVars, NEW x \in Int32
  PROVE  /\ [r EXCEPT !["op"] = x] = [r EXCEPT !.op = x] /\ [r EXCEPT !["op"] = x] \in IntVars
         /\ [r EXCEPT !["num1"] = x] = [r EXCEPT !.num1 = x] /\ [r EXCEPT !["num1"] = x] \in IntVars
         /\ [r EXCEPT !["num2"] = x] = [r EXCEPT !.num2 = x] /\ [r EXCEPT !["num2"] = x] \in IntVars
         /\ [r EXCEPT !["ans"] = x] = [r EXCEPT !.ans = x] /\ [r EXCEPT !["ans"] = x] \in IntVars
  BY DEF IntVars

LEMMA EndFacts ==
  /\ \A e \in Ends : \E c \in Clients : (e = Client(c) \/ e = Child(c)) /\ e[2] = c
  /\ \A c \in Clients : /\ Client(c) \in Ends /\ Child(c) \in Ends
                        /\ Client(c)[2] = c /\ Child(c)[2] = c
                        /\ Peer(Client(c)) = Child(c) /\ Peer(Child(c)) = Client(c)
  /\ \A c, d : Client(c) # Child(d) /\ (Client(c) = Client(d) => c = d) /\ (Child(c) = Child(d) => c = d)
  BY DEF Ends, Client, Child, Peer
----------------------------------------------------------------------------
(* What each call does to the processes *)

Texts == Kinds \X Int32
MovingPlaces == Places \ {"off", "gone"}
SockStates == {"none", "open", "eof", "reset", "broken", "closed"}

LEMMA Types ==
  TypeOK <=>
    /\ prog \in Scenarios
    /\ server \in [Servers -> {"off", "up", "busy", "down"}]
    /\ queue \in [Servers -> Seq(Clients)]
    /\ host \in [Clients -> Servers \cup {Nobody}]
    /\ at \in [Ends -> Places]
    /\ sock \in [Ends -> SockStates]
    /\ in \in [Ends -> Seq(Texts)]
    /\ buffer \in [Ends -> Seq(Texts)]
    /\ mem \in [Ends -> IntVars]
  BY DEF TypeOK, Texts, SockStates, IntVars

\* Only the conversation of client c goes on.
Alone(c) ==
  /\ UNCHANGED <<prog, server, queue, host>>
  /\ \A x \in Ends : x[2] # c =>
       /\ at'[x] = at[x] /\ sock'[x] = sock[x] /\ in'[x] = in[x]
       /\ buffer'[x] = buffer[x] /\ mem'[x] = mem[x]

\* The process of end e goes on.
Moves(e) ==
  /\ Alone(e[2])
  /\ at[e] \notin {"off", "gone"} /\ \E l \in MovingPlaces : at' = [at EXCEPT ![e] = l]
  /\ \/ sock' = sock
     \/ sock[e] \in {"eof", "reset"} /\ sock' = [sock EXCEPT ![e] = "broken"]
  /\ in' \in [Ends -> Seq(Texts)] /\ buffer' \in [Ends -> Seq(Texts)] /\ mem' \in [Ends -> IntVars]

LEMMA WriteMoves ==
  ASSUME TypeOK, NEW e \in Ends, at[e] \notin {"off", "gone"}, NEW text \in Texts,
         NEW next \in MovingPlaces, NEW failed \in MovingPlaces,
         Write(e, text, next, failed)
  PROVE  Moves(e) \/ Finish(e)
  <1>1. Peer(e) \in Ends /\ Peer(e)[2] = e[2]
    BY EndFacts
  <1>2. CASE /\ sock[e] = "open" /\ in' = [in EXCEPT ![Peer(e)] = Append(@, text)]
             /\ Go(e, next) /\ UNCHANGED <<sock, buffer, mem>>
    <2>1. Append(in[Peer(e)], text) \in Seq(Texts)
      BY <1>1, Types, AppendProperties
    <2>2. in' \in [Ends -> Seq(Texts)] /\ \A x \in Ends : x[2] # e[2] => in'[x] = in[x]
      BY <1>1, <1>2, <2>1, Types
    <2>3. Alone(e[2])
      BY <1>2, <2>2, Types DEF Go, Alone
    <2>4. QED
      BY <1>2, <2>2, <2>3, Types DEF Go, Moves
  <1>3. CASE /\ sock[e] \in {"open", "eof"}
             /\ Go(e, next) /\ UNCHANGED <<sock, in, buffer, mem>>
    <2>1. Alone(e[2])
      BY <1>3, Types DEF Go, Alone
    <2>2. QED
      BY <1>3, <2>1, Types DEF Go, Moves
  <1>4. ASSUME NEW l \in MovingPlaces, sock[e] \in {"eof", "reset"},
               sock' = [sock EXCEPT ![e] = "broken"], Go(e, l), UNCHANGED <<in, buffer, mem>>
        PROVE  Moves(e)
    <2>1. Alone(e[2])
      BY <1>4, Types DEF Go, Alone
    <2>2. QED
      BY <1>4, <2>1, Types DEF Go, Moves
  <1>5. QED
    BY <1>2, <1>3, <1>4 DEF Write, SigPipe

\* The rest of what has come, and the first k of it.
LEMMA Parts ==
  ASSUME NEW S, NEW s \in Seq(S), NEW k \in 1..Len(s)
  PROVE  SubSeq(s, 1, k) \in Seq(S) /\ SubSeq(s, k + 1, Len(s)) \in Seq(S)
  <1>1. PICK n \in Nat : n = Len(s)
    BY LenProperties
  <1>2. \A i \in 1..n : s[i] \in S
    BY <1>1, ElementOfSeq
  <1>3. PICK m \in Int : m = k + 1
    BY <1>1
  <1>4. (\A i \in 1..k : s[i] \in S) /\ (\A i \in m..n : s[i] \in S) /\ k \in Int
    BY <1>1, <1>2, <1>3
  <1>5. SubSeq(s, 1, k) \in Seq(S) /\ SubSeq(s, m, n) \in Seq(S)
    BY <1>4, SubSeqProperties
  <1>6. QED
    BY <1>1, <1>3, <1>5

\* A call that returned at the end of the stream or after a reset.
LEMMA ReturnedMoves ==
  ASSUME TypeOK, NEW e \in Ends, NEW next \in MovingPlaces, NEW failed \in MovingPlaces,
         Returned(e, next, failed)
  PROVE  /\ \E l \in MovingPlaces : at' = [at EXCEPT ![e] = l]
         /\ sock' = sock \/ (sock[e] \in {"eof", "reset"} /\ sock' = [sock EXCEPT ![e] = "broken"])
         /\ UNCHANGED in
  <1>1. \E l \in MovingPlaces : at' = [at EXCEPT ![e] = l]
    BY DEF Returned, Go
  <1>2. CASE sock[e] = "reset"
    BY <1>1, <1>2 DEF Returned
  <1>3. CASE sock[e] # "reset"
    BY <1>1, <1>3, Types DEF Returned
  <1>4. QED
    BY <1>2, <1>3

LEMMA ReadMoves ==
  ASSUME TypeOK, NEW e \in Ends, at[e] \notin {"off", "gone"},
         NEW next \in MovingPlaces, NEW failed \in MovingPlaces, Read(e, next, failed),
         mem' \in [Ends -> IntVars], \A x \in Ends : x[2] # e[2] => mem'[x] = mem[x]
  PROVE  Moves(e)
  <1>1. ASSUME NEW k \in 1..Len(in[e]), buffer' = [buffer EXCEPT ![e] = SubSeq(in[e], 1, k)],
               in' = [in EXCEPT ![e] = SubSeq(@, k + 1, Len(@))], Go(e, next), UNCHANGED sock
        PROVE  Moves(e)
    <2>1. SubSeq(in[e], 1, k) \in Seq(Texts) /\ SubSeq(in[e], k + 1, Len(in[e])) \in Seq(Texts)
      BY Types, Parts
    <2>2. /\ in' \in [Ends -> Seq(Texts)] /\ buffer' \in [Ends -> Seq(Texts)]
          /\ \A x \in Ends : x[2] # e[2] => in'[x] = in[x] /\ buffer'[x] = buffer[x]
      BY <1>1, <2>1, Types
    <2>3. Alone(e[2])
      BY <1>1, <2>2, Types DEF Go, Alone
    <2>4. QED
      BY <1>1, <2>2, <2>3 DEF Go, Moves
  <1>2. ASSUME buffer' = [buffer EXCEPT ![e] = <<>>], Returned(e, next, failed)
        PROVE  Moves(e)
    <2>1. /\ \E l \in MovingPlaces : at' = [at EXCEPT ![e] = l]
          /\ sock' = sock \/ (sock[e] \in {"eof", "reset"} /\ sock' = [sock EXCEPT ![e] = "broken"])
          /\ UNCHANGED in
      BY <1>2, ReturnedMoves
    <2>2. /\ buffer' \in [Ends -> Seq(Texts)]
          /\ \A x \in Ends : x[2] # e[2] => buffer'[x] = buffer[x]
      BY <1>2, Types
    <2>3. \A x \in Ends : x[2] # e[2] => at'[x] = at[x] /\ sock'[x] = sock[x]
      BY <2>1, Types
    <2>4. Alone(e[2])
      BY <1>2, <2>1, <2>2, <2>3 DEF Returned, Go, Alone
    <2>5. QED
      BY <2>1, <2>2, <2>4, Types DEF Moves
  <1>3. QED
    BY <1>1, <1>2 DEF Read

IntNames == {"op", "num1", "num2", "ans"}

\* An int variable that is assigned.
LEMMA IntAssigned ==
  ASSUME TypeOK, NEW e \in Ends, NEW v \in IntNames, NEW n \in Int32,
         mem' = [mem EXCEPT ![e][v] = n]
  PROVE  mem' \in [Ends -> IntVars] /\ \A x \in Ends : x[2] # e[2] => mem'[x] = mem[x]
  <1>1. PICK r : r = [mem[e] EXCEPT ![v] = n]
    OBVIOUS
  <1>2. r \in IntVars
    BY <1>1, Types, FieldUpdate DEF IntNames
  <1>3. mem' = [mem EXCEPT ![e] = r]
    BY <1>1
  <1>4. QED
    BY <1>2, <1>3, Types

LEMMA ReadIntMoves ==
  ASSUME TypeOK, NEW e \in Ends, at[e] \notin {"off", "gone"},
         NEW v \in IntNames, NEW next \in MovingPlaces, ReadInt(e, v, next)
  PROVE  Moves(e)
  <1>1. CASE /\ in[e] # <<>> /\ mem' = [mem EXCEPT ![e][v] = Head(in[e])[2]]
             /\ in' = [in EXCEPT ![e] = Tail(@)] /\ Go(e, next) /\ UNCHANGED sock
    <2>1. Head(in[e]) \in Texts /\ Tail(in[e]) \in Seq(Texts)
      BY <1>1, Types, HeadTailProperties
    <2>2. Head(in[e])[2] \in Int32
      BY <2>1 DEF Texts
    <2>3. mem' \in [Ends -> IntVars] /\ \A x \in Ends : x[2] # e[2] => mem'[x] = mem[x]
      BY <1>1, <2>2, IntAssigned
    <2>4. in' \in [Ends -> Seq(Texts)] /\ \A x \in Ends : x[2] # e[2] => in'[x] = in[x]
      BY <1>1, <2>1, Types
    <2>5. Alone(e[2])
      BY <1>1, <2>3, <2>4, Types DEF ReadInt, Go, Alone
    <2>6. QED
      BY <1>1, <2>3, <2>4, <2>5, Types DEF ReadInt, Go, Moves
  <1>2. CASE Returned(e, next, next) /\ UNCHANGED mem
    <2>1. /\ \E l \in MovingPlaces : at' = [at EXCEPT ![e] = l]
          /\ sock' = sock \/ (sock[e] \in {"eof", "reset"} /\ sock' = [sock EXCEPT ![e] = "broken"])
          /\ UNCHANGED in
      BY <1>2, ReturnedMoves
    <2>2. \A x \in Ends : x[2] # e[2] => at'[x] = at[x] /\ sock'[x] = sock[x]
      BY <2>1, Types
    <2>3. Alone(e[2])
      BY <1>2, <2>1, <2>2 DEF ReadInt, Returned, Go, Alone
    <2>4. QED
      BY <1>2, <2>1, <2>3, Types DEF ReadInt, Moves
  <1>3. QED
    BY <1>1, <1>2 DEF ReadInt

LEMMA GoMoves ==
  ASSUME TypeOK, NEW e \in Ends, at[e] \notin {"off", "gone"}, NEW l \in MovingPlaces,
         Go(e, l), UNCHANGED <<sock, in, buffer>>,
         mem' \in [Ends -> IntVars], \A x \in Ends : x[2] # e[2] => mem'[x] = mem[x]
  PROVE  Moves(e)
  <1>1. Alone(e[2])
    BY Types DEF Go, Alone
  <1>2. QED
    BY <1>1, Types DEF Go, Moves

----------------------------------------------------------------------------
(* The steps *)

LEMMA MovingPlaceNames ==
  {"menu", "prompt1", "prompt2", "prompt3", "answer", "html", "ack", "silent", "op", "num1",
   "num2", "request", "message", "leave", "showMenu", "ask1", "ask2", "ask3", "compute", "reply",
   "page", "told", "sayOp", "sayNum1", "sayNum2", "sayRequest", "sayMessage"} = MovingPlaces
  BY DEF MovingPlaces, Places, ReadPlaces

LEMMA TextsTyped ==
  /\ Menu \in Texts /\ Bye \in Texts /\ Silence \in Texts
  /\ \A t \in Kinds : Text(t) \in Texts
  /\ \A n \in Int32 : Number(n) \in Texts /\ Answer(n) \in Texts
  /\ \A t \in Messages : t \in Kinds
  /\ {"ask1", "ask2", "request", "html", "hi", "ack", "exit"} \subseteq Kinds
  BY IntRange DEF Menu, Bye, Silence, Text, Number, Answer, Texts, Kinds

LEMMA WishTyped ==
  ASSUME TypeOK, NEW e \in Ends, Wish(e)
  PROVE  mem' \in [Ends -> IntVars] /\ \A x \in Ends : x[2] # e[2] => mem'[x] = mem[x]
  <1>1. PICK w \in Wishes :
          mem' = [mem EXCEPT ![e].op = w.op, ![e].num1 = w.num1, ![e].num2 = w.num2]
    BY DEF Wish
  <1>2. w.op \in Int32 /\ w.num1 \in Int32 /\ w.num2 \in Int32
    BY IntSets
  <1>3. mem[e] \in IntVars
    BY Types
  <1>4. PICK r : r = [mem[e] EXCEPT !.op = w.op, !.num1 = w.num1, !.num2 = w.num2]
    OBVIOUS
  <1>5. r \in IntVars
    BY <1>2, <1>3, <1>4 DEF IntVars
  <1>6. mem' = [mem EXCEPT ![e] = r]
    BY <1>1, <1>3, <1>4, Types
  <1>7. QED
    BY <1>5, <1>6, Types

\* The process of end e goes on or ends.
Runs(e) == at[e] \notin {"off", "gone"} /\ (Moves(e) \/ Finish(e))

\* Client c starts.
Joins(c) ==
  /\ at[Client(c)] = "off" /\ \E l \in MovingPlaces : Connect(c, l)
  /\ mem' \in [Ends -> IntVars] /\ \A x \in Ends : x # Client(c) => mem'[x] = mem[x]

LEMMA MemKept ==
  ASSUME TypeOK, UNCHANGED mem
  PROVE  mem' \in [Ends -> IntVars] /\ \A x \in Ends : mem'[x] = mem[x]
  BY Types

LEMMA BeginJoins ==
  ASSUME TypeOK, NEW c \in Clients, NEW l \in MovingPlaces, Begin(c, l)
  PROVE  Joins(c)
  BY MemKept DEF Begin, Joins, Connect

LEMMA FieldsTyped ==
  ASSUME TypeOK, NEW e \in Ends
  PROVE  mem[e].op \in Int32 /\ mem[e].num1 \in Int32 /\ mem[e].num2 \in Int32 /\ mem[e].ans \in Int32
  BY Types DEF IntVars

LEMMA CalcDialogueRuns ==
  ASSUME TypeOK, NEW e \in Ends, CalcDialogue(e)
  PROVE  Runs(e)
  <1>1. CASE at[e] = "menu" /\ Read(e, "sayOp", "leave") /\ Wish(e)
    BY <1>1, WishTyped, ReadMoves, MovingPlaceNames DEF Runs
  <1>2. CASE at[e] \in {"sayOp", "sayNum1", "sayNum2"} /\ ~Finish(e)
    BY <1>2, WriteMoves, FieldsTyped, TextsTyped, MovingPlaceNames DEF Runs, CalcDialogue
  <1>3. CASE at[e] \in {"prompt1", "prompt2", "answer"}
    BY <1>3, MemKept, ReadMoves, MovingPlaceNames DEF Runs, CalcDialogue
  <1>4. CASE Finish(e) /\ at[e] \notin {"off", "gone"}
    BY <1>4 DEF Runs
  <1>5. QED
    BY <1>1, <1>2, <1>3, <1>4 DEF CalcDialogue

LEMMA AnswerTyped ==
  ASSUME TypeOK, NEW e \in Ends, Known(mem[e]), ~Fatal(mem[e])
  PROVE  Result(mem[e]) \in Int32 /\ Right(mem[e], Result(mem[e])) /\ Answer(Result(mem[e])) \in Texts
  <1>1. mem[e] \in IntVars
    BY Types
  <1>2. QED
    BY <1>1, ResultIsRight, TextsTyped

LEMMA CalcChildRuns ==
  ASSUME TypeOK, NEW e \in Ends, CalcChild(e)
  PROVE  Runs(e)
  <1>1. CASE at[e] \in {"op", "num1", "num2"}
    BY <1>1, ReadIntMoves, MovingPlaceNames DEF Runs, CalcChild, IntNames
  <1>2. CASE at[e] \in {"showMenu", "ask1", "ask2"}
    BY <1>2, WriteMoves, TextsTyped, MovingPlaceNames DEF Runs, CalcChild
  <1>3. CASE at[e] = "reply" /\ ~Finish(e)
    <2>1. CASE Write(e, Bye, "leave", "leave")
      BY <1>3, <2>1, WriteMoves, TextsTyped, MovingPlaceNames DEF Runs
    <2>2. CASE /\ Known(mem[e]) /\ ~Fatal(mem[e])
               /\ Write(e, Answer(Result(mem[e])), "showMenu", "showMenu")
      BY <1>3, <2>2, WriteMoves, AnswerTyped, MovingPlaceNames DEF Runs
    <2>3. QED
      BY <1>3, <2>1, <2>2 DEF CalcChild
  <1>4. CASE Finish(e) /\ at[e] \in {"reply", "leave"}
    BY <1>4 DEF Runs
  <1>5. QED
    BY <1>1, <1>2, <1>3, <1>4 DEF CalcChild

LEMMA MathServiceRuns ==
  ASSUME TypeOK, NEW e \in Ends, MathService(e)
  PROVE  Runs(e)
  <1>1. CASE at[e] \in {"op", "num1", "num2"}
    BY <1>1, ReadIntMoves, MovingPlaceNames DEF Runs, MathService, IntNames
  <1>2. CASE at[e] \in {"ask1", "ask2", "ask3", "reply"}
    BY <1>2, WriteMoves, FieldsTyped, TextsTyped, MovingPlaceNames DEF Runs, MathService
  <1>3. CASE /\ at[e] = "compute" /\ ~Fatal(mem[e])
             /\ mem' = [mem EXCEPT ![e].ans = IF Known(mem[e]) THEN Result(mem[e]) ELSE @]
             /\ Go(e, "reply") /\ UNCHANGED <<sock, in, buffer>>
    <2>1. PICK n : n = IF Known(mem[e]) THEN Result(mem[e]) ELSE mem[e].ans
      OBVIOUS
    <2>2. n \in Int32
      BY <1>3, <2>1, AnswerTyped, FieldsTyped
    <2>3. mem[e] \in IntVars
      BY Types
    <2>4. mem' = [mem EXCEPT ![e] = [mem[e] EXCEPT !.ans = n]]
      BY <1>3, <2>1
    <2>5. mem' \in [Ends -> IntVars] /\ \A x \in Ends : x[2] # e[2] => mem'[x] = mem[x]
      BY <2>2, <2>3, <2>4, Types DEF IntVars
    <2>6. QED
      BY <1>3, <2>5, GoMoves, MovingPlaceNames DEF Runs
  <1>4. CASE Finish(e) /\ at[e] \in {"compute", "leave"}
    BY <1>4 DEF Runs
  <1>5. QED
    BY <1>1, <1>2, <1>3, <1>4 DEF MathService

LEMMA PersistentChildRuns ==
  ASSUME TypeOK, NEW e \in Ends, PersistentChild(e)
  PROVE  Runs(e)
  <1>1. CASE at[e] \in {"request", "message"}
    BY <1>1, MemKept, ReadMoves, MovingPlaceNames DEF Runs, PersistentChild, PersistentReply
  <1>2. CASE at[e] \in {"page", "reply"} /\ ~Finish(e)
    BY <1>2, WriteMoves, TextsTyped, MovingPlaceNames DEF Runs, PersistentChild, PersistentReply
  <1>3. CASE Finish(e) /\ at[e] \in {"reply", "leave", "page"}
    BY <1>3 DEF Runs
  <1>4. QED
    BY <1>1, <1>2, <1>3 DEF PersistentChild, PersistentReply

LEMMA OnePageRuns ==
  ASSUME TypeOK, NEW e \in Ends, NEW t \in Kinds, OnePage(e, t)
  PROVE  Runs(e)
  <1>1. CASE at[e] = "request"
    BY <1>1, MemKept, ReadMoves, MovingPlaceNames DEF Runs, OnePage
  <1>2. CASE at[e] = "page"
    BY <1>2, WriteMoves, TextsTyped, MovingPlaceNames DEF Runs, OnePage
  <1>3. CASE at[e] = "leave" /\ Finish(e)
    BY <1>3 DEF Runs
  <1>4. QED
    BY <1>1, <1>2, <1>3 DEF OnePage

LEMMA ServiceRuns ==
  ASSUME TypeOK, NEW c \in Clients, Service(c)
  PROVE  host[c] # Nobody /\ Runs(Child(c))
  BY CalcChildRuns, MathServiceRuns, PersistentChildRuns, OnePageRuns, EndFacts, TextsTyped
     DEF Service, NonpersistentChild, MultiChild, HelloService

LEMMA MathClientRuns ==
  ASSUME TypeOK, NEW c \in Clients, MathClient(c)
  PROVE  Joins(c) \/ Runs(Client(c))
  <1> DEFINE e == Client(c)
  <1>0. e \in Ends
    BY EndFacts
  <1> HIDE DEF e
  <1>1. CASE Connect(c, "prompt1") /\ \E j \in Junk : mem' = [mem EXCEPT ![e].ans = j]
    <2>1. PICK j \in Junk : mem' = [mem EXCEPT ![e].ans = j]
      BY <1>1
    <2>2. j \in Int32 /\ mem[e] \in IntVars
      BY <1>0, Types, IntSets
    <2>3. mem' \in [Ends -> IntVars] /\ \A x \in Ends : x # e => mem'[x] = mem[x]
      BY <1>0, <2>1, <2>2, Types DEF IntVars
    <2>4. QED
      BY <1>1, <2>3, MovingPlaceNames DEF Joins, Connect, e
  <1>2. CASE at[e] = "prompt1" /\ Read(e, "sayNum1", "leave") /\ Wish(e)
    BY <1>0, <1>2, WishTyped, ReadMoves, MovingPlaceNames DEF Runs, e
  <1>3. CASE \/ at[e] = "sayNum1" /\ Write(e, Number(mem[e].num1), "prompt2", "prompt2")
             \/ at[e] = "sayNum2" /\ Write(e, Number(mem[e].num2), "prompt3", "prompt3")
             \/ at[e] = "sayOp" /\ Write(e, Number(mem[e].op), "told", "told")
    BY <1>0, <1>3, WriteMoves, FieldsTyped, TextsTyped, MovingPlaceNames DEF Runs, e
  <1>4. CASE \/ at[e] = "prompt2" /\ Read(e, "sayNum2", "leave") /\ UNCHANGED mem
             \/ at[e] = "prompt3" /\ Read(e, "sayOp", "leave") /\ UNCHANGED mem
    BY <1>0, <1>4, MemKept, ReadMoves, MovingPlaceNames DEF Runs, e
  <1>5. CASE at[e] = "told" /\ Go(e, "answer") /\ UNCHANGED <<sock, in, buffer, mem>>
    BY <1>0, <1>5, MemKept, GoMoves, MovingPlaceNames DEF Runs, e
  <1>6. CASE at[e] = "answer" /\ ReadInt(e, "ans", "prompt1")
    BY <1>0, <1>6, ReadIntMoves, MovingPlaceNames DEF Runs, IntNames, e
  <1>7. CASE at[e] \in {"leave", "told"} /\ Finish(e)
    BY <1>7 DEF Runs, e
  <1>8. QED
    BY <1>1, <1>2, <1>3, <1>4, <1>5, <1>6, <1>7 DEF MathClient, e

LEMMA PersistentClientRuns ==
  ASSUME TypeOK, NEW c \in Clients, PersistentClient(c)
  PROVE  Joins(c) \/ Runs(Client(c))
  <1> DEFINE e == Client(c)
  <1>0. e \in Ends
    BY EndFacts
  <1> HIDE DEF e
  <1>1. CASE Begin(c, "sayRequest")
    BY <1>1, BeginJoins, MovingPlaceNames
  <1>2. CASE \/ at[e] = "sayRequest" /\ Write(e, Text("request"), "html", "html")
             \/ at[e] = "sayMessage" /\ Write(e, Text("exit"), "leave", "leave")
             \/ at[e] = "sayMessage" /\ \E t \in Messages : Write(e, Text(t), "ack", "ack")
             \/ at[e] = "sayMessage" /\ Write(e, Silence, "silent", "silent")
    <2>1. at[e] \notin {"off", "gone"}
      BY <1>2
    <2>2. PICK text \in Texts, next \in {"html", "leave", "ack", "silent"} : Write(e, text, next, next)
      BY <1>2, TextsTyped
    <2>3. next \in MovingPlaces
      BY <2>2, MovingPlaceNames
    <2>4. QED
      BY <1>0, <2>1, <2>2, <2>3, WriteMoves DEF Runs, e
  <1>3. CASE \/ at[e] = "html" /\ Read(e, "sayMessage", "leave") /\ UNCHANGED mem
             \/ at[e] \in {"ack", "silent"} /\ Read(e, "sayMessage", "leave") /\ UNCHANGED mem
    BY <1>0, <1>3, MemKept, ReadMoves, MovingPlaceNames DEF Runs, e
  <1>4. CASE at[e] = "leave" /\ Finish(e)
    BY <1>4 DEF Runs, e
  <1>5. QED
    BY <1>1, <1>2, <1>3, <1>4 DEF PersistentClient, e

LEMMA OneRequestRuns ==
  ASSUME TypeOK, NEW c \in Clients, OneRequest(c) \/ HelloClient(c)
  PROVE  Joins(c) \/ Runs(Client(c))
  <1> DEFINE e == Client(c)
  <1>0. e \in Ends
    BY EndFacts
  <1> HIDE DEF e
  <1>1. CASE Begin(c, "sayRequest")
    BY <1>1, BeginJoins, MovingPlaceNames
  <1>2. CASE \/ at[e] = "sayRequest" /\ Write(e, Text("request"), "html", "html")
             \/ at[e] = "sayRequest" /\ Write(e, Text("request"), "leave", "leave")
    BY <1>0, <1>2, WriteMoves, TextsTyped, MovingPlaceNames DEF Runs, e
  <1>3. CASE at[e] = "html" /\ Read(e, "leave", "leave") /\ UNCHANGED mem
    BY <1>0, <1>3, MemKept, ReadMoves, MovingPlaceNames DEF Runs, e
  <1>4. CASE at[e] = "leave" /\ Finish(e)
    BY <1>4 DEF Runs, e
  <1>5. QED
    BY <1>1, <1>2, <1>3, <1>4 DEF OneRequest, HelloClient, e

LEMMA CalcClientRuns ==
  ASSUME TypeOK, NEW c \in Clients, CalcClient(c) \/ TemplateClient(c)
  PROVE  Joins(c) \/ Runs(Client(c))
  BY BeginJoins, CalcDialogueRuns, EndFacts, MovingPlaceNames DEF CalcClient, TemplateClient

LEMMA ClientRuns ==
  ASSUME TypeOK, NEW c \in Clients, ClientStep(c) \/ Killed(c)
  PROVE  Joins(c) \/ Runs(Client(c))
  BY CalcClientRuns, MathClientRuns, PersistentClientRuns, OneRequestRuns
     DEF ClientStep, NonpersistentClient, BrowserClient, Killed, Runs

\* A server accepts with a child that is there for it.
Accepts(s) == prog[s] # "template" /\ \E l \in MovingPlaces : Accept(s, l)

LEMMA ServerRuns ==
  ASSUME TypeOK, NEW s \in Servers, ServerStep(s) \/ Stop(s)
  PROVE  Open(s) \/ Accepts(s) \/ (Listening(s) /\ Shutdown(s))
  BY MovingPlaceNames
     DEF ServerStep, Stop, CalcServer, TemplateServer, MathServer, PersistentServer,
         NonpersistentServer, MultiServer, HelloServer, Accepts, Listening

\* Every step is one of these.
Kind ==
  \/ UNCHANGED vars
  \/ \E c \in Clients : Joins(c) \/ Runs(Client(c)) \/ (host[c] # Nobody /\ Runs(Child(c)))
  \/ \E s \in Servers : Open(s) \/ Accepts(s) \/ (Listening(s) /\ Shutdown(s))

LEMMA StepKinds ==
  ASSUME TypeOK, [Next]_vars
  PROVE  Kind
  BY ServiceRuns, ClientRuns, ServerRuns DEF Next, Idle, Kind

----------------------------------------------------------------------------
(* Every variable keeps its type *)

LEMMA TypesNext ==
  TypeOK' <=>
    (/\ prog \in Scenarios
     /\ server \in [Servers -> {"off", "up", "busy", "down"}]
     /\ queue \in [Servers -> Seq(Clients)]
     /\ host \in [Clients -> Servers \cup {Nobody}]
     /\ at \in [Ends -> Places]
     /\ sock \in [Ends -> SockStates]
     /\ in \in [Ends -> Seq(Texts)]
     /\ buffer \in [Ends -> Seq(Texts)]
     /\ mem \in [Ends -> IntVars])'
  BY Types, PTL

LEMMA PlaceKept == MovingPlaces \subseteq Places /\ "gone" \in Places /\ "off" \in Places
  BY DEF MovingPlaces, Places

LEMMA SameTyped ==
  ASSUME NEW n \in Int32
  PROVE  Same(n) \in IntVars
  BY DEF Same, IntVars

LEMMA ForgottenTyped ==
  ASSUME TypeOK, NEW E, Forget(E)
  PROVE  buffer' \in [Ends -> Seq(Texts)] /\ mem' \in [Ends -> IntVars]
  <1>1. buffer' \in [Ends -> Seq(Texts)]
    BY Types, EmptySeq DEF Forget
  <1>2. mem' \in [Ends -> IntVars]
    BY Types, IntRange, SameTyped DEF Forget
  <1>3. QED
    BY <1>1, <1>2

LEMMA EndsClosedTyped ==
  ASSUME TypeOK, NEW E, CloseEnds(E), Forget(E)
  PROVE  /\ sock' \in [Ends -> SockStates] /\ in' \in [Ends -> Seq(Texts)]
         /\ buffer' \in [Ends -> Seq(Texts)] /\ mem' \in [Ends -> IntVars]
  <1>1. sock' \in [Ends -> SockStates]
    BY Types DEF CloseEnds, SockStates
  <1>2. in' \in [Ends -> Seq(Texts)]
    BY Types, EmptySeq DEF CloseEnds
  <1>3. QED
    BY <1>1, <1>2, ForgottenTyped

LEMMA ShutdownTyped ==
  ASSUME TypeOK, NEW s \in Servers, Shutdown(s)
  PROVE  TypeOK'
  <1>1. /\ sock' \in [Ends -> SockStates] /\ in' \in [Ends -> Seq(Texts)]
        /\ buffer' \in [Ends -> Seq(Texts)] /\ mem' \in [Ends -> IntVars]
    BY EndsClosedTyped DEF Shutdown
  <1>2. server' \in [Servers -> {"off", "up", "busy", "down"}]
    BY Types DEF Shutdown
  <1>3. queue' \in [Servers -> Seq(Clients)]
    BY Types, EmptySeq DEF Shutdown
  <1>4. at' \in [Ends -> Places]
    BY Types, PlaceKept DEF Shutdown
  <1>5. prog' \in Scenarios /\ host' \in [Clients -> Servers \cup {Nobody}]
    BY Types DEF Shutdown
  <1>6. QED
    BY <1>1, <1>2, <1>3, <1>4, <1>5, TypesNext

LEMMA ClientFinishes ==
  ASSUME NEW c \in Clients, Finish(Client(c))
  PROVE  /\ at' = [at EXCEPT ![Client(c)] = "gone"]
         /\ CloseEnds({Client(c)}) /\ Forget({Client(c)})
         /\ UNCHANGED <<prog, server, queue, host>>
  BY EndFacts DEF Finish

LEMMA ChildFinishes ==
  ASSUME NEW c \in Clients, Finish(Child(c))
  PROVE  IF Forks(host[c])
         THEN /\ at' = [at EXCEPT ![Child(c)] = "gone"] /\ Forget({Child(c)})
              /\ UNCHANGED <<prog, server, queue, host, sock, in>>
         ELSE Shutdown(host[c])
  BY EndFacts DEF Finish

LEMMA FinishTyped ==
  ASSUME TypeOK, NEW c \in Clients,
         Finish(Client(c)) \/ (host[c] # Nobody /\ Finish(Child(c)))
  PROVE  TypeOK'
  <1>1. CASE Finish(Client(c))
    <2>1. at' \in [Ends -> Places]
      BY <1>1, ClientFinishes, Types, PlaceKept
    <2>2. /\ sock' \in [Ends -> SockStates] /\ in' \in [Ends -> Seq(Texts)]
          /\ buffer' \in [Ends -> Seq(Texts)] /\ mem' \in [Ends -> IntVars]
      BY <1>1, ClientFinishes, EndsClosedTyped
    <2>3. QED
      BY <1>1, <2>1, <2>2, ClientFinishes, Types, TypesNext
  <1>2. CASE host[c] # Nobody /\ Finish(Child(c))
    <2>1. host[c] \in Servers
      BY <1>2, Types
    <2>2. CASE Forks(host[c])
      <3>1. at' \in [Ends -> Places]
        BY <1>2, <2>2, ChildFinishes, Types, PlaceKept
      <3>2. Forget({Child(c)})
        BY <1>2, <2>2, ChildFinishes
      <3>3. buffer' \in [Ends -> Seq(Texts)] /\ mem' \in [Ends -> IntVars]
        BY <3>2, ForgottenTyped
      <3>4. QED
        BY <1>2, <2>2, <3>1, <3>2, <3>3, ChildFinishes, Types, TypesNext
    <2>3. CASE ~Forks(host[c])
      BY <1>2, <2>1, <2>3, ChildFinishes, ShutdownTyped
    <2>4. QED
      BY <2>2, <2>3
  <1>3. QED
    BY <1>1, <1>2

LEMMA MovesTyped ==
  ASSUME TypeOK, NEW e \in Ends, Moves(e)
  PROVE  TypeOK'
  <1>1. at' \in [Ends -> Places]
    BY Types, PlaceKept DEF Moves
  <1>2. sock' \in [Ends -> SockStates]
    BY Types DEF Moves, SockStates
  <1>3. QED
    BY <1>1, <1>2, Types, TypesNext DEF Moves, Alone

LEMMA OpenTyped ==
  ASSUME TypeOK, NEW s \in Servers, Open(s)
  PROVE  TypeOK'
  <1>1. server' \in [Servers -> {"off", "up", "busy", "down"}]
    BY Types DEF Open
  <1>2. QED
    BY <1>1, Types, TypesNext DEF Open

LEMMA AcceptTyped ==
  ASSUME TypeOK, NEW s \in Servers, NEW l \in MovingPlaces, Accept(s, l)
  PROVE  TypeOK'
  <1>1. Head(queue[s]) \in Clients /\ Tail(queue[s]) \in Seq(Clients)
    BY Types, HeadTailProperties DEF Accept
  <1>2. queue' \in [Servers -> Seq(Clients)]
    BY <1>1, Types DEF Accept
  <1>3. server' \in [Servers -> {"off", "up", "busy", "down"}]
    BY Types DEF Accept
  <1>4. at' \in [Ends -> Places]
    BY <1>1, Types, PlaceKept, EndFacts DEF Accept
  <1>5. mem' \in [Ends -> IntVars]
    <2>1. PICK j \in Junk : mem' = [mem EXCEPT ![Child(Head(queue[s]))] = Same(j)]
      BY DEF Accept
    <2>2. Same(j) \in IntVars
      BY IntSets, SameTyped
    <2>3. QED
      BY <2>1, <2>2, Types
  <1>6. QED
    BY <1>2, <1>3, <1>4, <1>5, Types, TypesNext DEF Accept

LEMMA JoinsTyped ==
  ASSUME TypeOK, NEW c \in Clients, Joins(c)
  PROVE  TypeOK'
  <1>1. PICK l \in MovingPlaces : Connect(c, l)
    BY DEF Joins
  <1>2. at' \in [Ends -> Places]
    BY <1>1, Types, PlaceKept DEF Connect
  <1>3. host' \in [Clients -> Servers \cup {Nobody}]
    BY <1>1, Types DEF Connect
  <1>4. sock' \in [Ends -> SockStates]
    BY <1>1, Types DEF Connect, SockStates
  <1>5. queue' \in [Servers -> Seq(Clients)]
    <2>1. ASSUME NEW s \in Servers, queue' = [queue EXCEPT ![s] = Append(@, c)]
          PROVE  queue' \in [Servers -> Seq(Clients)]
      <3>1. Append(queue[s], c) \in Seq(Clients)
        BY Types, AppendProperties
      <3>2. QED
        BY <2>1, <3>1, Types
    <2>2. QED
      BY <1>1, <2>1, Types DEF Connect
  <1>6. QED
    BY <1>1, <1>2, <1>3, <1>4, <1>5, Types, TypesNext DEF Connect, Joins

LEMMA TypeStep ==
  ASSUME TypeOK, [Next]_vars
  PROVE  TypeOK'
  <1>1. Kind
    BY StepKinds
  <1>2. CASE UNCHANGED vars
    BY <1>2, Types, TypesNext DEF vars
  <1>3. QED
    BY <1>1, <1>2, JoinsTyped, MovesTyped, FinishTyped, OpenTyped, AcceptTyped, ShutdownTyped, EndFacts
       DEF Kind, Runs, Accepts

LEMMA InitTypes ==
  ASSUME Init
  PROVE  TypeOK
  <1>1. <<>> \in Seq(Texts) /\ <<>> \in Seq(Clients) /\ Same(0) \in IntVars
    BY IntRange, EmptySeq, SameTyped
  <1>2. QED
    BY <1>1, PlaceKept, Types DEF Init, SocketsInit, SockStates

\* The types of all variables.  With them, every int fits into its width
\* although what the calculators compute may wrap around; the divisions that
\* do not fit end the process before anything is assigned (calc-multiserver.c,
\* line 114; math-server.c, line 82).
THEOREM DialogueTypes == Spec => []TypeOK
  <1>1. TypeOK /\ [Next]_vars => TypeOK'
    BY TypeStep
  <1>2. QED
    BY InitTypes, <1>1, PTL DEF Spec

----------------------------------------------------------------------------
(* Connections *)

\* A connection: who is gone has closed it, a server that is down has closed
\* all of its own, and between processes that are there it is open.
Conn(c) ==
  /\ server[host[c]] # "off" /\ at[Client(c)] # "off"
  /\ at[Client(c)] = "gone" <=> sock[Client(c)] = "closed"
  /\ at[Client(c)] = "gone" => sock[Child(c)] # "open"
  /\ at[Client(c)] # "gone" /\ Listening(host[c]) => sock[Client(c)] = "open" /\ sock[Child(c)] = "open"
  /\ ~Listening(host[c]) => sock[Client(c)] # "open" /\ sock[Child(c)] = "closed" /\ at[Child(c)] = "gone"
  /\ at[Child(c)] = "gone" /\ Listening(host[c]) => Forks(host[c])
  /\ prog[host[c]] = "template" /\ Listening(host[c]) => at[Child(c)] = "off"

\* A client that is not connected.
NoConn(c) ==
  /\ at[Client(c)] \in {"off", "gone"} /\ at[Child(c)] = "off"
  /\ in[Client(c)] = <<>> /\ in[Child(c)] = <<>> /\ buffer[Client(c)] = <<>>
  /\ at[Client(c)] = "off" => ~Known(mem[Client(c)])

\* Who waits to be accepted, and waits once.
Waits(s) ==
  \A i \in 1..Len(queue[s]) :
    /\ host[queue[s][i]] = s /\ at[Child(queue[s][i])] = "off" /\ Listening(s)
    /\ \A j \in 1..Len(queue[s]) : queue[s][i] = queue[s][j] => i = j

SocketInv ==
  /\ \A c \in Clients : (host[c] = Nobody => NoConn(c)) /\ (host[c] # Nobody => Conn(c))
  /\ \A s \in Servers : Waits(s)

\* What a step leaves alone in the conversation of client c.
Undisturbed(c) ==
  /\ prog' = prog /\ host'[c] = host[c]
  /\ host[c] # Nobody =>
       /\ server[host[c]] # "off" => server'[host[c]] # "off"
       /\ server'[host[c]] \in {"up", "busy"} <=> server[host[c]] \in {"up", "busy"}
  /\ \A x \in {Client(c), Child(c)} :
       /\ at'[x] = at[x] /\ sock'[x] = sock[x] /\ in'[x] = in[x]
       /\ buffer'[x] = buffer[x] /\ mem'[x] = mem[x]

LEMMA UndisturbedConn ==
  ASSUME NEW c \in Clients, Undisturbed(c)
  PROVE  (NoConn(c) => NoConn(c)') /\ (host[c] # Nobody /\ Conn(c) => Conn(c)')
  <1>1. NoConn(c) => NoConn(c)'
    BY DEF Undisturbed, NoConn, Known
  <1>2. host[c] # Nobody /\ Conn(c) => Conn(c)'
    BY DEF Undisturbed, Conn, Listening, Forks
  <1>3. QED
    BY <1>1, <1>2

LEMMA AloneLeaves ==
  ASSUME NEW c \in Clients, NEW d \in Clients, d # c, Alone(c)
  PROVE  Undisturbed(d)
  BY EndFacts DEF Alone, Undisturbed

LEMMA OpenLeaves ==
  ASSUME TypeOK, NEW s \in Servers, Open(s), NEW d \in Clients, host[d] # Nobody => server[host[d]] # "off"
  PROVE  Undisturbed(d)
  <1>1. s # Nobody /\ \A t \in Servers : t # s => server'[t] = server[t]
    BY SocketsAssumption, Types DEF Open
  <1>2. host[d] # Nobody => host[d] \in Servers /\ host[d] # s
    BY Types DEF Open
  <1>3. QED
    BY <1>1, <1>2 DEF Open, Undisturbed

\* What the end of server s does to client d.
LEMMA ShutdownEffect ==
  ASSUME TypeOK, NEW s \in Servers, Shutdown(s), NEW d \in Clients
  PROVE  /\ host[d] # s => Undisturbed(d)
         /\ host[d] = s =>
              /\ prog' = prog /\ host'[d] = s /\ server'[s] = "down"
              /\ at'[Child(d)] = "gone" /\ sock'[Child(d)] = "closed"
              /\ at'[Client(d)] = at[Client(d)] /\ in'[Client(d)] = in[Client(d)]
              /\ buffer'[Client(d)] = buffer[Client(d)] /\ mem'[Client(d)] = mem[Client(d)]
              /\ sock'[Client(d)] # "open"
              /\ sock[Client(d)] # "open" => sock'[Client(d)] = sock[Client(d)]
              /\ sock[Client(d)] = "open" => sock'[Client(d)] \in {"eof", "reset"}
  <1> DEFINE E == EndsOf(s)
  <1>1. /\ Client(d) \in Ends /\ Child(d) \in Ends
        /\ Peer(Client(d)) = Child(d) /\ Peer(Child(d)) = Client(d)
    BY EndFacts
  <1>2. Client(d) \notin E /\ (Child(d) \in E <=> host[d] = s)
    BY EndFacts DEF EndsOf
  <1> HIDE DEF E
  <1>3. /\ at' = [e \in Ends |-> IF e \in E THEN "gone" ELSE at[e]]
        /\ CloseEnds(E) /\ Forget(E)
        /\ server' = [server EXCEPT ![s] = "down"] /\ UNCHANGED <<prog, host>>
    BY DEF Shutdown, E
  <1>4. ASSUME host[d] # s
        PROVE  Undisturbed(d)
    <2>1. host[d] # Nobody => server'[host[d]] = server[host[d]]
      BY <1>3, <1>4, Types
    <2>2. \A x \in {Client(d), Child(d)} : x \in Ends /\ x \notin E /\ Peer(x) \notin E
      BY <1>1, <1>2, <1>4
    <2>3. \A x \in {Client(d), Child(d)} :
            /\ at'[x] = at[x] /\ sock'[x] = sock[x] /\ in'[x] = in[x]
            /\ buffer'[x] = buffer[x] /\ mem'[x] = mem[x]
      BY <1>3, <2>2 DEF CloseEnds, Forget
    <2>4. QED
      BY <1>3, <2>1, <2>3 DEF Undisturbed
  <1>5. ASSUME host[d] = s
        PROVE  /\ at'[Child(d)] = "gone" /\ sock'[Child(d)] = "closed"
               /\ at'[Client(d)] = at[Client(d)] /\ in'[Client(d)] = in[Client(d)]
               /\ buffer'[Client(d)] = buffer[Client(d)] /\ mem'[Client(d)] = mem[Client(d)]
               /\ sock'[Client(d)] # "open"
               /\ sock[Client(d)] # "open" => sock'[Client(d)] = sock[Client(d)]
               /\ sock[Client(d)] = "open" => sock'[Client(d)] \in {"eof", "reset"}
    BY <1>1, <1>2, <1>3, <1>5 DEF CloseEnds, Forget
  <1>6. server'[s] = "down"
    BY <1>3, Types
  <1>7. QED
    BY <1>3, <1>4, <1>5, <1>6

\* What the end of client c does.
LEMMA LeavingEffect ==
  ASSUME TypeOK, NEW c \in Clients, Finish(Client(c)), NEW d \in Clients
  PROVE  /\ d # c => Undisturbed(d)
         /\ UNCHANGED <<prog, server, queue, host>>
         /\ at'[Client(c)] = "gone" /\ sock'[Client(c)] = "closed"
         /\ at'[Child(c)] = at[Child(c)] /\ sock'[Child(c)] # "open"
         /\ sock[Child(c)] = "closed" => sock'[Child(c)] = "closed"
         /\ in'[Client(c)] = <<>> /\ in'[Child(c)] = in[Child(c)] /\ buffer'[Client(c)] = <<>>
  <1> DEFINE E == {Client(c)}
  <1>1. /\ Client(d) \in Ends /\ Child(d) \in Ends /\ Client(c) \in Ends /\ Child(c) \in Ends
        /\ Peer(Client(d)) = Child(d) /\ Peer(Child(d)) = Client(d)
        /\ Peer(Client(c)) = Child(c) /\ Peer(Child(c)) = Client(c)
    BY EndFacts
  <1>2. /\ Client(c) \in E /\ Child(c) \notin E /\ Child(d) \notin E
        /\ d # c => Client(d) \notin E
    BY EndFacts
  <1>3. at' = [at EXCEPT ![Client(c)] = "gone"] /\ \A x : x # Client(c) <=> x \notin E
    BY ClientFinishes
  <1> HIDE DEF E
  <1>4. CloseEnds(E) /\ Forget(E) /\ UNCHANGED <<prog, server, queue, host>>
    BY ClientFinishes DEF E
  <1>5. ASSUME d # c
        PROVE  Undisturbed(d)
    <2>1. \A x \in {Client(d), Child(d)} : x \in Ends /\ x \notin E /\ Peer(x) \notin E
      BY <1>1, <1>2, <1>5
    <2>2. \A x \in {Client(d), Child(d)} :
            /\ at'[x] = at[x] /\ sock'[x] = sock[x] /\ in'[x] = in[x]
            /\ buffer'[x] = buffer[x] /\ mem'[x] = mem[x]
      BY <1>3, <1>4, <2>1, Types DEF CloseEnds, Forget
    <2>3. QED
      BY <1>4, <2>2 DEF Undisturbed
  <1>6. /\ at'[Client(c)] = "gone" /\ sock'[Client(c)] = "closed"
        /\ at'[Child(c)] = at[Child(c)] /\ sock'[Child(c)] # "open"
        /\ sock[Child(c)] = "closed" => sock'[Child(c)] = "closed"
        /\ in'[Client(c)] = <<>> /\ in'[Child(c)] = in[Child(c)] /\ buffer'[Client(c)] = <<>>
    BY <1>1, <1>2, <1>3, <1>4, Types DEF CloseEnds, Forget
  <1>7. QED
    BY <1>4, <1>5, <1>6

\* What the end of a child does.
LEMMA ChildEffect ==
  ASSUME TypeOK, NEW c \in Clients, Finish(Child(c)), Forks(host[c]), NEW d \in Clients
  PROVE  /\ d # c => Undisturbed(d)
         /\ UNCHANGED <<prog, server, queue, host, sock, in>>
         /\ at'[Child(c)] = "gone" /\ at'[Client(c)] = at[Client(c)]
         /\ buffer'[Client(c)] = buffer[Client(c)] /\ mem'[Client(c)] = mem[Client(c)]
  <1>1. /\ at' = [at EXCEPT ![Child(c)] = "gone"] /\ Forget({Child(c)})
        /\ UNCHANGED <<prog, server, queue, host, sock, in>>
    BY ChildFinishes
  <1>2. /\ Client(d) \in Ends /\ Child(d) \in Ends /\ Client(c) \in Ends /\ Child(c) \in Ends
        /\ Client(c) # Child(c) /\ Client(d) # Child(c) /\ (d # c => Child(d) # Child(c))
    BY EndFacts
  <1>3. \A x \in Ends : x # Child(c) => at'[x] = at[x] /\ buffer'[x] = buffer[x] /\ mem'[x] = mem[x]
    BY <1>1, Types DEF Forget
  <1>4. QED
    BY <1>1, <1>2, <1>3, Types DEF Undisturbed

\* Who is served or asks is connected, and what serves belongs to a server
\* that listens.
LEMMA WhoRuns ==
  ASSUME TypeOK, SocketInv, NEW c \in Clients
  PROVE  /\ at[Client(c)] \notin {"off", "gone"} => host[c] # Nobody
         /\ at[Child(c)] \notin {"off", "gone"} =>
              host[c] # Nobody /\ Listening(host[c]) /\ prog[host[c]] # "template"
         /\ host[c] # Nobody => host[c] \in Servers /\ Conn(c) /\ server[host[c]] # "off"
         /\ host[c] = Nobody => NoConn(c)
  BY Types DEF SocketInv, NoConn, Conn

\* A step that changes no queue and no server's being there.
LEMMA WaitsKept ==
  ASSUME TypeOK, NEW s \in Servers, Waits(s), queue'[s] = queue[s],
         Listening(s) => server'[s] \in {"up", "busy"},
         \A d \in Clients : host[d] = s /\ at[Child(d)] = "off" =>
             host'[d] = s /\ at'[Child(d)] = "off"
  PROVE  Waits(s)'
  <1>1. PICK q \in Seq(Clients) : q = queue[s]
    BY Types
  <1>2. \A i \in 1..Len(q) : q[i] \in Clients
    BY ElementOfSeq
  <1>3. \A i \in 1..Len(q) : /\ host[q[i]] = s /\ at[Child(q[i])] = "off" /\ Listening(s)
                             /\ \A j \in 1..Len(q) : q[i] = q[j] => i = j
    BY <1>1 DEF Waits
  <1>4. \A i \in 1..Len(q) : host'[q[i]] = s /\ at'[Child(q[i])] = "off" /\ server'[s] \in {"up", "busy"}
    BY <1>2, <1>3
  <1>5. QED
    BY <1>1, <1>3, <1>4 DEF Waits, Listening

LEMMA EmptyWaits ==
  ASSUME NEW s \in Servers, queue'[s] = <<>>
  PROVE  Waits(s)'
  <1>1. Len(<<>>) = 0 /\ 1..0 = {}
    OBVIOUS
  <1>2. QED
    BY <1>1 DEF Waits

\* It is enough to look at the conversations a step disturbs.
LEMMA SocketsFrom ==
  ASSUME TypeOK, SocketInv,
         \A c \in Clients : \/ Undisturbed(c)
                            \/ host'[c] = Nobody /\ NoConn(c)'
                            \/ host'[c] # Nobody /\ Conn(c)',
         \A s \in Servers : Waits(s)'
  PROVE  SocketInv'
  <1>1. ASSUME NEW c \in Clients
        PROVE  (host'[c] = Nobody => NoConn(c)') /\ (host'[c] # Nobody => Conn(c)')
    <2>1. CASE Undisturbed(c)
      BY <2>1, UndisturbedConn DEF SocketInv, Undisturbed
    <2>2. QED
      BY <2>1
  <1>2. QED
    BY <1>1 DEF SocketInv

LEMMA MovesSockets ==
  ASSUME TypeOK, SocketInv, NEW c \in Clients, NEW e \in {Client(c), Child(c)}, Moves(e)
  PROVE  SocketInv'
  <1>1. e \in Ends /\ e[2] = c /\ Client(c) \in Ends /\ Child(c) \in Ends /\ Client(c) # Child(c)
    BY EndFacts
  <1>2. Alone(c)
    BY <1>1 DEF Moves
  <1>3. \A d \in Clients : d # c => Undisturbed(d)
    BY <1>2, AloneLeaves
  <1>4. PICK l \in MovingPlaces : at' = [at EXCEPT ![e] = l]
    BY DEF Moves
  <1>5. l \notin {"off", "gone"} /\ at[e] \notin {"off", "gone"}
    BY DEF MovingPlaces, Moves
  <1>6. host[c] # Nobody /\ host[c] \in Servers /\ Conn(c)
    BY <1>5, WhoRuns
  <1>7. /\ UNCHANGED <<prog, server, queue, host>>
        /\ \A x \in Ends : x # e => at'[x] = at[x] /\ sock'[x] = sock[x]
        /\ at'[e] = l
        /\ sock'[e] = sock[e] \/ (sock[e] \in {"eof", "reset"} /\ sock'[e] = "broken")
    BY <1>1, <1>2, <1>4, Types DEF Alone, Moves
  <1>8. Conn(c)'
    <2>1. CASE e = Client(c)
      BY <1>1, <1>5, <1>6, <1>7, <2>1 DEF Conn, Listening, Forks
    <2>2. CASE e = Child(c)
      BY <1>1, <1>5, <1>6, <1>7, <2>2 DEF Conn, Listening, Forks
    <2>3. QED
      BY <2>1, <2>2
  <1>9. ASSUME NEW s \in Servers
        PROVE  Waits(s)'
    <2>1. \A d \in Clients : at[Child(d)] = "off" => at'[Child(d)] = "off"
      BY <1>5, <1>7, EndFacts
    <2>2. QED
      BY <1>7, <2>1, WaitsKept DEF SocketInv, Listening
  <1>10. QED
    BY <1>3, <1>6, <1>7, <1>8, <1>9, SocketsFrom

LEMMA ShutdownSockets ==
  ASSUME TypeOK, SocketInv, NEW s \in Servers, Shutdown(s)
  PROVE  SocketInv'
  <1>1. ASSUME NEW d \in Clients
        PROVE  Undisturbed(d) \/ (host'[d] # Nobody /\ Conn(d)')
    <2>1. CASE host[d] # s
      BY <2>1, ShutdownEffect
    <2>2. CASE host[d] = s
      <3>1. s # Nobody /\ Conn(d)
        BY <2>2, SocketsAssumption, WhoRuns
      <3>2. QED
        BY <2>2, <3>1, ShutdownEffect DEF Conn, Listening, Forks
    <2>3. QED
      BY <2>1, <2>2
  <1>2. ASSUME NEW t \in Servers
        PROVE  Waits(t)'
    <2>1. CASE t = s
      <3>1. queue'[t] = <<>>
        BY <2>1, Types DEF Shutdown
      <3>2. QED
        BY <3>1, EmptyWaits
    <2>2. CASE t # s
      <3>1. queue'[t] = queue[t] /\ server'[t] = server[t]
        BY <2>2, Types DEF Shutdown
      <3>2. \A d \in Clients : host[d] = t => Undisturbed(d)
        BY <2>2, ShutdownEffect
      <3>3. \A d \in Clients : host[d] = t /\ at[Child(d)] = "off" =>
               host'[d] = t /\ at'[Child(d)] = "off"
        BY <3>2 DEF Undisturbed
      <3>4. QED
        BY <3>1, <3>3, WaitsKept DEF SocketInv, Listening
    <2>3. QED
      BY <2>1, <2>2
  <1>3. QED
    BY <1>1, <1>2, SocketsFrom

LEMMA FinishSockets ==
  ASSUME TypeOK, SocketInv, NEW c \in Clients,
         \/ at[Client(c)] \notin {"off", "gone"} /\ Finish(Client(c))
         \/ at[Child(c)] \notin {"off", "gone"} /\ Finish(Child(c))
  PROVE  SocketInv'
  <1>1. host[c] # Nobody /\ host[c] \in Servers /\ Conn(c)
    BY WhoRuns
  <1>2. CASE at[Client(c)] \notin {"off", "gone"} /\ Finish(Client(c))
    <2>1. \A d \in Clients : d # c => Undisturbed(d)
      BY <1>2, LeavingEffect
    <2>2. host'[c] # Nobody /\ Conn(c)'
      BY <1>1, <1>2, LeavingEffect DEF Conn, Listening, Forks
    <2>3. ASSUME NEW s \in Servers
          PROVE  Waits(s)'
      <3>1. /\ UNCHANGED <<prog, server, queue, host>>
            /\ \A d \in Clients : at'[Child(d)] = at[Child(d)]
        BY <1>2, <2>1, LeavingEffect DEF Undisturbed
      <3>2. QED
        BY <3>1, WaitsKept DEF SocketInv, Listening
    <2>4. QED
      BY <2>1, <2>2, <2>3, SocketsFrom
  <1>3. CASE at[Child(c)] \notin {"off", "gone"} /\ Finish(Child(c)) /\ Forks(host[c])
    <2>0. Listening(host[c]) /\ prog[host[c]] # "template"
      BY <1>3, WhoRuns
    <2>1. \A d \in Clients : d # c => Undisturbed(d)
      BY <1>3, ChildEffect
    <2>2. host'[c] # Nobody /\ Conn(c)'
      BY <1>1, <1>3, <2>0, ChildEffect DEF Conn, Listening, Forks
    <2>3. ASSUME NEW s \in Servers
          PROVE  Waits(s)'
      <3>1. /\ UNCHANGED <<prog, server, queue, host>>
            /\ \A d \in Clients : at[Child(d)] = "off" => at'[Child(d)] = at[Child(d)]
        BY <1>3, <2>1, ChildEffect DEF Undisturbed
      <3>2. QED
        BY <3>1, WaitsKept DEF SocketInv, Listening
    <2>4. QED
      BY <2>1, <2>2, <2>3, SocketsFrom
  <1>4. CASE at[Child(c)] \notin {"off", "gone"} /\ Finish(Child(c)) /\ ~Forks(host[c])
    BY <1>1, <1>4, ChildFinishes, ShutdownSockets
  <1>5. QED
    BY <1>2, <1>3, <1>4

LEMMA OpenSockets ==
  ASSUME TypeOK, SocketInv, NEW s \in Servers, Open(s)
  PROVE  SocketInv'
  <1>1. \A d \in Clients : Undisturbed(d)
    BY OpenLeaves, WhoRuns
  <1>2. ASSUME NEW t \in Servers
        PROVE  Waits(t)'
    <2>1. Listening(t) => server'[t] = server[t]
      BY Types DEF Open, Listening
    <2>2. UNCHANGED <<queue, host, at>>
      BY DEF Open
    <2>3. QED
      BY <2>1, <2>2, WaitsKept DEF SocketInv, Listening
  <1>3. QED
    BY <1>1, <1>2, SocketsFrom

\* What accept does: client d is the one that has waited longest.
LEMMA AcceptEffect ==
  ASSUME TypeOK, SocketInv, NEW s \in Servers, NEW l \in MovingPlaces, Accept(s, l)
  PROVE  \E d \in Clients :
           /\ d = Head(queue[s]) /\ host[d] = s /\ at[Child(d)] = "off"
           /\ UNCHANGED <<prog, host, sock, in, buffer>>
           /\ server[s] \in {"up", "busy"} /\ server'[s] \in {"up", "busy"}
           /\ at'[Child(d)] = l /\ at'[Client(d)] = at[Client(d)]
           /\ mem'[Client(d)] = mem[Client(d)]
           /\ \A x \in Ends : x # Child(d) => at'[x] = at[x]
           /\ \A c \in Clients : c # d => Undisturbed(c)
  <1>1. PICK q \in Seq(Clients) : q = queue[s]
    BY Types
  <1>2. q # <<>> /\ Head(q) = q[1] /\ Head(q) \in Clients /\ 1 \in 1..Len(q)
    BY <1>1, HeadTailProperties, EmptySeq DEF Accept
  <1>3. PICK d \in Clients : d = Head(queue[s])
    BY <1>1, <1>2
  <1>4. host[d] = s /\ at[Child(d)] = "off"
    BY <1>1, <1>2, <1>3 DEF SocketInv, Waits
  <1>5. /\ at' = [at EXCEPT ![Child(d)] = l]
        /\ \E j \in Junk : mem' = [mem EXCEPT ![Child(d)] = Same(j)]
        /\ server' = [server EXCEPT ![s] = IF Forks(s) THEN "up" ELSE "busy"]
        /\ UNCHANGED <<prog, host, sock, in, buffer>> /\ server[s] = "up"
    BY <1>3 DEF Accept
  <1>6. server'[s] \in {"up", "busy"} /\ \A t \in Servers : t # s => server'[t] = server[t]
    BY <1>5, Types
  <1>7. /\ at'[Child(d)] = l
        /\ \A x \in Ends : x # Child(d) => at'[x] = at[x] /\ mem'[x] = mem[x]
    BY <1>5, Types, EndFacts
  <1>8. ASSUME NEW c \in Clients, c # d
        PROVE  Undisturbed(c)
    <2>1. \A x \in {Client(c), Child(c)} : x \in Ends /\ x # Child(d)
      BY <1>8, EndFacts
    <2>2. host[c] # Nobody => host[c] \in Servers
      BY Types
    <2>3. host[c] # Nobody =>
            /\ server[host[c]] # "off" => server'[host[c]] # "off"
            /\ server'[host[c]] \in {"up", "busy"} <=> server[host[c]] \in {"up", "busy"}
      BY <1>5, <1>6, <2>2
    <2>4. QED
      BY <1>5, <1>7, <2>1, <2>3 DEF Undisturbed
  <1>9. Client(d) \in Ends /\ Client(d) # Child(d)
    BY EndFacts
  <1>10. QED
    BY <1>3, <1>4, <1>5, <1>6, <1>7, <1>8, <1>9

LEMMA AcceptSockets ==
  ASSUME TypeOK, SocketInv, NEW s \in Servers, prog[s] # "template",
         NEW l \in MovingPlaces, Accept(s, l)
  PROVE  SocketInv'
  <1>1. PICK d \in Clients :
           /\ d = Head(queue[s]) /\ host[d] = s /\ at[Child(d)] = "off"
           /\ UNCHANGED <<prog, host, sock, in, buffer>>
           /\ server[s] \in {"up", "busy"} /\ server'[s] \in {"up", "busy"}
           /\ at'[Child(d)] = l /\ at'[Client(d)] = at[Client(d)]
           /\ mem'[Client(d)] = mem[Client(d)]
           /\ \A x \in Ends : x # Child(d) => at'[x] = at[x]
           /\ \A c \in Clients : c # d => Undisturbed(c)
    BY AcceptEffect
  <1>2. l \notin {"off", "gone"} /\ s # Nobody
    BY SocketsAssumption DEF MovingPlaces
  <1>3. host'[d] # Nobody /\ Conn(d)'
    BY <1>1, <1>2, WhoRuns DEF Conn, Listening, Forks
  <1>4. ASSUME NEW t \in Servers, t # s
        PROVE  Waits(t)'
    <2>1. queue'[t] = queue[t] /\ server'[t] = server[t]
      BY <1>4, Types DEF Accept
    <2>2. \A c \in Clients : host[c] = t => Undisturbed(c)
      BY <1>1, <1>4
    <2>3. \A c \in Clients : host[c] = t /\ at[Child(c)] = "off" => host'[c] = t /\ at'[Child(c)] = "off"
      BY <2>2 DEF Undisturbed
    <2>4. QED
      BY <2>1, <2>3, WaitsKept DEF SocketInv, Listening
  <1>5. Waits(s)'
    <2>1. PICK q \in Seq(Clients) : q = queue[s]
      BY Types
    <2>2. q # <<>> /\ Head(q) = q[1] /\ d = q[1]
      BY <1>1, <2>1, HeadTailProperties DEF Accept
    <2>3. PICK n \in Nat : n = Len(q)
      BY LenProperties
    <2>4. PICK r : r = Tail(q)
      OBVIOUS
    <2>5. Len(r) = n - 1 /\ \A i \in 1..(n - 1) : r[i] = q[i + 1]
      BY <2>2, <2>3, <2>4, HeadTailProperties
    <2>6. queue'[s] = r
      BY <2>1, <2>4, Types DEF Accept
    <2>7. \A i \in 1..n : /\ q[i] \in Clients /\ host[q[i]] = s /\ at[Child(q[i])] = "off"
                          /\ \A j \in 1..n : q[i] = q[j] => i = j
      BY <2>1, <2>3, ElementOfSeq DEF SocketInv, Waits
    <2>8. ASSUME NEW i \in 1..(n - 1)
          PROVE  /\ host'[r[i]] = s /\ at'[Child(r[i])] = "off"
                 /\ \A j \in 1..(n - 1) : r[i] = r[j] => i = j
      <3>1. i + 1 \in 1..n /\ 1 \in 1..n /\ i + 1 # 1
        BY <2>3
      <3>2. r[i] = q[i + 1] /\ q[i + 1] # d /\ q[i + 1] \in Clients
        BY <2>2, <2>5, <2>7, <3>1
      <3>3. host'[r[i]] = s /\ at'[Child(r[i])] = "off"
        BY <1>1, <2>7, <3>1, <3>2 DEF Undisturbed
      <3>4. ASSUME NEW j \in 1..(n - 1), r[i] = r[j]
            PROVE  i = j
        <4>1. j + 1 \in 1..n /\ r[j] = q[j + 1]
          BY <2>3, <2>5
        <4>2. i + 1 = j + 1
          BY <2>7, <3>1, <3>2, <3>4, <4>1
        <4>3. QED
          BY <2>3, <4>2
      <3>5. QED
        BY <3>3, <3>4
    <2>9. QED
      BY <1>1, <2>5, <2>6, <2>8 DEF Waits, Listening
  <1>6. QED
    BY <1>1, <1>3, <1>4, <1>5, SocketsFrom

\* What connect does.
LEMMA JoinsEffect ==
  ASSUME TypeOK, NEW c \in Clients, NEW l, Connect(c, l),
         \A x \in Ends : x # Client(c) => mem'[x] = mem[x]
  PROVE  /\ at[Client(c)] = "off" /\ UNCHANGED <<prog, server, in, buffer>>
         /\ \A d \in Clients : d # c => Undisturbed(d)
         /\ at'[Child(c)] = at[Child(c)] /\ mem'[Child(c)] = mem[Child(c)]
         /\ \/ \E s \in Servers :
                 /\ Listening(s) /\ host'[c] = s /\ at'[Client(c)] = l
                 /\ sock'[Client(c)] = "open" /\ sock'[Child(c)] = "open"
                 /\ queue' = [queue EXCEPT ![s] = Append(@, c)]
            \/ at'[Client(c)] = "gone" /\ UNCHANGED <<host, queue, sock>>
  <1>1. /\ Client(c) \in Ends /\ Child(c) \in Ends /\ Client(c) # Child(c)
        /\ \A d \in Clients : d # c =>
             /\ Client(d) \in Ends /\ Child(d) \in Ends
             /\ Client(d) # Client(c) /\ Child(d) # Child(c)
             /\ Child(d) # Client(c) /\ Client(d) # Child(c)
    BY EndFacts
  <1>2. at[Client(c)] = "off" /\ UNCHANGED <<prog, server, in, buffer>>
    BY DEF Connect
  <1>3. CASE \E s \in Servers :
               /\ Listening(s) /\ host' = [host EXCEPT ![c] = s]
               /\ queue' = [queue EXCEPT ![s] = Append(@, c)]
               /\ sock' = [sock EXCEPT ![Client(c)] = "open", ![Child(c)] = "open"]
               /\ at' = [at EXCEPT ![Client(c)] = l]
    <2>1. PICK s \in Servers :
               /\ Listening(s) /\ host' = [host EXCEPT ![c] = s]
               /\ queue' = [queue EXCEPT ![s] = Append(@, c)]
               /\ sock' = [sock EXCEPT ![Client(c)] = "open", ![Child(c)] = "open"]
               /\ at' = [at EXCEPT ![Client(c)] = l]
      BY <1>3
    <2>2. /\ host'[c] = s /\ at'[Client(c)] = l /\ at'[Child(c)] = at[Child(c)]
          /\ sock'[Client(c)] = "open" /\ sock'[Child(c)] = "open"
      BY <1>1, <2>1, Types
    <2>3. ASSUME NEW d \in Clients, d # c
          PROVE  Undisturbed(d)
      <3>1. host'[d] = host[d]
        BY <2>1, <2>3, Types
      <3>2. \A x \in {Client(d), Child(d)} :
              at'[x] = at[x] /\ sock'[x] = sock[x] /\ mem'[x] = mem[x]
        BY <1>1, <2>1, <2>3, Types
      <3>3. QED
        BY <1>2, <3>1, <3>2 DEF Undisturbed
    <2>4. QED
      BY <1>1, <1>2, <2>1, <2>2, <2>3
  <1>4. CASE at' = [at EXCEPT ![Client(c)] = "gone"] /\ UNCHANGED <<host, queue, sock>>
    <2>1. at'[Client(c)] = "gone" /\ at'[Child(c)] = at[Child(c)]
      BY <1>1, <1>4, Types
    <2>2. ASSUME NEW d \in Clients, d # c
          PROVE  Undisturbed(d)
      <3>1. \A x \in {Client(d), Child(d)} : at'[x] = at[x] /\ mem'[x] = mem[x]
        BY <1>1, <1>4, <2>2, Types
      <3>2. QED
        BY <1>2, <1>4, <3>1 DEF Undisturbed
    <2>3. QED
      BY <1>1, <1>2, <1>4, <2>1, <2>2
  <1>5. QED
    BY <1>3, <1>4 DEF Connect

LEMMA JoinsSockets ==
  ASSUME TypeOK, SocketInv, NEW c \in Clients, Joins(c)
  PROVE  SocketInv'
  <1>1. PICK l \in MovingPlaces : Connect(c, l)
    BY DEF Joins
  <1>2. /\ at[Client(c)] = "off" /\ UNCHANGED <<prog, server, in, buffer>>
        /\ \A d \in Clients : d # c => Undisturbed(d)
        /\ at'[Child(c)] = at[Child(c)]
        /\ \/ \E s \in Servers :
                 /\ Listening(s) /\ host'[c] = s /\ at'[Client(c)] = l
                 /\ sock'[Client(c)] = "open" /\ sock'[Child(c)] = "open"
                 /\ queue' = [queue EXCEPT ![s] = Append(@, c)]
           \/ at'[Client(c)] = "gone" /\ UNCHANGED <<host, queue, sock>>
    BY <1>1, JoinsEffect DEF Joins
  <1>3. host[c] = Nobody /\ NoConn(c) /\ l \notin {"off", "gone"}
    BY <1>2, WhoRuns DEF Conn, MovingPlaces
  <1>4. at[Child(c)] = "off"
    BY <1>3 DEF NoConn
  <1>5. \A d \in Clients : at'[Child(d)] = at[Child(d)] /\ (d # c => host'[d] = host[d])
    BY <1>2 DEF Undisturbed
  <1>6. ASSUME NEW t \in Servers, queue'[t] = queue[t]
        PROVE  Waits(t)'
    <2>1. t # Nobody /\ host[c] # t
      BY <1>3, SocketsAssumption
    <2>2. QED
      BY <1>2, <1>5, <1>6, <2>1, WaitsKept DEF SocketInv, Listening
  <1>7. CASE at'[Client(c)] = "gone" /\ UNCHANGED <<host, queue, sock>>
    <2>1. host'[c] = Nobody /\ NoConn(c)'
      BY <1>2, <1>3, <1>7 DEF NoConn
    <2>2. QED
      BY <1>2, <1>6, <1>7, <2>1, SocketsFrom
  <1>8. ASSUME NEW s \in Servers, Listening(s), host'[c] = s, at'[Client(c)] = l,
               sock'[Client(c)] = "open", sock'[Child(c)] = "open",
               queue' = [queue EXCEPT ![s] = Append(@, c)]
        PROVE  SocketInv'
    <2>1. host'[c] # Nobody /\ Conn(c)'
      BY <1>2, <1>3, <1>4, <1>8, SocketsAssumption DEF Conn, Listening
    <2>2. Waits(s)'
      <3>1. PICK q \in Seq(Clients) : q = queue[s]
        BY Types
      <3>2. PICK n \in Nat : n = Len(q)
        BY LenProperties
      <3>3. PICK r : r = Append(q, c)
        OBVIOUS
      <3>4. Len(r) = n + 1 /\ r[n + 1] = c /\ \A i \in 1..n : r[i] = q[i]
        BY <3>2, <3>3, AppendProperties
      <3>5. queue'[s] = r
        BY <1>8, <3>1, <3>3, Types
      <3>6. \A i \in 1..n : /\ q[i] \in Clients /\ host[q[i]] = s /\ at[Child(q[i])] = "off"
                            /\ \A j \in 1..n : q[i] = q[j] => i = j
        BY <3>1, <3>2, ElementOfSeq DEF SocketInv, Waits
      <3>7. \A i \in 1..n : q[i] # c
        BY <1>3, <3>6, SocketsAssumption
      <3>8. \A i \in 1..(n + 1) : i = n + 1 \/ i \in 1..n
        BY <3>2
      <3>9. \A i \in 1..(n + 1) : host'[r[i]] = s /\ at'[Child(r[i])] = "off"
        BY <1>4, <1>5, <1>8, <3>4, <3>6, <3>7, <3>8
      <3>10. \A i, j \in 1..(n + 1) : r[i] = r[j] => i = j
        BY <3>4, <3>6, <3>7, <3>8
      <3>11. server'[s] \in {"up", "busy"}
        BY <1>2, <1>8 DEF Listening
      <3>12. QED
        BY <3>4, <3>5, <3>9, <3>10, <3>11 DEF Waits, Listening
    <2>3. \A t \in Servers : t # s => queue'[t] = queue[t]
      BY <1>8, Types
    <2>4. QED
      BY <1>2, <1>6, <2>1, <2>2, <2>3, SocketsFrom
  <1>9. QED
    BY <1>2, <1>7, <1>8

LEMMA SocketStep ==
  ASSUME TypeOK, SocketInv, [Next]_vars
  PROVE  SocketInv'
  <1>1. Kind
    BY StepKinds
  <1>2. CASE UNCHANGED vars
    <2>1. \A c \in Clients : Undisturbed(c)
      BY <1>2 DEF vars, Undisturbed
    <2>2. \A s \in Servers : Waits(s)'
      BY <1>2 DEF vars, SocketInv, Waits, Listening
    <2>3. QED
      BY <2>1, <2>2, SocketsFrom
  <1>3. QED
    BY <1>1, <1>2, JoinsSockets, MovesSockets, FinishSockets, OpenSockets, AcceptSockets, ShutdownSockets
       DEF Kind, Runs, Accepts

LEMMA InitSockets ==
  ASSUME Init
  PROVE  SocketInv
  <1>1. \A s \in Servers : Waits(s)
    <2>1. Len(<<>>) = 0 /\ 1..0 = {}
      OBVIOUS
    <2>2. QED
      BY <2>1 DEF Init, SocketsInit, Waits
  <1>2. QED
    BY <1>1, EndFacts DEF Init, SocketsInit, SocketInv, NoConn, Known, Same

----------------------------------------------------------------------------
(* Conversations *)

\* x is the reply to what m asks for.
IsReply(m, x) ==
  IF Known(m) THEN x[1] = "answer" /\ Right(m, x[2]) ELSE x = Bye
OneReply(q, m) == \E x \in Texts : q = <<x>> /\ IsReply(m, x)
ReplyAndMenu(q, m) == \E x \in Texts : q = <<x, Menu>> /\ IsReply(m, x)

\* Where a client and a child of calc-multiserver.c can be together: p is the
\* place of the client, which has i to read, has read b and has m in its
\* variables; q is that of the child, with j to read and n.
CalcPhase(p, i, b, m, q, j, n) ==
  \/ /\ q \in {"off", "showMenu"} /\ j = <<>>
     /\ \/ p = "menu" /\ i = <<>> /\ (b = <<>> \/ OneReply(b, m))
        \/ p = "answer" /\ OneReply(i, m)
  \/ /\ q = "op" /\ j = <<>>
     /\ \/ p = "menu" /\ i = <<Menu>> /\ (b = <<>> \/ OneReply(b, m))
        \/ p = "answer" /\ ReplyAndMenu(i, m)
        \/ p = "menu" /\ i = <<>> /\ ReplyAndMenu(b, m)
        \/ p = "sayOp" /\ i = <<>>
  \/ q = "op" /\ j = <<Number(m.op)>> /\ p = "prompt1" /\ i = <<>>
  \/ q = "ask1" /\ j = <<>> /\ n.op = m.op /\ p = "prompt1" /\ i = <<>>
  \/ /\ q \in {"leave", "gone"} /\ j = <<>> /\ m.op = 5
     /\ \/ p = "prompt1" /\ i = <<Bye>>
        \/ p = "sayNum1" /\ i = <<>>
  \/ /\ q = "num1" /\ j = <<>> /\ n.op = m.op /\ m.op # 5
     /\ \/ p = "prompt1" /\ i = <<Text("ask1")>>
        \/ p = "sayNum1" /\ i = <<>>
  \/ q = "num1" /\ j = <<Number(m.num1)>> /\ n.op = m.op /\ p = "prompt2" /\ i = <<>>
  \/ q = "ask2" /\ j = <<>> /\ n.op = m.op /\ n.num1 = m.num1 /\ p = "prompt2" /\ i = <<>>
  \/ /\ q = "num2" /\ j = <<>> /\ n.op = m.op /\ n.num1 = m.num1
     /\ \/ p = "prompt2" /\ i = <<Text("ask2")>>
        \/ p = "sayNum2" /\ i = <<>>
  \/ /\ q = "num2" /\ j = <<Number(m.num2)>> /\ n.op = m.op /\ n.num1 = m.num1
     /\ p = "answer" /\ i = <<>>
  \/ /\ q = "reply" /\ j = <<>> /\ n.op = m.op /\ n.num1 = m.num1 /\ n.num2 = m.num2
     /\ p = "answer" /\ i = <<>>
  \/ /\ q \in {"leave", "gone"} /\ j = <<>> /\ ~Known(m)
     /\ \/ p = "answer" /\ i = <<Bye>>
        \/ p = "menu" /\ i = <<>> /\ b = <<Bye>>
  \/ q = "gone" /\ Known(m) /\ Fatal(m) /\ p = "answer" /\ i = <<>>

\* What is left to a client when its server is down.
CalcRest(p, i, b, m) ==
  /\ p \in {"menu", "sayOp", "prompt1", "sayNum1", "prompt2", "sayNum2", "answer", "leave"}
  /\ p = "menu" => Len(i) <= 1 /\ (b = <<>> \/ IsReply(m, b[1]))
  /\ p \in {"sayOp", "sayNum1", "sayNum2"} => i = <<>>
  /\ p \in {"prompt1", "prompt2"} => Len(i) <= 1
  /\ p = "answer" => Len(i) <= 2 /\ (i = <<>> \/ IsReply(m, i[1]))

\* n is the answer to what m asks for, if it is known.
MathRight(m, n) == Known(m) => Right(m, n)
OneInt(q, m) == \E x \in Int32 : q = <<Number(x)>> /\ MathRight(m, x)
IntAndAsk(q, m) == \E x \in Int32 : q = <<Number(x), Text("ask1")>> /\ MathRight(m, x)
Expecting == {"told", "answer"}

\* The same of math-client.c and math-server.c.
MathPhase(p, i, m, q, j, n) ==
  \/ /\ q \in {"off", "ask1"} /\ j = <<>>
     /\ \/ p = "prompt1" /\ i = <<>> /\ MathRight(m, m.ans)
        \/ p \in Expecting /\ OneInt(i, m)
  \/ /\ q = "num1" /\ j = <<>>
     /\ \/ p = "prompt1" /\ i = <<Text("ask1")>> /\ MathRight(m, m.ans)
        \/ p \in Expecting /\ IntAndAsk(i, m)
        \/ p = "sayNum1" /\ i = <<>>
  \/ q = "num1" /\ j = <<Number(m.num1)>> /\ p = "prompt2" /\ i = <<>>
  \/ q = "ask2" /\ j = <<>> /\ n.num1 = m.num1 /\ p = "prompt2" /\ i = <<>>
  \/ /\ q = "num2" /\ j = <<>> /\ n.num1 = m.num1
     /\ \/ p = "prompt2" /\ i = <<Text("ask2")>>
        \/ p = "sayNum2" /\ i = <<>>
  \/ q = "num2" /\ j = <<Number(m.num2)>> /\ n.num1 = m.num1 /\ p = "prompt3" /\ i = <<>>
  \/ /\ q = "ask3" /\ j = <<>> /\ n.num1 = m.num1 /\ n.num2 = m.num2
     /\ p = "prompt3" /\ i = <<>>
  \/ /\ q = "op" /\ j = <<>> /\ n.num1 = m.num1 /\ n.num2 = m.num2
     /\ \/ p = "prompt3" /\ i = <<Menu>>
        \/ p = "sayOp" /\ i = <<>>
  \/ /\ q = "op" /\ j = <<Number(m.op)>> /\ n.num1 = m.num1 /\ n.num2 = m.num2
     /\ p \in Expecting /\ i = <<>>
  \/ /\ q = "compute" /\ j = <<>> /\ n.op = m.op /\ n.num1 = m.num1 /\ n.num2 = m.num2
     /\ p \in Expecting /\ i = <<>>
  \/ /\ q = "reply" /\ j = <<>> /\ MathRight(m, n.ans) /\ p \in Expecting /\ i = <<>>

\* The same of the web servers: a is the program of the server, k what its
\* process has read.
WebPhase(p, i, a, q, j, k) ==
  \/ p = "leave"
  \/ p = "sayRequest" /\ q \in {"off", "request"} /\ i = <<>> /\ j = <<>>
  \/ p = "html" /\ q \in {"off", "request"} /\ i = <<>> /\ j = <<Text("request")>>
  \/ p = "html" /\ q = "page" /\ i = <<>> /\ j = <<>>
  \/ /\ p = "html" /\ i \in {<<Text("html")>>, <<Text("hi")>>} /\ j = <<>>
     /\ q \in (IF a = "persistent" THEN {"message"} ELSE {"leave", "gone"})
  \/ a = "persistent" /\ p \in {"sayMessage", "silent"} /\ i = <<>> /\ q = "message" /\ j = <<>>
  \/ /\ a = "persistent" /\ p = "ack" /\ i = <<>> /\ q = "message"
     /\ \E t \in Messages : j = <<Text(t)>>
  \/ /\ a = "persistent" /\ p = "ack" /\ i = <<>> /\ q = "reply" /\ j = <<>>
     /\ \E t \in Messages : k = <<Text(t)>>
  \/ a = "persistent" /\ p = "ack" /\ i = <<Text("ack")>> /\ q = "message" /\ j = <<>>
  \/ a # "persistent" /\ p \in {"sayMessage", "ack", "silent"} /\ i = <<>> /\ q \in {"leave", "gone"}

Calculates == {"calc", "template"}
Chats == {"sayMessage", "ack", "silent"}

CalcInv(c) ==
  at[Client(c)] # "gone" =>
    IF Listening(host[c])
    THEN CalcPhase(at[Client(c)], in[Client(c)], buffer[Client(c)], mem[Client(c)],
                   at[Child(c)], in[Child(c)], mem[Child(c)])
    ELSE CalcRest(at[Client(c)], in[Client(c)], buffer[Client(c)], mem[Client(c)])

MathInv(c) ==
  at[Client(c)] # "gone" /\ Listening(host[c]) =>
    MathPhase(at[Client(c)], in[Client(c)], mem[Client(c)], at[Child(c)], in[Child(c)], mem[Child(c)])

WebInv(c) ==
  at[Client(c)] # "gone" /\ Listening(host[c]) =>
    /\ WebPhase(at[Client(c)], in[Client(c)], prog[host[c]], at[Child(c)], in[Child(c)], buffer[Child(c)])
    /\ at[Client(c)] \in Chats => prog[c] = "persistent"

\* Who talks with whom.  Nobody is served by the template's server.
CalcTalk(c) == prog[c] \in Calculates /\ prog[host[c]] \in Calculates
MathTalk(c) == prog[c] = "math" /\ prog[host[c]] \in {"math", "template"}
WebTalk(c) == prog[c] \in WebClients /\ prog[host[c]] \in WebServers \cup {"template"}

Dialogue(c) ==
  /\ CalcTalk(c) => CalcInv(c)
  /\ MathTalk(c) => MathInv(c)
  /\ WebTalk(c) => WebInv(c)
  /\ at[Client(c)] = "menu" => prog[c] \in Calculates

DialogueInv == \A c \in Clients : host[c] # Nobody => Dialogue(c)

----------------------------------------------------------------------------
(* What a call does to a conversation *)

LEMMA WriteOpen ==
  ASSUME TypeOK, NEW e \in Ends, NEW text \in Texts, text # Silence, sock[e] = "open",
         NEW next, NEW failed, Write(e, text, next, failed)
  PROVE  /\ at'[e] = next /\ at'[Peer(e)] = at[Peer(e)]
         /\ in'[Peer(e)] = Append(in[Peer(e)], text) /\ in'[e] = in[e]
         /\ UNCHANGED <<prog, server, host, buffer, mem>>
  <1>1. Peer(e) \in Ends /\ Peer(e) # e
    BY EndFacts
  <1>2. /\ in' = [in EXCEPT ![Peer(e)] = Append(@, text)]
        /\ Go(e, next) /\ UNCHANGED <<buffer, mem>>
    BY DEF Write
  <1>3. QED
    BY <1>1, <1>2, Types DEF Go

LEMMA SilenceOpen ==
  ASSUME TypeOK, NEW e \in Ends, sock[e] = "open",
         NEW next, NEW failed, Write(e, Silence, next, failed)
  PROVE  /\ at'[e] = next /\ at'[Peer(e)] = at[Peer(e)]
         /\ UNCHANGED <<prog, server, host, in, buffer, mem>>
  <1>1. Peer(e) \in Ends /\ Peer(e) # e
    BY EndFacts
  <1>2. Go(e, next) /\ UNCHANGED <<in, buffer, mem>>
    BY DEF Write
  <1>3. QED
    BY <1>1, <1>2, Types DEF Go

LEMMA WriteShut ==
  ASSUME TypeOK, NEW e \in Ends, NEW text, text # Silence, sock[e] # "open",
         NEW next, NEW failed, Write(e, text, next, failed)
  PROVE  \/ Finish(e)
         \/ /\ at'[e] \in {next, failed}
            /\ UNCHANGED <<prog, server, host, in, buffer, mem>>
  BY Types DEF Write, Go, SigPipe

LEMMA ReadOpen ==
  ASSUME TypeOK, NEW e \in Ends, sock[e] = "open", NEW next, NEW failed, Read(e, next, failed)
  PROVE  /\ in[e] # <<>> /\ at'[e] = next /\ at'[Peer(e)] = at[Peer(e)]
         /\ \E k \in 1..Len(in[e]) : /\ buffer'[e] = SubSeq(in[e], 1, k)
                                     /\ in'[e] = SubSeq(in[e], k + 1, Len(in[e]))
         /\ in'[Peer(e)] = in[Peer(e)] /\ buffer'[Peer(e)] = buffer[Peer(e)]
         /\ UNCHANGED <<prog, server, host>>
  <1>1. Peer(e) \in Ends /\ Peer(e) # e
    BY EndFacts
  <1>2. PICK k \in 1..Len(in[e]) :
          /\ buffer' = [buffer EXCEPT ![e] = SubSeq(in[e], 1, k)]
          /\ in' = [in EXCEPT ![e] = SubSeq(@, k + 1, Len(@))]
          /\ Go(e, next)
    BY DEF Read, NothingToRead
  <1>3. in[e] # <<>>
    <2>1. Len(<<>>) = 0 /\ 1..0 = {}
      OBVIOUS
    <2>2. QED
      BY <1>2, <2>1
  <1>4. QED
    BY <1>1, <1>2, <1>3, Types DEF Go

LEMMA ReadShut ==
  ASSUME TypeOK, NEW e \in Ends, NEW next, NEW failed, Read(e, next, failed)
  PROVE  /\ UNCHANGED <<prog, server, host>>
         /\ \/ /\ at'[e] = next
               /\ \E k \in 1..Len(in[e]) : /\ buffer'[e] = SubSeq(in[e], 1, k)
                                           /\ in'[e] = SubSeq(in[e], k + 1, Len(in[e]))
            \/ /\ at'[e] \in {next, failed} /\ in[e] = <<>> /\ in'[e] = <<>> /\ buffer'[e] = <<>>
  BY Types DEF Read, NothingToRead, Returned, Go

LEMMA ReadIntOpen ==
  ASSUME TypeOK, NEW e \in Ends, sock[e] = "open", NEW v \in IntNames, NEW next, ReadInt(e, v, next)
  PROVE  /\ in[e] # <<>> /\ at'[e] = next /\ at'[Peer(e)] = at[Peer(e)]
         /\ in'[e] = Tail(in[e]) /\ in'[Peer(e)] = in[Peer(e)]
         /\ mem'[e] = [mem[e] EXCEPT ![v] = Head(in[e])[2]] /\ mem'[Peer(e)] = mem[Peer(e)]
         /\ UNCHANGED <<prog, server, host, buffer>>
  <1>1. Peer(e) \in Ends /\ Peer(e) # e
    BY EndFacts
  <1>2. /\ in[e] # <<>> /\ mem' = [mem EXCEPT ![e][v] = Head(in[e])[2]]
        /\ in' = [in EXCEPT ![e] = Tail(@)] /\ Go(e, next) /\ UNCHANGED buffer
    BY DEF ReadInt, NothingToRead
  <1>3. QED
    BY <1>1, <1>2, Types DEF Go

\* What one read takes of one text, and of two.
LEMMA TakesOne ==
  ASSUME NEW x \in Texts, NEW k \in 1..Len(<<x>>)
  PROVE  SubSeq(<<x>>, 1, k) = <<x>> /\ SubSeq(<<x>>, k + 1, Len(<<x>>)) = <<>>
  <1>1. Len(<<x>>) = 1
    BY OneText
  <1>2. k = 1 /\ k + 1 = 2
    BY <1>1
  <1>3. QED
    BY <1>1, <1>2, OneText

LEMMA TakesTwo ==
  ASSUME NEW x \in Texts, NEW y \in Texts, NEW k \in 1..Len(<<x, y>>)
  PROVE  \/ SubSeq(<<x, y>>, 1, k) = <<x>> /\ SubSeq(<<x, y>>, k + 1, Len(<<x, y>>)) = <<y>>
         \/ SubSeq(<<x, y>>, 1, k) = <<x, y>> /\ SubSeq(<<x, y>>, k + 1, Len(<<x, y>>)) = <<>>
  <1>1. Len(<<x, y>>) = 2
    BY TwoTexts
  <1>2. CASE k = 1
    <2>1. k + 1 = 2
      BY <1>2
    <2>2. SubSeq(<<x, y>>, 1, 1) = <<x>> /\ SubSeq(<<x, y>>, 2, 2) = <<y>>
      BY PairOfTexts
    <2>3. QED
      BY <1>1, <1>2, <2>1, <2>2
  <1>3. CASE k = 2
    <2>1. k + 1 = 3
      BY <1>3
    <2>2. SubSeq(<<x, y>>, 1, 2) = <<x, y>> /\ SubSeq(<<x, y>>, 3, 2) = <<>>
      BY PairOfTexts
    <2>3. QED
      BY <1>1, <1>3, <2>1, <2>2
  <1>4. QED
    BY <1>1, <1>2, <1>3

\* A wish is about the client alone.
LEMMA WishMem ==
  ASSUME TypeOK, NEW e \in Ends, Wish(e)
  PROVE  mem'[e] \in IntVars /\ mem'[Peer(e)] = mem[Peer(e)]
  <1>1. Peer(e) \in Ends /\ Peer(e) # e
    BY EndFacts
  <1>2. PICK w \in Wishes :
          mem' = [mem EXCEPT ![e].op = w.op, ![e].num1 = w.num1, ![e].num2 = w.num2]
    BY DEF Wish
  <1>3. mem'[Peer(e)] = mem[Peer(e)]
    BY <1>1, <1>2, Types
  <1>4. QED
    BY <1>3, WishTyped

----------------------------------------------------------------------------
(* The turns of lab3 *)

LEMMA CalcSays ==
  ASSUME NEW i, NEW b, NEW m, NEW q, NEW j, NEW n
  PROVE  /\ CalcPhase("sayOp", i, b, m, q, j, n) =>
              j = <<>> /\ CalcPhase("prompt1", i, b, m, q, <<Number(m.op)>>, n)
         /\ CalcPhase("sayNum1", i, b, m, q, j, n) /\ m.op # 5 =>
              j = <<>> /\ CalcPhase("prompt2", i, b, m, q, <<Number(m.num1)>>, n)
         /\ CalcPhase("sayNum2", i, b, m, q, j, n) =>
              j = <<>> /\ CalcPhase("answer", i, b, m, q, <<Number(m.num2)>>, n)
  <1>1. CalcPhase("sayOp", i, b, m, q, j, n) =>
          j = <<>> /\ CalcPhase("prompt1", i, b, m, q, <<Number(m.op)>>, n)
    BY DEF CalcPhase
  <1>2. CalcPhase("sayNum1", i, b, m, q, j, n) /\ m.op # 5 =>
          j = <<>> /\ CalcPhase("prompt2", i, b, m, q, <<Number(m.num1)>>, n)
    BY DEF CalcPhase
  <1>3. CalcPhase("sayNum2", i, b, m, q, j, n) =>
          j = <<>> /\ CalcPhase("answer", i, b, m, q, <<Number(m.num2)>>, n)
    BY DEF CalcPhase
  <1>4. QED
    BY <1>1, <1>2, <1>3

LEMMA MenuTaken ==
  ASSUME NEW i, NEW b, NEW m, NEW q, NEW j, NEW n, CalcPhase("menu", i, b, m, q, j, n), i # <<>>
  PROVE  i = <<Menu>> /\ \A x, y : CalcPhase("sayOp", <<>>, x, y, q, j, n)
  BY DEF CalcPhase

LEMMA PromptsTaken ==
  ASSUME NEW i, i # <<>>, NEW b, NEW m, NEW q, NEW j, NEW n
  PROVE  /\ CalcPhase("prompt1", i, b, m, q, j, n) =>
              /\ i \in {<<Text("ask1")>>, <<Bye>>}
              /\ \A x : CalcPhase("sayNum1", <<>>, x, m, q, j, n)
         /\ CalcPhase("prompt2", i, b, m, q, j, n) =>
              /\ i = <<Text("ask2")>>
              /\ \A x : CalcPhase("sayNum2", <<>>, x, m, q, j, n)
  <1>1. CalcPhase("prompt1", i, b, m, q, j, n) =>
          /\ i \in {<<Text("ask1")>>, <<Bye>>}
          /\ \A x : CalcPhase("sayNum1", <<>>, x, m, q, j, n)
    BY DEF CalcPhase
  <1>2. CalcPhase("prompt2", i, b, m, q, j, n) =>
          /\ i = <<Text("ask2")>>
          /\ \A x : CalcPhase("sayNum2", <<>>, x, m, q, j, n)
    BY DEF CalcPhase
  <1>3. QED
    BY <1>1, <1>2

\* The answer comes alone or with the next menu.
LEMMA AnswerTaken ==
  ASSUME NEW i, i # <<>>, NEW b, NEW m, NEW q, NEW j, NEW n, CalcPhase("answer", i, b, m, q, j, n),
         NEW k \in 1..Len(i)
  PROVE  CalcPhase("menu", SubSeq(i, k + 1, Len(i)), SubSeq(i, 1, k), m, q, j, n)
  <1>1. CASE q \in {"off", "showMenu"} /\ j = <<>> /\ OneReply(i, m)
    <2>1. PICK x \in Texts : i = <<x>>
      BY <1>1 DEF OneReply
    <2>2. SubSeq(i, 1, k) = i /\ SubSeq(i, k + 1, Len(i)) = <<>>
      BY <2>1, TakesOne
    <2>3. QED
      BY <1>1, <2>2 DEF CalcPhase
  <1>2. CASE q = "op" /\ j = <<>> /\ ReplyAndMenu(i, m)
    <2>1. PICK x \in Texts : i = <<x, Menu>> /\ IsReply(m, x)
      BY <1>2 DEF ReplyAndMenu
    <2>2. PICK z : z = SubSeq(i, k + 1, Len(i))
      OBVIOUS
    <2>3. PICK w : w = SubSeq(i, 1, k)
      OBVIOUS
    <2>4. (w = <<x>> /\ z = <<Menu>>) \/ (w = <<x, Menu>> /\ z = <<>>)
      BY <2>1, <2>2, <2>3, TakesTwo, TextsTyped
    <2>5. CASE w = <<x>> /\ z = <<Menu>>
      <3>1. OneReply(w, m)
        BY <2>1, <2>5 DEF OneReply
      <3>2. CalcPhase("menu", z, w, m, q, j, n)
        BY <1>2, <2>5, <3>1 DEF CalcPhase
      <3>3. QED
        BY <2>2, <2>3, <3>2
    <2>6. CASE w = <<x, Menu>> /\ z = <<>>
      <3>1. ReplyAndMenu(w, m)
        BY <2>1, <2>6 DEF ReplyAndMenu
      <3>2. CalcPhase("menu", z, w, m, q, j, n)
        BY <1>2, <2>6, <3>1 DEF CalcPhase
      <3>3. QED
        BY <2>2, <2>3, <3>2
    <2>7. QED
      BY <2>4, <2>5, <2>6
  <1>3. CASE q \in {"leave", "gone"} /\ j = <<>> /\ ~Known(m) /\ i = <<Bye>>
    <2>1. SubSeq(i, 1, k) = i /\ SubSeq(i, k + 1, Len(i)) = <<>>
      BY <1>3, TakesOne, TextsTyped
    <2>2. QED
      BY <1>3, <2>1 DEF CalcPhase
  <1>4. QED
    BY <1>1, <1>2, <1>3 DEF CalcPhase

\* The turns of the child.
LEMMA CalcShows ==
  ASSUME NEW p, NEW i, NEW b, NEW m, NEW j, NEW n, CalcPhase(p, i, b, m, "showMenu", j, n)
  PROVE  CalcPhase(p, Append(i, Menu), b, m, "op", j, n)
  <1>1. CASE p = "menu" /\ i = <<>> /\ (b = <<>> \/ OneReply(b, m))
    <2>1. Append(i, Menu) = <<Menu>>
      BY <1>1, OneText, TextsTyped
    <2>2. QED
      BY <1>1, <2>1 DEF CalcPhase
  <1>2. CASE p = "answer" /\ OneReply(i, m)
    <2>1. PICK x \in Texts : i = <<x>> /\ IsReply(m, x)
      BY <1>2 DEF OneReply
    <2>2. Append(i, Menu) = <<x, Menu>>
      BY <2>1, PairOfTexts
    <2>3. ReplyAndMenu(Append(i, Menu), m)
      BY <2>1, <2>2 DEF ReplyAndMenu
    <2>4. QED
      BY <1>2, <2>3 DEF CalcPhase
  <1>3. QED
    BY <1>1, <1>2 DEF CalcPhase

LEMMA CalcHears ==
  ASSUME NEW p, NEW i, NEW b, NEW m \in IntVars, NEW j, j # <<>>, NEW n \in IntVars
  PROVE  /\ CalcPhase(p, i, b, m, "op", j, n) =>
              CalcPhase(p, i, b, m, "ask1", Tail(j), [n EXCEPT !["op"] = Head(j)[2]])
         /\ CalcPhase(p, i, b, m, "num1", j, n) =>
              CalcPhase(p, i, b, m, "ask2", Tail(j), [n EXCEPT !["num1"] = Head(j)[2]])
         /\ CalcPhase(p, i, b, m, "num2", j, n) =>
              CalcPhase(p, i, b, m, "reply", Tail(j), [n EXCEPT !["num2"] = Head(j)[2]])
  <1>1. m.op \in Int32 /\ m.num1 \in Int32 /\ m.num2 \in Int32
    BY DEF IntVars
  <1>2. ASSUME NEW x \in Int32, j = <<Number(x)>>
        PROVE  Tail(j) = <<>> /\ Head(j)[2] = x
    <2>1. Tail(j) = <<>> /\ Head(j) = Number(x)
      BY <1>2, OneText, TextsTyped
    <2>2. QED
      BY <2>1 DEF Number
  <1>3. ASSUME CalcPhase(p, i, b, m, "op", j, n)
        PROVE  CalcPhase(p, i, b, m, "ask1", Tail(j), [n EXCEPT !["op"] = Head(j)[2]])
    <2>1. j = <<Number(m.op)>> /\ p = "prompt1" /\ i = <<>>
      BY <1>3 DEF CalcPhase
    <2>2. Tail(j) = <<>> /\ Head(j)[2] = m.op
      BY <1>1, <1>2, <2>1
    <2>3. PICK r : r = [n EXCEPT !["op"] = Head(j)[2]]
      OBVIOUS
    <2>4. r.op = m.op
      BY <1>1, <2>2, <2>3 DEF IntVars
    <2>5. CalcPhase(p, i, b, m, "ask1", Tail(j), r)
      BY <2>1, <2>2, <2>4 DEF CalcPhase
    <2>6. QED
      BY <2>3, <2>5
  <1>4. ASSUME CalcPhase(p, i, b, m, "num1", j, n)
        PROVE  CalcPhase(p, i, b, m, "ask2", Tail(j), [n EXCEPT !["num1"] = Head(j)[2]])
    <2>1. j = <<Number(m.num1)>> /\ p = "prompt2" /\ i = <<>> /\ n.op = m.op
      BY <1>4 DEF CalcPhase
    <2>2. Tail(j) = <<>> /\ Head(j)[2] = m.num1
      BY <1>1, <1>2, <2>1
    <2>3. PICK r : r = [n EXCEPT !["num1"] = Head(j)[2]]
      OBVIOUS
    <2>4. r.num1 = m.num1 /\ r.op = n.op
      BY <1>1, <2>2, <2>3 DEF IntVars
    <2>5. CalcPhase(p, i, b, m, "ask2", Tail(j), r)
      BY <2>1, <2>2, <2>4 DEF CalcPhase
    <2>6. QED
      BY <2>3, <2>5
  <1>5. ASSUME CalcPhase(p, i, b, m, "num2", j, n)
        PROVE  CalcPhase(p, i, b, m, "reply", Tail(j), [n EXCEPT !["num2"] = Head(j)[2]])
    <2>1. j = <<Number(m.num2)>> /\ p = "answer" /\ i = <<>> /\ n.op = m.op /\ n.num1 = m.num1
      BY <1>5 DEF CalcPhase
    <2>2. Tail(j) = <<>> /\ Head(j)[2] = m.num2
      BY <1>1, <1>2, <2>1
    <2>3. PICK r : r = [n EXCEPT !["num2"] = Head(j)[2]]
      OBVIOUS
    <2>4. r.num2 = m.num2 /\ r.num1 = n.num1 /\ r.op = n.op
      BY <1>1, <2>2, <2>3 DEF IntVars
    <2>5. CalcPhase(p, i, b, m, "reply", Tail(j), r)
      BY <2>1, <2>2, <2>4 DEF CalcPhase
    <2>6. QED
      BY <2>3, <2>5
  <1>6. QED
    BY <1>3, <1>4, <1>5

LEMMA CalcAsks ==
  ASSUME NEW p, NEW i, NEW b, NEW m, NEW j, NEW n
  PROVE  /\ CalcPhase(p, i, b, m, "ask1", j, n) /\ n.op = 5 =>
              CalcPhase(p, Append(i, Bye), b, m, "leave", j, n)
         /\ CalcPhase(p, i, b, m, "ask1", j, n) /\ n.op # 5 =>
              CalcPhase(p, Append(i, Text("ask1")), b, m, "num1", j, n)
         /\ CalcPhase(p, i, b, m, "ask2", j, n) =>
              CalcPhase(p, Append(i, Text("ask2")), b, m, "num2", j, n)
  <1>1. /\ Append(<<>>, Bye) = <<Bye>> /\ Append(<<>>, Text("ask1")) = <<Text("ask1")>>
        /\ Append(<<>>, Text("ask2")) = <<Text("ask2")>>
    BY OneText, TextsTyped
  <1>2. CalcPhase(p, i, b, m, "ask1", j, n) => p = "prompt1" /\ i = <<>> /\ j = <<>> /\ n.op = m.op
    BY DEF CalcPhase
  <1>3. CalcPhase(p, i, b, m, "ask2", j, n) =>
          p = "prompt2" /\ i = <<>> /\ j = <<>> /\ n.op = m.op /\ n.num1 = m.num1
    BY DEF CalcPhase
  <1>4. ASSUME CalcPhase(p, i, b, m, "ask1", j, n), n.op = 5
        PROVE  CalcPhase(p, Append(i, Bye), b, m, "leave", j, n)
    BY <1>1, <1>2, <1>4 DEF CalcPhase
  <1>5. ASSUME CalcPhase(p, i, b, m, "ask1", j, n), n.op # 5
        PROVE  CalcPhase(p, Append(i, Text("ask1")), b, m, "num1", j, n)
    BY <1>1, <1>2, <1>5 DEF CalcPhase
  <1>6. ASSUME CalcPhase(p, i, b, m, "ask2", j, n)
        PROVE  CalcPhase(p, Append(i, Text("ask2")), b, m, "num2", j, n)
    BY <1>1, <1>3, <1>6 DEF CalcPhase
  <1>7. QED
    BY <1>4, <1>5, <1>6

LEMMA CalcAnswers ==
  ASSUME NEW p, NEW i, NEW b, NEW m \in IntVars, NEW j, NEW n \in IntVars,
         CalcPhase(p, i, b, m, "reply", j, n)
  PROVE  /\ ~Known(n) => CalcPhase(p, Append(i, Bye), b, m, "leave", j, n)
         /\ Known(n) /\ Fatal(n) => \A x : CalcPhase(p, i, b, m, "gone", j, x)
         /\ Known(n) /\ ~Fatal(n) => CalcPhase(p, Append(i, Answer(Result(n))), b, m, "showMenu", j, n)
  <1>1. /\ p = "answer" /\ i = <<>> /\ j = <<>>
        /\ n.op = m.op /\ n.num1 = m.num1 /\ n.num2 = m.num2
    BY DEF CalcPhase
  <1>2. (Known(n) <=> Known(m)) /\ (Fatal(n) <=> Fatal(m)) /\ \A x : Right(n, x) <=> Right(m, x)
    BY <1>1 DEF Known, Fatal, Right
  <1>3. ASSUME ~Known(n)
        PROVE  CalcPhase(p, Append(i, Bye), b, m, "leave", j, n)
    <2>1. Append(i, Bye) = <<Bye>>
      BY <1>1, OneText, TextsTyped
    <2>2. QED
      BY <1>1, <1>2, <1>3, <2>1 DEF CalcPhase
  <1>4. Known(n) /\ Fatal(n) => \A x : CalcPhase(p, i, b, m, "gone", j, x)
    BY <1>1, <1>2 DEF CalcPhase
  <1>5. ASSUME Known(n), ~Fatal(n)
        PROVE  CalcPhase(p, Append(i, Answer(Result(n))), b, m, "showMenu", j, n)
    <2>1. PICK x : x = Result(n)
      OBVIOUS
    <2>2. x \in Int32 /\ Right(m, x)
      BY <1>2, <1>5, <2>1, ResultIsRight
    <2>3. Answer(x) \in Texts /\ Answer(x)[1] = "answer" /\ Answer(x)[2] = x
      BY <2>2, TextsTyped DEF Answer
    <2>4. Append(i, Answer(x)) = <<Answer(x)>>
      BY <1>1, <2>3, OneText
    <2>5. OneReply(Append(i, Answer(x)), m)
      BY <1>2, <1>5, <2>2, <2>3, <2>4 DEF OneReply, IsReply
    <2>6. CalcPhase(p, Append(i, Answer(x)), b, m, "showMenu", j, n)
      BY <1>1, <2>5 DEF CalcPhase
    <2>7. QED
      BY <2>1, <2>6
  <1>6. QED
    BY <1>3, <1>4, <1>5

\* What the end of the child and its start leave.
LEMMA CalcEnds ==
  ASSUME NEW p, NEW i, NEW b, NEW m, NEW j, NEW n
  PROVE  /\ CalcPhase(p, i, b, m, "leave", j, n) => \A x : CalcPhase(p, i, b, m, "gone", j, x)
         /\ CalcPhase(p, i, b, m, "off", j, n) => \A x : CalcPhase(p, i, b, m, "showMenu", j, x)
  <1>1. CalcPhase(p, i, b, m, "leave", j, n) => \A x : CalcPhase(p, i, b, m, "gone", j, x)
    BY DEF CalcPhase
  <1>2. CalcPhase(p, i, b, m, "off", j, n) => \A x : CalcPhase(p, i, b, m, "showMenu", j, x)
    BY DEF CalcPhase
  <1>3. QED
    BY <1>1, <1>2

LEMMA CalcNow ==
  ASSUME NEW c \in Clients
  PROVE  CalcInv(c)' <=>
           (at'[Client(c)] # "gone" =>
              IF server'[host'[c]] \in {"up", "busy"}
              THEN CalcPhase(at'[Client(c)], in'[Client(c)], buffer'[Client(c)], mem'[Client(c)],
                             at'[Child(c)], in'[Child(c)], mem'[Child(c)])
              ELSE CalcRest(at'[Client(c)], in'[Client(c)], buffer'[Client(c)], mem'[Client(c)]))
  BY DEF CalcInv, Listening

\* What was typed and what came before a server went down is what is left.
LEMMA CalcRestLeft ==
  ASSUME NEW p, NEW i, NEW b, NEW m, NEW q, NEW j, NEW n, CalcPhase(p, i, b, m, q, j, n)
  PROVE  CalcRest(p, i, b, m)
  <1>1. /\ Len(<<>>) = 0
        /\ \A x \in Texts : Len(<<x>>) = 1 /\ <<x>>[1] = x
        /\ \A x \in Texts : Len(<<x, Menu>>) = 2 /\ <<x, Menu>>[1] = x
    BY OneText, TwoTexts, TextsTyped
  <1>2. /\ \A s : OneReply(s, m) => Len(s) = 1 /\ IsReply(m, s[1])
        /\ \A s : ReplyAndMenu(s, m) => Len(s) = 2 /\ IsReply(m, s[1])
        /\ ~Known(m) => Len(<<Bye>>) = 1 /\ IsReply(m, <<Bye>>[1])
    <2>1. ASSUME NEW s, OneReply(s, m)
          PROVE  Len(s) = 1 /\ IsReply(m, s[1])
      <3>1. PICK x \in Texts : s = <<x>> /\ IsReply(m, x)
        BY <2>1 DEF OneReply
      <3>2. QED
        BY <1>1, <3>1
    <2>2. ASSUME NEW s, ReplyAndMenu(s, m)
          PROVE  Len(s) = 2 /\ IsReply(m, s[1])
      <3>1. PICK x \in Texts : s = <<x, Menu>> /\ IsReply(m, x)
        BY <2>2 DEF ReplyAndMenu
      <3>2. QED
        BY <1>1, <3>1
    <2>3. ~Known(m) => Len(<<Bye>>) = 1 /\ IsReply(m, <<Bye>>[1])
      BY <1>1, TextsTyped DEF IsReply
    <2>4. QED
      BY <2>1, <2>2, <2>3
  <1>3. p \in {"menu", "sayOp", "prompt1", "sayNum1", "prompt2", "sayNum2", "answer", "leave"}
    BY DEF CalcPhase
  <1>4. p = "menu" =>
          /\ i = <<>> \/ i = <<Menu>>
          /\ b = <<>> \/ OneReply(b, m) \/ ReplyAndMenu(b, m) \/ (b = <<Bye>> /\ ~Known(m))
    BY DEF CalcPhase
  <1>5. p \in {"sayOp", "sayNum1", "sayNum2"} => i = <<>>
    BY DEF CalcPhase
  <1>6. p \in {"prompt1", "prompt2"} => i \in {<<>>, <<Bye>>, <<Text("ask1")>>, <<Text("ask2")>>}
    BY DEF CalcPhase
  <1>7. p = "answer" => i = <<>> \/ OneReply(i, m) \/ ReplyAndMenu(i, m) \/ (i = <<Bye>> /\ ~Known(m))
    BY DEF CalcPhase
  <1>8. ASSUME NEW s, s = <<>> \/ OneReply(s, m) \/ ReplyAndMenu(s, m) \/ (s = <<Bye>> /\ ~Known(m))
         PROVE  Len(s) <= 2 /\ (s = <<>> \/ IsReply(m, s[1]))
    <2>1. CASE s = <<>>
      BY <1>1, <2>1
    <2>2. CASE OneReply(s, m)
      <3>1. Len(s) = 1 /\ IsReply(m, s[1])
        BY <1>2, <2>2
      <3>2. QED
        BY <3>1
    <2>3. CASE ReplyAndMenu(s, m)
      <3>1. Len(s) = 2 /\ IsReply(m, s[1])
        BY <1>2, <2>3
      <3>2. QED
        BY <3>1
    <2>4. CASE s = <<Bye>> /\ ~Known(m)
      <3>1. Len(s) = 1 /\ IsReply(m, s[1])
        BY <1>2, <2>4
      <3>2. QED
        BY <3>1
    <2>5. QED
      BY <1>8, <2>1, <2>2, <2>3, <2>4
  <1>9. p = "menu" => Len(i) <= 1 /\ (b = <<>> \/ IsReply(m, b[1]))
    <2>1. Len(<<>>) <= 1 /\ Len(<<Menu>>) <= 1
      BY <1>1, TextsTyped
    <2>2. QED
      BY <1>4, <1>8, <2>1
  <1>10. p \in {"prompt1", "prompt2"} => Len(i) <= 1
    <2>1. /\ Len(<<Bye>>) <= 1 /\ Len(<<Text("ask1")>>) <= 1 /\ Len(<<Text("ask2")>>) <= 1
          /\ Len(<<>>) <= 1
      BY OneText, TextsTyped
    <2>2. QED
      BY <1>6, <2>1
  <1>11. p = "answer" => Len(i) <= 2 /\ (i = <<>> \/ IsReply(m, i[1]))
    BY <1>7, <1>8
  <1>12. QED
    BY <1>3, <1>5, <1>9, <1>10, <1>11 DEF CalcRest

\* What the first read leaves of a short sequence.
LEMMA RestAfterRead ==
  ASSUME NEW S, NEW s \in Seq(S), NEW k \in 1..Len(s)
  PROVE  /\ Len(s) <= 1 => SubSeq(s, k + 1, Len(s)) = <<>>
         /\ Len(s) <= 2 => Len(SubSeq(s, k + 1, Len(s))) <= 1
         /\ SubSeq(s, 1, k) # <<>> /\ SubSeq(s, 1, k)[1] = s[1]
  <1>1. PICK n \in Nat : n = Len(s)
    BY LenProperties
  <1>2. PICK m \in Int : m = k + 1
    BY <1>1
  <1>3. \A i \in 1..n : s[i] \in S
    BY <1>1, ElementOfSeq
  <1>4. k \in Int /\ k >= 1 /\ k <= n /\ 1..k \subseteq 1..n /\ m..n \subseteq 1..n
    BY <1>1, <1>2
  <1>5. PICK z : z = SubSeq(s, 1, k)
    OBVIOUS
  <1>6. PICK r : r = SubSeq(s, m, n)
    OBVIOUS
  <1>7. z \in Seq(S) /\ Len(z) = (IF 1 <= k THEN k - 1 + 1 ELSE 0)
        /\ \A i \in 1..(k - 1 + 1) : z[i] = s[1 + i - 1]
    BY <1>3, <1>4, <1>5, SubSeqProperties
  <1>8. r \in Seq(S) /\ Len(r) = (IF m <= n THEN n - m + 1 ELSE 0)
    <2>1. \A i \in m..n : s[i] \in S
      BY <1>3, <1>4
    <2>2. QED
      BY <1>6, <2>1, SubSeqProperties
  <1>9. z # <<>> /\ z[1] = s[1]
    <2>1. Len(z) = k /\ 1 \in 1..(k - 1 + 1) /\ 1 + 1 - 1 = 1
      BY <1>4, <1>7
    <2>2. z # <<>>
      BY <1>4, <2>1, EmptySeq
    <2>3. QED
      BY <1>7, <2>1, <2>2
  <1>10. (n <= 1 => r = <<>>) /\ (n <= 2 => Len(r) <= 1)
    BY <1>2, <1>4, <1>8, EmptySeq
  <1>11. QED
    BY <1>1, <1>2, <1>5, <1>6, <1>9, <1>10

\* A client that goes on when its server is down.
LEMMA CalcRestReads ==
  ASSUME NEW i \in Seq(Texts), NEW b, NEW m, NEW k \in 1..Len(i)
  PROVE  /\ CalcRest("menu", i, b, m) =>
              \A x, y : CalcRest("sayOp", SubSeq(i, k + 1, Len(i)), x, y)
         /\ CalcRest("prompt1", i, b, m) =>
              \A x, y : CalcRest("sayNum1", SubSeq(i, k + 1, Len(i)), x, y)
         /\ CalcRest("prompt2", i, b, m) =>
              \A x, y : CalcRest("sayNum2", SubSeq(i, k + 1, Len(i)), x, y)
         /\ CalcRest("answer", i, b, m) =>
              CalcRest("menu", SubSeq(i, k + 1, Len(i)), SubSeq(i, 1, k), m)
  <1>1. PICK r : r = SubSeq(i, k + 1, Len(i))
    OBVIOUS
  <1>2. PICK z : z = SubSeq(i, 1, k)
    OBVIOUS
  <1>3. /\ Len(i) <= 1 => r = <<>>
        /\ Len(i) <= 2 => Len(r) <= 1
        /\ z # <<>> /\ z[1] = i[1]
    BY <1>1, <1>2, RestAfterRead
  <1>4. i # <<>>
    <2>1. Len(<<>>) = 0 /\ 1..0 = {}
      OBVIOUS
    <2>2. QED
      BY <2>1
  <1>5. CalcRest("menu", i, b, m) => \A x, y : CalcRest("sayOp", r, x, y)
    BY <1>3 DEF CalcRest
  <1>6. CalcRest("prompt1", i, b, m) => \A x, y : CalcRest("sayNum1", r, x, y)
    BY <1>3 DEF CalcRest
  <1>7. CalcRest("prompt2", i, b, m) => \A x, y : CalcRest("sayNum2", r, x, y)
    BY <1>3 DEF CalcRest
  <1>8. CalcRest("answer", i, b, m) => CalcRest("menu", r, z, m)
    BY <1>3, <1>4 DEF CalcRest
  <1>9. QED
    BY <1>1, <1>2, <1>5, <1>6, <1>7, <1>8

LEMMA CalcRestEmpty ==
  ASSUME NEW b, NEW m
  PROVE  /\ CalcRest("menu", <<>>, <<>>, m) /\ CalcRest("sayOp", <<>>, b, m)
         /\ CalcRest("prompt1", <<>>, b, m) /\ CalcRest("sayNum1", <<>>, b, m)
         /\ CalcRest("prompt2", <<>>, b, m) /\ CalcRest("sayNum2", <<>>, b, m)
         /\ CalcRest("answer", <<>>, b, m) /\ \A i : CalcRest("leave", i, b, m)
  <1>1. Len(<<>>) = 0
    OBVIOUS
  <1>2. QED
    BY <1>1 DEF CalcRest

LEMMA TextsSound ==
  /\ Menu # Silence /\ Bye # Silence /\ Text("ask1") # Silence /\ Text("ask2") # Silence
  /\ \A n : Number(n) # Silence /\ Answer(n) # Silence
  BY DEF Menu, Bye, Silence, Text, Number, Answer

LEMMA CalcWhileUp ==
  ASSUME TypeOK, NEW c \in Clients, at[Client(c)] # "gone", Listening(host[c]),
         sock[Client(c)] = "open", CalcInv(c), CalcDialogue(Client(c)), ~Finish(Client(c))
  PROVE  CalcInv(c)'
  <1> DEFINE e == Client(c)
             f == Child(c)
             n == mem[f]
             q == at[f]
             j == in[f]
             b == buffer[e]
             m == mem[e]
             i == in[e]
  <1>1. e \in Ends /\ f \in Ends /\ Peer(e) = f
    BY EndFacts
  <1>2. CalcPhase(at[e], i, b, m, q, j, n)
    BY DEF CalcInv
  <1>3. SUFFICES /\ server'[host'[c]] \in {"up", "busy"}
                 /\ CalcPhase(at'[e], in'[e], buffer'[e], mem'[e], at'[f], in'[f], mem'[f])
    BY CalcNow
  <1>4. server[host[c]] \in {"up", "busy"}
    BY DEF Listening
  <1>5. i \in Seq(Texts) /\ j \in Seq(Texts)
    BY <1>1, Types
  <1>6. m.op \in Int32 /\ m.num1 \in Int32 /\ m.num2 \in Int32
    BY <1>1, FieldsTyped
  <1>s. sock[e] = "open" /\ ~Finish(e) /\ CalcDialogue(e)
    OBVIOUS
  <1> HIDE DEF e, f, i, b, m, q, j, n
  <1>7. CASE at[e] = "menu" /\ Read(e, "sayOp", "leave") /\ Wish(e)
    <2>1. /\ i # <<>> /\ at'[e] = "sayOp" /\ at'[f] = q /\ in'[f] = j /\ mem'[f] = n
          /\ UNCHANGED <<prog, server, host>>
      BY <1>1, <1>7, <1>s, ReadOpen, WishMem DEF i, j, q, n
    <2>2. i = <<Menu>> /\ \A x, y : CalcPhase("sayOp", <<>>, x, y, q, j, n)
      BY <1>2, <1>7, <2>1, MenuTaken
    <2>3. in'[e] = <<>>
      BY <1>1, <1>7, <1>s, <2>2, ReadOpen, TakesOne, TextsTyped DEF i
    <2>4. QED
      BY <1>4, <2>1, <2>2, <2>3
  <1>8. CASE at[e] = "sayOp" /\ Write(e, Number(m.op), "prompt1", "prompt1")
    <2>1. /\ at'[e] = "prompt1" /\ at'[f] = q /\ in'[f] = Append(j, Number(m.op)) /\ in'[e] = i
          /\ UNCHANGED <<prog, server, host, buffer, mem>>
      BY <1>1, <1>6, <1>8, <1>s, WriteOpen, TextsTyped, TextsSound DEF i, j, q
    <2>2. j = <<>> /\ CalcPhase("prompt1", i, b, m, q, <<Number(m.op)>>, n)
      BY <1>2, <1>8, CalcSays
    <2>3. in'[f] = <<Number(m.op)>>
      BY <1>6, <2>1, <2>2, OneText, TextsTyped
    <2>4. QED
      BY <1>4, <2>1, <2>2, <2>3 DEF b, m, n
  <1>9. CASE at[e] = "prompt1" /\ Read(e, "sayNum1", "leave") /\ UNCHANGED mem
    <2>1. /\ i # <<>> /\ at'[e] = "sayNum1" /\ at'[f] = q /\ in'[f] = j
          /\ UNCHANGED <<prog, server, host>>
      BY <1>1, <1>9, <1>s, ReadOpen DEF i, j, q
    <2>2. i \in {<<Text("ask1")>>, <<Bye>>} /\ \A x : CalcPhase("sayNum1", <<>>, x, m, q, j, n)
      BY <1>2, <1>9, <2>1, PromptsTaken
    <2>3. in'[e] = <<>>
      BY <1>1, <1>9, <1>s, <2>2, ReadOpen, TakesOne, TextsTyped DEF i
    <2>4. QED
      BY <1>4, <1>9, <2>1, <2>2, <2>3 DEF m, n
  <1>10. CASE at[e] = "sayNum1" /\ m.op # 5 /\ Write(e, Number(m.num1), "prompt2", "prompt2")
    <2>1. /\ at'[e] = "prompt2" /\ at'[f] = q /\ in'[f] = Append(j, Number(m.num1)) /\ in'[e] = i
          /\ UNCHANGED <<prog, server, host, buffer, mem>>
      BY <1>1, <1>6, <1>10, <1>s, WriteOpen, TextsTyped, TextsSound DEF i, j, q
    <2>2. j = <<>> /\ CalcPhase("prompt2", i, b, m, q, <<Number(m.num1)>>, n)
      BY <1>2, <1>10, CalcSays
    <2>3. in'[f] = <<Number(m.num1)>>
      BY <1>6, <2>1, <2>2, OneText, TextsTyped
    <2>4. QED
      BY <1>4, <2>1, <2>2, <2>3 DEF b, m, n
  <1>11. CASE at[e] = "prompt2" /\ Read(e, "sayNum2", "leave") /\ UNCHANGED mem
    <2>1. /\ i # <<>> /\ at'[e] = "sayNum2" /\ at'[f] = q /\ in'[f] = j
          /\ UNCHANGED <<prog, server, host>>
      BY <1>1, <1>11, <1>s, ReadOpen DEF i, j, q
    <2>2. i = <<Text("ask2")>> /\ \A x : CalcPhase("sayNum2", <<>>, x, m, q, j, n)
      BY <1>2, <1>11, <2>1, PromptsTaken
    <2>3. in'[e] = <<>>
      BY <1>1, <1>11, <1>s, <2>2, ReadOpen, TakesOne, TextsTyped DEF i
    <2>4. QED
      BY <1>4, <1>11, <2>1, <2>2, <2>3 DEF m, n
  <1>12. CASE at[e] = "sayNum2" /\ Write(e, Number(m.num2), "answer", "answer")
    <2>1. /\ at'[e] = "answer" /\ at'[f] = q /\ in'[f] = Append(j, Number(m.num2)) /\ in'[e] = i
          /\ UNCHANGED <<prog, server, host, buffer, mem>>
      BY <1>1, <1>6, <1>12, <1>s, WriteOpen, TextsTyped, TextsSound DEF i, j, q
    <2>2. j = <<>> /\ CalcPhase("answer", i, b, m, q, <<Number(m.num2)>>, n)
      BY <1>2, <1>12, CalcSays
    <2>3. in'[f] = <<Number(m.num2)>>
      BY <1>6, <2>1, <2>2, OneText, TextsTyped
    <2>4. QED
      BY <1>4, <2>1, <2>2, <2>3 DEF b, m, n
  <1>13. CASE at[e] = "answer" /\ Read(e, "menu", "leave") /\ UNCHANGED mem
    <2>1. /\ i # <<>> /\ at'[e] = "menu" /\ at'[f] = q /\ in'[f] = j
          /\ UNCHANGED <<prog, server, host>>
      BY <1>1, <1>13, <1>s, ReadOpen DEF i, j, q
    <2>2. PICK k \in 1..Len(i) : buffer'[e] = SubSeq(i, 1, k) /\ in'[e] = SubSeq(i, k + 1, Len(i))
      BY <1>1, <1>13, <1>s, ReadOpen DEF i
    <2>3. CalcPhase("menu", in'[e], buffer'[e], m, q, j, n)
      BY <1>2, <1>13, <2>1, <2>2, AnswerTaken
    <2>4. QED
      BY <1>4, <1>13, <2>1, <2>3 DEF m, n
  <1>14. at[e] # "leave"
    BY <1>2 DEF CalcPhase
  <1>15. QED
    BY <1>7, <1>8, <1>9, <1>10, <1>11, <1>12, <1>13, <1>14, <1>s DEF CalcDialogue, m

LEMMA CalcWhileDown ==
  ASSUME TypeOK, NEW c \in Clients, at[Client(c)] # "gone", ~Listening(host[c]),
         sock[Client(c)] # "open", CalcInv(c), CalcDialogue(Client(c)), ~Finish(Client(c))
  PROVE  CalcInv(c)'
  <1> DEFINE e == Client(c)
             b == buffer[e]
             m == mem[e]
             i == in[e]
  <1>1. e \in Ends
    BY EndFacts
  <1>2. CalcRest(at[e], i, b, m)
    BY DEF CalcInv
  <1>3. SUFFICES /\ server'[host'[c]] \notin {"up", "busy"}
                 /\ CalcRest(at'[e], in'[e], buffer'[e], mem'[e])
    BY CalcNow
  <1>4. server[host[c]] \notin {"up", "busy"}
    BY DEF Listening
  <1>5. i \in Seq(Texts)
    BY <1>1, Types
  <1>s. sock[e] # "open" /\ ~Finish(e) /\ CalcDialogue(e)
    OBVIOUS
  <1> HIDE DEF e, i, b, m
  <1>6. ASSUME NEW next, NEW failed, NEW text, text # Silence, Write(e, text, next, failed)
        PROVE  /\ server'[host'[c]] \notin {"up", "busy"}
               /\ at'[e] \in {next, failed} /\ in'[e] = i /\ buffer'[e] = b /\ mem'[e] = m
    BY <1>1, <1>4, <1>6, <1>s, WriteShut DEF i, b, m
  <1>7. ASSUME NEW next, Read(e, next, "leave")
        PROVE  /\ server'[host'[c]] \notin {"up", "busy"}
               /\ \/ at'[e] = "leave"
                  \/ /\ at'[e] = next
                     /\ \E k \in 1..Len(i) : buffer'[e] = SubSeq(i, 1, k) /\ in'[e] = SubSeq(i, k + 1, Len(i))
                  \/ at'[e] = next /\ in'[e] = <<>> /\ buffer'[e] = <<>>
    BY <1>1, <1>4, <1>7, ReadShut DEF i
  <1>8. CASE at[e] = "menu" /\ Read(e, "sayOp", "leave")
    <2>1. \A k \in 1..Len(i) : \A x, y : CalcRest("sayOp", SubSeq(i, k + 1, Len(i)), x, y)
      BY <1>2, <1>5, <1>8, CalcRestReads
    <2>2. \A x, y : CalcRest("sayOp", <<>>, x, y) /\ \A z : CalcRest("leave", z, x, y)
      BY CalcRestEmpty
    <2>3. QED
      BY <1>7, <1>8, <2>1, <2>2
  <1>9. CASE at[e] = "prompt1" /\ Read(e, "sayNum1", "leave")
    <2>1. \A k \in 1..Len(i) : \A x, y : CalcRest("sayNum1", SubSeq(i, k + 1, Len(i)), x, y)
      BY <1>2, <1>5, <1>9, CalcRestReads
    <2>2. \A x, y : CalcRest("sayNum1", <<>>, x, y) /\ \A z : CalcRest("leave", z, x, y)
      BY CalcRestEmpty
    <2>3. QED
      BY <1>7, <1>9, <2>1, <2>2
  <1>10. CASE at[e] = "prompt2" /\ Read(e, "sayNum2", "leave")
    <2>1. \A k \in 1..Len(i) : \A x, y : CalcRest("sayNum2", SubSeq(i, k + 1, Len(i)), x, y)
      BY <1>2, <1>5, <1>10, CalcRestReads
    <2>2. \A x, y : CalcRest("sayNum2", <<>>, x, y) /\ \A z : CalcRest("leave", z, x, y)
      BY CalcRestEmpty
    <2>3. QED
      BY <1>7, <1>10, <2>1, <2>2
  <1>11. CASE at[e] = "answer" /\ Read(e, "menu", "leave") /\ UNCHANGED mem
    BY <1>2, <1>5, <1>7, <1>11, CalcRestReads, CalcRestEmpty DEF m
  <1>12. CASE at[e] = "sayOp" /\ Write(e, Number(m.op), "prompt1", "prompt1")
    <2>1. i = <<>>
      BY <1>2, <1>12 DEF CalcRest
    <2>2. QED
      BY <1>6, <1>12, <2>1, TextsSound, CalcRestEmpty
  <1>13. CASE at[e] = "sayNum1" /\ Write(e, Number(m.num1), "prompt2", "prompt2")
    <2>1. i = <<>>
      BY <1>2, <1>13 DEF CalcRest
    <2>2. QED
      BY <1>6, <1>13, <2>1, TextsSound, CalcRestEmpty
  <1>14. CASE at[e] = "sayNum2" /\ Write(e, Number(m.num2), "answer", "answer")
    <2>1. i = <<>>
      BY <1>2, <1>14 DEF CalcRest
    <2>2. QED
      BY <1>6, <1>14, <2>1, TextsSound, CalcRestEmpty
  <1>15. QED
    BY <1>8, <1>9, <1>10, <1>11, <1>12, <1>13, <1>14, <1>s DEF CalcDialogue, m

LEMMA CalcService ==
  ASSUME TypeOK, NEW c \in Clients, at[Client(c)] # "gone", Listening(host[c]),
         sock[Child(c)] = "open", CalcInv(c), CalcChild(Child(c)), Forks(host[c])
  PROVE  CalcInv(c)'
  <1> DEFINE e == Client(c)
             f == Child(c)
             n == mem[f]
             q == at[f]
             j == in[f]
             b == buffer[e]
             m == mem[e]
             i == in[e]
             p == at[e]
  <1>1. e \in Ends /\ f \in Ends /\ Peer(f) = e
    BY EndFacts
  <1>2. CalcPhase(p, i, b, m, q, j, n)
    BY DEF CalcInv
  <1>3. SUFFICES /\ server'[host'[c]] \in {"up", "busy"}
                 /\ CalcPhase(at'[e], in'[e], buffer'[e], mem'[e], at'[f], in'[f], mem'[f])
    BY CalcNow
  <1>4. server[host[c]] \in {"up", "busy"}
    BY DEF Listening
  <1>5. m \in IntVars /\ n \in IntVars
    BY <1>1, Types
  <1>s. sock[f] = "open" /\ CalcChild(f)
    OBVIOUS
  <1>6. Finish(f) => /\ UNCHANGED <<server, host, in>> /\ at'[f] = "gone" /\ at'[e] = p
                     /\ buffer'[e] = b /\ mem'[e] = m
    BY ChildEffect
  <1> HIDE DEF e, f, i, b, m, p, q, j, n
  <1>7. ASSUME NEW text \in Texts, text # Silence, NEW next, Write(f, text, next, next),
               CalcPhase(p, Append(i, text), b, m, next, j, n)
        PROVE  /\ server'[host'[c]] \in {"up", "busy"}
               /\ CalcPhase(at'[e], in'[e], buffer'[e], mem'[e], at'[f], in'[f], mem'[f])
    <2>1. /\ at'[f] = next /\ at'[e] = p /\ in'[e] = Append(i, text) /\ in'[f] = j
          /\ UNCHANGED <<prog, server, host, buffer, mem>>
      BY <1>1, <1>7, <1>s, WriteOpen DEF i, j, p
    <2>2. buffer'[e] = b /\ mem'[e] = m /\ mem'[f] = n
      BY <2>1 DEF b, m, n
    <2>3. QED
      BY <1>4, <1>7, <2>1, <2>2
  <1>8. ASSUME NEW v \in IntNames, NEW next, ReadInt(f, v, next),
               j # <<>> => CalcPhase(p, i, b, m, next, Tail(j), [n EXCEPT ![v] = Head(j)[2]])
        PROVE  /\ server'[host'[c]] \in {"up", "busy"}
               /\ CalcPhase(at'[e], in'[e], buffer'[e], mem'[e], at'[f], in'[f], mem'[f])
    <2>1. /\ j # <<>> /\ at'[f] = next /\ at'[e] = p /\ in'[f] = Tail(j) /\ in'[e] = i
          /\ mem'[f] = [n EXCEPT ![v] = Head(j)[2]] /\ mem'[e] = m
          /\ UNCHANGED <<prog, server, host, buffer>>
      BY <1>1, <1>8, <1>s, ReadIntOpen DEF i, j, p, m, n
    <2>2. buffer'[e] = b
      BY <2>1 DEF b
    <2>3. QED
      BY <1>4, <1>8, <2>1, <2>2
  <1>9. CASE q = "showMenu" /\ Write(f, Menu, "op", "op")
    BY <1>2, <1>7, <1>9, CalcShows, TextsTyped, TextsSound
  <1>10. CASE q = "op" /\ ReadInt(f, "op", "ask1")
    BY <1>2, <1>5, <1>8, <1>10, CalcHears DEF IntNames
  <1>11. CASE q = "num1" /\ ReadInt(f, "num1", "ask2")
    BY <1>2, <1>5, <1>8, <1>11, CalcHears DEF IntNames
  <1>12. CASE q = "num2" /\ ReadInt(f, "num2", "reply")
    BY <1>2, <1>5, <1>8, <1>12, CalcHears DEF IntNames
  <1>13. CASE q = "ask1" /\ n.op = 5 /\ Write(f, Bye, "leave", "leave")
    BY <1>2, <1>7, <1>13, CalcAsks, TextsTyped, TextsSound
  <1>14. CASE q = "ask1" /\ n.op # 5 /\ Write(f, Text("ask1"), "num1", "num1")
    BY <1>2, <1>7, <1>14, CalcAsks, TextsTyped, TextsSound
  <1>15. CASE q = "ask2" /\ Write(f, Text("ask2"), "num2", "num2")
    BY <1>2, <1>7, <1>15, CalcAsks, TextsTyped, TextsSound
  <1>16. CASE q = "reply" /\ ~Known(n) /\ Write(f, Bye, "leave", "leave")
    BY <1>2, <1>5, <1>7, <1>16, CalcAnswers, TextsTyped, TextsSound
  <1>17. CASE q = "reply" /\ Fatal(n) /\ Finish(f)
    <2>1. Known(n)
      BY <1>17 DEF Fatal, Known
    <2>2. \A x : CalcPhase(p, i, b, m, "gone", j, x)
      BY <1>2, <1>5, <1>17, <2>1, CalcAnswers
    <2>3. QED
      BY <1>4, <1>6, <1>17, <2>2 DEF i, j
  <1>18. CASE /\ q = "reply" /\ Known(n) /\ ~Fatal(n)
              /\ Write(f, Answer(Result(n)), "showMenu", "showMenu")
    <2>1. Answer(Result(n)) \in Texts
      BY <1>5, <1>18, ResultIsRight, TextsTyped
    <2>2. QED
      BY <1>2, <1>5, <1>7, <1>18, <2>1, CalcAnswers, TextsSound
  <1>19. CASE q = "leave" /\ Finish(f)
    <2>1. \A x : CalcPhase(p, i, b, m, "gone", j, x)
      BY <1>2, <1>19, CalcEnds
    <2>2. QED
      BY <1>4, <1>6, <1>19, <2>1 DEF i, j
  <1>20. QED
    BY <1>9, <1>10, <1>11, <1>12, <1>13, <1>14, <1>15, <1>16, <1>17, <1>18, <1>19, <1>s
       DEF CalcChild, q, n

----------------------------------------------------------------------------
(* The turns of labs/math *)

LEMMA MathNow ==
  ASSUME NEW c \in Clients
  PROVE  MathInv(c)' <=>
           (at'[Client(c)] # "gone" /\ server'[host'[c]] \in {"up", "busy"} =>
              MathPhase(at'[Client(c)], in'[Client(c)], mem'[Client(c)],
                        at'[Child(c)], in'[Child(c)], mem'[Child(c)]))
  BY DEF MathInv, Listening

LEMMA MathPrompts ==
  ASSUME NEW i, i # <<>>, NEW m, NEW q, NEW j, NEW n
  PROVE  /\ MathPhase("prompt1", i, m, q, j, n) =>
              i = <<Text("ask1")>> /\ \A x : MathPhase("sayNum1", <<>>, x, q, j, n)
         /\ MathPhase("prompt2", i, m, q, j, n) =>
              i = <<Text("ask2")>> /\ MathPhase("sayNum2", <<>>, m, q, j, n)
         /\ MathPhase("prompt3", i, m, q, j, n) =>
              i = <<Menu>> /\ MathPhase("sayOp", <<>>, m, q, j, n)
  <1>1. MathPhase("prompt1", i, m, q, j, n) =>
          i = <<Text("ask1")>> /\ \A x : MathPhase("sayNum1", <<>>, x, q, j, n)
    BY DEF MathPhase, Expecting
  <1>2. MathPhase("prompt2", i, m, q, j, n) =>
          i = <<Text("ask2")>> /\ MathPhase("sayNum2", <<>>, m, q, j, n)
    BY DEF MathPhase, Expecting
  <1>3. MathPhase("prompt3", i, m, q, j, n) =>
          i = <<Menu>> /\ MathPhase("sayOp", <<>>, m, q, j, n)
    BY DEF MathPhase, Expecting
  <1>4. QED
    BY <1>1, <1>2, <1>3

LEMMA MathSays ==
  ASSUME NEW i, NEW m, NEW q, NEW j, NEW n
  PROVE  /\ MathPhase("sayNum1", i, m, q, j, n) =>
              j = <<>> /\ MathPhase("prompt2", i, m, q, <<Number(m.num1)>>, n)
         /\ MathPhase("sayNum2", i, m, q, j, n) =>
              j = <<>> /\ MathPhase("prompt3", i, m, q, <<Number(m.num2)>>, n)
         /\ MathPhase("sayOp", i, m, q, j, n) =>
              j = <<>> /\ MathPhase("told", i, m, q, <<Number(m.op)>>, n)
         /\ MathPhase("told", i, m, q, j, n) => MathPhase("answer", i, m, q, j, n)
         /\ ~MathPhase("leave", i, m, q, j, n)
  <1>1. MathPhase("sayNum1", i, m, q, j, n) =>
          j = <<>> /\ MathPhase("prompt2", i, m, q, <<Number(m.num1)>>, n)
    BY DEF MathPhase, Expecting
  <1>2. MathPhase("sayNum2", i, m, q, j, n) =>
          j = <<>> /\ MathPhase("prompt3", i, m, q, <<Number(m.num2)>>, n)
    BY DEF MathPhase, Expecting
  <1>3. MathPhase("sayOp", i, m, q, j, n) =>
          j = <<>> /\ MathPhase("told", i, m, q, <<Number(m.op)>>, n)
    BY DEF MathPhase, Expecting
  <1>4. MathPhase("told", i, m, q, j, n) => MathPhase("answer", i, m, q, j, n)
    BY DEF MathPhase, Expecting
  <1>5. ~MathPhase("leave", i, m, q, j, n)
    BY DEF MathPhase, Expecting
  <1>6. QED
    BY <1>1, <1>2, <1>3, <1>4, <1>5

\* The client reads an int, whatever comes after it.
LEMMA MathAnswerTaken ==
  ASSUME NEW i, i # <<>>, NEW m \in IntVars, NEW q, NEW j, NEW n, MathPhase("answer", i, m, q, j, n)
  PROVE  MathPhase("prompt1", Tail(i), [m EXCEPT !["ans"] = Head(i)[2]], q, j, n)
  <1>1. PICK r : r = [m EXCEPT !["ans"] = Head(i)[2]]
    OBVIOUS
  <1>2. ASSUME NEW x \in Int32, Head(i) = Number(x), MathRight(m, x)
        PROVE  MathRight(r, r.ans)
    <2>1. r.ans = x /\ r.op = m.op /\ r.num1 = m.num1 /\ r.num2 = m.num2
      BY <1>1, <1>2 DEF IntVars, Number
    <2>2. QED
      BY <1>2, <2>1 DEF MathRight, Known, Right
  <1>3. CASE q \in {"off", "ask1"} /\ j = <<>> /\ OneInt(i, m)
    <2>1. PICK x \in Int32 : i = <<Number(x)>> /\ MathRight(m, x)
      BY <1>3 DEF OneInt
    <2>2. Tail(i) = <<>> /\ Head(i) = Number(x)
      BY <2>1, OneText, TextsTyped
    <2>3. MathRight(r, r.ans)
      BY <1>2, <2>1, <2>2
    <2>4. MathPhase("prompt1", Tail(i), r, q, j, n)
      BY <1>3, <2>2, <2>3 DEF MathPhase
    <2>5. QED
      BY <1>1, <2>4
  <1>4. CASE q = "num1" /\ j = <<>> /\ IntAndAsk(i, m)
    <2>1. PICK x \in Int32 : i = <<Number(x), Text("ask1")>> /\ MathRight(m, x)
      BY <1>4 DEF IntAndAsk
    <2>2. Tail(i) = <<Text("ask1")>> /\ Head(i) = Number(x)
      BY <2>1, PairOfTexts
    <2>3. MathRight(r, r.ans)
      BY <1>2, <2>1, <2>2
    <2>4. MathPhase("prompt1", Tail(i), r, q, j, n)
      BY <1>4, <2>2, <2>3 DEF MathPhase
    <2>5. QED
      BY <1>1, <2>4
  <1>5. QED
    BY <1>3, <1>4 DEF MathPhase, Expecting

LEMMA MathAsks ==
  ASSUME NEW p, NEW i, NEW m, NEW j, NEW n
  PROVE  /\ MathPhase(p, i, m, "ask1", j, n) => MathPhase(p, Append(i, Text("ask1")), m, "num1", j, n)
         /\ MathPhase(p, i, m, "ask2", j, n) => MathPhase(p, Append(i, Text("ask2")), m, "num2", j, n)
         /\ MathPhase(p, i, m, "ask3", j, n) => MathPhase(p, Append(i, Menu), m, "op", j, n)
         /\ MathPhase(p, i, m, "off", j, n) => \A x : MathPhase(p, i, m, "ask1", j, x)
         /\ ~MathPhase(p, i, m, "leave", j, n)
  <1>1. /\ Append(<<>>, Text("ask1")) = <<Text("ask1")>> /\ Append(<<>>, Menu) = <<Menu>>
        /\ Append(<<>>, Text("ask2")) = <<Text("ask2")>>
    BY OneText, TextsTyped
  <1>2. ASSUME MathPhase(p, i, m, "ask1", j, n)
        PROVE  MathPhase(p, Append(i, Text("ask1")), m, "num1", j, n)
    <2>1. CASE j = <<>> /\ p = "prompt1" /\ i = <<>> /\ MathRight(m, m.ans)
      BY <1>1, <2>1 DEF MathPhase
    <2>2. CASE j = <<>> /\ p \in Expecting /\ OneInt(i, m)
      <3>1. PICK x \in Int32 : i = <<Number(x)>> /\ MathRight(m, x)
        BY <2>2 DEF OneInt
      <3>2. Append(i, Text("ask1")) = <<Number(x), Text("ask1")>>
        BY <3>1, PairOfTexts
      <3>3. IntAndAsk(Append(i, Text("ask1")), m)
        BY <3>1, <3>2 DEF IntAndAsk
      <3>4. QED
        BY <2>2, <3>3 DEF MathPhase
    <2>3. QED
      BY <1>2, <2>1, <2>2 DEF MathPhase
  <1>3. ASSUME MathPhase(p, i, m, "ask2", j, n)
        PROVE  MathPhase(p, Append(i, Text("ask2")), m, "num2", j, n)
    <2>1. j = <<>> /\ n.num1 = m.num1 /\ p = "prompt2" /\ i = <<>>
      BY <1>3 DEF MathPhase
    <2>2. QED
      BY <1>1, <2>1 DEF MathPhase
  <1>4. ASSUME MathPhase(p, i, m, "ask3", j, n)
        PROVE  MathPhase(p, Append(i, Menu), m, "op", j, n)
    <2>1. j = <<>> /\ n.num1 = m.num1 /\ n.num2 = m.num2 /\ p = "prompt3" /\ i = <<>>
      BY <1>4 DEF MathPhase
    <2>2. QED
      BY <1>1, <2>1 DEF MathPhase
  <1>5. MathPhase(p, i, m, "off", j, n) => \A x : MathPhase(p, i, m, "ask1", j, x)
    BY DEF MathPhase
  <1>6. ~MathPhase(p, i, m, "leave", j, n)
    BY DEF MathPhase
  <1>7. QED
    BY <1>2, <1>3, <1>4, <1>5, <1>6

LEMMA MathHears ==
  ASSUME NEW p, NEW i, NEW m \in IntVars, NEW j, j # <<>>, NEW n \in IntVars
  PROVE  /\ MathPhase(p, i, m, "num1", j, n) =>
              MathPhase(p, i, m, "ask2", Tail(j), [n EXCEPT !["num1"] = Head(j)[2]])
         /\ MathPhase(p, i, m, "num2", j, n) =>
              MathPhase(p, i, m, "ask3", Tail(j), [n EXCEPT !["num2"] = Head(j)[2]])
         /\ MathPhase(p, i, m, "op", j, n) =>
              MathPhase(p, i, m, "compute", Tail(j), [n EXCEPT !["op"] = Head(j)[2]])
  <1>1. m.op \in Int32 /\ m.num1 \in Int32 /\ m.num2 \in Int32
    BY DEF IntVars
  <1>2. ASSUME NEW x \in Int32, j = <<Number(x)>>
        PROVE  Tail(j) = <<>> /\ Head(j)[2] = x
    <2>1. Tail(j) = <<>> /\ Head(j) = Number(x)
      BY <1>2, OneText, TextsTyped
    <2>2. QED
      BY <2>1 DEF Number
  <1>3. ASSUME MathPhase(p, i, m, "num1", j, n)
        PROVE  MathPhase(p, i, m, "ask2", Tail(j), [n EXCEPT !["num1"] = Head(j)[2]])
    <2>1. j = <<Number(m.num1)>> /\ p = "prompt2" /\ i = <<>>
      BY <1>3 DEF MathPhase
    <2>2. Tail(j) = <<>> /\ Head(j)[2] = m.num1
      BY <1>1, <1>2, <2>1
    <2>3. PICK r : r = [n EXCEPT !["num1"] = Head(j)[2]]
      OBVIOUS
    <2>4. r.num1 = m.num1
      BY <1>1, <2>2, <2>3 DEF IntVars
    <2>5. MathPhase(p, i, m, "ask2", Tail(j), r)
      BY <2>1, <2>2, <2>4 DEF MathPhase
    <2>6. QED
      BY <2>3, <2>5
  <1>4. ASSUME MathPhase(p, i, m, "num2", j, n)
        PROVE  MathPhase(p, i, m, "ask3", Tail(j), [n EXCEPT !["num2"] = Head(j)[2]])
    <2>1. j = <<Number(m.num2)>> /\ p = "prompt3" /\ i = <<>> /\ n.num1 = m.num1
      BY <1>4 DEF MathPhase
    <2>2. Tail(j) = <<>> /\ Head(j)[2] = m.num2
      BY <1>1, <1>2, <2>1
    <2>3. PICK r : r = [n EXCEPT !["num2"] = Head(j)[2]]
      OBVIOUS
    <2>4. r.num2 = m.num2 /\ r.num1 = n.num1
      BY <1>1, <2>2, <2>3 DEF IntVars
    <2>5. MathPhase(p, i, m, "ask3", Tail(j), r)
      BY <2>1, <2>2, <2>4 DEF MathPhase
    <2>6. QED
      BY <2>3, <2>5
  <1>5. ASSUME MathPhase(p, i, m, "op", j, n)
        PROVE  MathPhase(p, i, m, "compute", Tail(j), [n EXCEPT !["op"] = Head(j)[2]])
    <2>1. /\ j = <<Number(m.op)>> /\ p \in Expecting /\ i = <<>>
          /\ n.num1 = m.num1 /\ n.num2 = m.num2
      BY <1>5 DEF MathPhase
    <2>2. Tail(j) = <<>> /\ Head(j)[2] = m.op
      BY <1>1, <1>2, <2>1
    <2>3. PICK r : r = [n EXCEPT !["op"] = Head(j)[2]]
      OBVIOUS
    <2>4. r.op = m.op /\ r.num1 = n.num1 /\ r.num2 = n.num2
      BY <1>1, <2>2, <2>3 DEF IntVars
    <2>5. MathPhase(p, i, m, "compute", Tail(j), r)
      BY <2>1, <2>2, <2>4 DEF MathPhase
    <2>6. QED
      BY <2>3, <2>5
  <1>6. QED
    BY <1>3, <1>4, <1>5

LEMMA MathAnswers ==
  ASSUME NEW p, NEW i, NEW m \in IntVars, NEW j, NEW n \in IntVars
  PROVE  /\ MathPhase(p, i, m, "compute", j, n) /\ ~Fatal(n) =>
              \A r : r.ans = (IF Known(n) THEN Result(n) ELSE n.ans) => MathPhase(p, i, m, "reply", j, r)
         /\ MathPhase(p, i, m, "reply", j, n) =>
              MathPhase(p, Append(i, Number(n.ans)), m, "ask1", j, n)
  <1>1. ASSUME MathPhase(p, i, m, "compute", j, n), ~Fatal(n),
               NEW r, r.ans = (IF Known(n) THEN Result(n) ELSE n.ans)
        PROVE  MathPhase(p, i, m, "reply", j, r)
    <2>1. /\ p \in Expecting /\ i = <<>> /\ j = <<>>
          /\ n.op = m.op /\ n.num1 = m.num1 /\ n.num2 = m.num2
      BY <1>1 DEF MathPhase
    <2>2. (Known(n) <=> Known(m)) /\ \A x : Right(n, x) <=> Right(m, x)
      BY <2>1 DEF Known, Right
    <2>3. MathRight(m, r.ans)
      BY <1>1, <2>2, ResultIsRight DEF MathRight
    <2>4. QED
      BY <2>1, <2>3 DEF MathPhase
  <1>2. ASSUME MathPhase(p, i, m, "reply", j, n)
        PROVE  MathPhase(p, Append(i, Number(n.ans)), m, "ask1", j, n)
    <2>1. p \in Expecting /\ i = <<>> /\ j = <<>> /\ MathRight(m, n.ans)
      BY <1>2 DEF MathPhase
    <2>2. PICK x \in Int32 : x = n.ans
      BY DEF IntVars
    <2>3. Append(i, Number(x)) = <<Number(x)>>
      BY <2>1, OneText, TextsTyped
    <2>4. OneInt(Append(i, Number(x)), m)
      BY <2>1, <2>2, <2>3 DEF OneInt
    <2>5. MathPhase(p, Append(i, Number(x)), m, "ask1", j, n)
      BY <2>1, <2>4 DEF MathPhase
    <2>6. QED
      BY <2>2, <2>5
  <1>3. QED
    BY <1>1, <1>2
LEMMA MathWhileUp ==
  ASSUME TypeOK, NEW c \in Clients, at[Client(c)] # "gone", Listening(host[c]),
         sock[Client(c)] = "open", MathInv(c), at[Client(c)] # "off", MathClient(c),
         ~Finish(Client(c))
  PROVE  MathInv(c)'
  <1> DEFINE e == Client(c)
             f == Child(c)
             n == mem[f]
             q == at[f]
             j == in[f]
             m == mem[e]
             i == in[e]
  <1>1. e \in Ends /\ f \in Ends /\ Peer(e) = f
    BY EndFacts
  <1>2. MathPhase(at[e], i, m, q, j, n)
    BY DEF MathInv
  <1>3. SUFFICES /\ server'[host'[c]] \in {"up", "busy"}
                 /\ MathPhase(at'[e], in'[e], mem'[e], at'[f], in'[f], mem'[f])
    BY MathNow
  <1>4. server[host[c]] \in {"up", "busy"}
    BY DEF Listening
  <1>5. m \in IntVars
    BY <1>1, Types
  <1>6. m.op \in Int32 /\ m.num1 \in Int32 /\ m.num2 \in Int32
    BY <1>1, FieldsTyped
  <1>s. sock[e] = "open" /\ ~Finish(e) /\ at[e] # "off"
    OBVIOUS
  <1>t. \/ at[e] = "prompt1" /\ Read(e, "sayNum1", "leave") /\ Wish(e)
        \/ at[e] = "sayNum1" /\ Write(e, Number(m.num1), "prompt2", "prompt2")
        \/ at[e] = "prompt2" /\ Read(e, "sayNum2", "leave") /\ UNCHANGED mem
        \/ at[e] = "sayNum2" /\ Write(e, Number(m.num2), "prompt3", "prompt3")
        \/ at[e] = "prompt3" /\ Read(e, "sayOp", "leave") /\ UNCHANGED mem
        \/ at[e] = "sayOp" /\ Write(e, Number(m.op), "told", "told")
        \/ at[e] = "told" /\ Go(e, "answer") /\ UNCHANGED <<sock, in, buffer, mem>>
        \/ at[e] = "answer" /\ ReadInt(e, "ans", "prompt1")
        \/ at[e] = "leave"
    BY DEF MathClient, Connect
  <1> HIDE DEF e, f, i, m, q, j, n
  <1>7. ASSUME NEW text \in Texts, text # Silence, NEW next, Write(e, text, next, next),
               j = <<>>, MathPhase(next, i, m, q, <<text>>, n)
        PROVE  /\ server'[host'[c]] \in {"up", "busy"}
               /\ MathPhase(at'[e], in'[e], mem'[e], at'[f], in'[f], mem'[f])
    <2>1. /\ at'[e] = next /\ at'[f] = q /\ in'[f] = Append(j, text) /\ in'[e] = i
          /\ UNCHANGED <<prog, server, host, buffer, mem>>
      BY <1>1, <1>7, <1>s, WriteOpen DEF i, j, q
    <2>2. in'[f] = <<text>> /\ mem'[e] = m /\ mem'[f] = n
      BY <1>7, <2>1, OneText DEF m, n
    <2>3. QED
      BY <1>4, <1>7, <2>1, <2>2
  <1>8. ASSUME NEW text \in Texts, NEW next, Read(e, next, "leave"), i # <<>> => i = <<text>>,
               mem'[f] = n, i # <<>> => MathPhase(next, <<>>, mem'[e], q, j, n)
        PROVE  /\ server'[host'[c]] \in {"up", "busy"}
               /\ MathPhase(at'[e], in'[e], mem'[e], at'[f], in'[f], mem'[f])
    <2>1. /\ i # <<>> /\ at'[e] = next /\ at'[f] = q /\ in'[f] = j
          /\ UNCHANGED <<prog, server, host>>
      BY <1>1, <1>8, <1>s, ReadOpen DEF i, j, q
    <2>2. in'[e] = <<>>
      BY <1>1, <1>8, <1>s, <2>1, ReadOpen, TakesOne DEF i
    <2>3. QED
      BY <1>4, <1>8, <2>1, <2>2
  <1>9. CASE at[e] = "prompt1" /\ Read(e, "sayNum1", "leave") /\ Wish(e)
    <2>1. mem'[f] = n
      BY <1>1, <1>9, WishMem DEF n
    <2>2. i # <<>> => i = <<Text("ask1")>> /\ \A x : MathPhase("sayNum1", <<>>, x, q, j, n)
      BY <1>2, <1>9, MathPrompts
    <2>3. QED
      BY <1>8, <1>9, <2>1, <2>2, TextsTyped
  <1>10. CASE at[e] = "prompt2" /\ Read(e, "sayNum2", "leave") /\ UNCHANGED mem
    <2>1. mem'[f] = n /\ mem'[e] = m
      BY <1>10 DEF m, n
    <2>2. i # <<>> => i = <<Text("ask2")>> /\ MathPhase("sayNum2", <<>>, m, q, j, n)
      BY <1>2, <1>10, MathPrompts
    <2>3. QED
      BY <1>8, <1>10, <2>1, <2>2, TextsTyped
  <1>11. CASE at[e] = "prompt3" /\ Read(e, "sayOp", "leave") /\ UNCHANGED mem
    <2>1. mem'[f] = n /\ mem'[e] = m
      BY <1>11 DEF m, n
    <2>2. i # <<>> => i = <<Menu>> /\ MathPhase("sayOp", <<>>, m, q, j, n)
      BY <1>2, <1>11, MathPrompts
    <2>3. QED
      BY <1>8, <1>11, <2>1, <2>2, TextsTyped
  <1>12. CASE at[e] = "sayNum1" /\ Write(e, Number(m.num1), "prompt2", "prompt2")
    <2>1. j = <<>> /\ MathPhase("prompt2", i, m, q, <<Number(m.num1)>>, n)
      BY <1>2, <1>12, MathSays
    <2>2. QED
      BY <1>6, <1>7, <1>12, <2>1, TextsTyped, TextsSound
  <1>13. CASE at[e] = "sayNum2" /\ Write(e, Number(m.num2), "prompt3", "prompt3")
    <2>1. j = <<>> /\ MathPhase("prompt3", i, m, q, <<Number(m.num2)>>, n)
      BY <1>2, <1>13, MathSays
    <2>2. QED
      BY <1>6, <1>7, <1>13, <2>1, TextsTyped, TextsSound
  <1>14. CASE at[e] = "sayOp" /\ Write(e, Number(m.op), "told", "told")
    <2>1. j = <<>> /\ MathPhase("told", i, m, q, <<Number(m.op)>>, n)
      BY <1>2, <1>14, MathSays
    <2>2. QED
      BY <1>6, <1>7, <1>14, <2>1, TextsTyped, TextsSound
  <1>15. CASE at[e] = "told" /\ Go(e, "answer") /\ UNCHANGED <<sock, in, buffer, mem>>
    <2>1. /\ at'[e] = "answer" /\ at'[f] = q /\ in'[e] = i /\ in'[f] = j
          /\ mem'[e] = m /\ mem'[f] = n /\ UNCHANGED <<server, host>>
      BY <1>1, <1>15, EndFacts, Types DEF Go, e, f, i, j, m, n, q
    <2>2. MathPhase("answer", i, m, q, j, n)
      BY <1>2, <1>15, MathSays
    <2>3. QED
      BY <1>4, <2>1, <2>2
  <1>16. CASE at[e] = "answer" /\ ReadInt(e, "ans", "prompt1")
    <2>1. /\ i # <<>> /\ at'[e] = "prompt1" /\ at'[f] = q /\ in'[e] = Tail(i) /\ in'[f] = j
          /\ mem'[e] = [m EXCEPT !["ans"] = Head(i)[2]] /\ mem'[f] = n
          /\ UNCHANGED <<prog, server, host, buffer>>
      BY <1>1, <1>16, <1>s, ReadIntOpen DEF i, j, q, m, n, IntNames
    <2>2. MathPhase("prompt1", Tail(i), [m EXCEPT !["ans"] = Head(i)[2]], q, j, n)
      BY <1>2, <1>5, <1>16, <2>1, MathAnswerTaken
    <2>3. QED
      BY <1>4, <2>1, <2>2
  <1>17. at[e] # "leave"
    BY <1>2, MathSays
  <1>18. QED
    BY <1>9, <1>10, <1>11, <1>12, <1>13, <1>14, <1>15, <1>16, <1>17, <1>t

\* The server serves its client itself, so that its end is the connection's.
LEMMA MathServes ==
  ASSUME TypeOK, NEW c \in Clients, at[Client(c)] # "gone", Listening(host[c]),
         sock[Child(c)] = "open", MathInv(c), MathService(Child(c)), ~Finish(Child(c))
  PROVE  MathInv(c)'
  <1> DEFINE e == Client(c)
             f == Child(c)
             n == mem[f]
             q == at[f]
             j == in[f]
             m == mem[e]
             i == in[e]
             p == at[e]
  <1>1. e \in Ends /\ f \in Ends /\ Peer(f) = e /\ e # f
    BY EndFacts
  <1>2. MathPhase(p, i, m, q, j, n)
    BY DEF MathInv
  <1>3. SUFFICES /\ server'[host'[c]] \in {"up", "busy"}
                 /\ MathPhase(at'[e], in'[e], mem'[e], at'[f], in'[f], mem'[f])
    BY MathNow
  <1>4. server[host[c]] \in {"up", "busy"}
    BY DEF Listening
  <1>5. m \in IntVars /\ n \in IntVars
    BY <1>1, Types
  <1>s. sock[f] = "open" /\ MathService(f) /\ ~Finish(f)
    OBVIOUS
  <1> HIDE DEF e, f, i, m, p, q, j, n
  <1>7. ASSUME NEW text \in Texts, text # Silence, NEW next, NEW failed, Write(f, text, next, failed),
               MathPhase(p, Append(i, text), m, next, j, n)
        PROVE  /\ server'[host'[c]] \in {"up", "busy"}
               /\ MathPhase(at'[e], in'[e], mem'[e], at'[f], in'[f], mem'[f])
    <2>1. /\ at'[f] = next /\ at'[e] = p /\ in'[e] = Append(i, text) /\ in'[f] = j
          /\ UNCHANGED <<prog, server, host, buffer, mem>>
      BY <1>1, <1>7, <1>s, WriteOpen DEF i, j, p
    <2>2. mem'[e] = m /\ mem'[f] = n
      BY <2>1 DEF m, n
    <2>3. QED
      BY <1>4, <1>7, <2>1, <2>2
  <1>8. ASSUME NEW v \in IntNames, NEW next, ReadInt(f, v, next),
               j # <<>> => MathPhase(p, i, m, next, Tail(j), [n EXCEPT ![v] = Head(j)[2]])
        PROVE  /\ server'[host'[c]] \in {"up", "busy"}
               /\ MathPhase(at'[e], in'[e], mem'[e], at'[f], in'[f], mem'[f])
    <2>1. /\ j # <<>> /\ at'[f] = next /\ at'[e] = p /\ in'[f] = Tail(j) /\ in'[e] = i
          /\ mem'[f] = [n EXCEPT ![v] = Head(j)[2]] /\ mem'[e] = m
          /\ UNCHANGED <<prog, server, host, buffer>>
      BY <1>1, <1>8, <1>s, ReadIntOpen DEF i, j, p, m, n
    <2>2. QED
      BY <1>4, <1>8, <2>1
  <1>9. CASE q = "ask1" /\ Write(f, Text("ask1"), "num1", "leave")
    BY <1>2, <1>7, <1>9, MathAsks, TextsTyped, TextsSound
  <1>10. CASE q = "num1" /\ ReadInt(f, "num1", "ask2")
    BY <1>2, <1>5, <1>8, <1>10, MathHears DEF IntNames
  <1>11. CASE q = "ask2" /\ Write(f, Text("ask2"), "num2", "leave")
    BY <1>2, <1>7, <1>11, MathAsks, TextsTyped, TextsSound
  <1>12. CASE q = "num2" /\ ReadInt(f, "num2", "ask3")
    BY <1>2, <1>5, <1>8, <1>12, MathHears DEF IntNames
  <1>13. CASE q = "ask3" /\ Write(f, Menu, "op", "leave")
    BY <1>2, <1>7, <1>13, MathAsks, TextsTyped, TextsSound
  <1>14. CASE q = "op" /\ ReadInt(f, "op", "compute")
    BY <1>2, <1>5, <1>8, <1>14, MathHears DEF IntNames
  <1>15. CASE /\ q = "compute" /\ ~Fatal(n)
              /\ mem' = [mem EXCEPT ![f].ans = IF Known(n) THEN Result(n) ELSE @]
              /\ Go(f, "reply") /\ UNCHANGED <<sock, in, buffer>>
    <2>1. mem'[e] = m /\ mem'[f].ans = (IF Known(n) THEN Result(n) ELSE n.ans)
      BY <1>1, <1>5, <1>15, Types DEF m, n, IntVars
    <2>2. /\ at'[f] = "reply" /\ at'[e] = p /\ in'[e] = i /\ in'[f] = j /\ UNCHANGED <<server, host>>
      BY <1>1, <1>15, Types DEF Go, i, j, p
    <2>3. MathPhase(p, i, m, "reply", j, mem'[f])
      BY <1>2, <1>5, <1>15, <2>1, MathAnswers
    <2>4. QED
      BY <1>4, <2>1, <2>2, <2>3
  <1>16. CASE q = "reply" /\ Write(f, Number(n.ans), "ask1", "ask1")
    <2>1. n.ans \in Int32
      BY <1>5 DEF IntVars
    <2>2. QED
      BY <1>2, <1>5, <1>7, <1>16, <2>1, MathAnswers, TextsTyped, TextsSound
  <1>17. QED
    BY <1>9, <1>10, <1>11, <1>12, <1>13, <1>14, <1>15, <1>16, <1>s DEF MathService, q, n
----------------------------------------------------------------------------
(* The turns of the web servers *)

LEMMA WebNow ==
  ASSUME NEW c \in Clients
  PROVE  WebInv(c)' <=>
           (at'[Client(c)] # "gone" /\ server'[host'[c]] \in {"up", "busy"} =>
              /\ WebPhase(at'[Client(c)], in'[Client(c)], prog'[host'[c]],
                          at'[Child(c)], in'[Child(c)], buffer'[Child(c)])
              /\ at'[Client(c)] \in Chats => prog'[c] = "persistent")
  BY DEF WebInv, Listening

LEMMA WebTexts ==
  /\ \A t \in {"request", "html", "hi", "ack", "exit"} : Text(t) \in Texts /\ Text(t) # Silence
  /\ \A t \in Messages : Text(t) \in Texts /\ Text(t) # Silence /\ Text(t) # Text("exit")
  <1>1. \A t \in Messages : t # "exit" /\ t # ""
    BY DialoguesAssumption
  <1>2. \A t \in Messages : Text(t) # Text("exit") /\ Text(t) # Silence
    BY <1>1 DEF Text, Silence
  <1>3. \A t \in {"request", "html", "hi", "ack", "exit"} : Text(t) # Silence
    BY DEF Text, Silence
  <1>4. QED
    BY <1>2, <1>3, TextsTyped

LEMMA WebSays ==
  ASSUME NEW i, NEW a, NEW q, NEW j, NEW k
  PROVE  /\ WebPhase("sayRequest", i, a, q, j, k) =>
              WebPhase("html", i, a, q, Append(j, Text("request")), k)
         /\ WebPhase("sayMessage", i, a, q, j, k) =>
              /\ \A t \in Messages : WebPhase("ack", i, a, q, Append(j, Text(t)), k)
              /\ WebPhase("silent", i, a, q, j, k)
         /\ WebPhase("leave", i, a, q, j, k)
  <1>1. ASSUME WebPhase("sayRequest", i, a, q, j, k)
        PROVE  WebPhase("html", i, a, q, Append(j, Text("request")), k)
    <2>1. j = <<>> /\ i = <<>> /\ q \in {"off", "request"}
      BY <1>1 DEF WebPhase, Chats
    <2>2. Append(j, Text("request")) = <<Text("request")>>
      BY <2>1, OneText, WebTexts
    <2>3. QED
      BY <2>1, <2>2 DEF WebPhase
  <1>2. ASSUME WebPhase("sayMessage", i, a, q, j, k), NEW t \in Messages
        PROVE  WebPhase("ack", i, a, q, Append(j, Text(t)), k)
    <2>1. CASE a = "persistent" /\ i = <<>> /\ q = "message" /\ j = <<>>
      <3>1. Append(j, Text(t)) = <<Text(t)>>
        BY <2>1, OneText, WebTexts
      <3>2. QED
        BY <2>1, <3>1 DEF WebPhase
    <2>2. CASE a # "persistent" /\ i = <<>> /\ q \in {"leave", "gone"}
      BY <2>2 DEF WebPhase
    <2>3. QED
      BY <1>2, <2>1, <2>2 DEF WebPhase
  <1>3. WebPhase("sayMessage", i, a, q, j, k) => WebPhase("silent", i, a, q, j, k)
    BY DEF WebPhase
  <1>4. WebPhase("leave", i, a, q, j, k)
    BY DEF WebPhase
  <1>5. QED
    BY <1>1, <1>2, <1>3, <1>4

LEMMA WebTakes ==
  ASSUME NEW p \in {"html", "ack", "silent"}, NEW i, i # <<>>, NEW a, NEW q, NEW j, NEW k,
         WebPhase(p, i, a, q, j, k)
  PROVE  /\ i \in {<<Text("html")>>, <<Text("hi")>>, <<Text("ack")>>}
         /\ WebPhase("sayMessage", <<>>, a, q, j, k)
  <1>1. \/ /\ p = "html" /\ i \in {<<Text("html")>>, <<Text("hi")>>} /\ j = <<>>
           /\ q \in (IF a = "persistent" THEN {"message"} ELSE {"leave", "gone"})
        \/ a = "persistent" /\ p = "ack" /\ i = <<Text("ack")>> /\ q = "message" /\ j = <<>>
    BY DEF WebPhase
  <1>2. QED
    BY <1>1 DEF WebPhase

LEMMA WebWhileUp ==
  ASSUME TypeOK, NEW c \in Clients, at[Client(c)] # "gone", Listening(host[c]),
         sock[Client(c)] = "open", WebInv(c), at[Client(c)] # "off",
         PersistentClient(c) \/ NonpersistentClient(c) \/ BrowserClient(c) \/ HelloClient(c),
         ~Finish(Client(c))
  PROVE  WebInv(c)'
  <1> DEFINE e == Client(c)
             f == Child(c)
             q == at[f]
             j == in[f]
             i == in[e]
             k == buffer[f]
             a == prog[host[c]]
  <1>1. e \in Ends /\ f \in Ends /\ Peer(e) = f
    BY EndFacts
  <1>2. WebPhase(at[e], i, a, q, j, k) /\ (at[e] \in Chats => prog[c] = "persistent")
    BY DEF WebInv
  <1>3. SUFFICES /\ server'[host'[c]] \in {"up", "busy"}
                 /\ WebPhase(at'[e], in'[e], prog'[host'[c]], at'[f], in'[f], buffer'[f])
                 /\ at'[e] \in Chats => prog'[c] = "persistent"
    BY WebNow
  <1>4. server[host[c]] \in {"up", "busy"}
    BY DEF Listening
  <1>s. sock[e] = "open" /\ ~Finish(e) /\ at[e] # "off"
    OBVIOUS
  <1>t. \/ at[e] = "sayRequest" /\ Write(e, Text("request"), "html", "html")
        \/ at[e] = "sayRequest" /\ Write(e, Text("request"), "leave", "leave")
        \/ at[e] = "html" /\ Read(e, "leave", "leave")
        \/ prog[c] = "persistent" /\ at[e] = "html" /\ Read(e, "sayMessage", "leave")
        \/ at[e] = "sayMessage" /\ Write(e, Text("exit"), "leave", "leave")
        \/ at[e] = "sayMessage" /\ \E t \in Messages : Write(e, Text(t), "ack", "ack")
        \/ at[e] = "sayMessage" /\ Write(e, Silence, "silent", "silent")
        \/ prog[c] = "persistent" /\ at[e] \in {"ack", "silent"} /\ Read(e, "sayMessage", "leave")
        \/ at[e] = "leave" /\ Finish(e)
    BY DEF PersistentClient, NonpersistentClient, BrowserClient, HelloClient, OneRequest, Begin, Connect
  <1> HIDE DEF e, f, i, q, j, k, a
  <1>7. ASSUME NEW text \in Texts, text # Silence, NEW next, Write(e, text, next, next),
               WebPhase(next, i, a, q, Append(j, text), k), next \in Chats => at[e] \in Chats
        PROVE  /\ server'[host'[c]] \in {"up", "busy"}
               /\ WebPhase(at'[e], in'[e], prog'[host'[c]], at'[f], in'[f], buffer'[f])
               /\ at'[e] \in Chats => prog'[c] = "persistent"
    <2>1. /\ at'[e] = next /\ at'[f] = q /\ in'[f] = Append(j, text) /\ in'[e] = i
          /\ UNCHANGED <<prog, server, host, buffer, mem>>
      BY <1>1, <1>7, <1>s, WriteOpen DEF i, j, q
    <2>2. buffer'[f] = k /\ prog'[host'[c]] = a
      BY <2>1 DEF k, a
    <2>3. QED
      BY <1>2, <1>4, <1>7, <2>1, <2>2
  <1>8. ASSUME NEW next, Read(e, next, "leave")
        PROVE  /\ i # <<>> /\ at'[e] = next /\ at'[f] = q /\ in'[f] = j /\ buffer'[f] = k
               /\ server'[host'[c]] \in {"up", "busy"} /\ prog' = prog /\ prog'[host'[c]] = a
    BY <1>1, <1>4, <1>8, <1>s, ReadOpen DEF i, j, q, k, a
  <1>9. ASSUME NEW x, i = <<x>>, x \in Texts, NEW next, Read(e, next, "leave")
        PROVE  in'[e] = <<>>
    BY <1>1, <1>9, <1>s, ReadOpen, TakesOne DEF i
  <1>10. CASE at[e] = "sayRequest" /\ Write(e, Text("request"), "html", "html")
    <2>1. WebPhase("html", i, a, q, Append(j, Text("request")), k) /\ "html" \notin Chats
      BY <1>2, <1>10, WebSays DEF Chats
    <2>2. QED
      BY <1>7, <1>10, <2>1, WebTexts
  <1>11. CASE \/ at[e] = "sayRequest" /\ Write(e, Text("request"), "leave", "leave")
              \/ at[e] = "sayMessage" /\ Write(e, Text("exit"), "leave", "leave")
    <2>1. \A x : WebPhase("leave", i, a, q, x, k) /\ "leave" \notin Chats
      BY WebSays DEF Chats
    <2>2. QED
      BY <1>7, <1>11, <2>1, WebTexts
  <1>12. CASE at[e] = "html" /\ Read(e, "leave", "leave")
    <2>1. \A x : WebPhase("leave", x, a, q, j, k) /\ "leave" \notin Chats
      BY WebSays DEF Chats
    <2>2. QED
      BY <1>8, <1>12, <2>1
  <1>13. CASE prog[c] = "persistent" /\ at[e] \in {"html", "ack", "silent"} /\ Read(e, "sayMessage", "leave")
    <2>1. i # <<>>
      BY <1>8, <1>13
    <2>2. /\ i \in {<<Text("html")>>, <<Text("hi")>>, <<Text("ack")>>}
          /\ WebPhase("sayMessage", <<>>, a, q, j, k)
      BY <1>2, <1>13, <2>1, WebTakes
    <2>3. in'[e] = <<>>
      BY <1>9, <1>13, <2>2, WebTexts
    <2>4. QED
      BY <1>8, <1>13, <2>2, <2>3
  <1>14. CASE at[e] = "sayMessage" /\ \E t \in Messages : Write(e, Text(t), "ack", "ack")
    <2>1. PICK t \in Messages : Write(e, Text(t), "ack", "ack")
      BY <1>14
    <2>2. WebPhase("ack", i, a, q, Append(j, Text(t)), k) /\ "sayMessage" \in Chats
      BY <1>2, <1>14, WebSays DEF Chats
    <2>3. QED
      BY <1>7, <1>14, <2>1, <2>2, WebTexts
  <1>15. CASE at[e] = "sayMessage" /\ Write(e, Silence, "silent", "silent")
    <2>1. /\ at'[e] = "silent" /\ at'[f] = q
          /\ UNCHANGED <<prog, server, host, in, buffer, mem>>
      BY <1>1, <1>15, <1>s, SilenceOpen DEF q
    <2>2. WebPhase("silent", i, a, q, j, k) /\ prog[c] = "persistent"
      BY <1>2, <1>15, WebSays DEF Chats
    <2>3. QED
      BY <1>4, <2>1, <2>2 DEF i, j, k, a
  <1>16. QED
    BY <1>10, <1>11, <1>12, <1>13, <1>14, <1>15, <1>s, <1>t

LEMMA WebPages ==
  ASSUME NEW p, NEW i, NEW a, NEW j, NEW k, NEW text \in {"html", "hi"},
         WebPhase(p, i, a, "page", j, k)
  PROVE  /\ a = "persistent" => WebPhase(p, Append(i, Text(text)), a, "message", j, k)
         /\ a # "persistent" => WebPhase(p, Append(i, Text(text)), a, "leave", j, k)
  <1>1. CASE p = "leave"
    BY <1>1 DEF WebPhase
  <1>2. CASE p = "html" /\ i = <<>> /\ j = <<>>
    <2>1. Append(i, Text(text)) = <<Text(text)>>
      BY <1>2, OneText, WebTexts
    <2>2. QED
      BY <1>2, <2>1 DEF WebPhase
  <1>3. QED
    BY <1>1, <1>2 DEF WebPhase

LEMMA WebReads ==
  ASSUME NEW p, NEW i, NEW a, NEW j, j # <<>>, NEW k
  PROVE  /\ WebPhase(p, i, a, "request", j, k) =>
              p = "leave" \/ (j = <<Text("request")>> /\ \A x : WebPhase(p, i, a, "page", <<>>, x))
         /\ WebPhase(p, i, a, "message", j, k) =>
              \/ p = "leave"
              \/ \E t \in Messages : j = <<Text(t)>> /\ WebPhase(p, i, a, "reply", <<>>, <<Text(t)>>)
  <1>1. WebPhase(p, i, a, "request", j, k) =>
          p = "leave" \/ (j = <<Text("request")>> /\ \A x : WebPhase(p, i, a, "page", <<>>, x))
    BY DEF WebPhase
  <1>2. WebPhase(p, i, a, "message", j, k) =>
          \/ p = "leave"
          \/ \E t \in Messages : j = <<Text(t)>> /\ WebPhase(p, i, a, "reply", <<>>, <<Text(t)>>)
    <2>1. SUFFICES ASSUME WebPhase(p, i, a, "message", j, k), p # "leave"
                   PROVE  \E t \in Messages : j = <<Text(t)>> /\ WebPhase(p, i, a, "reply", <<>>, <<Text(t)>>)
      OBVIOUS
    <2>2. a = "persistent" /\ p = "ack" /\ i = <<>>
      BY <2>1 DEF WebPhase
    <2>3. PICK t \in Messages : j = <<Text(t)>>
      BY <2>1 DEF WebPhase
    <2>4. WebPhase(p, i, a, "reply", <<>>, <<Text(t)>>)
      BY <2>2 DEF WebPhase
    <2>5. QED
      BY <2>3, <2>4
  <1>3. QED
    BY <1>1, <1>2

LEMMA WebReplies ==
  ASSUME NEW p, NEW i, NEW a, NEW j, NEW k
  PROVE  /\ WebPhase(p, i, a, "reply", j, k) => WebPhase(p, Append(i, Text("ack")), a, "message", j, k)
         /\ WebPhase(p, i, a, "reply", j, k) /\ k = <<Text("exit")>> => p = "leave"
         /\ WebPhase(p, i, a, "leave", j, k) => \A x : WebPhase(p, i, a, "gone", j, x)
         /\ WebPhase(p, i, a, "off", j, k) => \A x : WebPhase(p, i, a, "request", j, x)
  <1>1. ASSUME WebPhase(p, i, a, "reply", j, k), p # "leave"
        PROVE  /\ WebPhase(p, Append(i, Text("ack")), a, "message", j, k)
               /\ k # <<Text("exit")>>
    <2>1. a = "persistent" /\ p = "ack" /\ i = <<>> /\ j = <<>>
      BY <1>1 DEF WebPhase
    <2>2. PICK t \in Messages : k = <<Text(t)>>
      BY <1>1 DEF WebPhase
    <2>3. Append(i, Text("ack")) = <<Text("ack")>>
      BY <2>1, OneText, WebTexts
    <2>4. <<Text(t)>>[1] = Text(t) /\ <<Text("exit")>>[1] = Text("exit")
      BY OneText, WebTexts
    <2>5. k # <<Text("exit")>>
      BY <2>2, <2>4, WebTexts
    <2>6. QED
      BY <2>1, <2>3, <2>5 DEF WebPhase
  <1>2. \A x, y : WebPhase("leave", x, a, "message", y, k)
    BY DEF WebPhase
  <1>3. WebPhase(p, i, a, "leave", j, k) => \A x : WebPhase(p, i, a, "gone", j, x)
    BY DEF WebPhase
  <1>4. WebPhase(p, i, a, "off", j, k) => \A x : WebPhase(p, i, a, "request", j, x)
    BY DEF WebPhase
  <1>5. QED
    BY <1>1, <1>2, <1>3, <1>4

\* A process of a web server goes on or ends; one that is no child takes the
\* server with it.
LEMMA WebServes ==
  ASSUME TypeOK, NEW c \in Clients, at[Client(c)] # "gone", Listening(host[c]),
         sock[Child(c)] = "open", WebInv(c), host[c] \in Servers,
         \/ PersistentChild(Child(c)) \/ NonpersistentChild(Child(c))
         \/ MultiChild(Child(c)) \/ HelloService(Child(c))
  PROVE  WebInv(c)'
  <1> DEFINE e == Client(c)
             f == Child(c)
             q == at[f]
             j == in[f]
             i == in[e]
             k == buffer[f]
             a == prog[host[c]]
             p == at[e]
  <1>1. e \in Ends /\ f \in Ends /\ Peer(f) = e /\ Program(f) = a
    BY EndFacts DEF Program
  <1>2. WebPhase(p, i, a, q, j, k) /\ (p \in Chats => prog[c] = "persistent")
    BY DEF WebInv
  <1>3. SUFFICES \/ server'[host'[c]] = "down"
                 \/ /\ server'[host'[c]] \in {"up", "busy"}
                    /\ WebPhase(at'[e], in'[e], prog'[host'[c]], at'[f], in'[f], buffer'[f])
                    /\ at'[e] = p /\ prog' = prog
    BY <1>2, WebNow
  <1>4. server[host[c]] \in {"up", "busy"}
    BY DEF Listening
  <1>s. sock[f] = "open"
    OBVIOUS
  <1>5. Finish(f) => \/ server'[host'[c]] = "down"
                     \/ /\ UNCHANGED <<prog, server, host, in>>
                        /\ at'[f] = "gone" /\ at'[e] = p
    <2>1. ASSUME Finish(f), ~Forks(host[c])
          PROVE  server'[host'[c]] = "down"
      <3>1. Shutdown(host[c])
        BY <2>1, ChildFinishes
      <3>2. host'[c] = host[c] /\ server'[host[c]] = "down"
        BY <3>1, ShutdownEffect
      <3>3. QED
        BY <3>2
    <2>2. QED
      BY <2>1, ChildEffect
  <1>t. \/ q = "request" /\ Read(f, "page", "page")
        \/ a = "persistent" /\ q = "page" /\ Write(f, Text("html"), "message", "message")
        \/ q = "message" /\ Read(f, "reply", "leave")
        \/ q = "reply" /\ Write(f, Text("ack"), "message", "message")
        \/ /\ a # "persistent" /\ q = "page"
           /\ \E text \in {"html", "hi"} : Write(f, Text(text), "leave", "leave")
        \/ (q = "leave" \/ (q = "reply" /\ k = <<Text("exit")>>)) /\ Finish(f)
    BY <1>1 DEF PersistentChild, NonpersistentChild, MultiChild, HelloService, OnePage, PersistentReply
  <1> HIDE DEF e, f, i, p, q, j, k, a
  <1>7. ASSUME NEW text \in Texts, text # Silence, NEW next, Write(f, text, next, next),
               WebPhase(p, Append(i, text), a, next, j, k)
        PROVE  /\ server'[host'[c]] \in {"up", "busy"}
               /\ WebPhase(at'[e], in'[e], prog'[host'[c]], at'[f], in'[f], buffer'[f])
               /\ at'[e] = p /\ prog' = prog
    <2>1. /\ at'[f] = next /\ at'[e] = p /\ in'[e] = Append(i, text) /\ in'[f] = j
          /\ UNCHANGED <<prog, server, host, buffer, mem>>
      BY <1>1, <1>7, <1>s, WriteOpen DEF i, j, p
    <2>2. buffer'[f] = k /\ prog'[host'[c]] = a
      BY <2>1 DEF k, a
    <2>3. QED
      BY <1>4, <1>7, <2>1, <2>2
  <1>8. ASSUME NEW next, NEW failed, Read(f, next, failed)
        PROVE  /\ j # <<>> /\ at'[f] = next /\ at'[e] = p /\ in'[e] = i
               /\ server'[host'[c]] \in {"up", "busy"} /\ prog' = prog /\ prog'[host'[c]] = a
    BY <1>1, <1>4, <1>8, <1>s, ReadOpen DEF i, j, p, a
  <1>9. ASSUME NEW x, j = <<x>>, x \in Texts, NEW next, NEW failed, Read(f, next, failed)
        PROVE  in'[f] = <<>> /\ buffer'[f] = <<x>>
    <2>1. PICK l \in 1..Len(j) : buffer'[f] = SubSeq(j, 1, l) /\ in'[f] = SubSeq(j, l + 1, Len(j))
      BY <1>1, <1>9, <1>s, ReadOpen DEF j
    <2>2. QED
      BY <1>9, <2>1, TakesOne
  <1>10. \A y, x, z, l : WebPhase("leave", y, a, x, z, l)
    BY DEF WebPhase
  <1>11. CASE q = "request" /\ Read(f, "page", "page")
    <2>1. p = "leave" \/ (j = <<Text("request")>> /\ \A x : WebPhase(p, i, a, "page", <<>>, x))
      BY <1>2, <1>8, <1>11, WebReads
    <2>2. j = <<Text("request")>> => in'[f] = <<>>
      BY <1>9, <1>11, WebTexts
    <2>3. QED
      BY <1>8, <1>10, <1>11, <2>1, <2>2
  <1>12. CASE q = "message" /\ Read(f, "reply", "leave")
    <2>1. CASE p = "leave"
      BY <1>8, <1>10, <1>12, <2>1
    <2>2. CASE p # "leave"
      <3>1. PICK t \in Messages : j = <<Text(t)>> /\ WebPhase(p, i, a, "reply", <<>>, <<Text(t)>>)
        BY <1>2, <1>8, <1>12, <2>2, WebReads
      <3>2. in'[f] = <<>> /\ buffer'[f] = <<Text(t)>>
        BY <1>9, <1>12, <3>1, WebTexts
      <3>3. QED
        BY <1>8, <1>12, <3>1, <3>2
    <2>3. QED
      BY <2>1, <2>2
  <1>13. CASE a = "persistent" /\ q = "page" /\ Write(f, Text("html"), "message", "message")
    <2>1. WebPhase(p, Append(i, Text("html")), a, "message", j, k)
      BY <1>2, <1>13, WebPages
    <2>2. QED
      BY <1>7, <1>13, <2>1, WebTexts
  <1>14. CASE /\ a # "persistent" /\ q = "page"
              /\ \E text \in {"html", "hi"} : Write(f, Text(text), "leave", "leave")
    <2>1. PICK text \in {"html", "hi"} : Write(f, Text(text), "leave", "leave")
      BY <1>14
    <2>2. WebPhase(p, Append(i, Text(text)), a, "leave", j, k)
      BY <1>2, <1>14, WebPages
    <2>3. QED
      BY <1>7, <2>1, <2>2, WebTexts
  <1>15. CASE q = "reply" /\ Write(f, Text("ack"), "message", "message")
    <2>1. WebPhase(p, Append(i, Text("ack")), a, "message", j, k)
      BY <1>2, <1>15, WebReplies
    <2>2. QED
      BY <1>7, <1>15, <2>1, WebTexts
  <1>16. CASE (q = "leave" \/ (q = "reply" /\ k = <<Text("exit")>>)) /\ Finish(f)
    <2>1. p = "leave" \/ \A x : WebPhase(p, i, a, "gone", j, x)
      BY <1>2, <1>16, WebReplies
    <2>2. QED
      BY <1>4, <1>5, <1>10, <1>16, <2>1 DEF i, j, a
  <1>17. QED
    BY <1>11, <1>12, <1>13, <1>14, <1>15, <1>16, <1>t
----------------------------------------------------------------------------
(* Conversations go on *)

LEMMA DialogueNow ==
  ASSUME NEW c \in Clients
  PROVE  Dialogue(c)' <=>
           /\ prog'[c] \in Calculates /\ prog'[host'[c]] \in Calculates => CalcInv(c)'
           /\ prog'[c] = "math" /\ prog'[host'[c]] \in {"math", "template"} => MathInv(c)'
           /\ prog'[c] \in WebClients /\ prog'[host'[c]] \in WebServers \cup {"template"} => WebInv(c)'
           /\ at'[Client(c)] = "menu" => prog'[c] \in Calculates
  BY DEF Dialogue, CalcTalk, MathTalk, WebTalk

LEMMA DialogueKept ==
  ASSUME NEW c \in Clients, host[c] # Nobody, Dialogue(c), Undisturbed(c)
  PROVE  Dialogue(c)'
  <1>1. /\ prog' = prog /\ host'[c] = host[c] /\ at'[Client(c)] = at[Client(c)]
        /\ server'[host[c]] \in {"up", "busy"} <=> server[host[c]] \in {"up", "busy"}
        /\ in'[Client(c)] = in[Client(c)] /\ buffer'[Client(c)] = buffer[Client(c)]
        /\ mem'[Client(c)] = mem[Client(c)] /\ at'[Child(c)] = at[Child(c)]
        /\ in'[Child(c)] = in[Child(c)] /\ buffer'[Child(c)] = buffer[Child(c)]
        /\ mem'[Child(c)] = mem[Child(c)]
    BY DEF Undisturbed
  <1>2. CalcInv(c) => CalcInv(c)'
    BY <1>1, CalcNow DEF CalcInv, Listening
  <1>3. MathInv(c) => MathInv(c)'
    BY <1>1, MathNow DEF MathInv, Listening
  <1>4. WebInv(c) => WebInv(c)'
    BY <1>1, WebNow DEF WebInv, Listening
  <1>5. QED
    BY <1>1, <1>2, <1>3, <1>4, DialogueNow DEF Dialogue, CalcTalk, MathTalk, WebTalk

\* A client that is gone says and takes nothing.
LEMMA GoneTalks ==
  ASSUME NEW c \in Clients, at'[Client(c)] = "gone"
  PROVE  Dialogue(c)'
  BY DialogueNow, CalcNow, MathNow, WebNow

LEMMA DialogueFrom ==
  ASSUME DialogueInv,
         \A c \in Clients : Undisturbed(c) \/ host'[c] = Nobody \/ Dialogue(c)'
  PROVE  DialogueInv'
  <1>1. ASSUME NEW c \in Clients, host'[c] # Nobody
        PROVE  Dialogue(c)'
    <2>1. Undisturbed(c) => host[c] # Nobody
      BY <1>1 DEF Undisturbed
    <2>2. QED
      BY <1>1, <2>1, DialogueKept DEF DialogueInv
  <1>2. QED
    BY <1>1 DEF DialogueInv

LEMMA ShutdownTalks ==
  ASSUME TypeOK, NEW s \in Servers, Shutdown(s), NEW c \in Clients, host[c] = s, Dialogue(c)
  PROVE  Dialogue(c)'
  <1>1. /\ prog' = prog /\ host'[c] = s /\ server'[s] = "down"
        /\ at'[Client(c)] = at[Client(c)] /\ in'[Client(c)] = in[Client(c)]
        /\ buffer'[Client(c)] = buffer[Client(c)] /\ mem'[Client(c)] = mem[Client(c)]
    BY ShutdownEffect
  <1>2. CalcInv(c) => CalcInv(c)'
    BY <1>1, CalcNow, CalcRestLeft DEF CalcInv
  <1>3. MathInv(c)' /\ WebInv(c)'
    BY <1>1, MathNow, WebNow
  <1>4. QED
    BY <1>1, <1>2, <1>3, DialogueNow DEF Dialogue, CalcTalk

LEMMA ShutdownDialogues ==
  ASSUME TypeOK, DialogueInv, NEW s \in Servers, Shutdown(s)
  PROVE  DialogueInv'
  <1>1. ASSUME NEW c \in Clients
        PROVE  Undisturbed(c) \/ Dialogue(c)'
    <2>1. CASE host[c] = s
      BY <2>1, ShutdownTalks, SocketsAssumption DEF DialogueInv
    <2>2. CASE host[c] # s
      BY <2>2, ShutdownEffect
    <2>3. QED
      BY <2>1, <2>2
  <1>2. QED
    BY <1>1, DialogueFrom

\* Where a call that does not end the process leaves it.
LEMMA GoPlace ==
  ASSUME TypeOK, NEW e \in Ends, NEW next, Go(e, next)
  PROVE  at'[e] = next
  BY Types DEF Go

LEMMA WritePlace ==
  ASSUME TypeOK, NEW e \in Ends, NEW text, NEW next, NEW failed, Write(e, text, next, failed)
  PROVE  Finish(e) \/ at'[e] = next \/ at'[e] = failed
  BY GoPlace DEF Write, SigPipe

LEMMA ReadPlace ==
  ASSUME TypeOK, NEW e \in Ends, NEW next, NEW failed, Read(e, next, failed)
  PROVE  at'[e] = next \/ at'[e] = failed
  BY GoPlace DEF Read, Returned

LEMMA ReadIntPlace ==
  ASSUME TypeOK, NEW e \in Ends, NEW v, NEW next, ReadInt(e, v, next)
  PROVE  at'[e] = next
  BY GoPlace DEF ReadInt, Returned

\* Only the clients of lab3 and of the template have a menu.
LEMMA NoMenu ==
  ASSUME TypeOK, NEW c \in Clients, at[Client(c)] # "off", ~Finish(Client(c)),
         \/ MathClient(c) \/ PersistentClient(c) \/ NonpersistentClient(c)
         \/ BrowserClient(c) \/ HelloClient(c)
  PROVE  at'[Client(c)] # "menu"
  <1> DEFINE e == Client(c)
  <1>1. e \in Ends /\ ~Finish(e) /\ at[e] # "off"
    BY EndFacts
  <1>2. ASSUME MathClient(c)
        PROVE  at'[e] # "menu"
    <2>1. \/ Read(e, "sayNum1", "leave") \/ Read(e, "sayNum2", "leave") \/ Read(e, "sayOp", "leave")
          \/ \E text : \/ Write(e, text, "prompt2", "prompt2")
                       \/ Write(e, text, "prompt3", "prompt3")
                       \/ Write(e, text, "told", "told")
          \/ Go(e, "answer") \/ ReadInt(e, "ans", "prompt1")
      BY <1>1, <1>2 DEF MathClient, Connect
    <2> HIDE DEF e
    <2>2. QED
      BY <1>1, <2>1, GoPlace, WritePlace, ReadPlace, ReadIntPlace
  <1>3. ASSUME PersistentClient(c)
        PROVE  at'[e] # "menu"
    <2>1. \/ Read(e, "sayMessage", "leave")
          \/ \E text : \/ Write(e, text, "html", "html")
                       \/ Write(e, text, "leave", "leave")
                       \/ Write(e, text, "ack", "ack")
                       \/ Write(e, text, "silent", "silent")
      BY <1>1, <1>3 DEF PersistentClient, Begin, Connect
    <2> HIDE DEF e
    <2>2. QED
      BY <1>1, <2>1, GoPlace, WritePlace, ReadPlace, ReadIntPlace
  <1>4. ASSUME OneRequest(c) \/ HelloClient(c)
        PROVE  at'[e] # "menu"
    BY <1>1, <1>4, WritePlace, ReadPlace DEF OneRequest, HelloClient, Begin, Connect
  <1>5. QED
    BY <1>2, <1>3, <1>4 DEF NonpersistentClient, BrowserClient

LEMMA ClientTalks ==
  ASSUME TypeOK, SocketInv, NEW c \in Clients, at[Client(c)] \notin {"off", "gone"},
         host[c] # Nobody, Dialogue(c), ClientStep(c)
  PROVE  Dialogue(c)'
  <1>1. CASE Finish(Client(c))
    BY <1>1, GoneTalks, LeavingEffect
  <1>2. CASE ~Finish(Client(c))
    <2>1. UNCHANGED <<prog, server, host>>
      BY <1>2, ClientRuns, EndFacts DEF Joins, Runs, Moves, Alone
    <2>2. /\ Listening(host[c]) => sock[Client(c)] = "open"
          /\ ~Listening(host[c]) => sock[Client(c)] # "open"
      BY WhoRuns DEF Conn
    <2>3. ASSUME prog[c] \in Calculates
          PROVE  CalcDialogue(Client(c))
      BY <2>3 DEF Calculates, ClientStep, CalcClient, TemplateClient, MathClient, PersistentClient,
                  NonpersistentClient, BrowserClient, HelloClient, Begin, Connect
    <2>4. CalcTalk(c) => CalcInv(c)'
      BY <1>2, <2>2, <2>3, CalcWhileUp, CalcWhileDown DEF Dialogue, CalcTalk
    <2>5. ASSUME prog[c] = "math"
          PROVE  MathClient(c)
      BY <2>5 DEF ClientStep, CalcClient, TemplateClient, PersistentClient,
                  NonpersistentClient, BrowserClient, HelloClient
    <2>6. MathTalk(c) => MathInv(c)'
      <3>1. CASE Listening(host[c])
        BY <1>2, <2>2, <2>5, <3>1, MathWhileUp DEF Dialogue, MathTalk
      <3>2. CASE ~Listening(host[c])
        BY <2>1, <3>2, MathNow DEF Listening
      <3>3. QED
        BY <3>1, <3>2
    <2>7. ASSUME prog[c] \in WebClients
          PROVE  PersistentClient(c) \/ NonpersistentClient(c) \/ BrowserClient(c) \/ HelloClient(c)
      BY <2>7 DEF WebClients, ClientStep, CalcClient, TemplateClient, MathClient
    <2>8. WebTalk(c) => WebInv(c)'
      <3>1. CASE Listening(host[c])
        BY <1>2, <2>2, <2>7, <3>1, WebWhileUp DEF Dialogue, WebTalk
      <3>2. CASE ~Listening(host[c])
        BY <2>1, <3>2, WebNow DEF Listening
      <3>3. QED
        BY <3>1, <3>2
    <2>9. prog[c] \notin Calculates => at'[Client(c)] # "menu"
      BY <1>2, NoMenu DEF Calculates, ClientStep, CalcClient, TemplateClient
    <2>10. QED
      BY <2>1, <2>4, <2>6, <2>8, <2>9, DialogueNow DEF CalcTalk, MathTalk, WebTalk
  <1>3. QED
    BY <1>1, <1>2

LEMMA ServiceTalks ==
  ASSUME TypeOK, SocketInv, NEW c \in Clients, host[c] # Nobody, Dialogue(c), Service(c)
  PROVE  Dialogue(c)'
  <1>1. /\ Child(c) \in Ends /\ Client(c) \in Ends /\ Child(c) # Client(c)
        /\ Program(Child(c)) = prog[host[c]] /\ Child(c)[2] = c
    BY EndFacts DEF Program
  <1>2. at[Child(c)] \notin {"off", "gone"} /\ (Moves(Child(c)) \/ Finish(Child(c)))
    BY ServiceRuns DEF Runs
  <1>3. host[c] \in Servers /\ Listening(host[c]) /\ prog[host[c]] # "template" /\ Conn(c)
    BY <1>2, WhoRuns
  <1>4. prog' = prog /\ host'[c] = host[c] /\ at'[Client(c)] = at[Client(c)]
    <2>1. CASE Moves(Child(c))
      BY <1>1, <2>1, Types DEF Moves, Alone
    <2>2. CASE Finish(Child(c)) /\ Forks(host[c])
      BY <2>2, ChildEffect
    <2>3. CASE Finish(Child(c)) /\ ~Forks(host[c])
      <3>1. Shutdown(host[c])
        BY <2>3, ChildFinishes
      <3>2. QED
        BY <1>3, <3>1, ShutdownEffect
    <2>4. QED
      BY <1>2, <2>1, <2>2, <2>3
  <1>5. CASE at[Client(c)] = "gone"
    BY <1>4, <1>5, GoneTalks
  <1>6. CASE at[Client(c)] # "gone"
    <2>1. sock[Child(c)] = "open"
      BY <1>3, <1>6 DEF Conn
    <2>2. CalcTalk(c) => CalcInv(c)'
      <3>1. CalcTalk(c) => CalcChild(Child(c)) /\ Forks(host[c])
        BY <1>1, <1>3 DEF CalcTalk, Calculates, Forks, Service, CalcChild, MathService,
                          PersistentChild, NonpersistentChild, MultiChild, HelloService
      <3>2. QED
        BY <1>3, <1>6, <2>1, <3>1, CalcService DEF Dialogue
    <2>3. MathTalk(c) => MathInv(c)'
      <3>1. SUFFICES ASSUME MathTalk(c)
                     PROVE  MathInv(c)'
        OBVIOUS
      <3>2. MathService(Child(c)) /\ ~Forks(host[c])
        BY <1>1, <1>3, <3>1 DEF MathTalk, Forks, Service, CalcChild,
                          PersistentChild, NonpersistentChild, MultiChild, HelloService
      <3>3. CASE Finish(Child(c))
        <4>1. server'[host[c]] = "down"
          BY <1>3, <3>2, <3>3, ChildFinishes, ShutdownEffect
        <4>2. QED
          BY <1>4, <4>1, MathNow
      <3>4. CASE ~Finish(Child(c))
        BY <1>3, <1>6, <2>1, <3>1, <3>2, <3>4, MathServes DEF Dialogue
      <3>5. QED
        BY <3>3, <3>4
    <2>4. WebTalk(c) => WebInv(c)'
      <3>1. WebTalk(c) => \/ PersistentChild(Child(c)) \/ NonpersistentChild(Child(c))
                          \/ MultiChild(Child(c)) \/ HelloService(Child(c))
        BY <1>1, <1>3 DEF WebTalk, WebServers, Service, CalcChild, MathService
      <3>2. QED
        BY <1>3, <1>6, <2>1, <3>1, WebServes DEF Dialogue
    <2>5. QED
      BY <1>4, <2>2, <2>3, <2>4, DialogueNow DEF Dialogue, CalcTalk, MathTalk, WebTalk
  <1>7. QED
    BY <1>5, <1>6
----------------------------------------------------------------------------
(* Conversations begin *)

LEMMA FirstPhases ==
  ASSUME NEW m, NEW n, NEW a, NEW k
  PROVE  /\ CalcPhase("menu", <<>>, <<>>, m, "off", <<>>, n)
         /\ ~Known(m) => MathPhase("prompt1", <<>>, m, "off", <<>>, n)
         /\ WebPhase("sayRequest", <<>>, a, "off", <<>>, k)
  <1>1. CalcPhase("menu", <<>>, <<>>, m, "off", <<>>, n)
    BY DEF CalcPhase
  <1>2. ~Known(m) => MathPhase("prompt1", <<>>, m, "off", <<>>, n)
    BY DEF MathPhase, MathRight
  <1>3. WebPhase("sayRequest", <<>>, a, "off", <<>>, k)
    BY DEF WebPhase
  <1>4. QED
    BY <1>1, <1>2, <1>3

LEMMA JoinTalks ==
  ASSUME TypeOK, SocketInv, NEW c \in Clients, at[Client(c)] = "off", ClientStep(c)
  PROVE  host'[c] = Nobody \/ Dialogue(c)'
  <1> DEFINE e == Client(c)
             f == Child(c)
             m == mem[e]
  <1>1. host[c] = Nobody /\ NoConn(c) /\ e \in Ends
    BY WhoRuns, EndFacts DEF Conn
  <1>2. \/ /\ prog[c] \in Calculates /\ Connect(c, "menu") /\ UNCHANGED mem
        \/ /\ prog[c] = "math" /\ Connect(c, "prompt1")
           /\ \E j \in Junk : mem' = [mem EXCEPT ![e].ans = j]
        \/ /\ prog[c] \in WebClients /\ Connect(c, "sayRequest") /\ UNCHANGED mem
    BY DEF ClientStep, CalcClient, TemplateClient, MathClient, PersistentClient, NonpersistentClient,
           BrowserClient, HelloClient, OneRequest, CalcDialogue, Begin, Calculates, WebClients
  <1>3. \A x \in Ends : x # e => mem'[x] = mem[x]
    BY <1>1, <1>2, Types
  <1>4. ~Known(mem'[e])
    <2>1. m \in IntVars /\ ~Known(m)
      BY <1>1, Types DEF NoConn
    <2>2. mem'[e].op = m.op
      BY <1>1, <1>2, <2>1, Types DEF IntVars
    <2>3. QED
      BY <2>1, <2>2 DEF Known
  <1>5. ASSUME NEW l, Connect(c, l), l # "gone"
        PROVE  /\ prog' = prog
               /\ \/ host'[c] = Nobody \/ at'[e] = "gone"
                  \/ /\ at'[e] = l /\ server'[host'[c]] \in {"up", "busy"} /\ at'[f] = "off"
                     /\ in'[e] = <<>> /\ in'[f] = <<>> /\ buffer'[e] = <<>>
    <2>1. /\ prog' = prog /\ in' = in /\ buffer' = buffer /\ at'[f] = at[f] /\ server' = server
          /\ \/ \E s \in Servers : Listening(s) /\ host'[c] = s /\ at'[e] = l
             \/ at'[e] = "gone"
      BY <1>3, <1>5, JoinsEffect
    <2>2. /\ at[f] = "off" /\ in[e] = <<>> /\ in[f] = <<>> /\ buffer[e] = <<>>
      BY <1>1 DEF NoConn
    <2>3. QED
      BY <2>1, <2>2 DEF Listening
  <1>6. CASE at'[e] = "gone"
    BY <1>6, GoneTalks
  <1>7. CASE host'[c] = Nobody
    BY <1>7
  <1>8. CASE at'[e] # "gone" /\ host'[c] # Nobody
    <2>1. CASE prog[c] \in Calculates /\ Connect(c, "menu")
      <3>1. /\ prog' = prog /\ at'[e] = "menu" /\ server'[host'[c]] \in {"up", "busy"}
            /\ at'[f] = "off" /\ in'[e] = <<>> /\ in'[f] = <<>> /\ buffer'[e] = <<>>
        BY <1>5, <1>8, <2>1
      <3>2. CalcInv(c)'
        BY <3>1, CalcNow, FirstPhases
      <3>3. prog'[c] \notin {"math"} \cup WebClients
        BY <2>1, <3>1 DEF Calculates, WebClients
      <3>4. QED
        BY <2>1, <3>1, <3>2, <3>3, DialogueNow
    <2>2. CASE prog[c] = "math" /\ Connect(c, "prompt1")
      <3>1. /\ prog' = prog /\ at'[e] = "prompt1" /\ server'[host'[c]] \in {"up", "busy"}
            /\ at'[f] = "off" /\ in'[e] = <<>> /\ in'[f] = <<>>
        BY <1>5, <1>8, <2>2
      <3>2. MathInv(c)'
        BY <1>4, <3>1, MathNow, FirstPhases
      <3>3. prog'[c] \notin Calculates \cup WebClients
        BY <2>2, <3>1 DEF Calculates, WebClients
      <3>4. QED
        BY <2>2, <3>1, <3>2, <3>3, DialogueNow
    <2>3. CASE prog[c] \in WebClients /\ Connect(c, "sayRequest")
      <3>1. /\ prog' = prog /\ at'[e] = "sayRequest" /\ server'[host'[c]] \in {"up", "busy"}
            /\ at'[f] = "off" /\ in'[e] = <<>> /\ in'[f] = <<>>
        BY <1>5, <1>8, <2>3
      <3>2. WebInv(c)'
        BY <3>1, WebNow, FirstPhases DEF Chats
      <3>3. prog'[c] \notin Calculates \cup {"math"}
        BY <2>3, <3>1 DEF Calculates, WebClients
      <3>4. QED
        BY <2>3, <3>1, <3>2, <3>3, DialogueNow
    <2>4. QED
      BY <1>2, <2>1, <2>2, <2>3
  <1>9. QED
    BY <1>6, <1>7, <1>8

LEMMA JoinDialogues ==
  ASSUME TypeOK, SocketInv, DialogueInv, NEW c \in Clients, at[Client(c)] = "off", ClientStep(c)
  PROVE  DialogueInv'
  <1>1. Joins(c)
    BY ClientRuns DEF Runs
  <1>2. \A d \in Clients : d # c => Undisturbed(d)
    BY <1>1, JoinsEffect DEF Joins
  <1>3. QED
    BY <1>2, JoinTalks, DialogueFrom

\* The process that serves client c begins.
LEMMA AcceptTalks ==
  ASSUME NEW c \in Clients, NEW s \in Servers, NEW l, host[c] = s, at[Child(c)] = "off",
         UNCHANGED <<prog, host, sock, in, buffer>>,
         server[s] \in {"up", "busy"}, server'[s] \in {"up", "busy"},
         at'[Child(c)] = l, at'[Client(c)] = at[Client(c)], mem'[Client(c)] = mem[Client(c)],
         \/ prog[s] = "calc" /\ l = "showMenu"
         \/ prog[s] = "math" /\ l = "ask1"
         \/ prog[s] \in WebServers /\ l = "request",
         Dialogue(c)
  PROVE  Dialogue(c)'
  <1>1. CalcTalk(c) => CalcInv(c)'
    <2>1. CalcTalk(c) => CalcInv(c) /\ l = "showMenu"
      BY DEF Dialogue, CalcTalk, Calculates, WebServers
    <2>2. CalcInv(c) /\ l = "showMenu" => CalcInv(c)'
      BY CalcNow, CalcEnds DEF CalcInv, Listening
    <2>3. QED
      BY <2>1, <2>2
  <1>2. MathTalk(c) => MathInv(c)'
    <2>1. MathTalk(c) => MathInv(c) /\ l = "ask1"
      BY DEF Dialogue, MathTalk, WebServers
    <2>2. MathInv(c) /\ l = "ask1" => MathInv(c)'
      BY MathNow, MathAsks DEF MathInv, Listening
    <2>3. QED
      BY <2>1, <2>2
  <1>3. WebTalk(c) => WebInv(c)'
    <2>1. WebTalk(c) => WebInv(c) /\ l = "request"
      BY DEF Dialogue, WebTalk, WebServers
    <2>2. WebInv(c) /\ l = "request" => WebInv(c)'
      BY WebNow, WebReplies DEF WebInv, Listening
    <2>3. QED
      BY <2>1, <2>2
  <1>4. QED
    BY <1>1, <1>2, <1>3, DialogueNow DEF Dialogue, CalcTalk, MathTalk, WebTalk

LEMMA ServerDialogues ==
  ASSUME TypeOK, SocketInv, DialogueInv, NEW s \in Servers, ServerStep(s) \/ Stop(s)
  PROVE  DialogueInv'
  <1>1. CASE Open(s)
    <2>1. \A c \in Clients : Undisturbed(c)
      BY <1>1, OpenLeaves, WhoRuns
    <2>2. QED
      BY <2>1, DialogueFrom
  <1>2. CASE Shutdown(s)
    BY <1>2, ShutdownDialogues
  <1>3. ASSUME NEW l \in MovingPlaces, Accept(s, l),
               \/ prog[s] = "calc" /\ l = "showMenu"
               \/ prog[s] = "math" /\ l = "ask1"
               \/ prog[s] \in WebServers /\ l = "request"
        PROVE  DialogueInv'
    <2>1. PICK d \in Clients :
            /\ d = Head(queue[s]) /\ host[d] = s /\ at[Child(d)] = "off"
            /\ UNCHANGED <<prog, host, sock, in, buffer>>
            /\ server[s] \in {"up", "busy"} /\ server'[s] \in {"up", "busy"}
            /\ at'[Child(d)] = l /\ at'[Client(d)] = at[Client(d)]
            /\ mem'[Client(d)] = mem[Client(d)]
            /\ \A x \in Ends : x # Child(d) => at'[x] = at[x]
            /\ \A c \in Clients : c # d => Undisturbed(c)
      BY <1>3, AcceptEffect
    <2>2. Dialogue(d)
      BY <2>1, SocketsAssumption DEF DialogueInv
    <2>3. Dialogue(d)'
      BY <1>3, <2>1, <2>2, AcceptTalks
    <2>4. QED
      BY <2>1, <2>3, DialogueFrom
  <1>4. \/ Open(s) \/ Shutdown(s)
        \/ prog[s] = "calc" /\ Accept(s, "showMenu")
        \/ prog[s] = "math" /\ Accept(s, "ask1")
        \/ prog[s] \in WebServers /\ Accept(s, "request")
    BY DEF ServerStep, Stop, CalcServer, TemplateServer, MathServer, PersistentServer,
           NonpersistentServer, MultiServer, HelloServer, WebServers
  <1>5. QED
    BY <1>1, <1>2, <1>3, <1>4, MovingPlaceNames

----------------------------------------------------------------------------
(* The invariant *)

LEMMA DialogueStep ==
  ASSUME TypeOK, SocketInv, DialogueInv, [Next]_vars
  PROVE  DialogueInv'
  <1>1. CASE UNCHANGED vars
    BY <1>1, DialogueFrom DEF vars, Undisturbed
  <1>2. ASSUME NEW s \in Servers, ServerStep(s) \/ Stop(s)
        PROVE  DialogueInv'
    BY <1>2, ServerDialogues
  <1>3. ASSUME NEW c \in Clients, Service(c)
        PROVE  DialogueInv'
    <2>1. host[c] # Nobody /\ at[Child(c)] \notin {"off", "gone"} /\ Child(c)[2] = c
          /\ (Moves(Child(c)) \/ Finish(Child(c)))
      BY <1>3, ServiceRuns, EndFacts DEF Runs
    <2>2. Dialogue(c)'
      BY <1>3, <2>1, ServiceTalks DEF DialogueInv
    <2>3. CASE Moves(Child(c))
      <3>1. \A d \in Clients : d # c => Undisturbed(d)
        BY <2>1, <2>3, AloneLeaves DEF Moves
      <3>2. QED
        BY <2>2, <3>1, DialogueFrom
    <2>4. CASE Finish(Child(c)) /\ Forks(host[c])
      <3>1. \A d \in Clients : d # c => Undisturbed(d)
        BY <2>4, ChildEffect
      <3>2. QED
        BY <2>2, <3>1, DialogueFrom
    <2>5. CASE Finish(Child(c)) /\ ~Forks(host[c])
      BY <2>1, <2>5, WhoRuns, ChildFinishes, ShutdownDialogues
    <2>6. QED
      BY <2>1, <2>3, <2>4, <2>5
  <1>4. ASSUME NEW c \in Clients, Finish(Client(c))
        PROVE  DialogueInv'
    <2>1. /\ \A d \in Clients : d # c => Undisturbed(d)
          /\ at'[Client(c)] = "gone"
      BY <1>4, LeavingEffect
    <2>2. QED
      BY <2>1, GoneTalks, DialogueFrom
  <1>5. ASSUME NEW c \in Clients, ClientStep(c), at[Client(c)] # "off", ~Finish(Client(c))
        PROVE  DialogueInv'
    <2>1. at[Client(c)] \notin {"off", "gone"} /\ Moves(Client(c)) /\ Client(c)[2] = c
      BY <1>5, ClientRuns, EndFacts DEF Joins, Runs
    <2>2. \A d \in Clients : d # c => Undisturbed(d)
      BY <2>1, AloneLeaves DEF Moves
    <2>3. Dialogue(c)'
      BY <1>5, <2>1, WhoRuns, ClientTalks DEF DialogueInv
    <2>4. QED
      BY <2>2, <2>3, DialogueFrom
  <1>6. ASSUME NEW c \in Clients, ClientStep(c), at[Client(c)] = "off"
        PROVE  DialogueInv'
    BY <1>6, JoinDialogues
  <1>7. QED
    BY <1>1, <1>2, <1>3, <1>4, <1>5, <1>6 DEF Next, Idle, Killed

LEMMA InitDialogues ==
  ASSUME Init
  PROVE  DialogueInv
  BY DEF Init, SocketsInit, DialogueInv
\* Who is in a conversation, who waits in it and where it is: everything that
\* the programs of lab3, lab4, labs and the template rely on without a lock or
\* a length in front of a message.
THEOREM ConversationsKept == Spec => [](TypeOK /\ SocketInv /\ DialogueInv)
  <1>1. Init => TypeOK /\ SocketInv /\ DialogueInv
    BY InitTypes, InitSockets, InitDialogues
  <1>2. (TypeOK /\ SocketInv /\ DialogueInv) /\ [Next]_vars
          => (TypeOK /\ SocketInv /\ DialogueInv)'
    <2>1. TypeOK /\ [Next]_vars => TypeOK'
      BY TypeStep
    <2>2. TypeOK /\ SocketInv /\ [Next]_vars => SocketInv'
      BY SocketStep
    <2>3. TypeOK /\ SocketInv /\ DialogueInv /\ [Next]_vars => DialogueInv'
      BY DialogueStep
    <2>4. QED
      BY <2>1, <2>2, <2>3
  <1>3. QED
    BY <1>1, <1>2, PTL DEF Spec

----------------------------------------------------------------------------
(* What follows from it *)

LEMMA MenuAnswer ==
  ASSUME NEW c \in Clients, Dialogue(c), Suited(c),
         at[Client(c)] = "menu", buffer[Client(c)] # <<>>
  PROVE  IsReply(mem[Client(c)], buffer[Client(c)][1])
  <1>1. CalcTalk(c)
    BY DEF Dialogue, CalcTalk, Calculates, Suited, WebClients
  <1>2. CalcRest("menu", in[Client(c)], buffer[Client(c)], mem[Client(c)])
    BY <1>1, CalcRestLeft DEF Dialogue, CalcInv
  <1>3. QED
    BY <1>2 DEF CalcRest

LEMMA MathAnswer ==
  ASSUME NEW c \in Clients, Dialogue(c), Suited(c), prog[c] = "math",
         at[Client(c)] = "prompt1", Listening(host[c])
  PROVE  MathRight(mem[Client(c)], mem[Client(c)].ans)
  <1>1. MathTalk(c)
    BY DEF MathTalk, Suited, WebClients
  <1>2. MathPhase("prompt1", in[Client(c)], mem[Client(c)], at[Child(c)], in[Child(c)], mem[Child(c)])
    BY <1>1 DEF Dialogue, MathInv
  <1>3. QED
    BY <1>2 DEF MathPhase, Expecting

LEMMA AnswersFollow ==
  ASSUME DialogueInv
  PROVE  AnswerIsMine
  <1>1. ASSUME NEW c \in Clients, host[c] # Nobody, Suited(c)
        PROVE  /\ (at[Client(c)] = "menu" /\ buffer[Client(c)] # <<>>) =>
                    IF Known(mem[Client(c)])
                    THEN /\ buffer[Client(c)][1][1] = "answer"
                         /\ Right(mem[Client(c)], buffer[Client(c)][1][2])
                    ELSE buffer[Client(c)][1] = Bye
               /\ (/\ prog[c] = "math" /\ at[Client(c)] = "prompt1"
                   /\ Known(mem[Client(c)]) /\ Listening(host[c])) =>
                    Right(mem[Client(c)], mem[Client(c)].ans)
    <2>1. Dialogue(c)
      BY <1>1 DEF DialogueInv
    <2>2. at[Client(c)] = "menu" /\ buffer[Client(c)] # <<>> =>
            IsReply(mem[Client(c)], buffer[Client(c)][1])
      BY <1>1, <2>1, MenuAnswer
    <2>3. prog[c] = "math" /\ at[Client(c)] = "prompt1" /\ Listening(host[c]) =>
            MathRight(mem[Client(c)], mem[Client(c)].ans)
      BY <1>1, <2>1, MathAnswer
    <2>4. QED
      BY <2>2, <2>3 DEF IsReply, MathRight
  <1>2. QED
    BY <1>1 DEF AnswerIsMine

\* What a client takes for its answer, from calc-multiserver.c and from
\* math-server.c, is the answer to the operation and the operands that its user
\* has typed, however reads cut the stream, whenever servers are stopped and
\* clients killed, and whatever an int of the server held before.
THEOREM AnswersAreOwn == Spec => []AnswerIsMine
  <1>1. TypeOK /\ SocketInv /\ DialogueInv => AnswerIsMine
    BY AnswersFollow
  <1>2. QED
    BY <1>1, ConversationsKept, PTL

\* Where the phases leave both sides without anything to read.
LEMMA CalcSilent ==
  ASSUME NEW p \in ReadPlaces, NEW b, NEW m, NEW q, NEW j, NEW n, CalcPhase(p, <<>>, b, m, q, j, n),
         (q \in ReadPlaces /\ j = <<>>) \/ q = "gone"
  PROVE  \/ p = "menu" /\ Len(b) = 2
         \/ q = "gone" /\ IF p = "menu" THEN ~Known(m) ELSE p = "answer" /\ Fatal(m)
  <1>1. /\ \A x \in Texts : <<x>> # <<>> /\ <<x, Menu>> # <<>> /\ Len(<<x, Menu>>) = 2
        /\ <<Menu>> # <<>> /\ <<Bye>> # <<>> /\ <<Text("ask1")>> # <<>> /\ <<Text("ask2")>> # <<>>
    BY OneText, TwoTexts, TextsTyped
  <1>2. \A x : ~OneReply(<<>>, x) /\ ~ReplyAndMenu(<<>>, x)
    BY <1>1 DEF OneReply, ReplyAndMenu
  <1>3. ReplyAndMenu(b, m) => Len(b) = 2
    BY <1>1 DEF ReplyAndMenu
  <1>4. q \notin {"off", "showMenu", "ask1", "ask2", "reply", "leave"} /\ p \notin {"sayOp", "sayNum1", "sayNum2"}
    BY DEF ReadPlaces
  <1>5. \A x : <<Number(x)>> # <<>>
    OBVIOUS
  <1>6. \/ q = "op" /\ p = "menu" /\ ReplyAndMenu(b, m)
        \/ q = "gone" /\ ~Known(m) /\ p = "menu"
        \/ q = "gone" /\ Known(m) /\ Fatal(m) /\ p = "answer"
    BY <1>1, <1>2, <1>4, <1>5 DEF CalcPhase
  <1>7. QED
    BY <1>3, <1>6

LEMMA MathSilent ==
  ASSUME NEW p \in ReadPlaces, NEW m, NEW q, NEW j, NEW n, MathPhase(p, <<>>, m, q, j, n),
         (q \in ReadPlaces /\ j = <<>>) \/ q = "gone"
  PROVE  FALSE
  <1>1. <<Menu>> # <<>> /\ <<Text("ask1")>> # <<>> /\ <<Text("ask2")>> # <<>>
    BY OneText, TextsTyped
  <1>2. \A x : ~IntAndAsk(<<>>, x) /\ <<Number(x)>> # <<>>
    BY DEF IntAndAsk
  <1>3. /\ q \notin {"off", "ask1", "ask2", "ask3", "compute", "reply"}
        /\ p \notin {"sayOp", "sayNum1", "sayNum2"}
    BY DEF ReadPlaces
  <1>4. QED
    BY <1>1, <1>2, <1>3 DEF MathPhase

LEMMA WebSilent ==
  ASSUME NEW p \in ReadPlaces, NEW a, NEW q, NEW j, NEW k, WebPhase(p, <<>>, a, q, j, k),
         (q \in ReadPlaces /\ j = <<>>) \/ q = "gone"
  PROVE  p = "silent" \/ (a # "persistent" /\ p = "ack" /\ q = "gone")
  <1>1. /\ <<Text("request")>> # <<>> /\ <<Text("html")>> # <<>> /\ <<Text("hi")>> # <<>>
        /\ <<Text("ack")>> # <<>> /\ \A t \in Messages : <<Text(t)>> # <<>>
    BY OneText, WebTexts
  <1>2. q \notin {"off", "page", "reply", "leave"} /\ p \notin {"leave", "sayRequest", "sayMessage"}
    BY DEF ReadPlaces
  <1>3. QED
    BY <1>1, <1>2 DEF WebPhase

LEMMA StuckFollows ==
  ASSUME SocketInv, DialogueInv
  PROVE  StuckOnlyBy
  <1>1. ASSUME NEW c \in Clients, host[c] # Nobody, Suited(c), Stuck(c)
        PROVE  \/ /\ prog[host[c]] = "calc" /\ at[Client(c)] = "menu" /\ Len(buffer[Client(c)]) = 2
               \/ /\ prog[host[c]] = "calc" /\ at[Child(c)] = "gone"
                  /\ IF at[Client(c)] = "menu" THEN ~Known(mem[Client(c)])
                     ELSE at[Client(c)] = "answer" /\ Fatal(mem[Client(c)])
               \/ /\ prog[host[c]] \in {"nonpersistent", "multi"} /\ prog[c] = "persistent"
                  /\ at[Client(c)] = "ack" /\ at[Child(c)] = "gone"
               \/ at[Client(c)] = "silent"
    <2> DEFINE p == at[Client(c)]
               q == at[Child(c)]
               j == in[Child(c)]
    <2>1. p \in ReadPlaces /\ in[Client(c)] = <<>> /\ sock[Client(c)] = "open"
      BY <1>1 DEF Stuck, Blocked
    <2>2. (q \in ReadPlaces /\ j = <<>>) \/ q = "gone"
      BY <1>1 DEF Stuck, Blocked
    <2>3. p # "gone" /\ q # "off"
      BY <2>1, <2>2 DEF ReadPlaces
    <2>4. Conn(c) /\ Dialogue(c)
      BY <1>1 DEF SocketInv, DialogueInv
    <2>5. Listening(host[c])
      BY <2>1, <2>4 DEF Conn
    <2>6. prog[host[c]] # "template" /\ (q = "gone" => prog[host[c]] # "hello")
      BY <2>3, <2>4, <2>5 DEF Conn, Forks
    <2>7. CASE prog[c] \in Calculates /\ prog[host[c]] = "calc"
      <3>1. CalcPhase(p, <<>>, buffer[Client(c)], mem[Client(c)], q, j, mem[Child(c)])
        BY <2>1, <2>3, <2>4, <2>5, <2>7 DEF Dialogue, CalcTalk, CalcInv, Calculates
      <3>2. QED
        BY <2>1, <2>2, <2>7, <3>1, CalcSilent
    <2>8. CASE prog[c] = "math" /\ prog[host[c]] = "math"
      <3>1. MathPhase(p, <<>>, mem[Client(c)], q, j, mem[Child(c)])
        BY <2>1, <2>3, <2>4, <2>5, <2>8 DEF Dialogue, MathTalk, MathInv
      <3>2. QED
        BY <2>1, <2>2, <3>1, MathSilent
    <2>9. CASE prog[c] \in WebClients /\ prog[host[c]] \in WebServers
      <3>1. /\ WebPhase(p, <<>>, prog[host[c]], q, j, buffer[Child(c)])
            /\ p \in Chats => prog[c] = "persistent"
        BY <2>1, <2>3, <2>4, <2>5, <2>9 DEF Dialogue, WebTalk, WebInv
      <3>2. p = "silent" \/ (prog[host[c]] # "persistent" /\ p = "ack" /\ q = "gone")
        BY <2>1, <2>2, <3>1, WebSilent
      <3>3. QED
        BY <2>6, <2>9, <3>1, <3>2 DEF Chats, WebServers
    <2>10. QED
      BY <1>1, <2>6, <2>7, <2>8, <2>9 DEF Suited, Calculates
  <1>2. QED
    BY <1>1 DEF StuckOnlyBy

\* A client waits for ever, while its server runs, in the four situations of
\* StuckOnlyBy and in no other: the turns of the programs agree everywhere
\* else, for any number of clients and servers and any wishes and messages.
THEOREM StuckKnown == Spec => []StuckOnlyBy
  <1>1. TypeOK /\ SocketInv /\ DialogueInv => StuckOnlyBy
    BY StuckFollows
  <1>2. QED
    BY <1>1, ConversationsKept, PTL

=============================================================================
