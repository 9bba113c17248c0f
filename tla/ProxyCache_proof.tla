-------------------------- MODULE ProxyCache_proof --------------------------
(***************************************************************************)
(* Theorems about ProxyCache, for any files, scenarios and numbers of      *)
(* children; Fresh for a proxy that has one client at a time.              *)
(***************************************************************************)
EXTENDS ProxyCache, SequenceLemmas

----------------------------------------------------------------------------
(* The text of the log                                                    *)

LEMMA TokenIs ==
  /\ NL \in Tokens /\ Fragment \in Tokens
  /\ \A f \in Files, t \in Times :
       /\ Entry(f, t) \in Tokens /\ Entry(f, t) # NL
       /\ Entry(f, t).kind = "entry" /\ Entry(f, t).file = f /\ Entry(f, t).time = t
  /\ NL.kind # "entry" /\ Fragment.kind # "entry" /\ Fragment # NL
  /\ \A x \in Tokens : x.kind = "entry" => x.file \in Files /\ x.time \in Times /\ x # NL
  BY DEF Tokens, NL, Fragment, Entry

LEMMA BytesIs ==
  ASSUME NEW s \in Seq(Tokens)
  PROVE  Bytes(s) \in Nat /\ (s = <<>> => Bytes(s) = 0)
  <1> DEFINE E == {i \in 1..Len(s) : s[i].kind = "entry"}
  <1>1. PICK n \in Nat : n = Len(s)
    BY LenProperties
  <1>2. IsFiniteSet(1..n)
    BY FS_Interval
  <1>3. E \subseteq 1..n
    BY <1>1
  <1>4. IsFiniteSet(E) /\ Cardinality(E) \in Nat
    <2> HIDE DEF E
    <2>1. IsFiniteSet(E)
      BY <1>2, <1>3, FS_Subset
    <2>2. QED
      BY <2>1, FS_CardinalityType
  <1>5. PICK k \in Nat : k = Cardinality(E)
    BY <1>4
  <1>6. Bytes(s) = n + 99 * k
    BY <1>1, <1>5 DEF Bytes
  <1>7. ASSUME s = <<>>
        PROVE  n = 0 /\ k = 0
    <2>1. n = 0
      BY <1>1, <1>7, EmptySeq
    <2>2. E = {}
      BY <1>3, <2>1
    <2> HIDE DEF E
    <2>3. QED
      BY <1>5, <2>1, <2>2, FS_EmptySet
  <1>8. QED
    BY <1>6, <1>7

\* The time that is found is that of the first entry.
LEMMA StampInIs ==
  ASSUME NEW s \in Seq(Tokens), NEW f \in Files, Known(s, f)
  PROVE  /\ \E i \in 1..Len(s) :
               Names(s, i, f) /\ StampIn(s, f) = IF Readable(s, i) THEN s[i].time ELSE Garbage
         /\ StampIn(s, f) \in Times \cup {Garbage}
  <1> DEFINE T == {i \in 1..Len(s) : Names(s, i, f)}
  <1>1. T # {} /\ T \subseteq Nat
    BY DEF Known
  <1>2. PICK i \in T : \A j \in T : i <= j
    <2> HIDE DEF T
    <2>1. QED
      BY <1>1, LeastNumber
  <1> DEFINE First(n) == Names(s, n, f) /\ \A k \in 1..(n - 1) : ~Names(s, k, f)
  <1>3. PICK m \in Nat : m = Len(s)
    BY LenProperties
  <1>4. i \in 1..m /\ First(i)
    <2>1. ASSUME NEW k \in 1..(i - 1), Names(s, k, f)
          PROVE  FALSE
      <3>1. k \in T /\ k < i
        BY <1>3, <2>1
      <3>2. QED
        BY <1>2, <3>1
    <2>2. QED
      BY <1>3, <2>1
  <1>5. PICK n \in 1..m : n = (CHOOSE x \in 1..m : First(x)) /\ First(n)
    <2> HIDE DEF First
    <2>1. QED
      BY <1>4
  <1>6. StampIn(s, f) = IF n = Len(s) \/ s[n + 1] = NL THEN s[n].time ELSE Garbage
    BY <1>3, <1>5 DEF StampIn
  <1>7. s[n] \in Tokens /\ s[n].kind = "entry"
    BY <1>3, <1>5, ElementOfSeq DEF Names
  <1>8. s[n].time \in Times
    BY <1>7, TokenIs
  <1>9. QED
    BY <1>3, <1>5, <1>6, <1>8 DEF Readable

\* The pieces that modify_logfile puts together.
OnItsLine(s, i, f) == \E j \in 1..Len(s) : SameLine(s, i, j) /\ Names(s, j, f)
FirstOfLine(s, i) == \A j \in 1..(i - 1) : ~SameLine(s, j, i)
Pieces(s, f, t) ==
  [i \in 1..Len(s) |->
     IF ~OnItsLine(s, i, f) THEN <<s[i]>>
     ELSE IF FirstOfLine(s, i) THEN <<Entry(f, t)>> ELSE <<>>]

LEMMA ModifiedIs ==
  ASSUME NEW s \in Seq(Tokens), NEW f \in Files, NEW t \in Times
  PROVE  /\ Modified(s, f, t) \in Seq(Tokens)
         /\ \E h : Picks(h, Pieces(s, f, t), Len(s), Modified(s, f, t))
  <1> DEFINE p == Pieces(s, f, t)
  <1>1. PICK n \in Nat : n = Len(s)
    BY LenProperties
  <1>2. Modified(s, f, t) = FlattenSeq(p)
    BY DEF Modified, Pieces, OnItsLine, FirstOfLine
  <1>3. ASSUME NEW i \in 1..n
        PROVE  p[i] \in Seq(Tokens) /\ Len(p[i]) <= 1
    <2>1. s[i] \in Tokens /\ Entry(f, t) \in Tokens
      BY <1>1, ElementOfSeq, TokenIs
    <2>2. /\ <<s[i]>> \in Seq(Tokens) /\ Len(<<s[i]>>) = 1
          /\ <<Entry(f, t)>> \in Seq(Tokens) /\ Len(<<Entry(f, t)>>) = 1
          /\ <<>> \in Seq(Tokens) /\ Len(<<>>) = 0
      BY <2>1
    <2>3. p[i] = <<s[i]>> \/ p[i] = <<Entry(f, t)>> \/ p[i] = <<>>
      BY <1>1 DEF Pieces
    <2>4. PICK a \in Seq(Tokens), b \in Seq(Tokens), e \in Seq(Tokens) :
            /\ a = <<s[i]>> /\ b = <<Entry(f, t)>> /\ e = <<>>
            /\ Len(a) = 1 /\ Len(b) = 1 /\ Len(e) = 0
      BY <2>2
    <2> HIDE DEF p
    <2>5. p[i] = a \/ p[i] = b \/ p[i] = e
      BY <2>3, <2>4
    <2>6. Len(a) <= 1 /\ Len(b) <= 1 /\ Len(e) <= 1
      BY <2>4
    <2>7. QED
      BY ONLY <2>5, <2>6, a \in Seq(Tokens), b \in Seq(Tokens), e \in Seq(Tokens)
  <1>4. p \in [1..n -> Seq(Tokens)]
    <2>1. p = [i \in 1..n |-> p[i]]
      BY <1>1 DEF Pieces
    <2> HIDE DEF p
    <2>2. QED
      BY <1>3, <2>1
  <1>5. p \in Seq(Seq(Tokens)) /\ Len(p) = n
    <2> HIDE DEF p
    <2>1. QED
      BY <1>4, TableIsSeq
  <1> HIDE DEF p
  <1>6. CASE n # 0
    <2>1. n \in Nat \ {0}
      BY <1>6
    <2>2. FlattenSeq(p) \in Seq(Tokens) /\ \E h : Picks(h, p, n, FlattenSeq(p))
      BY <1>3, <1>5, <2>1, FlattenPicks
    <2>3. QED
      BY <1>1, <1>2, <2>2 DEF p
  <1>7. CASE n = 0
    <2>1. FlattenSeq(p) = p
      BY <1>5, <1>7 DEF FlattenSeq
    <2>2. p = <<>>
      BY <1>5, <1>7, EmptySeq
    <2>3. <<>> \in Seq(Tokens) /\ Len(<<>>) = 0
      BY EmptySeq
    <2>4. Picks([j \in 1..0 |-> 0], p, 0, <<>>)
      BY <2>3 DEF Picks
    <2>5. QED
      BY <1>1, <1>2, <1>7, <2>1, <2>2, <2>3, <2>4 DEF p
  <1>8. QED
    BY <1>6, <1>7 DEF p

LEMMA OverlayIs ==
  ASSUME NEW s \in Seq(Tokens), NEW t \in Seq(Tokens)
  PROVE  Overlay(s, t) \in Seq(Tokens) /\ (t = <<>> => Overlay(s, t) = s)
  <1>1. Bytes(s) \in Nat /\ Bytes(t) \in Nat /\ (t = <<>> => Bytes(t) = 0)
    BY BytesIs
  <1>2. CASE Bytes(s) >= Bytes(t)
    BY <1>2 DEF Overlay
  <1>3. CASE ~(Bytes(s) >= Bytes(t))
    <2> DEFINE Reaches(n) == Bytes(SubSeq(t, 1, n)) >= Bytes(s)
               Least(n) == Reaches(n) /\ \A k \in 0..(n - 1) : Bytes(SubSeq(t, 1, k)) < Bytes(s)
               T == {n \in 0..Len(t) : Reaches(n)}
    <2>1. PICK m \in Nat : m = Len(t)
      BY LenProperties
    <2>2. ASSUME NEW k \in 0..m
          PROVE  Bytes(SubSeq(t, 1, k)) \in Nat
      <3>1. \A i \in 1..k : t[i] \in Tokens
        BY <2>1, ElementOfSeq
      <3>2. SubSeq(t, 1, k) \in Seq(Tokens)
        BY <3>1, SubSeqProperties
      <3>3. QED
        BY <3>2, BytesIs
    <2>3. T # {} /\ T \subseteq Nat
      <3>1. SubSeq(t, 1, m) = t
        BY <2>1, SubSeqFull
      <3>2. Reaches(m)
        <4>1. PICK z : z = SubSeq(t, 1, m)
          OBVIOUS
        <4>2. z = t
          BY <3>1, <4>1
        <4>3. Bytes(z) >= Bytes(s)
          BY <1>1, <1>3, <4>2
        <4>4. QED
          BY <4>1, <4>3
      <3>3. m \in T
        BY <2>1, <3>2
      <3>4. QED
        BY <2>1, <3>3
    <2>4. PICK i \in T : \A j \in T : i <= j
      <3> HIDE DEF T
      <3>1. QED
        BY <2>3, LeastNumber
    <2>5. i \in 0..m /\ Least(i)
      <3>1. i \in 0..m /\ Reaches(i)
        BY <2>1
      <3>2. ASSUME NEW k \in 0..(i - 1)
            PROVE  Bytes(SubSeq(t, 1, k)) < Bytes(s)
        <4>1. k \in 0..m /\ ~(i <= k)
          BY <3>1
        <4>2. k \notin T
          BY <2>4, <4>1
        <4>3. ~(Bytes(SubSeq(t, 1, k)) >= Bytes(s))
          BY <2>1, <4>1, <4>2
        <4>4. QED
          BY <1>1, <2>2, <4>1, <4>3
      <3>3. QED
        BY <3>1, <3>2
    <2>6. PICK p \in 0..m : p = (CHOOSE n \in 0..m : Least(n))
      <3> HIDE DEF Least
      <3>1. QED
        BY <2>5
    <2>7. PICK x, y :
            /\ x = (IF Bytes(SubSeq(t, 1, p)) > Bytes(s) THEN <<Fragment>> ELSE <<>>)
            /\ y = SubSeq(t, p + 1, Len(t))
            /\ Overlay(s, t) = (s \o x) \o y
      BY <1>3, <2>1, <2>6 DEF Overlay
    <2>8. x \in Seq(Tokens)
      <3>1. <<Fragment>> \in Seq(Tokens) /\ <<>> \in Seq(Tokens)
        BY TokenIs
      <3>2. QED
        BY <2>7, <3>1
    <2>9. y \in Seq(Tokens)
      <3>1. \A k \in (p + 1)..m : t[k] \in Tokens
        <4>1. \A k \in (p + 1)..m : k \in 1..m
          BY <2>6
        <4>2. QED
          BY <2>1, <4>1, ElementOfSeq
      <3>2. QED
        BY <2>1, <2>7, <3>1, SubSeqProperties
    <2>10. Overlay(s, t) \in Seq(Tokens)
      BY <2>7, <2>8, <2>9, ConcatProperties
    <2>11. t # <<>>
      BY <1>1, <1>3
    <2>12. QED
      BY <2>10, <2>11
  <1>4. QED
    BY <1>2, <1>3

----------------------------------------------------------------------------
(* Type correctness                                                       *)

LEMMA ScenarioIs ==
  ASSUME TypeOK
  PROVE  /\ scenario.updates \in Nat /\ scenario.stops \in Nat
         /\ Descriptors \in Nat \ {0} /\ scenario.running \in BOOLEAN
  BY ConstantsAssumption DEF TypeOK, Descriptors

LEMMA TypeInit == Init => TypeOK /\ PlaceInv
  <1> SUFFICES ASSUME Init PROVE TypeOK /\ PlaceInv
    OBVIOUS
  <1>1. PICK sc \in Scenarios : scenario = sc /\ updates = sc.updates /\ stops = sc.stops
                                /\ up = sc.running /\ originUp = sc.running
    BY DEF Init
  <1>2. /\ sc.updates \in Nat /\ sc.stops \in Nat /\ sc.running \in BOOLEAN
        /\ Descriptors \in Nat \ {0}
    BY <1>1, ConstantsAssumption DEF Descriptors
  <1>3. 0 \in 0..Descriptors /\ Descriptors \in 1..Descriptors
    BY <1>2
  <1>4. <<>> \in Seq(Tokens) /\ <<>> \in Seq(Versions)
    BY EmptySeq
  <1>5. origin \in [Files -> [present : BOOLEAN, version : Versions, time : Times]]
    <2>1. origin = [f \in Files |-> [present |-> f \in Offered, version |-> 1, time |-> 0]]
      BY DEF Init
    <2>2. 1 \in Versions /\ 0 \in Times
      BY DEF Versions, Times
    <2>3. \A f \in Files : (f \in Offered) \in BOOLEAN
      OBVIOUS
    <2>4. QED
      BY <2>1, <2>2, <2>3
  <1>6. cache \in [Files -> [exists : BOOLEAN, data : Seq(Versions)]]
    BY <1>4 DEF Init
  <1>7. /\ pc \in [Children -> Locations] /\ client \in [Children -> {"typing", "waiting", "left", "ended"}]
        /\ room \in [Children -> 1..Descriptors]
    BY <1>3 DEF Init, Locations, Ended
  <1>8. file \in [Children -> Files]
    <2>1. (CHOOSE f \in Files : TRUE) \in Files
      BY ConstantsAssumption
    <2>2. QED
      BY <2>1 DEF Init
  <1>9. /\ stamp \in [Children -> Times \cup {Garbage}] /\ got \in [Children -> Versions]
        /\ since \in [Children -> Versions] /\ text \in [Children -> Seq(Tokens)]
    BY <1>4 DEF Init, Times, Versions
  <1>10. reply \in [Children -> Replies]
    <2>1. NoReply \in Replies
      BY <1>4 DEF NoReply, Replies
    <2>2. QED
      BY <2>1 DEF Init
  <1>11. TypeOK
    BY <1>1, <1>2, <1>3, <1>4, <1>5, <1>6, <1>7, <1>8, <1>9, <1>10 DEF Init, TypeOK
  <1>12. PlaceInv
    BY DEF Init, PlaceInv
  <1>13. QED
    BY <1>11, <1>12

LEMMA BlankTypes ==
  ASSUME TypeOK, NEW C, Blank(C)
  PROVE  /\ stamp' \in [Children -> Times \cup {Garbage}] /\ got' \in [Children -> Versions]
         /\ text' \in [Children -> Seq(Tokens)]
  <1>1. <<>> \in Seq(Tokens) /\ 0 \in Times /\ 1 \in Versions
    BY EmptySeq DEF Times, Versions
  <1>2. QED
    BY <1>1 DEF Blank, TypeOK

LEMMA GotoTypes ==
  ASSUME TypeOK, NEW c \in Children, NEW l \in Locations, Goto(c, l)
  PROVE  /\ pc' \in [Children -> Locations] /\ pc'[c] = l
         /\ \A d \in Children : d # c => pc'[d] = pc[d]
  BY DEF Goto, TypeOK

LEMMA AnswerTypes ==
  ASSUME TypeOK, NEW c \in Children, NEW k \in {"404", "fetched", "hit"},
         NEW d \in Seq(Versions), NEW n \in 0..2, Answer(c, k, d, n)
  PROVE  /\ reply' \in [Children -> Replies] /\ pc' \in [Children -> Locations]
         /\ stamp' \in [Children -> Times \cup {Garbage}] /\ got' \in [Children -> Versions]
         /\ text' \in [Children -> Seq(Tokens)]
  <1>1. [kind |-> k, data |-> d, doubled |-> n] \in Replies
    BY DEF Replies
  <1>2. reply' \in [Children -> Replies]
    BY <1>1 DEF Answer, TypeOK
  <1>3. pc' \in [Children -> Locations]
    BY GotoTypes DEF Answer, Locations, Ended
  <1>4. QED
    BY <1>2, <1>3, BlankTypes DEF Answer

LEMMA ParentTypes ==
  ASSUME TypeOK,
         StartProxy \/ StopProxy \/ AcceptFails \/ StartOrigin \/ StopOrigin \/ OriginAcceptFails
  PROVE  TypeOK'
  <1> USE DEF serverVars, originVars, local
  <1>1. Descriptors \in Nat \ {0} /\ (scenario' = scenario => Descriptors' = Descriptors)
    BY ScenarioIs DEF Descriptors
  <1>2. "idle" \in Locations /\ "crashed" \in Locations
    BY DEF Locations, Ended
  <1>3. CASE StartProxy
    BY <1>1, <1>2, <1>3 DEF StartProxy, TypeOK
  <1>4. CASE StopProxy
    <2>1. /\ stamp' \in [Children -> Times \cup {Garbage}] /\ got' \in [Children -> Versions]
          /\ text' \in [Children -> Seq(Tokens)]
      BY <1>4, BlankTypes DEF StopProxy
    <2>2. stops' \in Nat /\ torn' \subseteq Files
      BY <1>4 DEF StopProxy, TypeOK
    <2>3. QED
      BY <1>1, <1>2, <1>4, <2>1, <2>2 DEF StopProxy, TypeOK
  <1>5. CASE AcceptFails
    BY <1>1, <1>5 DEF AcceptFails, TypeOK
  <1>6. CASE StartOrigin
    BY <1>1, <1>6 DEF StartOrigin, TypeOK
  <1>7. CASE StopOrigin
    <2>1. stops' \in Nat /\ pc' \in [Children -> Locations]
      BY <1>2, <1>7 DEF StopOrigin, TypeOK
    <2>2. QED
      BY <1>1, <1>7, <2>1 DEF StopOrigin, TypeOK
  <1>8. CASE OriginAcceptFails
    BY <1>1, <1>8 DEF OriginAcceptFails, TypeOK
  <1>9. QED
    BY <1>3, <1>4, <1>5, <1>6, <1>7, <1>8

LEMMA ClientTypes ==
  ASSUME TypeOK, NEW c \in Children,
         \/ Accept(c) \/ Receive(c) \/ Killed(c) \/ Dial(c) \/ Open(c)
         \/ \E f \in Files : Ask(c, f)
  PROVE  TypeOK'
  <1> USE DEF serverVars, originVars, local
  <1>1. Descriptors \in Nat \ {0} /\ (scenario' = scenario => Descriptors' = Descriptors)
    BY ScenarioIs DEF Descriptors
  <1>2. {"recv", "open", "crashed", "lookup", "ask"} \subseteq Locations
    BY DEF Locations, Ended
  <1>3. CASE Accept(c)
    <2>1. /\ stamp' \in [Children -> Times \cup {Garbage}] /\ got' \in [Children -> Versions]
          /\ text' \in [Children -> Seq(Tokens)]
      BY <1>3, BlankTypes DEF Accept
    <2>2. accepted' \in 0..Descriptors /\ Descriptors - accepted \in 1..Descriptors
      BY <1>1, <1>3 DEF Accept, TypeOK
    <2>3. room' \in [Children -> 1..Descriptors]
      BY <1>3, <2>2 DEF Accept, TypeOK
    <2>4. pc' \in [Children -> Locations]
      BY <1>2, <1>3, GotoTypes DEF Accept
    <2>5. reply' \in [Children -> Replies]
      <3>1. <<>> \in Seq(Versions)
        BY EmptySeq
      <3>2. NoReply \in Replies
        BY <3>1 DEF NoReply, Replies
      <3>3. QED
        BY <1>3, <3>2 DEF Accept, TypeOK
    <2>6. client' \in [Children -> {"typing", "waiting", "left", "ended"}]
      BY <1>3 DEF Accept, TypeOK
    <2>7. QED
      BY <1>1, <1>3, <2>1, <2>2, <2>3, <2>4, <2>5, <2>6 DEF Accept, TypeOK
  <1>4. CASE Receive(c)
    BY <1>1, <1>4 DEF Receive, TypeOK
  <1>5. CASE Killed(c)
    BY <1>1, <1>5 DEF Killed, TypeOK
  <1>6. CASE Dial(c)
    <2>1. pc' \in [Children -> Locations]
      BY <1>2, <1>6, GotoTypes DEF Dial
    <2>2. served' \in 0..Descriptors
      BY <1>1, <1>6 DEF Dial, TypeOK
    <2>3. QED
      BY <1>1, <1>6, <2>1, <2>2 DEF Dial, TypeOK
  <1>7. CASE Open(c)
    <2>1. pc' \in [Children -> Locations]
      BY <1>2, <1>7, GotoTypes DEF Open
    <2>2. QED
      BY <1>1, <1>7, <2>1 DEF Open, TypeOK
  <1>8. ASSUME NEW f \in Files, Ask(c, f)
        PROVE  TypeOK'
    <2>1. origin[f].version \in Versions
      BY DEF TypeOK
    <2>2. QED
      BY <1>1, <1>8, <2>1 DEF Ask, TypeOK
  <1>9. QED
    BY <1>3, <1>4, <1>5, <1>6, <1>7, <1>8

\* A change of the origin's file f.
LEMMA UpdateIs ==
  ASSUME TypeOK, NEW f \in Files, Update(f)
  PROVE  /\ origin' \in [Files -> [present : BOOLEAN, version : Versions, time : Times]]
         /\ \A g \in Files : g # f => origin'[g] = origin[g]
         /\ origin'[f].present = origin[f].present
         /\ origin'[f].version = origin[f].version + 1
         /\ \/ origin'[f].time = origin[f].time /\ blurred' = blurred \cup {f}
            \/ origin'[f].time = origin[f].time + 1 /\ blurred' = blurred
  <1>1. PICK later \in {0, 1} :
          /\ origin' = [origin EXCEPT ![f].version = @ + 1, ![f].time = @ + later]
          /\ blurred' = IF later = 0 THEN blurred \cup {f} ELSE blurred
    BY DEF Update
  <1>2. PICK o \in [present : BOOLEAN, version : Versions, time : Times] : o = origin[f]
    BY DEF TypeOK
  <1>3. /\ o.version \in Nat /\ o.time \in Nat
        /\ o.version + 1 \in Versions /\ o.time + later \in Times
    BY DEF Versions, Times
  <1> DEFINE p == [o EXCEPT !.version = o.version + 1, !.time = o.time + later]
  <1>4. /\ p \in [present : BOOLEAN, version : Versions, time : Times]
        /\ p.present = o.present /\ p.version = o.version + 1 /\ p.time = o.time + later
    BY <1>3
  <1>5. origin' = [origin EXCEPT ![f] = p]
    BY <1>1, <1>2 DEF TypeOK
  <1> HIDE DEF p
  <1>6. /\ origin' \in [Files -> [present : BOOLEAN, version : Versions, time : Times]]
        /\ origin'[f] = p /\ \A g \in Files : g # f => origin'[g] = origin[g]
    BY <1>4, <1>5 DEF TypeOK
  <1>7. /\ later = 0 => p.time = o.time /\ blurred' = blurred \cup {f}
        /\ later = 1 => p.time = o.time + 1 /\ blurred' = blurred
    BY <1>1, <1>3, <1>4
  <1>8. QED
    BY <1>2, <1>4, <1>6, <1>7

LEMMA OriginTypes ==
  ASSUME TypeOK, NEW f \in Files, Update(f) \/ Unlink(f)
  PROVE  TypeOK'
  <1> USE DEF serverVars, originVars, local
  <1>1. Descriptors' = Descriptors
    BY DEF Update, Unlink, Descriptors
  <1>2. updates' \in Nat
    BY DEF Update, Unlink, TypeOK
  <1>4. CASE Update(f)
    <2>3. origin' \in [Files -> [present : BOOLEAN, version : Versions, time : Times]]
      BY <1>4, UpdateIs
    <2>4. blurred' \subseteq Files
      BY <1>4 DEF Update, TypeOK
    <2>5. QED
      BY <1>1, <1>2, <1>4, <2>3, <2>4 DEF Update, TypeOK
  <1>5. CASE Unlink(f)
    <2>1. origin' \in [Files -> [present : BOOLEAN, version : Versions, time : Times]]
      BY <1>5 DEF Unlink, TypeOK
    <2>2. QED
      BY <1>1, <1>2, <1>5, <2>1 DEF Unlink, TypeOK
  <1>6. QED
    BY <1>4, <1>5

\* The steps of a child that do not answer.
LEMMA MissTypes ==
  ASSUME TypeOK, PlaceInv, NEW c \in Children,
         HandleConnection(c) \/ ReadFile(c) \/ TruncateFile(c) \/ FillFile(c) \/ AppendLog(c)
         \/ Disconnect(c)
  PROVE  TypeOK'
  <1> USE DEF serverVars, originVars, local
  <1>1. Descriptors' = Descriptors
    BY DEF HandleConnection, ReadFile, TruncateFile, FillFile, AppendLog, Disconnect, Descriptors
  <1>2. {"read", "absent", "store", "fill", "append", "answer", "refill", "readlog", "crashed"}
          \subseteq Locations
    BY DEF Locations, Ended
  <1>3. /\ file[c] \in Files
        /\ origin[file[c]].time \in Times /\ origin[file[c]].version \in Versions
        /\ cache[file[c]].data \in Seq(Versions) /\ got[c] \in Versions
    BY DEF TypeOK
  <1>4. CASE HandleConnection(c)
    <2>1. pc' \in [Children -> Locations]
      BY <1>2, <1>4, GotoTypes DEF HandleConnection
    <2>2. stamp' \in [Children -> Times \cup {Garbage}]
      BY <1>3, <1>4 DEF HandleConnection, TypeOK
    <2>3. QED
      BY <1>1, <1>4, <2>1, <2>2 DEF HandleConnection, TypeOK
  <1>5. CASE ReadFile(c)
    <2>1. pc' \in [Children -> Locations]
      BY <1>2, <1>5, GotoTypes DEF ReadFile
    <2>2. got' \in [Children -> Versions]
      BY <1>3, <1>5 DEF ReadFile, TypeOK
    <2>3. QED
      BY <1>1, <1>5, <2>1, <2>2 DEF ReadFile, TypeOK
  <1>6. CASE TruncateFile(c)
    <2>1. After(pc[c]) \in {"fill", "refill"}
      BY <1>6 DEF TruncateFile, After
    <2>2. pc' \in [Children -> Locations]
      BY <1>2, <1>6, <2>1, GotoTypes DEF TruncateFile
    <2>3. cache' \in [Files -> [exists : BOOLEAN, data : Seq(Versions)]]
      <3>1. [exists |-> TRUE, data |-> <<>>] \in [exists : BOOLEAN, data : Seq(Versions)]
        BY EmptySeq
      <3>2. QED
        BY <1>3, <1>6, <3>1 DEF TruncateFile, TypeOK
    <2>4. QED
      BY <1>1, <1>6, <2>2, <2>3 DEF TruncateFile, TypeOK
  <1>7. CASE FillFile(c)
    <2>1. After(pc[c]) \in {"append", "readlog"}
      BY <1>7 DEF FillFile, After
    <2>2. pc' \in [Children -> Locations]
      BY <1>2, <1>7, <2>1, GotoTypes DEF FillFile
    <2>3. PICK new \in Seq(Versions) : cache' = [cache EXCEPT ![file[c]].data = new]
      <3>1. <<got[c]>> \in Seq(Versions)
        BY <1>3
      <3>2. CASE cache' = [cache EXCEPT ![file[c]].data = <<got[c]>>]
        BY <3>1, <3>2
      <3>3. CASE /\ cache[file[c]].data # <<>>
                 /\ cache' = [cache EXCEPT ![file[c]].data = Append(<<got[c]>>, Last(cache[file[c]].data))]
        <4>1. PICK d \in Seq(Versions) : d = cache[file[c]].data /\ d # <<>>
          BY <1>3, <3>3
        <4>2. d[Len(d)] \in Versions
          <5>1. PICK n \in Nat : n = Len(d)
            BY LenProperties
          <5>2. n # 0
            BY <4>1, <5>1, EmptySeq
          <5>3. n \in 1..n
            BY <5>2
          <5>4. QED
            BY <5>1, <5>3, ElementOfSeq
        <4>3. Append(<<got[c]>>, Last(cache[file[c]].data)) \in Seq(Versions)
          BY <3>1, <4>1, <4>2, AppendProperties DEF Last
        <4>4. QED
          BY <3>3, <4>3
      <3>4. QED
        BY <1>7, <3>2, <3>3 DEF FillFile
    <2>4. cache' \in [Files -> [exists : BOOLEAN, data : Seq(Versions)]]
      BY <1>3, <2>3 DEF TypeOK
    <2>5. QED
      BY <1>1, <1>7, <2>2, <2>4 DEF FillFile, TypeOK
  <1>8. CASE AppendLog(c)
    <2>1. pc' \in [Children -> Locations]
      BY <1>2, <1>8, GotoTypes DEF AppendLog
    <2>2. log' \in Seq(Tokens)
      <3>1. stamp[c] \in Times
        BY <1>8 DEF AppendLog, PlaceInv
      <3>2. NL \in Tokens /\ Entry(file[c], stamp[c]) \in Tokens
        BY <1>3, <3>1, TokenIs
      <3>3. <<NL, Entry(file[c], stamp[c])>> \in Seq(Tokens)
        BY <3>2
      <3>4. QED
        BY <1>8, <3>3, ConcatProperties DEF AppendLog, TypeOK
    <2>3. QED
      BY <1>1, <1>8, <2>1, <2>2 DEF AppendLog, TypeOK
  <1>9. CASE Disconnect(c)
    <2>1. pc' \in [Children -> Locations]
      BY <1>2, <1>9, GotoTypes DEF Disconnect
    <2>2. QED
      BY <1>1, <1>9, <2>1 DEF Disconnect, TypeOK
  <1>10. QED
    BY <1>4, <1>5, <1>6, <1>7, <1>8, <1>9

LEMMA HitTypes ==
  ASSUME TypeOK, PlaceInv, NEW c \in Children,
         Lookup(c) \/ HandleLastModified(c) \/ ReadModified(c) \/ ReadLog(c) \/ TruncateLog(c)
         \/ WriteLog(c)
  PROVE  TypeOK'
  <1> USE DEF serverVars, originVars, local
  <1>1. Descriptors' = Descriptors
    BY DEF Lookup, HandleLastModified, ReadModified, ReadLog, TruncateLog, WriteLog, Descriptors
  <1>2. {"check", "crashed", "hung", "serve", "reread", "rewrite", "trunclog", "writelog", "answer"}
          \subseteq Locations
    BY DEF Locations, Ended
  <1>3. /\ file[c] \in Files /\ text[c] \in Seq(Tokens) /\ log \in Seq(Tokens)
        /\ origin[file[c]].time \in Times /\ origin[file[c]].version \in Versions
    BY DEF TypeOK
  <1>4. CASE Lookup(c)
    <2>1. pc' \in [Children -> Locations]
      BY <1>2, <1>4, GotoTypes DEF Lookup
    <2>2. Known(log, file[c]) => StampIn(log, file[c]) \in Times \cup {Garbage}
      BY <1>3, StampInIs
    <2>3. stamp' \in [Children -> Times \cup {Garbage}]
      BY <1>4, <2>2 DEF Lookup, TypeOK
    <2>4. QED
      BY <1>1, <1>4, <2>1, <2>3 DEF Lookup, TypeOK
  <1>5. CASE HandleLastModified(c)
    <2>1. pc' \in [Children -> Locations]
      BY <1>2, <1>5, GotoTypes DEF HandleLastModified
    <2>2. stamp' \in [Children -> Times \cup {Garbage}]
      BY <1>3, <1>5 DEF HandleLastModified, NewStamp, TypeOK
    <2>3. QED
      BY <1>1, <1>5, <2>1, <2>2 DEF HandleLastModified, TypeOK
  <1>6. CASE ReadModified(c)
    <2>1. pc' \in [Children -> Locations]
      BY <1>2, <1>6, GotoTypes DEF ReadModified
    <2>2. got' \in [Children -> Versions]
      BY <1>3, <1>6 DEF ReadModified, TypeOK
    <2>3. QED
      BY <1>1, <1>6, <2>1, <2>2 DEF ReadModified, TypeOK
  <1>7. CASE ReadLog(c)
    <2>1. pc' \in [Children -> Locations]
      BY <1>2, <1>7, GotoTypes DEF ReadLog
    <2>2. stamp[c] \in Times
      BY <1>7 DEF ReadLog, PlaceInv
    <2>3. Modified(log, file[c], stamp[c]) \in Seq(Tokens)
      BY <1>3, <2>2, ModifiedIs
    <2>4. text' \in [Children -> Seq(Tokens)]
      BY <1>7, <2>3 DEF ReadLog, TypeOK
    <2>5. QED
      BY <1>1, <1>7, <2>1, <2>4 DEF ReadLog, TypeOK
  <1>8. CASE TruncateLog(c)
    <2>1. pc' \in [Children -> Locations]
      BY <1>2, <1>8, GotoTypes DEF TruncateLog
    <2>2. log' \in Seq(Tokens)
      BY <1>3, <1>8, EmptySeq DEF TruncateLog
    <2>3. QED
      BY <1>1, <1>8, <2>1, <2>2 DEF TruncateLog, TypeOK
  <1>9. CASE WriteLog(c)
    <2>1. pc' \in [Children -> Locations]
      BY <1>2, <1>9, GotoTypes DEF WriteLog
    <2>2. log' \in Seq(Tokens)
      BY <1>3, <1>9, OverlayIs DEF WriteLog
    <2>3. text' \in [Children -> Seq(Tokens)]
      BY <1>9, EmptySeq DEF WriteLog, TypeOK
    <2>4. QED
      BY <1>1, <1>9, <2>1, <2>2, <2>3 DEF WriteLog, TypeOK
  <1>10. QED
    BY <1>4, <1>5, <1>6, <1>7, <1>8, <1>9

LEMMA ReplyTypes ==
  ASSUME TypeOK, NEW c \in Children, NotFound(c) \/ ServeCached(c) \/ AnswerFetched(c)
  PROVE  TypeOK'
  <1> USE DEF serverVars, originVars, local
  <1>1. Descriptors' = Descriptors
    BY DEF NotFound, ServeCached, AnswerFetched, Descriptors
  <1>2. PICK k \in {"404", "fetched", "hit"}, d \in Seq(Versions), n \in 0..2 : Answer(c, k, d, n)
    <2>1. /\ <<>> \in Seq(Versions) /\ <<got[c]>> \in Seq(Versions)
          /\ cache[file[c]].data \in Seq(Versions)
      BY EmptySeq DEF TypeOK
    <2>2. 0 \in 0..2 /\ 1 \in 0..2 /\ 2 \in 0..2
      OBVIOUS
    <2>3. QED
      BY <2>1, <2>2 DEF NotFound, ServeCached, AnswerFetched
  <1>3. /\ reply' \in [Children -> Replies] /\ pc' \in [Children -> Locations]
        /\ stamp' \in [Children -> Times \cup {Garbage}] /\ got' \in [Children -> Versions]
        /\ text' \in [Children -> Seq(Tokens)]
    BY <1>2, AnswerTypes
  <1>4. QED
    BY <1>1, <1>3 DEF NotFound, ServeCached, AnswerFetched, TypeOK

LEMMA TypeStep ==
  ASSUME TypeOK, PlaceInv, [Next]_vars
  PROVE  TypeOK'
  <1>1. CASE UNCHANGED vars
    BY <1>1 DEF vars, serverVars, originVars, local, TypeOK, Descriptors
  <1>2. ASSUME NEW c \in Children, Child(c)
        PROVE  TypeOK'
    BY <1>2, ClientTypes, MissTypes, HitTypes, ReplyTypes DEF Child, NotCached, Cached
  <1>3. ASSUME NEW c \in Children, Accept(c) \/ Receive(c) \/ Killed(c) \/ \E f \in Files : Ask(c, f)
        PROVE  TypeOK'
    BY <1>3, ClientTypes
  <1>4. ASSUME NEW f \in Files, Update(f) \/ Unlink(f)
        PROVE  TypeOK'
    BY <1>4, OriginTypes
  <1>5. ASSUME StartProxy \/ StopProxy \/ AcceptFails \/ StartOrigin \/ StopOrigin \/ OriginAcceptFails
        PROVE  TypeOK'
    BY <1>5, ParentTypes
  <1>6. QED
    BY <1>1, <1>2, <1>3, <1>4, <1>5 DEF Next, Idle

----------------------------------------------------------------------------
(* What holds of a child at its places                                    *)

Place(d) ==
  /\ client[d] = "typing" => pc[d] \in {"recv", "idle"}
  /\ pc[d] \in {"read", "store", "fill", "append", "reread", "rewrite", "refill", "readlog"}
       => stamp[d] \in Times

\* A step of a child: what may change of it, and that nothing changes of the
\* others.
LEMMA ChildFrame ==
  ASSUME TypeOK, NEW c \in Children, Child(c)
  PROVE  /\ UNCHANGED <<scenario, origin, updates, blurred, originUp, up, accepted, stops, torn,
                        room, client, file, since>>
         /\ \A d \in Children \ {c} :
              /\ pc'[d] = pc[d] /\ stamp'[d] = stamp[d] /\ got'[d] = got[d]
              /\ text'[d] = text[d] /\ reply'[d] = reply[d]
  <1> USE DEF serverVars, originVars, local
  <1>1. CASE NotCached(c)
    <2>1. CASE NotFound(c)
      BY <2>1 DEF NotFound, Answer, Blank, Goto, TypeOK
    <2>2. CASE HandleConnection(c) \/ ReadFile(c) \/ AppendLog(c)
      BY <2>2 DEF HandleConnection, ReadFile, AppendLog, Goto, TypeOK
    <2>3. QED
      BY <1>1, <2>1, <2>2 DEF NotCached
  <1>2. CASE Cached(c)
    <2>1. CASE ServeCached(c)
      BY <2>1 DEF ServeCached, Answer, Blank, Goto, TypeOK
    <2>2. CASE Lookup(c) \/ HandleLastModified(c) \/ ReadModified(c)
      BY <2>2 DEF Lookup, HandleLastModified, ReadModified, Goto, TypeOK
    <2>3. CASE ReadLog(c) \/ TruncateLog(c) \/ WriteLog(c)
      BY <2>3 DEF ReadLog, TruncateLog, WriteLog, Goto, TypeOK
    <2>4. QED
      BY <1>2, <2>1, <2>2, <2>3 DEF Cached
  <1>3. CASE Dial(c) \/ Open(c) \/ Disconnect(c)
    BY <1>3 DEF Dial, Open, Disconnect, Goto, TypeOK
  <1>4. CASE TruncateFile(c) \/ FillFile(c)
    BY <1>4 DEF TruncateFile, FillFile, Goto, TypeOK
  <1>5. CASE AnswerFetched(c)
    BY <1>5 DEF AnswerFetched, Answer, Blank, Goto, TypeOK
  <1>6. QED
    BY <1>1, <1>2, <1>3, <1>4, <1>5 DEF Child

LEMMA PlaceOfChild ==
  ASSUME TypeOK, PlaceInv, NEW c \in Children, Child(c)
  PROVE  Place(c)'
  <1>1. Place(c) /\ client'[c] = client[c]
    BY ChildFrame DEF PlaceInv, Place
  <1>2. file[c] \in Files /\ origin[file[c]].time \in Times
    BY DEF TypeOK
  <1>3. CASE NotCached(c)
    <2>1. CASE NotFound(c)
      BY <1>1, <2>1 DEF NotFound, Answer, Goto, TypeOK, Place
    <2>2. CASE HandleConnection(c)
      BY <1>1, <1>2, <2>2 DEF HandleConnection, Goto, TypeOK, Place
    <2>3. CASE ReadFile(c) \/ AppendLog(c)
      BY <1>1, <2>3 DEF ReadFile, AppendLog, Goto, TypeOK, Place
    <2>4. QED
      BY <1>3, <2>1, <2>2, <2>3 DEF NotCached
  <1>4. CASE Cached(c)
    <2>1. CASE ServeCached(c)
      BY <1>1, <2>1 DEF ServeCached, Answer, Goto, TypeOK, Place
    <2>2. CASE Lookup(c)
      BY <1>1, <2>2 DEF Lookup, Goto, TypeOK, Place
    <2>3. CASE HandleLastModified(c)
      BY <1>1, <1>2, <2>3 DEF HandleLastModified, NewStamp, Goto, TypeOK, Place
    <2>4. CASE ReadModified(c)
      BY <1>1, <2>4 DEF ReadModified, Goto, TypeOK, Place
    <2>5. CASE ReadLog(c) \/ TruncateLog(c) \/ WriteLog(c)
      BY <1>1, <2>5 DEF ReadLog, TruncateLog, WriteLog, Goto, TypeOK, Place
    <2>6. QED
      BY <1>4, <2>1, <2>2, <2>3, <2>4, <2>5 DEF Cached
  <1>5. CASE Dial(c) \/ Open(c) \/ Disconnect(c)
    BY <1>1, <1>5 DEF Dial, Open, Disconnect, Goto, TypeOK, Place
  <1>6. CASE TruncateFile(c)
    <2>1. After(pc[c]) \in {"fill", "refill"}
      BY <1>6 DEF TruncateFile, After
    <2>2. QED
      BY <1>1, <1>6, <2>1 DEF TruncateFile, Goto, TypeOK, Place
  <1>7. CASE FillFile(c)
    <2>1. After(pc[c]) \in {"append", "readlog"}
      BY <1>7 DEF FillFile, After
    <2>2. QED
      BY <1>1, <1>7, <2>1 DEF FillFile, Goto, TypeOK, Place
  <1>8. CASE AnswerFetched(c)
    BY <1>1, <1>8 DEF AnswerFetched, Answer, Goto, TypeOK, Place
  <1>9. QED
    BY <1>3, <1>4, <1>5, <1>6, <1>7, <1>8 DEF Child

LEMMA PlaceStep ==
  ASSUME TypeOK, PlaceInv, [Next]_vars
  PROVE  PlaceInv'
  <1> USE DEF serverVars, originVars, local
  <1> SUFFICES ASSUME NEW d \in Children PROVE Place(d)'
    BY DEF PlaceInv, Place
  <1>1. Place(d)
    BY DEF PlaceInv, Place
  <1>2. CASE UNCHANGED vars
    BY <1>1, <1>2 DEF vars, Place
  <1>3. ASSUME NEW c \in Children, Child(c)
        PROVE  Place(d)'
    <2>1. CASE d = c
      BY <1>3, <2>1, PlaceOfChild
    <2>2. CASE d # c
      BY <1>1, <1>3, <2>2, ChildFrame DEF Place
    <2>3. QED
      BY <2>1, <2>2
  <1>4. ASSUME NEW c \in Children, Accept(c)
        PROVE  Place(d)'
    BY <1>1, <1>4 DEF Accept, Goto, Blank, TypeOK, Place
  <1>5. ASSUME NEW c \in Children, Receive(c) \/ Killed(c) \/ \E f \in Files : Ask(c, f)
        PROVE  Place(d)'
    BY <1>1, <1>5 DEF Receive, Killed, Ask, TypeOK, Place
  <1>6. CASE AcceptFails \/ StartOrigin \/ OriginAcceptFails \/ \E f \in Files : Update(f) \/ Unlink(f)
    BY <1>1, <1>6 DEF AcceptFails, StartOrigin, OriginAcceptFails, Update, Unlink, Place
  <1>7. CASE StartProxy \/ StopProxy
    BY <1>1, <1>7 DEF StartProxy, StopProxy, Place
  <1>8. CASE StopOrigin
    BY <1>1, <1>8 DEF StopOrigin, OnOrigin, Place
  <1>9. QED
    BY <1>2, <1>3, <1>4, <1>5, <1>6, <1>7, <1>8 DEF Next, Idle

\* The proxy, its children, their clients and the origin keep to the values
\* their types allow; what is entered into the log is a time.
THEOREM ProxyTypes == Spec => [](TypeOK /\ PlaceInv)
  <1>1. TypeOK /\ PlaceInv /\ [Next]_vars => (TypeOK /\ PlaceInv)'
    BY TypeStep, PlaceStep
  <1>2. QED
    BY <1>1, TypeInit, PTL DEF Spec

----------------------------------------------------------------------------
(* WholeWhenUnattended                                                    *)

Whole(f) ==
  cache[f].exists /\ (\A c \in Children : file[c] = f => pc[c] \notin {"fill", "refill"})
    => cache[f].data # <<>>

\* Whoever neither truncates nor fills a file leaves the cache alone, and was
\* not about to fill one.
LEMMA OtherStepsOfChild ==
  ASSUME NEW c \in Children, Child(c), ~TruncateFile(c), ~FillFile(c)
  PROVE  cache' = cache /\ pc[c] \notin {"fill", "refill"}
  <1>1. CASE NotCached(c)
    BY <1>1 DEF NotCached, HandleConnection, ReadFile, NotFound, AppendLog
  <1>2. CASE Cached(c)
    BY <1>2 DEF Cached, Lookup, HandleLastModified, ReadModified, ServeCached, ReadLog,
                TruncateLog, WriteLog
  <1>3. CASE Dial(c) \/ Open(c) \/ AnswerFetched(c) \/ Disconnect(c)
    BY <1>3 DEF Dial, Open, AnswerFetched, Disconnect
  <1>4. QED
    BY <1>1, <1>2, <1>3 DEF Child

\* What FillFile writes is not empty.
LEMMA FillIs ==
  ASSUME TypeOK, NEW c \in Children, FillFile(c)
  PROVE  /\ \A g \in Files : g # file[c] => cache'[g] = cache[g]
         /\ cache'[file[c]].exists = cache[file[c]].exists
         /\ cache'[file[c]].data # <<>>
         /\ cache[file[c]].data = <<>> => cache'[file[c]].data = <<got[c]>>
  <1>1. file[c] \in Files /\ cache[file[c]].data \in Seq(Versions) /\ got[c] \in Versions
    BY DEF TypeOK
  <1>2. CASE cache' = [cache EXCEPT ![file[c]].data = <<got[c]>>]
    <2>1. <<got[c]>> # <<>>
      OBVIOUS
    <2>2. cache'[file[c]].data = <<got[c]>>
      BY <1>1, <1>2 DEF TypeOK
    <2>3. QED
      BY <1>1, <1>2, <2>1, <2>2 DEF TypeOK
  <1>3. CASE /\ cache[file[c]].data # <<>>
             /\ cache' = [cache EXCEPT ![file[c]].data = Append(<<got[c]>>, Last(cache[file[c]].data))]
    <2>1. PICK x, z : x = Last(cache[file[c]].data) /\ z = Append(<<got[c]>>, x)
      OBVIOUS
    <2>2. z # <<>>
      BY <2>1
    <2>3. cache'[file[c]].data = z
      BY <1>1, <1>3, <2>1 DEF TypeOK
    <2>4. QED
      BY <1>1, <1>3, <2>2, <2>3 DEF TypeOK
  <1>4. QED
    BY <1>2, <1>3 DEF FillFile

LEMMA WholeStep ==
  ASSUME TypeOK, PlaceInv, WholeWhenUnattended, [Next]_vars
  PROVE  WholeWhenUnattended'
  <1> USE DEF serverVars, originVars, local
  <1> SUFFICES ASSUME NEW f \in Files, f \notin torn', cache'[f].exists,
                      \A c \in Children : file'[c] = f => pc'[c] \notin {"fill", "refill"}
               PROVE  cache'[f].data # <<>>
    BY DEF WholeWhenUnattended
  <1>1. f \notin torn => Whole(f)
    BY DEF WholeWhenUnattended, Whole
  <1>2. CASE UNCHANGED vars
    BY <1>1, <1>2 DEF vars, Whole
  <1>3. ASSUME NEW c \in Children, Child(c)
        PROVE  cache'[f].data # <<>>
    <2>1. /\ torn' = torn /\ file' = file
          /\ \A d \in Children \ {c} : pc'[d] = pc[d]
      BY <1>3, ChildFrame
    <2>2. CASE TruncateFile(c)
      <3>1. CASE cache' = cache /\ pc[c] \notin {"fill", "refill"}
        BY <1>1, <2>1, <3>1 DEF Whole
      <3>2. CASE /\ cache' = [cache EXCEPT ![file[c]] = [exists |-> TRUE, data |-> <<>>]]
                 /\ Goto(c, After(pc[c]))
        <4>1. pc'[c] \in {"fill", "refill"} /\ pc[c] \notin {"fill", "refill"}
          BY <2>2, <3>2 DEF TruncateFile, After, Goto, TypeOK
        <4>2. file[c] # f
          BY <2>1, <4>1
        <4>3. cache'[f] = cache[f]
          BY <3>2, <4>2 DEF TypeOK
        <4>4. QED
          BY <1>1, <2>1, <4>1, <4>3 DEF Whole
      <3>3. QED
        BY <2>2, <3>1, <3>2 DEF TruncateFile
    <2>3. CASE FillFile(c)
      <3>1. CASE file[c] = f
        BY <2>3, <3>1, FillIs
      <3>2. CASE file[c] # f
        <4>1. cache'[f] = cache[f]
          BY <2>3, <3>2, FillIs
        <4>2. QED
          BY <1>1, <2>1, <3>2, <4>1 DEF Whole
      <3>3. QED
        BY <3>1, <3>2
    <2>4. CASE ~TruncateFile(c) /\ ~FillFile(c)
      BY <1>1, <1>3, <2>1, <2>4, OtherStepsOfChild DEF Whole
    <2>5. QED
      BY <2>2, <2>3, <2>4
  <1>4. ASSUME NEW c \in Children, Accept(c) \/ Receive(c) \/ Killed(c)
        PROVE  cache'[f].data # <<>>
    BY <1>1, <1>4 DEF Accept, Receive, Killed, Goto, Ended, TypeOK, Whole
  <1>5. ASSUME NEW c \in Children, NEW g \in Files, Ask(c, g)
        PROVE  cache'[f].data # <<>>
    <2>1. pc[c] \notin {"fill", "refill"} /\ pc' = pc /\ cache' = cache /\ torn' = torn
      BY <1>5 DEF Ask, PlaceInv
    <2>2. \A d \in Children \ {c} : file'[d] = file[d]
      BY <1>5 DEF Ask, TypeOK
    <2>3. QED
      BY <1>1, <2>1, <2>2 DEF Whole
  <1>6. CASE AcceptFails \/ StartOrigin \/ OriginAcceptFails \/ \E g \in Files : Update(g) \/ Unlink(g)
    BY <1>1, <1>6 DEF AcceptFails, StartOrigin, OriginAcceptFails, Update, Unlink, Whole
  <1>7. CASE StartProxy
    BY <1>1, <1>7 DEF StartProxy, Ended, Whole
  <1>8. CASE StopProxy
    BY <1>1, <1>8 DEF StopProxy, Whole
  <1>9. CASE StopOrigin
    BY <1>1, <1>9 DEF StopOrigin, OnOrigin, Whole
  <1>10. QED
    BY <1>2, <1>3, <1>4, <1>5, <1>6, <1>7, <1>8, <1>9 DEF Next, Idle

\* However many children fill and truncate the cached files at the same time,
\* a file nobody is writing is not empty, unless the proxy was stopped while
\* somebody did.
THEOREM WholeFiles == Spec => []WholeWhenUnattended
  <1>1. Init => WholeWhenUnattended
    BY DEF Init, WholeWhenUnattended
  <1>2. TypeOK /\ PlaceInv /\ WholeWhenUnattended /\ [Next]_vars => WholeWhenUnattended'
    BY WholeStep
  <1>3. QED
    BY <1>1, <1>2, ProxyTypes, PTL DEF Spec

----------------------------------------------------------------------------
(* LogCoversCache                                                         *)

Quiet == updates = scenario.updates

QuietLog ==
  \A i \in 1..Len(log) : log[i].kind = "entry" =>
    log[i].time = origin[log[i].file].time /\ (i = Len(log) \/ log[i + 1] = NL)

QuietChild(c) ==
  /\ pc[c] \notin {"reread", "rewrite", "refill", "readlog", "trunclog", "writelog"}
  /\ pc[c] \in {"read", "store", "fill", "append", "check"} => stamp[c] = origin[file[c]].time

QuietFile(f) ==
  cache[f].exists => Known(log, f) \/ \E c \in Children : file[c] = f /\ pc[c] \in {"fill", "append"}

LEMMA QuietNow ==
  QuietInv <=> /\ updates <= scenario.updates
               /\ Quiet => /\ QuietLog
                           /\ \A c \in Children : QuietChild(c)
                           /\ \A f \in Files \ torn : QuietFile(f)
  BY DEF QuietInv, Quiet, QuietLog, QuietChild, QuietFile

LEMMA QuietNext ==
  QuietInv' <=> /\ updates' <= scenario'.updates
                /\ Quiet' => /\ QuietLog'
                             /\ \A c \in Children : QuietChild(c)'
                             /\ \A f \in Files \ torn' : QuietFile(f)'
  BY DEF QuietInv, Quiet, QuietLog, QuietChild, QuietFile

\* Two more tokens at the end of the log.
LEMMA LogGrows ==
  ASSUME NEW s \in Seq(Tokens), NEW a \in Tokens, NEW b \in Tokens
  PROVE  /\ Len(s \o <<a, b>>) = Len(s) + 2
         /\ \A i \in 1..Len(s) : (s \o <<a, b>>)[i] = s[i]
         /\ (s \o <<a, b>>)[Len(s) + 1] = a /\ (s \o <<a, b>>)[Len(s) + 2] = b
  <1>1. PICK n \in Nat : n = Len(s)
    BY LenProperties
  <1>2. PICK e \in Seq(Tokens) : e = <<a, b>> /\ Len(e) = 2 /\ e[1] = a /\ e[2] = b
    <2>1. <<a, b>> \in Seq(Tokens)
      OBVIOUS
    <2>2. Len(<<a, b>>) = 2 /\ <<a, b>>[1] = a /\ <<a, b>>[2] = b
      OBVIOUS
    <2>3. QED
      BY <2>1, <2>2
  <1>3. /\ Len(s \o e) = n + 2
        /\ \A i \in 1..(n + 2) : (s \o e)[i] = IF i <= n THEN s[i] ELSE e[i - n]
    BY <1>1, <1>2, ConcatProperties
  <1>4. /\ n + 1 \in 1..(n + 2) /\ n + 2 \in 1..(n + 2) /\ \A i \in 1..n : i \in 1..(n + 2) /\ i <= n
        /\ ~(n + 1 <= n) /\ ~(n + 2 <= n) /\ (n + 1) - n = 1 /\ (n + 2) - n = 2
    BY <1>1
  <1>5. /\ \A i \in 1..n : (s \o e)[i] = s[i]
        /\ (s \o e)[n + 1] = e[1] /\ (s \o e)[n + 2] = e[2]
    BY <1>3, <1>4
  <1>6. QED
    BY <1>1, <1>2, <1>3, <1>5

\* An entry on a line of its own.
LEMMA AppendLogIs ==
  ASSUME TypeOK, PlaceInv, NEW c \in Children, AppendLog(c)
  PROVE  /\ Len(log') = Len(log) + 2
         /\ \A i \in 1..Len(log) : log'[i] = log[i]
         /\ log'[Len(log) + 1] = NL /\ log'[Len(log) + 2] = Entry(file[c], stamp[c])
         /\ file[c] \in Files /\ stamp[c] \in Times
         /\ \A f \in Files : Known(log, f) => Known(log', f)
         /\ Known(log', file[c])
  <1>1. file[c] \in Files /\ stamp[c] \in Times /\ log \in Seq(Tokens)
    BY DEF AppendLog, PlaceInv, TypeOK
  <1>2. NL \in Tokens /\ Entry(file[c], stamp[c]) \in Tokens
    BY <1>1, TokenIs
  <1>3. /\ Len(log') = Len(log) + 2
        /\ \A i \in 1..Len(log) : log'[i] = log[i]
        /\ log'[Len(log) + 1] = NL /\ log'[Len(log) + 2] = Entry(file[c], stamp[c])
    BY <1>1, <1>2, LogGrows DEF AppendLog
  <1>4. PICK n \in Nat : n = Len(log)
    BY <1>1, LenProperties
  <1>5. /\ \A i \in 1..n : i \in 1..(n + 2)
        /\ n + 2 \in 1..(n + 2)
    BY <1>4
  <1>6. ASSUME NEW f \in Files, Known(log, f)
        PROVE  Known(log', f)
    BY <1>3, <1>4, <1>5, <1>6 DEF Known, Names
  <1>7. Known(log', file[c])
    BY <1>1, <1>3, <1>4, <1>5, TokenIs DEF Known, Names
  <1>8. QED
    BY <1>1, <1>3, <1>6, <1>7

\* In a quiet log, what is found of a file is its time.
LEMMA QuietStamp ==
  ASSUME TypeOK, QuietLog, NEW f \in Files, Known(log, f)
  PROVE  StampIn(log, f) = origin[f].time
  <1>1. PICK i \in 1..Len(log) :
          Names(log, i, f) /\ StampIn(log, f) = IF Readable(log, i) THEN log[i].time ELSE Garbage
    BY StampInIs DEF TypeOK
  <1>2. log[i].kind = "entry" /\ log[i].file = f
    BY <1>1 DEF Names
  <1>3. log[i].time = origin[f].time /\ Readable(log, i)
    BY <1>2 DEF QuietLog, Readable
  <1>4. QED
    BY <1>1, <1>3

\* As long as nothing has changed at the origin, a child that has asked goes on
\* with the time its file has, and modifies nothing in the log.
LEMMA QuietStepOfChild ==
  ASSUME TypeOK, PlaceInv, QuietInv, Quiet, NEW c \in Children, Child(c)
  PROVE  QuietChild(c)'
  <1>1. QuietChild(c) /\ QuietLog /\ file'[c] = file[c] /\ origin' = origin
    BY QuietNow, ChildFrame
  <1>2. file[c] \in Files
    BY DEF TypeOK
  <1>3. CASE NotCached(c)
    <2>1. CASE NotFound(c)
      BY <1>1, <2>1 DEF NotFound, Answer, Goto, TypeOK, QuietChild
    <2>2. CASE HandleConnection(c)
      BY <1>1, <1>2, <2>2 DEF HandleConnection, Goto, TypeOK, QuietChild
    <2>3. CASE ReadFile(c) \/ AppendLog(c)
      BY <1>1, <2>3 DEF ReadFile, AppendLog, Goto, TypeOK, QuietChild
    <2>4. QED
      BY <1>3, <2>1, <2>2, <2>3 DEF NotCached
  <1>4. CASE Cached(c)
    <2>1. CASE ServeCached(c)
      BY <1>1, <2>1 DEF ServeCached, Answer, Goto, TypeOK, QuietChild
    <2>2. CASE Lookup(c)
      <3>1. Known(log, file[c]) => StampIn(log, file[c]) = origin[file[c]].time
        BY <1>1, <1>2, QuietStamp
      <3>2. QED
        BY <1>1, <2>2, <3>1 DEF Lookup, Goto, TypeOK, QuietChild
    <2>3. CASE HandleLastModified(c)
      BY <1>1, <1>2, <2>3 DEF HandleLastModified, NewStamp, Goto, TypeOK, QuietChild
    <2>4. CASE ReadModified(c) \/ ReadLog(c) \/ TruncateLog(c) \/ WriteLog(c)
      BY <1>1, <2>4 DEF ReadModified, ReadLog, TruncateLog, WriteLog, QuietChild
    <2>5. QED
      BY <1>4, <2>1, <2>2, <2>3, <2>4 DEF Cached
  <1>5. CASE Dial(c) \/ Open(c) \/ Disconnect(c)
    BY <1>1, <1>5 DEF Dial, Open, Disconnect, Goto, TypeOK, QuietChild
  <1>6. CASE TruncateFile(c)
    <2>1. After(pc[c]) = "fill"
      BY <1>1, <1>6 DEF TruncateFile, After, QuietChild
    <2>2. QED
      BY <1>1, <1>6, <2>1 DEF TruncateFile, Goto, TypeOK, QuietChild
  <1>7. CASE FillFile(c)
    <2>1. After(pc[c]) = "append"
      BY <1>1, <1>7 DEF FillFile, After, QuietChild
    <2>2. QED
      BY <1>1, <1>7, <2>1 DEF FillFile, Goto, TypeOK, QuietChild
  <1>8. CASE AnswerFetched(c)
    BY <1>1, <1>8 DEF AnswerFetched, Answer, Goto, TypeOK, QuietChild
  <1>9. QED
    BY <1>3, <1>4, <1>5, <1>6, <1>7, <1>8 DEF Child

LEMMA LogOfChild ==
  ASSUME NEW c \in Children, Child(c), ~AppendLog(c), ~TruncateLog(c), ~WriteLog(c)
  PROVE  log' = log /\ pc[c] # "append"
  <1>1. CASE NotCached(c)
    BY <1>1 DEF NotCached, HandleConnection, ReadFile, NotFound
  <1>2. CASE Cached(c)
    BY <1>2 DEF Cached, Lookup, HandleLastModified, ReadModified, ServeCached, ReadLog
  <1>3. CASE Dial(c) \/ Open(c) \/ AnswerFetched(c) \/ Disconnect(c) \/ TruncateFile(c) \/ FillFile(c)
    BY <1>3 DEF Dial, Open, AnswerFetched, Disconnect, TruncateFile, FillFile
  <1>4. QED
    BY <1>1, <1>2, <1>3 DEF Child

LEMMA QuietChildStep ==
  ASSUME TypeOK, PlaceInv, QuietInv, NEW c \in Children, Child(c)
  PROVE  QuietInv'
  <1>1. /\ UNCHANGED <<scenario, updates, origin, torn, file>>
        /\ \A d \in Children \ {c} : pc'[d] = pc[d] /\ stamp'[d] = stamp[d]
    BY ChildFrame
  <1>2. updates' <= scenario'.updates
    BY <1>1 DEF QuietInv
  <1> SUFFICES ASSUME Quiet' PROVE QuietLog' /\ (\A d \in Children : QuietChild(d)')
                                   /\ \A f \in Files \ torn' : QuietFile(f)'
    BY <1>2, QuietNext
  <1>3. Quiet
    BY <1>1 DEF Quiet
  <1>4. /\ QuietLog /\ (\A d \in Children : QuietChild(d)) /\ \A f \in Files \ torn : QuietFile(f)
    BY <1>3, QuietNow
  <1>5. \A d \in Children : QuietChild(d)'
    <2>1. QuietChild(c)'
      BY <1>3, QuietStepOfChild
    <2>2. ASSUME NEW d \in Children \ {c}
          PROVE  QuietChild(d)'
      BY <1>1, <1>4 DEF QuietChild
    <2>3. QED
      BY <2>1, <2>2
  <1>6. ~TruncateLog(c) /\ ~WriteLog(c)
    BY <1>4 DEF QuietChild, TruncateLog, WriteLog
  <1>7. QuietLog'
    <2>1. CASE AppendLog(c)
      <3>1. PICK n \in Nat : n = Len(log)
        BY LenProperties DEF TypeOK
      <3>2. /\ Len(log') = n + 2 /\ (\A i \in 1..n : log'[i] = log[i])
            /\ log'[n + 1] = NL /\ log'[n + 2] = Entry(file[c], stamp[c])
            /\ file[c] \in Files /\ stamp[c] \in Times
        BY <2>1, <3>1, AppendLogIs
      <3>3. stamp[c] = origin[file[c]].time
        BY <1>4, <2>1 DEF QuietChild, AppendLog
      <3>4. ASSUME NEW i \in 1..(n + 2), log'[i].kind = "entry"
            PROVE  log'[i].time = origin[log'[i].file].time /\ (i = n + 2 \/ log'[i + 1] = NL)
        <4>1. CASE i \in 1..n
          <5>1. log'[i] = log[i] /\ log[i].time = origin[log[i].file].time
                /\ (i = n \/ log[i + 1] = NL)
            BY <1>4, <3>1, <3>2, <3>4, <4>1 DEF QuietLog
          <5>2. i = n \/ (i + 1 \in 1..n)
            BY <4>1
          <5>3. QED
            BY <3>2, <5>1, <5>2
        <4>2. CASE i = n + 1
          BY <3>2, <3>4, <4>2, TokenIs
        <4>3. CASE i = n + 2
          BY <3>2, <3>3, <4>3, TokenIs
        <4>4. QED
          BY <4>1, <4>2, <4>3
      <3>5. QED
        BY <1>1, <3>2, <3>4 DEF QuietLog
    <2>2. CASE ~AppendLog(c)
      BY <1>1, <1>4, <1>6, <2>2, LogOfChild DEF QuietLog
    <2>3. QED
      BY <2>1, <2>2
  <1>8. ASSUME NEW f \in Files \ torn
        PROVE  QuietFile(f)'
    <2> SUFFICES ASSUME cache'[f].exists
                 PROVE  \/ Known(log', f)
                        \/ \E d \in Children : file[d] = f /\ pc'[d] \in {"fill", "append"}
      BY <1>1 DEF QuietFile
    <2>1. QuietFile(f)
      BY <1>4
    <2>2. Known(log, f) => Known(log', f)
      BY <1>6, AppendLogIs, LogOfChild
    <2>3. CASE TruncateFile(c)
      <3>1. CASE cache' = cache /\ pc[c] \notin {"fill", "append"}
        BY <1>1, <2>1, <2>2, <3>1 DEF QuietFile
      <3>2. CASE /\ cache' = [cache EXCEPT ![file[c]] = [exists |-> TRUE, data |-> <<>>]]
                 /\ Goto(c, After(pc[c]))
        <4>1. pc'[c] = "fill" /\ pc[c] \notin {"fill", "append"}
          BY <1>4, <2>3, <3>2 DEF TruncateFile, After, Goto, TypeOK, QuietChild
        <4>2. CASE file[c] = f
          BY <4>1, <4>2
        <4>3. CASE file[c] # f
          BY <1>1, <2>1, <2>2, <3>2, <4>1, <4>3 DEF QuietFile, TypeOK
        <4>4. QED
          BY <4>2, <4>3
      <3>3. QED
        BY <2>3, <3>1, <3>2 DEF TruncateFile
    <2>4. CASE FillFile(c)
      <3>1. pc'[c] = "append" /\ cache[f].exists
        BY <1>4, <2>4, FillIs DEF FillFile, After, Goto, TypeOK, QuietChild
      <3>2. QED
        BY <1>1, <2>1, <2>2, <3>1 DEF QuietFile
    <2>5. CASE ~TruncateFile(c) /\ ~FillFile(c)
      <3>1. cache' = cache /\ pc[c] # "fill"
        BY <2>5, OtherStepsOfChild
      <3>2. CASE AppendLog(c)
        <4>1. Known(log', file[c])
          BY <3>2, AppendLogIs
        <4>2. QED
          BY <1>1, <2>1, <2>2, <3>1, <4>1 DEF QuietFile
      <3>3. CASE ~AppendLog(c)
        BY <1>1, <1>6, <2>1, <2>2, <3>1, <3>3, LogOfChild DEF QuietFile
      <3>4. QED
        BY <3>2, <3>3
    <2>6. QED
      BY <2>3, <2>4, <2>5
  <1>9. QED
    BY <1>1, <1>5, <1>7, <1>8

LEMMA QuietStep ==
  ASSUME TypeOK, PlaceInv, QuietInv, [Next]_vars
  PROVE  QuietInv'
  <1> USE DEF serverVars, originVars, local
  <1>1. CASE UNCHANGED vars
    BY <1>1, QuietNow, QuietNext DEF vars, Quiet, QuietLog, QuietChild, QuietFile
  <1>2. ASSUME NEW c \in Children, Child(c)
        PROVE  QuietInv'
    BY <1>2, QuietChildStep
  <1>3. ASSUME NEW f \in Files, Update(f) \/ Unlink(f)
        PROVE  QuietInv'
    <2>1. updates' = updates - 1 /\ scenario' = scenario
      BY <1>3 DEF Update, Unlink
    <2>2. PICK n \in Nat, m \in Nat : n = scenario.updates /\ m = updates /\ m <= n
      BY ScenarioIs DEF QuietInv, TypeOK
    <2>3. m - 1 <= n /\ m - 1 # n
      BY <2>2
    <2>4. QED
      BY <2>1, <2>2, <2>3, QuietNext DEF Quiet
  <1>4. ASSUME UNCHANGED <<scenario, updates, origin, cache, log>>, torn \subseteq torn',
               \A d \in Children : \/ pc'[d] \in Ended \cup {"recv"}
                                   \/ pc'[d] = pc[d] /\ stamp'[d] = stamp[d] /\ file'[d] = file[d],
               \A d \in Children : pc[d] \in {"fill", "append"} /\ file[d] \notin torn' =>
                                     pc'[d] = pc[d] /\ file'[d] = file[d]
        PROVE  QuietInv'
    <2>1. updates' <= scenario'.updates /\ (Quiet' => Quiet) /\ (QuietLog => QuietLog')
      BY <1>4 DEF QuietInv, Quiet, QuietLog
    <2>2. ASSUME NEW d \in Children, QuietChild(d)
          PROVE  QuietChild(d)'
      BY <1>4, <2>2 DEF QuietChild, Ended
    <2>3. ASSUME NEW f \in Files \ torn', QuietFile(f)
          PROVE  QuietFile(f)'
      BY <1>4, <2>3 DEF QuietFile
    <2>4. \A f \in Files \ torn' : f \in Files \ torn
      BY <1>4
    <2>5. QED
      BY <2>1, <2>2, <2>3, <2>4, QuietNow, QuietNext
  <1>5. ASSUME NEW c \in Children, Accept(c)
        PROVE  QuietInv'
    BY <1>4, <1>5 DEF Accept, Goto, Blank, Ended, TypeOK
  <1>6. ASSUME NEW c \in Children, Receive(c) \/ Killed(c)
        PROVE  QuietInv'
    BY <1>4, <1>6 DEF Receive, Killed
  <1>7. ASSUME NEW c \in Children, NEW f \in Files, Ask(c, f)
        PROVE  QuietInv'
    <2>1. pc[c] \in {"recv", "idle"}
      BY <1>7 DEF Ask, PlaceInv
    <2>2. \A d \in Children \ {c} : file'[d] = file[d]
      BY <1>7 DEF Ask, TypeOK
    <2>3. QED
      BY <1>4, <1>7, <2>1, <2>2 DEF Ask, Ended
  <1>8. CASE AcceptFails \/ StartOrigin \/ OriginAcceptFails
    BY <1>4, <1>8 DEF AcceptFails, StartOrigin, OriginAcceptFails
  <1>9. CASE StartProxy
    BY <1>4, <1>9 DEF StartProxy, Ended
  <1>10. CASE StopProxy
    BY <1>4, <1>10 DEF StopProxy, Ended
  <1>11. CASE StopOrigin
    BY <1>4, <1>11 DEF StopOrigin, OnOrigin, Ended
  <1>12. QED
    BY <1>1, <1>2, <1>3, <1>5, <1>6, <1>7, <1>8, <1>9, <1>10, <1>11 DEF Next, Idle

\* However many children append to the log at the same time, every cached file
\* has its time there, or will have, as long as the origin changes nothing,
\* unless the proxy was stopped between a file and its entry.
THEOREM LogKeepsUp == Spec => []LogCoversCache
  <1>1. Init => QuietInv
    <2> SUFFICES ASSUME Init PROVE QuietInv
      OBVIOUS
    <2>1. updates <= scenario.updates
      BY ConstantsAssumption DEF Init
    <2>2. log = <<>> /\ Len(log) = 0
      BY EmptySeq DEF Init
    <2>3. QED
      BY <2>1, <2>2 DEF Init, QuietInv
  <1>2. TypeOK /\ PlaceInv /\ QuietInv /\ [Next]_vars => QuietInv'
    BY QuietStep
  <1>3. TypeOK /\ QuietInv => LogCoversCache
    <2> SUFFICES ASSUME TypeOK, QuietInv, Quiet, NEW f \in Files \ torn, cache[f].exists
                 PROVE  \/ Known(log, f) /\ StampIn(log, f) = origin[f].time
                        \/ \E c \in Children : file[c] = f /\ pc[c] \in {"fill", "append"}
      BY DEF LogCoversCache, Quiet
    <2>1. QED
      BY QuietNow, QuietStamp DEF QuietFile
  <1>4. QED
    BY <1>1, <1>2, <1>3, ProxyTypes, PTL DEF Spec

----------------------------------------------------------------------------
(* Fresh                                                                  *)

FreshAt(c) ==
  Answered(c) => \/ file[c] \in blurred
                 \/ \E v \in since[c]..origin[file[c]].version : reply[c].data = <<v>>

Alone(c) == SoundLog(log) /\ AloneInv(c) /\ FreshAt(c)

LEMMA AloneNow ==
  ASSUME NEW c, Children = {c}
  PROVE  FreshInv <=> Alone(c)
  BY DEF FreshInv, Alone, FreshAt, Fresh

LEMMA AloneNext ==
  ASSUME NEW c, Children = {c}
  PROVE  FreshInv' <=> Alone(c)'
  BY DEF FreshInv, Alone, FreshAt, Fresh, SoundLog, AloneInv, Outdated, Honest, Answered, CanOpen

LEMMA NumbersOf ==
  ASSUME TypeOK, NEW c \in Children
  PROVE  /\ file[c] \in Files /\ log \in Seq(Tokens) /\ text[c] \in Seq(Tokens)
         /\ origin[file[c]].time \in Nat /\ origin[file[c]].version \in Nat
         /\ stamp[c] \in Int /\ (stamp[c] \in Nat \/ stamp[c] = -1)
         /\ got[c] \in Nat /\ since[c] \in Nat
  BY DEF TypeOK, Times, Versions, Garbage

\* Lines of a text.
LEMMA OneLine ==
  ASSUME NEW s \in Seq(Tokens), NEW a \in 1..Len(s), NEW b \in 1..Len(s), NEW m \in 1..Len(s),
         SameLine(s, a, m), SameLine(s, b, m)
  PROVE  SameLine(s, a, b)
  <1>1. PICK n \in Nat : n = Len(s)
    BY LenProperties
  <1>2. ASSUME NEW k \in 1..n, (a <= k /\ k < b) \/ (b <= k /\ k < a)
        PROVE  s[k] # NL
    <2>1. a \in Nat /\ b \in Nat /\ m \in Nat /\ k \in Nat
      BY <1>1
    <2>2. \/ (a <= k /\ k < m) \/ (m <= k /\ k < a)
          \/ (b <= k /\ k < m) \/ (m <= k /\ k < b)
      BY <1>2, <2>1
    <2>3. QED
      BY <1>1, <2>2 DEF SameLine
  <1>3. QED
    BY <1>1, <1>2 DEF SameLine

LEMMA OnItself ==
  ASSUME NEW s \in Seq(Tokens), NEW i \in 1..Len(s)
  PROVE  /\ SameLine(s, i, i)
         /\ s[i] # NL /\ i + 1 \in 1..Len(s) => SameLine(s, i, i + 1)
         /\ \A j \in 1..Len(s) : SameLine(s, i, j) => SameLine(s, j, i)
  <1>1. PICK n \in Nat : n = Len(s)
    BY LenProperties
  <1>2. SameLine(s, i, i)
    BY <1>1 DEF SameLine
  <1>3. ASSUME s[i] # NL, i + 1 \in 1..n
        PROVE  SameLine(s, i, i + 1)
    <2>1. \A k \in 1..n : (i <= k /\ k < i + 1) \/ (i + 1 <= k /\ k < i) => k = i
      BY <1>1
    <2>2. QED
      BY <1>1, <1>3, <2>1 DEF SameLine
  <1>4. \A j \in 1..n : SameLine(s, i, j) => SameLine(s, j, i)
    BY <1>1 DEF SameLine
  <1>5. QED
    BY <1>1, <1>2, <1>3, <1>4

\* What a piece is.
LEMMA PieceIs ==
  ASSUME NEW s \in Seq(Tokens), NEW f \in Files, NEW t \in Times, NEW i \in 1..Len(s),
         Pieces(s, f, t)[i] # <<>>
  PROVE  \/ ~OnItsLine(s, i, f) /\ Pieces(s, f, t)[i][1] = s[i]
         \/ OnItsLine(s, i, f) /\ FirstOfLine(s, i) /\ Pieces(s, f, t)[i][1] = Entry(f, t)
  BY DEF Pieces

\* The lines of a text that has one entry a file, with the entry of one file
\* replaced or gone: the entries of the others stay, with nothing behind them
\* that was not there.
LEMMA ModifiedLog ==
  ASSUME NEW s \in Seq(Tokens), NEW f \in Files, NEW t \in Times,
         \A i \in 1..Len(s) : s[i].kind = "entry" =>
           \A j \in 1..Len(s) : Names(s, j, s[i].file) => i = j,
         NEW r, r = Modified(s, f, t), NEW i \in 1..Len(r), r[i].kind = "entry"
  PROVE  /\ \A j \in 1..Len(r) : Names(r, j, r[i].file) => i = j
         /\ \/ r[i] = Entry(f, t)
            \/ \E j \in 1..Len(s) : r[i] = s[j] /\ (Readable(r, i) => Readable(s, j))
  <1> DEFINE p == Pieces(s, f, t)
  <1>1. PICK n \in Nat : n = Len(s)
    BY LenProperties
  <1>2. r \in Seq(Tokens) /\ \E h : Picks(h, p, n, r)
    BY <1>1, ModifiedIs
  <1>3. PICK h : Picks(h, p, n, r)
    BY <1>2
  <1>4. PICK m \in Nat : m = Len(r)
    BY <1>2, LenProperties
  <1>5. /\ h \in [1..m -> 1..n]
        /\ \A j \in 1..m : p[h[j]] # <<>> /\ r[j] = p[h[j]][1]
        /\ \A j, k \in 1..m : j < k => h[j] < h[k]
        /\ \A j \in 1..n : p[j] # <<>> => \E k \in 1..m : h[k] = j
    BY <1>3, <1>4 DEF Picks
  <1>6. \A j \in 1..m :
          \/ ~OnItsLine(s, h[j], f) /\ r[j] = s[h[j]]
          \/ OnItsLine(s, h[j], f) /\ FirstOfLine(s, h[j]) /\ r[j] = Entry(f, t)
    <2>1. ASSUME NEW j \in 1..m
          PROVE  \/ ~OnItsLine(s, h[j], f) /\ r[j] = s[h[j]]
                 \/ OnItsLine(s, h[j], f) /\ FirstOfLine(s, h[j]) /\ r[j] = Entry(f, t)
      <3>1. h[j] \in 1..Len(s) /\ p[h[j]] # <<>> /\ r[j] = p[h[j]][1]
        BY <1>1, <1>5
      <3> HIDE DEF p
      <3>2. \/ ~OnItsLine(s, h[j], f) /\ p[h[j]][1] = s[h[j]]
            \/ OnItsLine(s, h[j], f) /\ FirstOfLine(s, h[j]) /\ p[h[j]][1] = Entry(f, t)
        BY <3>1, PieceIs DEF p
      <3>3. QED
        BY <3>1, <3>2
    <2>2. QED
      BY <2>1
  <1> HIDE DEF p
  <1>7. \A j, k \in 1..m : h[j] = h[k] => j = k
    BY <1>4, <1>5
  <1>8. i \in 1..m /\ h[i] \in 1..n
    BY <1>4, <1>5
  <1>9. \A j \in 1..m : ~OnItsLine(s, h[j], f) => ~Names(s, h[j], f)
    BY <1>1, <1>5, OnItself DEF OnItsLine
  <1>10. CASE ~OnItsLine(s, h[i], f) /\ r[i] = s[h[i]]
    <2>1. s[h[i]].kind = "entry" /\ s[h[i]].file # f
      BY <1>8, <1>9, <1>10 DEF Names
    <2>2. ASSUME NEW j \in 1..m, Names(r, j, r[i].file)
          PROVE  i = j
      <3>1. r[j] # Entry(f, t)
        BY <1>10, <2>1, <2>2, TokenIs DEF Names
      <3>2. r[j] = s[h[j]] /\ h[j] \in 1..n
        BY <1>5, <1>6, <3>1
      <3>3. Names(s, h[j], s[h[i]].file)
        BY <1>10, <2>2, <3>2 DEF Names
      <3>4. h[i] = h[j]
        BY <1>1, <1>8, <2>1, <3>2, <3>3
      <3>5. QED
        BY <1>7, <1>8, <3>4
    <2>3. ASSUME Readable(r, i), ~Readable(s, h[i])
          PROVE  FALSE
      <3>1. PICK a \in 1..n : a = h[i]
        BY <1>8
      <3>2. a + 1 \in 1..n /\ s[a + 1] # NL /\ s[a] # NL
        <4>1. a # n /\ s[a + 1] # NL
          BY <1>1, <2>3, <3>1 DEF Readable
        <4>2. s[a] \in Tokens
          BY <1>1, ElementOfSeq
        <4>3. s[a] # NL
          BY <2>1, <3>1, <4>2, TokenIs
        <4>4. QED
          BY <4>1, <4>3
      <3>3. ~OnItsLine(s, a + 1, f)
        <4>1. ASSUME NEW x \in 1..n, SameLine(s, a + 1, x), Names(s, x, f)
              PROVE  FALSE
          <5>1. SameLine(s, a, a + 1) /\ SameLine(s, x, a + 1)
            BY <1>1, <3>2, <4>1, OnItself
          <5>2. SameLine(s, a, x)
            BY <1>1, <3>2, <5>1, OneLine
          <5>3. QED
            BY <1>1, <1>10, <3>1, <4>1, <5>2 DEF OnItsLine
        <4>2. QED
          BY <1>1, <4>1 DEF OnItsLine
      <3>4. p[a + 1] = <<s[a + 1]>>
        BY <1>1, <3>2, <3>3 DEF p, Pieces
      <3>5. p[a + 1] # <<>>
        BY <3>4
      <3>6. PICK k \in 1..m : h[k] = a + 1
        BY <1>5, <3>2, <3>5
      <3>7. r[k] = s[a + 1]
        BY <1>6, <3>3, <3>6
      <3>8. k = i + 1
        <4>1. a < a + 1 /\ a \in Nat
          OBVIOUS
        <4>2. ~(k <= i)
          <5>1. k = i => FALSE
            BY <3>1, <3>6, <4>1
          <5>2. k < i => FALSE
            <6>1. k < i => h[k] < h[i]
              BY <1>5, <1>8
            <6>2. ~(h[k] < h[i])
              BY <3>1, <3>6, <4>1
            <6>3. QED
              BY <6>1, <6>2
          <5>3. QED
            BY <1>8, <5>1, <5>2
        <4>3. ~(i + 1 < k)
          <5>1. ASSUME i + 1 < k
                PROVE  FALSE
            <6>1. i + 1 \in 1..m /\ i < i + 1
              BY <1>8, <5>1
            <6>2. PICK b \in 1..n : b = h[i + 1]
              BY <1>5, <6>1
            <6>3. a < b /\ b < a + 1
              BY <1>5, <1>8, <3>1, <3>6, <5>1, <6>1, <6>2
            <6>4. QED
              BY <6>3
          <5>2. QED
            BY <5>1
        <4>4. QED
          BY <1>8, <4>2, <4>3
      <3>9. i # m /\ r[i + 1] # NL
        BY <1>8, <3>2, <3>7, <3>8
      <3>10. QED
        BY <1>4, <2>3, <3>9 DEF Readable
    <2>4. QED
      BY <1>1, <1>4, <1>8, <1>10, <2>2, <2>3
  <1>11. CASE OnItsLine(s, h[i], f) /\ FirstOfLine(s, h[i]) /\ r[i] = Entry(f, t)
    <2>1. ASSUME NEW j \in 1..m, Names(r, j, f)
          PROVE  i = j
      <3>1. OnItsLine(s, h[j], f) /\ FirstOfLine(s, h[j])
        <4>1. CASE ~OnItsLine(s, h[j], f) /\ r[j] = s[h[j]]
          <5>1. Names(s, h[j], f)
            BY <2>1, <4>1 DEF Names
          <5>2. QED
            BY <1>9, <4>1, <5>1
        <4>2. QED
          BY <1>6, <4>1
      <3>2. PICK a \in 1..n, b \in 1..n : a = h[i] /\ b = h[j]
        BY <1>5, <1>8
      <3>3. PICK x \in 1..n, y \in 1..n :
              SameLine(s, a, x) /\ Names(s, x, f) /\ SameLine(s, b, y) /\ Names(s, y, f)
        BY <1>1, <1>11, <3>1, <3>2 DEF OnItsLine
      <3>4. x = y
        <4>1. s[x].kind = "entry" /\ s[x].file = f
          BY <3>3 DEF Names
        <4>2. QED
          BY <1>1, <3>3, <4>1
      <3>5. SameLine(s, a, b) /\ SameLine(s, b, a)
        BY <1>1, <3>3, <3>4, OneLine
      <3>6. ~(a < b) /\ ~(b < a)
        <4>1. a < b => a \in 1..(b - 1)
          OBVIOUS
        <4>2. b < a => b \in 1..(a - 1)
          OBVIOUS
        <4>3. QED
          BY <1>11, <3>1, <3>2, <3>5, <4>1, <4>2 DEF FirstOfLine
      <3>7. a = b
        BY <3>6
      <3>8. QED
        BY <1>7, <1>8, <3>2, <3>7
    <2>2. r[i].file = f
      BY <1>11, TokenIs
    <2>3. QED
      BY <1>4, <1>11, <2>1, <2>2
  <1>12. QED
    BY <1>6, <1>8, <1>10, <1>11

\* What a sound log says stays true as long as neither the origin nor the cache
\* changes, and when the text itself is another that says no more.
LEMMA SoundStill ==
  ASSUME NEW s, SoundLog(s), UNCHANGED <<origin, blurred, cache>>
  PROVE  \A i \in 1..Len(s) : s[i].kind = "entry" =>
           /\ \A j \in 1..Len(s) : Names(s, j, s[i].file) => i = j
           /\ cache'[s[i].file].exists
           /\ Readable(s, i) => Honest(s[i].file, s[i].time)'
  BY DEF SoundLog, Honest

LEMMA LogStill ==
  ASSUME SoundLog(log), UNCHANGED <<origin, blurred, cache, log>>
  PROVE  SoundLog(log)'
  BY SoundStill DEF SoundLog, Names, Readable

LEMMA OutdatedStill ==
  ASSUME NEW f, Outdated(f), UNCHANGED <<origin, blurred, log>>
  PROVE  Outdated(f)'
  BY DEF Outdated, Names, Readable

\* Where nothing is said of a child but when it asked.
LEMMA NoPlace ==
  ASSUME NEW c, since'[c] <= origin'[file'[c]].version,
         pc'[c] \in {"idle", "done", "crashed", "hung", "recv", "open", "absent", "lookup"}
  PROVE  AloneInv(c)'
  BY DEF AloneInv

LEMMA NotAnswered ==
  ASSUME NEW c, pc'[c] # "done"
  PROVE  FreshAt(c)'
  BY DEF FreshAt, Answered

LEMMA AloneSteps ==
  ASSUME NEW c \in Children, TypeOK, PlaceInv, Alone(c),
         Dial(c) \/ Open(c) \/ Disconnect(c) \/ HandleConnection(c) \/ ReadFile(c)
  PROVE  Alone(c)'
  <1> USE DEF serverVars, originVars, local
  <1>1. UNCHANGED <<origin, blurred, cache, log, file, since, room, scenario>> /\ SoundLog(log)
    BY DEF Dial, Open, Disconnect, HandleConnection, ReadFile, Alone
  <1>2. AloneInv(c) /\ since[c] <= origin[file[c]].version
    BY DEF Alone, AloneInv
  <1>3. SoundLog(log)'
    BY <1>1, LogStill
  <1>4. CASE Dial(c) \/ Disconnect(c)
    <2>1. pc'[c] \in {"open", "crashed"}
      BY <1>4 DEF Dial, Disconnect, Goto, TypeOK
    <2>2. AloneInv(c)' /\ FreshAt(c)'
      BY <1>1, <1>2, <2>1, NoPlace, NotAnswered
    <2>3. QED
      BY <1>3, <2>2 DEF Alone
  <1>5. CASE Open(c)
    <2>1. \/ pc'[c] = "lookup"
          \/ pc'[c] = "ask" /\ (~cache[file[c]].exists \/ ~CanOpen(c, 1))
      BY <1>5 DEF Open, Goto, TypeOK
    <2>2. CASE pc'[c] = "lookup"
      BY <1>1, <1>2, <1>3, <2>2, NoPlace, NotAnswered DEF Alone
    <2>3. CASE pc'[c] = "ask" /\ (~cache[file[c]].exists \/ ~CanOpen(c, 1))
      <3>1. AloneInv(c)'
        BY <1>1, <1>2, <2>3 DEF AloneInv, CanOpen
      <3>2. QED
        BY <1>3, <2>3, <3>1, NotAnswered DEF Alone
    <2>4. QED
      BY <2>1, <2>2, <2>3
  <1>6. CASE HandleConnection(c)
    <2>1. \/ pc'[c] = "absent"
          \/ pc'[c] = "read" /\ stamp'[c] = origin[file[c]].time
      BY <1>6 DEF HandleConnection, Goto, TypeOK
    <2>2. CASE pc'[c] = "absent"
      BY <1>1, <1>2, <1>3, <2>2, NoPlace, NotAnswered DEF Alone
    <2>3. CASE pc'[c] = "read" /\ stamp'[c] = origin[file[c]].time
      <3>1. origin[file[c]].time <= origin[file[c]].time
        BY NumbersOf
      <3>2. ~cache[file[c]].exists \/ ~CanOpen(c, 1)
        BY <1>2, <1>6 DEF HandleConnection, AloneInv
      <3>3. AloneInv(c)'
        BY <1>1, <1>2, <2>3, <3>1, <3>2 DEF AloneInv, CanOpen
      <3>4. QED
        BY <1>3, <2>3, <3>3, NotAnswered DEF Alone
    <2>4. QED
      BY <2>1, <2>2, <2>3
  <1>7. CASE ReadFile(c)
    <2>1. pc'[c] = "store" /\ got'[c] = origin[file[c]].version /\ stamp'[c] = stamp[c]
      BY <1>7 DEF ReadFile, Goto, TypeOK
    <2>2. origin[file[c]].version <= origin[file[c]].version
      BY NumbersOf
    <2>3. /\ ~cache[file[c]].exists \/ ~CanOpen(c, 1)
          /\ stamp[c] <= origin[file[c]].time
      BY <1>2, <1>7 DEF ReadFile, AloneInv
    <2>4. AloneInv(c)'
      BY <1>1, <1>2, <2>1, <2>2, <2>3 DEF AloneInv, CanOpen
    <2>5. QED
      BY <1>3, <2>1, <2>4, NotAnswered DEF Alone
  <1>8. QED
    BY <1>4, <1>5, <1>6, <1>7

LEMMA AloneAnswers ==
  ASSUME NEW c \in Children, TypeOK, PlaceInv, Alone(c),
         NotFound(c) \/ ServeCached(c) \/ AnswerFetched(c)
  PROVE  Alone(c)'
  <1> USE DEF serverVars, originVars, local
  <1>1. UNCHANGED <<origin, blurred, cache, log, file, since>> /\ SoundLog(log)
    BY DEF NotFound, ServeCached, AnswerFetched, Alone
  <1>2. AloneInv(c) /\ since[c] <= origin[file[c]].version
    BY DEF Alone, AloneInv
  <1>3. SoundLog(log)'
    BY <1>1, LogStill
  <1>4. pc'[c] = "done"
    BY DEF NotFound, ServeCached, AnswerFetched, Answer, Goto, TypeOK
  <1>5. AloneInv(c)'
    BY <1>1, <1>2, <1>4, NoPlace
  <1>6. FreshAt(c)'
    <2>1. CASE NotFound(c)
      <3>1. reply'[c].kind = "404"
        BY <2>1 DEF NotFound, Answer, TypeOK
      <3>2. QED
        BY <3>1 DEF FreshAt, Answered
    <2>2. CASE ServeCached(c)
      <3>1. reply'[c].data = cache[file[c]].data
        BY <2>2 DEF ServeCached, Answer, TypeOK
      <3>2. \/ file[c] \in blurred
            \/ \E v \in since[c]..origin[file[c]].version : cache[file[c]].data = <<v>>
        BY <1>2, <2>2 DEF ServeCached, AloneInv
      <3>3. QED
        BY <1>1, <3>1, <3>2 DEF FreshAt
    <2>3. CASE AnswerFetched(c)
      <3>1. reply'[c].data = <<got[c]>>
        BY <2>3 DEF AnswerFetched, Answer, TypeOK
      <3>2. since[c] <= got[c] /\ got[c] <= origin[file[c]].version
        BY <1>2, <2>3 DEF AnswerFetched, AloneInv
      <3>3. got[c] \in since[c]..origin[file[c]].version
        BY <3>2, NumbersOf
      <3>4. QED
        BY <1>1, <3>1, <3>3 DEF FreshAt
    <2>4. QED
      BY <2>1, <2>2, <2>3
  <1>7. QED
    BY <1>3, <1>5, <1>6 DEF Alone

\* The cached file f changes, of which the log has no time.
LEMMA SoundOther ==
  ASSUME NEW f \in Files, TypeOK, SoundLog(log), UNCHANGED <<origin, blurred, log>>,
         \A g \in Files : g # f => cache'[g] = cache[g],
         cache'[f].exists, ~Known(log, f) \/ Outdated(f)
  PROVE  SoundLog(log)'
  <1>1. ASSUME NEW i \in 1..Len(log), log[i].kind = "entry"
        PROVE  /\ \A j \in 1..Len(log) : Names(log, j, log[i].file) => i = j
               /\ cache'[log[i].file].exists
               /\ Readable(log, i) => Honest(log[i].file, log[i].time)'
    <2>1. /\ \A j \in 1..Len(log) : Names(log, j, log[i].file) => i = j
          /\ cache[log[i].file].exists
          /\ Readable(log, i) => Honest(log[i].file, log[i].time)
      BY <1>1 DEF SoundLog
    <2>2. log[i].file \in Files
      <3>1. log[i] \in Tokens
        BY ElementOfSeq DEF TypeOK
      <3>2. QED
        BY <1>1, <3>1, TokenIs
    <2>3. CASE log[i].file # f
      BY <2>1, <2>2, <2>3 DEF Honest
    <2>4. CASE log[i].file = f
      <3>1. Names(log, i, f) /\ Outdated(f)
        BY <1>1, <2>4 DEF Names, Known
      <3>2. Readable(log, i) => f \in blurred \/ log[i].time < origin[f].time
        BY <3>1 DEF Outdated
      <3>3. QED
        BY <2>1, <2>4, <3>2 DEF Honest
    <2>5. QED
      BY <2>3, <2>4
  <1>2. QED
    BY <1>1 DEF SoundLog, Names, Readable

\* A child that truncates a file has found no entry for it, or one that says
\* nothing.
LEMMA AloneTruncates ==
  ASSUME NEW c \in Children, TypeOK, PlaceInv, Alone(c), TruncateFile(c)
  PROVE  Alone(c)'
  <1> USE DEF serverVars, originVars, local
  <1>1. UNCHANGED <<origin, blurred, log, file, since, stamp, got, text, room, scenario>>
    BY DEF TruncateFile
  <1>2. SoundLog(log) /\ AloneInv(c) /\ since[c] <= origin[file[c]].version
    BY DEF Alone, AloneInv
  <1>3. PICK f \in Files : f = file[c]
    BY NumbersOf
  <1>4. CASE cache' = cache /\ Goto(c, "crashed")
    <2>1. pc'[c] = "crashed"
      BY <1>4 DEF Goto, TypeOK
    <2>2. QED
      BY <1>1, <1>2, <1>4, <2>1, LogStill, NoPlace, NotAnswered DEF Alone
  <1>5. ASSUME cache' = [cache EXCEPT ![f] = [exists |-> TRUE, data |-> <<>>]],
               ~Known(log, f) \/ Outdated(f)
        PROVE  /\ SoundLog(log)' /\ cache'[f].exists /\ cache'[f].data = <<>>
               /\ Known(log, f)' <=> Known(log, f)
    <2>1. /\ \A g \in Files : g # f => cache'[g] = cache[g]
          /\ cache'[f].exists /\ cache'[f].data = <<>>
      BY <1>5 DEF TypeOK
    <2>2. QED
      BY <1>1, <1>2, <1>5, <2>1, SoundOther DEF Known, Names
  <1>6. CASE /\ pc[c] = "store" /\ CanOpen(c, 1)
             /\ cache' = [cache EXCEPT ![f] = [exists |-> TRUE, data |-> <<>>]]
             /\ pc'[c] = "fill"
    <2>1. ~cache[f].exists
      BY <1>2, <1>3, <1>6 DEF AloneInv
    <2>2. ~Known(log, f)
      BY <1>2, <2>1 DEF SoundLog, Known, Names
    <2>3. /\ SoundLog(log)' /\ cache'[f].exists /\ cache'[f].data = <<>>
          /\ ~Known(log, f)'
      BY <1>5, <1>6, <2>2
    <2>4. /\ stamp[c] <= origin[f].time /\ since[c] <= got[c] /\ got[c] <= origin[f].version
          /\ f \in blurred \/ (stamp[c] = origin[f].time => got[c] = origin[f].version)
      BY <1>2, <1>3, <1>6 DEF AloneInv
    <2>5. AloneInv(c)'
      BY <1>1, <1>2, <1>3, <1>6, <2>3, <2>4 DEF AloneInv
    <2>6. QED
      BY <1>6, <2>3, <2>5, NotAnswered DEF Alone
  <1>7. CASE /\ pc[c] = "rewrite"
             /\ cache' = [cache EXCEPT ![f] = [exists |-> TRUE, data |-> <<>>]]
             /\ pc'[c] = "refill"
    <2>1. Outdated(f)
      BY <1>2, <1>3, <1>7 DEF AloneInv
    <2>2. SoundLog(log)' /\ cache'[f].exists /\ cache'[f].data = <<>>
      BY <1>5, <1>7, <2>1
    <2>3. Outdated(f)'
      BY <1>1, <2>1, OutdatedStill
    <2>4. /\ stamp[c] <= origin[f].time /\ since[c] <= got[c] /\ got[c] <= origin[f].version
          /\ f \in blurred \/ (stamp[c] = origin[f].time => got[c] = origin[f].version)
      BY <1>2, <1>3, <1>7 DEF AloneInv
    <2>5. AloneInv(c)'
      BY <1>1, <1>2, <1>3, <1>7, <2>2, <2>3, <2>4 DEF AloneInv
    <2>6. QED
      BY <1>7, <2>2, <2>5, NotAnswered DEF Alone
  <1>8. QED
    <2>1. \/ cache' = cache /\ Goto(c, "crashed")
          \/ /\ cache' = [cache EXCEPT ![f] = [exists |-> TRUE, data |-> <<>>]]
             /\ Goto(c, After(pc[c]))
             /\ (pc[c] = "store" /\ CanOpen(c, 1)) \/ pc[c] = "rewrite"
      BY <1>3 DEF TruncateFile
    <2>2. Goto(c, After(pc[c])) => /\ pc[c] = "store" => pc'[c] = "fill"
                                   /\ pc[c] = "rewrite" => pc'[c] = "refill"
      BY DEF Goto, After, TypeOK
    <2>3. QED
      BY <1>4, <1>6, <1>7, <2>1, <2>2

\* What it writes is what the origin sent.
LEMMA AloneFills ==
  ASSUME NEW c \in Children, TypeOK, PlaceInv, Alone(c), FillFile(c)
  PROVE  Alone(c)'
  <1> USE DEF serverVars, originVars, local
  <1>1. UNCHANGED <<origin, blurred, log, file, since, stamp, got, text, room, scenario>>
    BY DEF FillFile
  <1>2. SoundLog(log) /\ AloneInv(c) /\ since[c] <= origin[file[c]].version
    BY DEF Alone, AloneInv
  <1>3. PICK f \in Files : f = file[c]
    BY NumbersOf
  <1>4. \/ pc[c] = "fill" /\ pc'[c] = "append"
        \/ pc[c] = "refill" /\ pc'[c] = "readlog"
    BY DEF FillFile, Goto, After, TypeOK
  <1>5. /\ cache[f].exists /\ cache[f].data = <<>>
        /\ pc[c] = "fill" => ~Known(log, f)
        /\ pc[c] = "refill" => Outdated(f)
        /\ stamp[c] <= origin[f].time /\ since[c] <= got[c] /\ got[c] <= origin[f].version
        /\ f \in blurred \/ (stamp[c] = origin[f].time => got[c] = origin[f].version)
    BY <1>2, <1>3, <1>4 DEF AloneInv
  <1>6. /\ \A g \in Files : g # f => cache'[g] = cache[g]
        /\ cache'[f].exists /\ cache'[f].data = <<got[c]>>
    BY <1>3, <1>5, FillIs
  <1>7. SoundLog(log)'
    BY <1>1, <1>2, <1>4, <1>5, <1>6, SoundOther
  <1>8. (Known(log, f)' <=> Known(log, f)) /\ (Outdated(f) => Outdated(f)')
    BY <1>1, OutdatedStill DEF Known, Names
  <1>9. AloneInv(c)'
    <2>1. CASE pc[c] = "fill" /\ pc'[c] = "append"
      BY <1>1, <1>2, <1>3, <1>5, <1>6, <1>8, <2>1 DEF AloneInv
    <2>2. CASE pc[c] = "refill" /\ pc'[c] = "readlog"
      BY <1>1, <1>2, <1>3, <1>5, <1>6, <1>8, <2>2 DEF AloneInv
    <2>3. QED
      BY <1>4, <2>1, <2>2
  <1>10. QED
    BY <1>4, <1>7, <1>9, NotAnswered DEF Alone

\* It enters the time the file has had, or an earlier one.
LEMMA AloneAppends ==
  ASSUME NEW c \in Children, TypeOK, PlaceInv, Alone(c), AppendLog(c)
  PROVE  Alone(c)'
  <1> USE DEF serverVars, originVars, local
  <1>1. UNCHANGED <<origin, blurred, cache, file, since, stamp, got, text, room, scenario>>
        /\ pc'[c] = "answer" /\ pc[c] = "append"
    BY DEF AppendLog, Goto, TypeOK
  <1>2. SoundLog(log) /\ AloneInv(c) /\ since[c] <= origin[file[c]].version
    BY DEF Alone, AloneInv
  <1>3. PICK f \in Files, t \in Times : f = file[c] /\ t = stamp[c]
    BY AppendLogIs
  <1>4. /\ cache[f].exists /\ ~Known(log, f) /\ cache[f].data = <<got[c]>>
        /\ t <= origin[f].time /\ since[c] <= got[c] /\ got[c] <= origin[f].version
        /\ f \in blurred \/ (t = origin[f].time => got[c] = origin[f].version)
    BY <1>1, <1>2, <1>3 DEF AloneInv
  <1>5. AloneInv(c)'
    BY <1>1, <1>2, <1>3, <1>4 DEF AloneInv
  <1>6. PICK n \in Nat : n = Len(log)
    BY NumbersOf, LenProperties
  <1>7. /\ Len(log') = n + 2 /\ \A i \in 1..n : log'[i] = log[i]
        /\ log'[n + 1] = NL /\ log'[n + 2] = Entry(f, t)
    BY <1>3, <1>6, AppendLogIs
  <1>8. Honest(f, t)
    <2>1. t \in Nat /\ origin[f].time \in Nat
      BY <1>3, NumbersOf DEF Times
    <2>2. QED
      BY <1>4, <2>1 DEF Honest
  <1>9. \A j \in 1..n : log[j].kind = "entry" => log[j].file # f
    BY <1>4, <1>6 DEF Known, Names
  <1>10. ASSUME NEW i \in 1..(n + 2), log'[i].kind = "entry"
         PROVE  /\ \A j \in 1..(n + 2) : Names(log', j, log'[i].file) => i = j
                /\ cache[log'[i].file].exists
                /\ (i = n + 2 \/ log'[i + 1] = NL) => Honest(log'[i].file, log'[i].time)
    <2>1. i \in 1..n \/ i = n + 2
      BY <1>7, <1>10, TokenIs
    <2>2. \A j \in 1..(n + 2) : j \in 1..n \/ j = n + 1 \/ j = n + 2
      OBVIOUS
    <2>3. CASE i = n + 2
      <3>1. log'[i].file = f /\ log'[i].time = t
        BY <1>7, <2>3, TokenIs
      <3>2. ASSUME NEW j \in 1..(n + 2), Names(log', j, f)
            PROVE  i = j
        <4>1. j \notin 1..n
          BY <1>7, <1>9, <3>2 DEF Names
        <4>2. j # n + 1
          BY <1>7, <3>2, TokenIs DEF Names
        <4>3. QED
          BY <2>2, <2>3, <4>1, <4>2
      <3>3. QED
        BY <1>4, <1>8, <3>1, <3>2
    <2>4. CASE i \in 1..n
      <3>1. log'[i] = log[i] /\ log[i].file # f
        BY <1>7, <1>9, <1>10, <2>4
      <3>2. /\ \A j \in 1..n : Names(log, j, log[i].file) => i = j
            /\ cache[log[i].file].exists
            /\ (i = n \/ log[i + 1] = NL) => Honest(log[i].file, log[i].time)
        BY <1>2, <1>6, <1>10, <2>4, <3>1 DEF SoundLog, Readable
      <3>3. ASSUME NEW j \in 1..(n + 2), Names(log', j, log[i].file)
            PROVE  i = j
        <4>1. j # n + 1 /\ j # n + 2
          BY <1>3, <1>7, <3>1, <3>3, TokenIs DEF Names
        <4>2. j \in 1..n /\ Names(log, j, log[i].file)
          BY <1>7, <2>2, <3>3, <4>1 DEF Names
        <4>3. QED
          BY <3>2, <4>2
      <3>4. ASSUME i = n + 2 \/ log'[i + 1] = NL
            PROVE  i = n \/ log[i + 1] = NL
        <4>1. i = n \/ i + 1 \in 1..n
          BY <2>4
        <4>2. i # n + 2
          BY <2>4
        <4>3. QED
          BY <1>7, <3>4, <4>1, <4>2
      <3>5. QED
        BY <3>1, <3>2, <3>3, <3>4
    <2>5. QED
      BY <2>1, <2>3, <2>4
  <1>11. SoundLog(log)'
    BY <1>1, <1>7, <1>10 DEF SoundLog, Names, Readable, Honest
  <1>12. QED
    BY <1>1, <1>5, <1>11, NotAnswered DEF Alone

\* A time found in the log, and the origin's answer to it.
LEMMA AloneChecks ==
  ASSUME NEW c \in Children, TypeOK, PlaceInv, Alone(c),
         Lookup(c) \/ HandleLastModified(c) \/ ReadModified(c)
  PROVE  Alone(c)'
  <1> USE DEF serverVars, originVars, local
  <1>1. UNCHANGED <<origin, blurred, cache, log, file, since, text, room, scenario>>
    BY DEF Lookup, HandleLastModified, ReadModified
  <1>2. SoundLog(log) /\ AloneInv(c) /\ since[c] <= origin[file[c]].version
    BY DEF Alone, AloneInv
  <1>3. PICK f \in Files : f = file[c]
    BY NumbersOf
  <1>4. SoundLog(log)'
    BY <1>1, <1>2, LogStill
  <1>5. /\ origin[f].time \in Nat /\ origin[f].version \in Nat /\ stamp[c] \in Int
        /\ since[c] \in Nat /\ Garbage = -1
    BY <1>3, NumbersOf DEF Garbage
  <1>6. Outdated(f) => Outdated(f)'
    BY <1>1, OutdatedStill
  <1>7. CASE pc'[c] \in {"crashed", "hung"}
    BY <1>1, <1>2, <1>4, <1>7, NoPlace, NotAnswered DEF Alone
  <1>8. CASE Lookup(c) /\ pc'[c] # "crashed"
    <2>1. /\ Known(log, f) /\ pc'[c] = "check" /\ stamp'[c] = StampIn(log, f)
      BY <1>3, <1>8 DEF Lookup, Goto, TypeOK
    <2>2. PICK i \in 1..Len(log) :
            Names(log, i, f) /\ StampIn(log, f) = IF Readable(log, i) THEN log[i].time ELSE Garbage
      BY <2>1, StampInIs, NumbersOf
    <2>3. /\ \A j \in 1..Len(log) : Names(log, j, f) => i = j
          /\ cache[f].exists
          /\ Readable(log, i) => Honest(f, log[i].time)
      BY <1>2, <2>2 DEF SoundLog, Names
    <2>4. PICK t : t = stamp'[c]
      OBVIOUS
    <2>5. /\ t = Garbage \/ Honest(f, t)
          /\ \A j \in 1..Len(log) : Names(log, j, f) /\ Readable(log, j) => log[j].time = t
      BY <2>1, <2>2, <2>3, <2>4
    <2>6. Honest(f, t) => Honest(f, t)'
      BY <1>1 DEF Honest
    <2>7. AloneInv(c)'
      BY <1>1, <1>2, <1>3, <2>1, <2>3, <2>4, <2>5, <2>6 DEF AloneInv, Names, Readable, Garbage
    <2>8. QED
      BY <1>4, <2>1, <2>7, NotAnswered DEF Alone
  <1>9. CASE HandleLastModified(c) /\ pc'[c] # "hung"
    <2>1. /\ cache[f].exists
          /\ stamp[c] = Garbage \/ Honest(f, stamp[c])
          /\ \A i \in 1..Len(log) : Names(log, i, f) /\ Readable(log, i) => log[i].time = stamp[c]
      BY <1>2, <1>3, <1>9 DEF HandleLastModified, AloneInv
    <2>2. \/ stamp[c] = origin[f].time /\ pc'[c] = "serve"
          \/ stamp[c] # origin[f].time /\ pc'[c] = "reread" /\ stamp'[c] = origin[f].time
      BY <1>3, <1>9 DEF HandleLastModified, NewStamp, Goto, TypeOK
    <2>3. CASE stamp[c] = origin[f].time /\ pc'[c] = "serve"
      <3>1. f \in blurred \/ cache[f].data = <<origin[f].version>>
        BY <1>5, <2>1, <2>3 DEF Honest
      <3>2. origin[f].version \in since[c]..origin[f].version
        BY <1>2, <1>3, <1>5
      <3>3. AloneInv(c)'
        BY <1>1, <1>2, <1>3, <2>3, <3>1, <3>2 DEF AloneInv
      <3>4. QED
        BY <1>4, <2>3, <3>3, NotAnswered DEF Alone
    <2>4. CASE stamp[c] # origin[f].time /\ pc'[c] = "reread" /\ stamp'[c] = origin[f].time
      <3>1. f \in blurred \/ stamp[c] < origin[f].time
        BY <1>5, <2>1, <2>4 DEF Honest
      <3>2. Outdated(f)
        BY <2>1, <3>1 DEF Outdated
      <3>3. origin[f].time <= origin[f].time
        BY <1>5
      <3>4. AloneInv(c)'
        BY <1>1, <1>2, <1>3, <1>6, <2>1, <2>4, <3>2, <3>3 DEF AloneInv
      <3>5. QED
        BY <1>4, <2>4, <3>4, NotAnswered DEF Alone
    <2>5. QED
      BY <2>2, <2>3, <2>4
  <1>10. CASE ReadModified(c) /\ pc'[c] # "hung"
    <2>1. /\ pc[c] = "reread" /\ pc'[c] = "rewrite" /\ got'[c] = origin[f].version
          /\ stamp'[c] = stamp[c]
      BY <1>3, <1>10 DEF ReadModified, Goto, TypeOK
    <2>2. cache[f].exists /\ Outdated(f) /\ stamp[c] <= origin[f].time
      BY <1>2, <1>3, <2>1 DEF AloneInv
    <2>3. origin[f].version <= origin[f].version
      BY <1>5
    <2>4. AloneInv(c)'
      BY <1>1, <1>2, <1>3, <1>6, <2>1, <2>2, <2>3 DEF AloneInv
    <2>5. QED
      BY <1>4, <2>1, <2>4, NotAnswered DEF Alone
  <1>11. QED
    BY <1>7, <1>8, <1>9, <1>10

\* The new text of the log is sound: so is the log when it is written, as
\* nothing has come into it in between.
LEMMA AloneModifies ==
  ASSUME NEW c \in Children, TypeOK, PlaceInv, Alone(c),
         ReadLog(c) \/ TruncateLog(c) \/ WriteLog(c)
  PROVE  Alone(c)'
  <1> USE DEF serverVars, originVars, local
  <1>1. UNCHANGED <<origin, blurred, cache, file, since, stamp, got, room, scenario>>
    BY DEF ReadLog, TruncateLog, WriteLog
  <1>2. SoundLog(log) /\ AloneInv(c) /\ since[c] <= origin[file[c]].version
    BY DEF Alone, AloneInv
  <1>3. PICK f \in Files : f = file[c]
    BY NumbersOf
  <1>4. since[c] <= got[c] /\ got[c] <= origin[f].version
    BY <1>2, <1>3 DEF ReadLog, TruncateLog, WriteLog, AloneInv
  <1>5. CASE ReadLog(c)
    <2>1. /\ pc[c] = "readlog" /\ pc'[c] = "trunclog" /\ log' = log
      BY <1>5 DEF ReadLog, Goto, TypeOK
    <2>2. PICK t \in Times : t = stamp[c]
      BY <2>1 DEF PlaceInv
    <2>3. PICK r : r = text'[c] /\ r = Modified(log, f, t)
      BY <1>3, <1>5, <2>2 DEF ReadLog, TypeOK
    <2>4. Honest(f, t) /\ cache[f].exists
      <3>1. /\ cache[f].exists /\ cache[f].data = <<got[c]>> /\ t <= origin[f].time
            /\ f \in blurred \/ (t = origin[f].time => got[c] = origin[f].version)
        BY <1>2, <1>3, <2>1, <2>2 DEF AloneInv
      <3>2. t \in Nat /\ origin[f].time \in Nat
        BY <1>3, <2>2, NumbersOf DEF Times
      <3>3. QED
        BY <3>1, <3>2 DEF Honest
    <2>5. ASSUME NEW i \in 1..Len(r), r[i].kind = "entry"
          PROVE  /\ \A j \in 1..Len(r) : Names(r, j, r[i].file) => i = j
                 /\ cache[r[i].file].exists
                 /\ Readable(r, i) => Honest(r[i].file, r[i].time)
      <3>1. \A k \in 1..Len(log) : log[k].kind = "entry" =>
              \A j \in 1..Len(log) : Names(log, j, log[k].file) => k = j
        BY <1>2 DEF SoundLog
      <3>2. log \in Seq(Tokens)
        BY DEF TypeOK
      <3>3. /\ \A j \in 1..Len(r) : Names(r, j, r[i].file) => i = j
            /\ \/ r[i] = Entry(f, t)
               \/ \E j \in 1..Len(log) : r[i] = log[j] /\ (Readable(r, i) => Readable(log, j))
        BY <2>3, <2>5, <3>1, <3>2, ModifiedLog
      <3>4. CASE r[i] = Entry(f, t)
        BY <2>4, <3>3, <3>4, TokenIs
      <3>5. ASSUME NEW j \in 1..Len(log), r[i] = log[j], Readable(r, i) => Readable(log, j)
            PROVE  /\ cache[r[i].file].exists
                   /\ Readable(r, i) => Honest(r[i].file, r[i].time)
        BY <1>2, <2>5, <3>5 DEF SoundLog
      <3>6. QED
        BY <3>3, <3>4, <3>5
    <2>6. SoundLog(r)
      BY <2>5 DEF SoundLog
    <2>7. SoundLog(text[c])'
      BY <1>1, <2>3, <2>6, SoundStill DEF SoundLog, Names, Readable
    <2>8. SoundLog(log)'
      BY <1>1, <1>2, <2>1, LogStill
    <2>9. AloneInv(c)'
      BY <1>1, <1>2, <1>3, <1>4, <2>1, <2>7 DEF AloneInv
    <2>10. QED
      BY <2>1, <2>8, <2>9, NotAnswered DEF Alone
  <1>6. CASE TruncateLog(c)
    <2>1. text' = text /\ pc[c] = "trunclog"
      BY <1>6 DEF TruncateLog
    <2>2. \/ pc'[c] = "crashed" /\ log' = log
          \/ pc'[c] = "writelog" /\ log' = <<>>
      BY <1>6 DEF TruncateLog, Goto, TypeOK
    <2>3. CASE pc'[c] = "crashed" /\ log' = log
      BY <1>1, <1>2, <2>3, LogStill, NoPlace, NotAnswered DEF Alone
    <2>4. CASE pc'[c] = "writelog" /\ log' = <<>>
      <3>1. SoundLog(log)'
        <4>1. Len(<<>>) = 0
          BY EmptySeq
        <4>2. \A i \in 1..Len(log') : FALSE
          BY <2>4, <4>1
        <4>3. QED
          BY <4>2 DEF SoundLog
      <3>2. SoundLog(text[c])
        BY <1>2, <2>1 DEF AloneInv
      <3>3. SoundLog(text[c])'
        BY <1>1, <2>1, <3>2, SoundStill DEF SoundLog, Names, Readable
      <3>4. AloneInv(c)'
        BY <1>1, <1>2, <1>3, <1>4, <2>4, <3>3 DEF AloneInv
      <3>5. QED
        BY <2>4, <3>1, <3>4, NotAnswered DEF Alone
    <2>5. QED
      BY <2>2, <2>3, <2>4
  <1>7. CASE WriteLog(c)
    <2>1. pc[c] = "writelog" /\ pc'[c] = "answer" /\ log' = Overlay(text[c], log)
      BY <1>7 DEF WriteLog, Goto, TypeOK
    <2>2. log = <<>> /\ SoundLog(text[c])
      BY <1>2, <2>1 DEF AloneInv
    <2>3. log' = text[c]
      BY <2>1, <2>2, OverlayIs, NumbersOf
    <2>4. SoundLog(log)'
      BY <1>1, <2>2, <2>3, SoundStill DEF SoundLog, Names, Readable
    <2>5. AloneInv(c)'
      BY <1>1, <1>2, <1>3, <1>4, <2>1 DEF AloneInv
    <2>6. QED
      BY <2>1, <2>4, <2>5, NotAnswered DEF Alone
  <1>8. QED
    BY <1>5, <1>6, <1>7

\* A change of a file at the origin: a later version, and a later time unless
\* it is the second in its second.
LEMMA OriginMoves ==
  ASSUME TypeOK, NEW x \in Files, Update(x) \/ Unlink(x), NEW g \in Files
  PROVE  /\ origin[g].version \in Nat /\ origin'[g].version \in Nat
         /\ origin[g].time \in Nat /\ origin'[g].time \in Nat
         /\ origin[g].version <= origin'[g].version /\ origin[g].time <= origin'[g].time
         /\ blurred \subseteq blurred'
         /\ \/ g \in blurred'
            \/ origin[g].time < origin'[g].time
            \/ origin'[g].time = origin[g].time /\ origin'[g].version = origin[g].version
  <1>1. origin[g].version \in Nat /\ origin[g].time \in Nat
    BY DEF TypeOK, Versions, Times
  <1>2. CASE Update(x)
    <2>1. /\ g # x => origin'[g] = origin[g]
          /\ g = x => /\ origin'[g].version = origin[g].version + 1
                      /\ \/ origin'[g].time = origin[g].time /\ g \in blurred'
                         \/ origin'[g].time = origin[g].time + 1
          /\ blurred \subseteq blurred'
      BY <1>2, UpdateIs
    <2>2. QED
      BY <1>1, <2>1
  <1>3. CASE Unlink(x)
    <2>1. origin' = [origin EXCEPT ![x].present = FALSE] /\ blurred' = blurred
      BY <1>3 DEF Unlink
    <2>2. origin'[g].version = origin[g].version /\ origin'[g].time = origin[g].time
      BY <2>1 DEF TypeOK
    <2>3. QED
      BY <1>1, <2>1, <2>2
  <1>4. QED
    BY <1>2, <1>3

LEMMA HonestStays ==
  ASSUME TypeOK, NEW x \in Files, Update(x) \/ Unlink(x), cache' = cache,
         NEW g \in Files, NEW t \in Int, Honest(g, t)
  PROVE  Honest(g, t)'
  <1>1. /\ origin[g].time \in Nat /\ origin'[g].time \in Nat
        /\ origin[g].time <= origin'[g].time /\ blurred \subseteq blurred'
        /\ \/ g \in blurred'
           \/ origin[g].time < origin'[g].time
           \/ origin'[g].time = origin[g].time /\ origin'[g].version = origin[g].version
    BY OriginMoves
  <1>2. CASE g \in blurred'
    BY <1>2 DEF Honest
  <1>3. CASE t < origin[g].time \/ (t = origin[g].time /\ origin[g].time < origin'[g].time)
    <2>1. t < origin'[g].time
      BY <1>1, <1>3
    <2>2. QED
      BY <2>1 DEF Honest
  <1>4. CASE /\ t = origin[g].time /\ cache[g].data = <<origin[g].version>>
             /\ origin'[g].time = origin[g].time /\ origin'[g].version = origin[g].version
    BY <1>4 DEF Honest
  <1>5. QED
    BY <1>1, <1>2, <1>3, <1>4 DEF Honest

LEMMA SoundStays ==
  ASSUME TypeOK, NEW x \in Files, Update(x) \/ Unlink(x), cache' = cache,
         NEW s \in Seq(Tokens), SoundLog(s)
  PROVE  \A i \in 1..Len(s) : s[i].kind = "entry" =>
           /\ \A j \in 1..Len(s) : Names(s, j, s[i].file) => i = j
           /\ cache'[s[i].file].exists
           /\ Readable(s, i) => Honest(s[i].file, s[i].time)'
  <1> SUFFICES ASSUME NEW i \in 1..Len(s), s[i].kind = "entry"
               PROVE  /\ \A j \in 1..Len(s) : Names(s, j, s[i].file) => i = j
                      /\ cache'[s[i].file].exists
                      /\ Readable(s, i) => Honest(s[i].file, s[i].time)'
    OBVIOUS
  <1>1. s[i].file \in Files /\ s[i].time \in Int
    <2>1. s[i] \in Tokens
      BY ElementOfSeq
    <2>2. QED
      BY <2>1, TokenIs DEF Times
  <1>2. Honest(s[i].file, s[i].time) => Honest(s[i].file, s[i].time)'
    BY <1>1, HonestStays
  <1>3. QED
    BY <1>2 DEF SoundLog

LEMMA AloneUpdated ==
  ASSUME NEW c \in Children, TypeOK, PlaceInv, Alone(c), NEW x \in Files, Update(x) \/ Unlink(x)
  PROVE  Alone(c)'
  <1> USE DEF serverVars, originVars, local
  <1>1. UNCHANGED <<cache, log, file, since, stamp, got, text, room, scenario, pc, reply>>
    BY DEF Update, Unlink
  <1>2. SoundLog(log) /\ AloneInv(c) /\ FreshAt(c)
    BY DEF Alone
  <1>3. PICK f \in Files : f = file[c]
    BY NumbersOf
  <1>4. /\ stamp[c] \in Int /\ got[c] \in Nat /\ since[c] \in Nat
        /\ log \in Seq(Tokens) /\ text[c] \in Seq(Tokens)
    BY NumbersOf
  <1>5. PICK v \in Nat, w \in Nat, a \in Nat, b \in Nat :
          /\ v = origin[f].version /\ w = origin'[f].version /\ a = origin[f].time /\ b = origin'[f].time
          /\ v <= w /\ a <= b /\ blurred \subseteq blurred'
          /\ f \in blurred' \/ a < b \/ (a = b /\ v = w)
    BY OriginMoves
  <1>6. SoundLog(log)'
    BY <1>1, <1>2, <1>4, SoundStays DEF SoundLog, Names, Readable
  <1>7. SoundLog(text[c]) => SoundLog(text[c])'
    BY <1>1, <1>4, SoundStays DEF SoundLog, Names, Readable
  <1>8. Honest(f, stamp[c]) => Honest(f, stamp[c])'
    BY <1>1, <1>4, HonestStays
  <1>9. Outdated(f) => Outdated(f)'
    <2> SUFFICES ASSUME Outdated(f), f \notin blurred', NEW i \in 1..Len(log),
                        Names(log, i, f), Readable(log, i)
                 PROVE  log[i].time < b
      BY <1>1, <1>5 DEF Outdated, Names, Readable
    <2>1. log[i].time < a
      BY <1>5 DEF Outdated
    <2>2. log[i].time \in Nat
      <3>1. log[i] \in Tokens
        BY <1>4, ElementOfSeq
      <3>2. QED
        BY <3>1, TokenIs DEF Names, Times
    <2>3. QED
      BY <1>5, <2>1, <2>2
  <1>10. ASSUME NEW m \in Nat, m <= v
         PROVE  m <= w
    BY <1>5, <1>10
  <1>11. stamp[c] <= a => stamp[c] <= b
    BY <1>4, <1>5
  <1>12. /\ stamp[c] <= a
         /\ f \in blurred \/ (stamp[c] = a => got[c] = v)
         => f \in blurred' \/ (stamp[c] = b => got[c] = w)
    BY <1>4, <1>5
  <1>13. ASSUME NEW d, f \in blurred \/ \E u \in since[c]..v : d = <<u>>
         PROVE  f \in blurred' \/ \E u \in since[c]..w : d = <<u>>
    <2>1. \A u \in since[c]..v : u \in since[c]..w
      BY <1>4, <1>5
    <2>2. QED
      BY <1>5, <1>13, <2>1
  <1>14. AloneInv(c)'
    <2>1. since'[c] <= w
      BY <1>1, <1>2, <1>3, <1>4, <1>5, <1>10 DEF AloneInv
    <2>2. pc[c] \in {"ask", "read", "store"} => ~cache[f].exists \/ ~CanOpen(c, 1)
      BY <1>2, <1>3 DEF AloneInv
    <2>3. /\ pc[c] \in {"fill", "append"} => cache[f].exists /\ ~Known(log, f)
          /\ pc[c] \in {"fill", "refill"} => cache[f].data = <<>>
          /\ pc[c] \in {"append", "readlog"} => cache[f].data = <<got[c]>>
          /\ pc[c] \in {"check", "reread", "rewrite", "refill", "readlog"} => cache[f].exists
          /\ pc[c] = "writelog" => log = <<>>
      BY <1>2, <1>3 DEF AloneInv
    <2>4. /\ pc[c] \in {"read", "reread", "store", "fill", "append", "rewrite", "refill", "readlog"}
               => stamp[c] <= b
          /\ pc[c] \in {"store", "fill", "append", "rewrite", "refill", "readlog"} =>
               f \in blurred' \/ (stamp[c] = b => got[c] = w)
      BY <1>2, <1>3, <1>5, <1>11, <1>12 DEF AloneInv
    <2>5. pc[c] \in {"store", "fill", "append", "rewrite", "refill", "readlog", "trunclog",
                     "writelog", "answer"}
            => since[c] <= got[c] /\ got[c] <= w
      BY <1>2, <1>3, <1>4, <1>5, <1>10 DEF AloneInv
    <2>6. pc[c] = "check" =>
            /\ stamp[c] = Garbage \/ Honest(f, stamp[c])'
            /\ \A i \in 1..Len(log) :
                 Names(log, i, f) /\ Readable(log, i) => log[i].time = stamp[c]
      BY <1>2, <1>3, <1>8 DEF AloneInv
    <2>7. /\ pc[c] \in {"reread", "rewrite", "refill", "readlog"} => Outdated(f)'
          /\ pc[c] \in {"trunclog", "writelog"} => SoundLog(text[c])'
      BY <1>2, <1>3, <1>7, <1>9 DEF AloneInv
    <2>8. pc[c] = "serve" => f \in blurred' \/ \E u \in since[c]..w : cache[f].data = <<u>>
      BY <1>2, <1>3, <1>5, <1>13 DEF AloneInv
    <2>9. QED
      BY <1>1, <1>3, <1>5, <2>1, <2>2, <2>3, <2>4, <2>5, <2>6, <2>7, <2>8
         DEF AloneInv, CanOpen, Known, Names, Readable
  <1>15. FreshAt(c)'
    BY <1>1, <1>2, <1>3, <1>5, <1>13 DEF FreshAt, Answered
  <1>16. QED
    BY <1>6, <1>14, <1>15 DEF Alone

LEMMA FreshStep ==
  ASSUME NEW c, Children = {c}, TypeOK, PlaceInv, FreshInv, [Next]_vars
  PROVE  FreshInv'
  <1> USE DEF serverVars, originVars, local
  <1>1. c \in Children /\ Alone(c)
    BY AloneNow
  <1> SUFFICES Alone(c)'
    BY AloneNext
  <1>2. SoundLog(log) /\ AloneInv(c) /\ FreshAt(c) /\ since[c] <= origin[file[c]].version
    BY <1>1 DEF Alone, AloneInv
  <1>3. ASSUME UNCHANGED <<scenario, origin, blurred, cache, log, file, since, stamp, got, text, room,
                           reply, pc>>
        PROVE  Alone(c)'
    <2>1. SoundLog(log)'
      BY <1>2, <1>3, LogStill
    <2>2. /\ SoundLog(text[c]) => SoundLog(text[c])'
          /\ Outdated(file[c]) => Outdated(file[c])'
          /\ Honest(file[c], stamp[c]) => Honest(file[c], stamp[c])'
      BY <1>3 DEF SoundLog, Outdated, Honest, Names, Readable
    <2>3. AloneInv(c)'
      BY <1>2, <1>3, <2>2 DEF AloneInv, CanOpen, Known, Names, Readable
    <2>4. FreshAt(c)'
      BY <1>2, <1>3 DEF FreshAt, Answered
    <2>5. QED
      BY <2>1, <2>3, <2>4 DEF Alone
  <1>4. ASSUME UNCHANGED <<origin, blurred, cache, log>>, pc'[c] \in {"idle", "crashed", "recv"},
               since'[c] <= origin'[file'[c]].version
        PROVE  Alone(c)'
    BY <1>2, <1>4, LogStill, NoPlace, NotAnswered DEF Alone
  <1>5. CASE UNCHANGED vars
    BY <1>3, <1>5 DEF vars
  <1>6. CASE Child(c)
    BY <1>1, <1>6, AloneSteps, AloneAnswers, AloneTruncates, AloneFills, AloneAppends, AloneChecks,
       AloneModifies DEF Child, NotCached, Cached
  <1>7. CASE Accept(c)
    BY <1>1, <1>2, <1>4, <1>7 DEF Accept, Goto, TypeOK
  <1>8. CASE Receive(c) \/ Killed(c)
    BY <1>3, <1>8 DEF Receive, Killed
  <1>9. ASSUME NEW f \in Files, Ask(c, f)
        PROVE  Alone(c)'
    <2>1. pc'[c] \in {"idle", "recv"}
      BY <1>1, <1>9 DEF Ask, PlaceInv
    <2>2. since'[c] = origin'[file'[c]].version /\ since'[c] \in Nat
      BY <1>1, <1>9 DEF Ask, TypeOK, Versions
    <2>3. since'[c] <= origin'[file'[c]].version
      BY <2>2
    <2>4. QED
      BY <1>4, <1>9, <2>1, <2>3 DEF Ask
  <1>10. CASE AcceptFails \/ StartOrigin \/ OriginAcceptFails
    BY <1>3, <1>10 DEF AcceptFails, StartOrigin, OriginAcceptFails
  <1>11. CASE StartProxy \/ StopProxy
    BY <1>1, <1>2, <1>4, <1>11 DEF StartProxy, StopProxy
  <1>12. CASE StopOrigin
    <2>1. CASE pc[c] \in OnOrigin
      BY <1>1, <1>2, <1>4, <1>12, <2>1 DEF StopOrigin
    <2>2. CASE pc[c] \notin OnOrigin
      <3>1. pc' = pc
        <4>1. pc = [d \in Children |-> pc[d]]
          BY DEF TypeOK
        <4>2. QED
          BY <1>12, <2>2, <4>1 DEF StopOrigin
      <3>2. QED
        BY <1>3, <1>12, <3>1 DEF StopOrigin
    <2>3. QED
      BY <2>1, <2>2
  <1>13. ASSUME NEW f \in Files, Update(f) \/ Unlink(f)
         PROVE  Alone(c)'
    BY <1>1, <1>13, AloneUpdated
  <1>14. QED
    BY <1>5, <1>6, <1>7, <1>8, <1>9, <1>10, <1>11, <1>12, <1>13 DEF Next, Idle

\* A proxy that has one client at a time answers with whole files the origin has
\* had since the client asked, wherever it has been stopped before.
THEOREM FreshWhenAlone ==
  ASSUME NEW c, Children = {c}
  PROVE  Spec => []Fresh
  <1>1. Init => FreshInv
    <2> SUFFICES ASSUME Init PROVE Alone(c)
      BY AloneNow
    <2>1. log = <<>> /\ Len(log) = 0 /\ pc[c] = "idle"
      BY EmptySeq DEF Init
    <2>2. since[c] = 1 /\ origin[file[c]].version = 1
      BY TypeInit DEF Init, TypeOK
    <2>3. since[c] <= origin[file[c]].version
      BY <2>2
    <2>4. SoundLog(log)
      BY <2>1 DEF SoundLog
    <2>5. AloneInv(c)
      BY <2>1, <2>3 DEF AloneInv
    <2>6. FreshAt(c)
      BY <2>1 DEF FreshAt, Answered
    <2>7. QED
      BY <2>4, <2>5, <2>6 DEF Alone
  <1>2. TypeOK /\ PlaceInv /\ FreshInv /\ [Next]_vars => FreshInv'
    BY FreshStep
  <1>3. FreshInv => Fresh
    BY DEF FreshInv
  <1>4. QED
    BY <1>1, <1>2, <1>3, ProxyTypes, PTL DEF Spec

=============================================================================
