-------------------------- MODULE NameServers_proof --------------------------
(***************************************************************************)
(* Theorems about NameServers, for any clients, hosts, record files and    *)
(* scenarios.                                                              *)
(***************************************************************************)
EXTENDS NameServers, SequenceLemmas

-----------------------------------------------------------------------------
(* Record files.                                                           *)

\* The place of a record that is held.
LEMMA PlaceFinds ==
  ASSUME NEW s, NEW n, NEW l \in Nat, Len(s) = l, Holds(s, n)
  PROVE  Place(s, n) \in 1..l /\ Finds(s, Place(s, n), n)
  <1> DEFINE T == {i \in 1..l : Finds(s, i, n)}
             E(i) == i \in 1..Len(s) /\ Finds(s, i, n) /\ \A k \in 1..(i - 1) : ~Finds(s, k, n)
  <1>1. T \subseteq Nat /\ T # {}
    BY DEF Holds
  <1>2. PICK i \in T : \A k \in T : i <= k
    <2> HIDE DEF T
    <2>1. QED
      BY <1>1, LeastNumber
  <1>3. i \in 1..Len(s) /\ Finds(s, i, n) /\ \A k \in 1..(i - 1) : ~Finds(s, k, n)
    <2>1. i \in 1..l /\ Finds(s, i, n)
      OBVIOUS
    <2>2. \A k \in 1..(i - 1) : k \in 1..l /\ ~(i <= k)
      BY <2>1
    <2>3. QED
      BY <1>2, <2>1, <2>2
  <1>4. PICK p : p = Place(s, n)
    OBVIOUS
  <1>5. p \in 1..Len(s) /\ Finds(s, p, n)
    BY <1>3, <1>4 DEF Place
  <1>6. QED
    BY <1>4, <1>5

\* What fgets returns: a part of a line, or a line to its newline or to the end
\* of the file.
Cut(s, i) == splits /\ Glued(s, i)

Cutoff(x) == [x EXCEPT !.spoiled = TRUE]

\* A line of s, of length l, from i to e.
LineAt(s, l, i, e) ==
  /\ Cut(s, i) => e = i /\ i < l
  /\ ~Cut(s, i) => /\ e = l \/ s[e] = NL
                  /\ \A k \in i..(e - 1) : s[k] # NL

\* Where each token of a file is after that line has been moved.
MovedTo(s, x, l, i, e) ==
  /\ Len(x) = l
  /\ \A q \in 1..(i - 1) : x[q] = s[q]
  /\ \A q \in i..((i + l) - (e + 1)) :
       x[q] = IF Cut(s, i) /\ q = i THEN Rest ELSE s[(q + e + 1) - i]
  /\ \A q \in ((i + l) - e)..l :
       x[q] = IF Cut(s, i) THEN Cutoff(s[i]) ELSE s[(q + e) - l]

LEMMA ChunkEnds ==
  ASSUME NEW s, NEW l \in Nat, Len(s) = l, NEW i \in 1..l
  PROVE  /\ ChunkEnd(s, i) \in i..l
         /\ LineAt(s, l, i, ChunkEnd(s, i))
  <1>1. CASE Cut(s, i)
    BY <1>1 DEF ChunkEnd, Cut, Glued, LineAt
  <1>2. CASE ~Cut(s, i)
    <2> DEFINE T == {k \in i..l : s[k] = NL}
    <2>1. PICK e : e = ChunkEnd(s, i)
      OBVIOUS
    <2>2. e = IF T = {} THEN l ELSE CHOOSE k \in T : \A j \in T : k <= j
      BY <1>2, <2>1 DEF ChunkEnd, Cut
    <2>3. CASE T = {}
      BY <1>2, <2>1, <2>2, <2>3 DEF LineAt
    <2>4. CASE T # {}
      <3>1. T \subseteq Nat
        OBVIOUS
      <3>2. e \in T /\ \A j \in T : e <= j
        <4> HIDE DEF T
        <4>1. PICK x \in T : \A y \in T : x <= y
          BY <2>4, <3>1, LeastNumber
        <4>2. QED
          BY <2>2, <2>4, <4>1
      <3>3. e \in i..l /\ s[e] = NL
        BY <3>2
      <3>4. \A k \in i..(e - 1) : k \in i..l /\ ~(e <= k)
        BY <3>3
      <3>5. \A k \in i..(e - 1) : s[k] # NL
        BY <3>2, <3>4
      <3>6. QED
        BY <1>2, <2>1, <3>3, <3>5 DEF LineAt
    <2>5. QED
      BY <2>3, <2>4
  <1>3. QED
    BY <1>1, <1>2

\* A part of a sequence.
LEMMA PartOf ==
  ASSUME NEW S, NEW s, NEW m \in Int, NEW n \in Int, \A k \in m..n : s[k] \in S,
         NEW z, z = SubSeq(s, m, n)
  PROVE  /\ z \in Seq(S)
         /\ Len(z) = IF m <= n THEN n - m + 1 ELSE 0
         /\ \A q \in 1..(n - m + 1) : z[q] = s[m + q - 1]
  BY SubSeqProperties

LEMMA MovedIs ==
  ASSUME NEW S, NEW s \in Seq(S), NEW l \in Nat, Len(s) = l, NEW i \in 1..l,
         NEW e \in i..l, e = ChunkEnd(s, i), Cut(s, i) => e = i /\ i < l,
         Rest \in S, Cutoff(s[i]) \in S
  PROVE  Moved(s, i) \in Seq(S) /\ MovedTo(s, Moved(s, i), l, i, e)
  <1> DEFINE b == SubSeq(s, 1, i - 1)
             a == IF Cut(s, i) THEN <<Rest>> \o SubSeq(s, e + 2, Len(s)) ELSE SubSeq(s, e + 1, Len(s))
             x == IF Cut(s, i) THEN <<Cutoff(s[i])>> ELSE SubSeq(s, i, e)
  <1>1. Moved(s, i) = (b \o a) \o x
    BY DEF Moved, Cut, Cutoff
  <1>2. \A k \in 1..l : s[k] \in S
    BY ElementOfSeq
  <1>3. /\ b \in Seq(S) /\ Len(b) = i - 1
        /\ \A q \in 1..(i - 1) : b[q] = s[q]
    <2>1. \A k \in 1..(i - 1) : s[k] \in S
      BY <1>2
    <2>2. 1 \in Int /\ i - 1 \in Int
      OBVIOUS
    <2>3. /\ SubSeq(s, 1, i - 1) \in Seq(S)
          /\ Len(SubSeq(s, 1, i - 1)) = IF 1 <= i - 1 THEN (i - 1) - 1 + 1 ELSE 0
          /\ \A q \in 1..((i - 1) - 1 + 1) : SubSeq(s, 1, i - 1)[q] = s[1 + q - 1]
      BY <2>1, <2>2, SubSeqProperties
    <2>4. (IF 1 <= i - 1 THEN (i - 1) - 1 + 1 ELSE 0) = i - 1
      OBVIOUS
    <2>5. \A q \in 1..(i - 1) : q \in 1..((i - 1) - 1 + 1) /\ 1 + q - 1 = q
      OBVIOUS
    <2>6. QED
      BY <2>3, <2>4, <2>5
  <1>4. /\ a \in Seq(S) /\ Len(a) = l - e
        /\ \A q \in 1..(l - e) : a[q] = IF Cut(s, i) /\ q = 1 THEN Rest ELSE s[e + q]
    <2>1. CASE Cut(s, i)
      <3>1. PICK z : z = SubSeq(s, e + 2, l)
        OBVIOUS
      <3>2. \A k \in (e + 2)..l : s[k] \in S
        BY <1>2
      <3>3. e + 2 \in Int /\ l \in Int
        OBVIOUS
      <3>4. /\ z \in Seq(S)
            /\ Len(z) = IF e + 2 <= l THEN l - (e + 2) + 1 ELSE 0
            /\ \A q \in 1..(l - (e + 2) + 1) : z[q] = s[e + 2 + q - 1]
        <4>1. PICK m \in Int : m = e + 2
          BY <3>3
        <4>2. \A k \in m..l : s[k] \in S
          BY <3>2, <4>1
        <4>3. z = SubSeq(s, m, l)
          BY <3>1, <4>1
        <4>4. /\ z \in Seq(S)
              /\ Len(z) = IF m <= l THEN l - m + 1 ELSE 0
              /\ \A q \in 1..(l - m + 1) : z[q] = s[m + q - 1]
          BY <3>3, <4>2, <4>3, PartOf
        <4>5. QED
          BY <4>1, <4>4
      <3>5. Len(z) = l - (e + 1)
        BY <2>1, <3>4
      <3>6. <<Rest>> \in Seq(S) /\ Len(<<Rest>>) = 1 /\ <<Rest>>[1] = Rest
        OBVIOUS
      <3>7. PICK y : y = <<Rest>>
        OBVIOUS
      <3>8. y \in Seq(S) /\ Len(y) = 1 /\ y[1] = Rest
        BY <3>6, <3>7
      <3>9. a = y \o z
        BY <2>1, <3>1, <3>7
      <3>10. /\ y \o z \in Seq(S) /\ Len(y \o z) = Len(y) + Len(z)
             /\ \A q \in 1..(Len(y) + Len(z)) : (y \o z)[q] = IF q <= Len(y) THEN y[q] ELSE z[q - Len(y)]
        BY <3>4, <3>8, ConcatProperties
      <3>11. PICK n \in Nat : n = Len(z) /\ n = l - (e + 1)
        BY <3>4, <3>5, LenProperties
      <3>12. 1 + n = l - e
        BY <3>11
      <3>13. ASSUME NEW q \in 1..(l - e) PROVE a[q] = IF q = 1 THEN Rest ELSE s[e + q]
        <4>1. q \in 1..(1 + n)
          BY <3>12
        <4>2. a[q] = IF q <= 1 THEN y[q] ELSE z[q - 1]
          BY <3>8, <3>9, <3>10, <3>11, <4>1
        <4>3. CASE q = 1
          BY <3>8, <4>2, <4>3
        <4>4. CASE q # 1
          <5>1. q - 1 \in 1..(l - (e + 2) + 1) /\ e + 2 + (q - 1) - 1 = e + q /\ ~(q <= 1)
            BY <4>4
          <5>2. z[q - 1] = s[e + q]
            BY <3>4, <5>1
          <5>3. QED
            BY <4>2, <4>4, <5>1, <5>2
        <4>5. QED
          BY <4>3, <4>4
      <3>14. a \in Seq(S) /\ Len(a) = l - e
        BY <3>8, <3>9, <3>10, <3>11, <3>12
      <3> HIDE DEF a
      <3>15. QED
        BY <2>1, <3>13, <3>14
    <2>2. CASE ~Cut(s, i)
      <3>1. PICK z : z = SubSeq(s, e + 1, l)
        OBVIOUS
      <3>2. \A k \in (e + 1)..l : s[k] \in S
        BY <1>2
      <3>3. e + 1 \in Int /\ l \in Int
        OBVIOUS
      <3>4. /\ z \in Seq(S)
            /\ Len(z) = IF e + 1 <= l THEN l - (e + 1) + 1 ELSE 0
            /\ \A q \in 1..(l - (e + 1) + 1) : z[q] = s[e + 1 + q - 1]
        <4>1. PICK m \in Int : m = e + 1
          BY <3>3
        <4>2. \A k \in m..l : s[k] \in S
          BY <3>2, <4>1
        <4>3. z = SubSeq(s, m, l)
          BY <3>1, <4>1
        <4>4. /\ z \in Seq(S)
              /\ Len(z) = IF m <= l THEN l - m + 1 ELSE 0
              /\ \A q \in 1..(l - m + 1) : z[q] = s[m + q - 1]
          BY <3>3, <4>2, <4>3, PartOf
        <4>5. QED
          BY <4>1, <4>4
      <3>5. Len(z) = l - e
        BY <3>4
      <3>6. a = z
        BY <2>2, <3>1
      <3>7. \A q \in 1..(l - e) : q \in 1..(l - (e + 1) + 1) /\ e + 1 + q - 1 = e + q
        OBVIOUS
      <3>8. \A q \in 1..(l - e) : z[q] = s[e + q]
        BY <3>4, <3>7
      <3> HIDE DEF a
      <3>9. QED
        BY <2>2, <3>4, <3>5, <3>6, <3>8
    <2>3. QED
      BY <2>1, <2>2
  <1>5. /\ x \in Seq(S) /\ Len(x) = (e + 1) - i
        /\ \A q \in 1..((e + 1) - i) : x[q] = IF Cut(s, i) THEN Cutoff(s[i]) ELSE s[(q + i) - 1]
    <2>1. CASE Cut(s, i)
      <3>1. <<Cutoff(s[i])>> \in Seq(S) /\ Len(<<Cutoff(s[i])>>) = 1
            /\ <<Cutoff(s[i])>>[1] = Cutoff(s[i])
        OBVIOUS
      <3>2. (e + 1) - i = 1 /\ \A q \in 1..((e + 1) - i) : q = 1
        BY <2>1
      <3>3. x = <<Cutoff(s[i])>>
        BY <2>1
      <3> HIDE DEF x
      <3>4. QED
        BY <2>1, <3>1, <3>2, <3>3
    <2>2. CASE ~Cut(s, i)
      <3>1. PICK z : z = SubSeq(s, i, e)
        OBVIOUS
      <3>2. \A k \in i..e : s[k] \in S
        BY <1>2
      <3>3. i \in Int /\ e \in Int
        OBVIOUS
      <3>4. /\ z \in Seq(S)
            /\ Len(z) = IF i <= e THEN e - i + 1 ELSE 0
            /\ \A q \in 1..(e - i + 1) : z[q] = s[i + q - 1]
        BY <3>1, <3>2, <3>3, SubSeqProperties
      <3>5. Len(z) = (e + 1) - i
        BY <3>4
      <3>6. x = z
        BY <2>2, <3>1
      <3>7. \A q \in 1..((e + 1) - i) : q \in 1..(e - i + 1) /\ i + q - 1 = (q + i) - 1
        OBVIOUS
      <3>8. \A q \in 1..((e + 1) - i) : z[q] = s[(q + i) - 1]
        BY <3>4, <3>7
      <3> HIDE DEF x
      <3>9. QED
        BY <2>2, <3>4, <3>5, <3>6, <3>8
    <2>3. QED
      BY <2>1, <2>2
  <1> HIDE DEF a, b, x
  <1>6. PICK y : y = b \o a
    OBVIOUS
  <1>7. /\ y \in Seq(S) /\ Len(y) = (i + l) - (e + 1)
        /\ \A q \in 1..((i + l) - (e + 1)) : y[q] = IF q <= i - 1 THEN b[q] ELSE a[q - (i - 1)]
    <2>1. /\ y \in Seq(S) /\ Len(y) = Len(b) + Len(a)
          /\ \A q \in 1..(Len(b) + Len(a)) : y[q] = IF q <= Len(b) THEN b[q] ELSE a[q - Len(b)]
      BY <1>3, <1>4, <1>6, ConcatProperties
    <2>2. (i - 1) + (l - e) = (i + l) - (e + 1)
      OBVIOUS
    <2>3. QED
      BY <1>3, <1>4, <2>1, <2>2
  <1>8. PICK m : m = y \o x
    OBVIOUS
  <1>9. /\ m \in Seq(S) /\ Len(m) = l
        /\ \A q \in 1..l : m[q] = IF q <= (i + l) - (e + 1) THEN y[q] ELSE x[q - ((i + l) - (e + 1))]
    <2>1. /\ m \in Seq(S) /\ Len(m) = Len(y) + Len(x)
          /\ \A q \in 1..(Len(y) + Len(x)) : m[q] = IF q <= Len(y) THEN y[q] ELSE x[q - Len(y)]
      BY <1>5, <1>7, <1>8, ConcatProperties
    <2>2. ((i + l) - (e + 1)) + ((e + 1) - i) = l
      OBVIOUS
    <2>3. QED
      BY <1>5, <1>7, <2>1, <2>2
  <1>10. m = Moved(s, i)
    BY <1>1, <1>6, <1>8
  <1>11. ASSUME NEW q \in 1..(i - 1) PROVE m[q] = s[q]
    <2>1. q \in 1..l /\ q \in 1..((i + l) - (e + 1)) /\ q <= (i + l) - (e + 1) /\ q <= i - 1
      OBVIOUS
    <2>2. m[q] = y[q] /\ y[q] = b[q] /\ b[q] = s[q]
      BY <1>3, <1>7, <1>9, <2>1
    <2>3. QED
      BY <2>2
  <1>12. ASSUME NEW q \in i..((i + l) - (e + 1))
         PROVE  m[q] = IF Cut(s, i) /\ q = i THEN Rest ELSE s[(q + e + 1) - i]
    <2>1. /\ q \in 1..l /\ q \in 1..((i + l) - (e + 1)) /\ q <= (i + l) - (e + 1) /\ ~(q <= i - 1)
          /\ q - (i - 1) \in 1..(l - e) /\ e + (q - (i - 1)) = (q + e + 1) - i
          /\ (q - (i - 1) = 1 <=> q = i)
      OBVIOUS
    <2>2. m[q] = y[q] /\ y[q] = a[q - (i - 1)]
      BY <1>7, <1>9, <2>1
    <2>3. a[q - (i - 1)] = IF Cut(s, i) /\ q - (i - 1) = 1 THEN Rest ELSE s[e + (q - (i - 1))]
      BY <1>4, <2>1
    <2>4. QED
      BY <2>1, <2>2, <2>3
  <1>13. ASSUME NEW q \in ((i + l) - e)..l
         PROVE  m[q] = IF Cut(s, i) THEN Cutoff(s[i]) ELSE s[(q + e) - l]
    <2>1. /\ q \in 1..l /\ ~(q <= (i + l) - (e + 1))
          /\ q - ((i + l) - (e + 1)) \in 1..((e + 1) - i)
          /\ ((q - ((i + l) - (e + 1))) + i) - 1 = (q + e) - l
      OBVIOUS
    <2>2. m[q] = x[q - ((i + l) - (e + 1))]
      BY <1>9, <2>1
    <2>3. QED
      BY <1>5, <2>1, <2>2
  <1>14. QED
    BY <1>9, <1>10, <1>11, <1>12, <1>13 DEF MovedTo

LEMMA TokenKinds ==
  ASSUME NEW N, NEW x \in Tokens(N)
  PROVE  /\ NL \in Tokens(N) /\ Rest \in Tokens(N) /\ NL # Rest
         /\ NL.kind # "record" /\ Rest.kind # "record"
         /\ x.kind = "record" =>
              /\ x # NL /\ x # Rest /\ x.name \in N /\ x.spoiled \in BOOLEAN
              /\ Cutoff(x) \in Tokens(N) /\ Cutoff(x).kind = "record" /\ Cutoff(x).name = x.name
  <1>1. NL.kind = "newline" /\ Rest.kind = "rest"
    BY DEF NL, Rest
  <1>2. NL \in Tokens(N) /\ Rest \in Tokens(N)
    BY DEF Tokens
  <1>3. ASSUME x.kind = "record"
        PROVE  /\ x # NL /\ x # Rest /\ x.name \in N /\ x.spoiled \in BOOLEAN
               /\ Cutoff(x) \in Tokens(N) /\ Cutoff(x).kind = "record" /\ Cutoff(x).name = x.name
    <2>1. x # NL /\ x # Rest
      BY <1>1, <1>3
    <2>2. x \in [kind : {"record"}, name : N, spoiled : BOOLEAN]
      BY <2>1 DEF Tokens
    <2>3. Cutoff(x) \in [kind : {"record"}, name : N, spoiled : BOOLEAN] /\ Cutoff(x).name = x.name
      BY <2>2 DEF Cutoff
    <2>4. QED
      BY <2>1, <2>2, <2>3 DEF Tokens
  <1>4. QED
    BY <1>1, <1>2, <1>3

\* The line that is moved, in a file of a server.
LEMMA LineOf ==
  ASSUME NEW N, NEW s \in Seq(Tokens(N)), NEW l \in Nat, Len(s) = l, NEW n, Holds(s, n)
  PROVE  \E i \in 1..l : \E e \in i..l :
           /\ i = Place(s, n) /\ e = ChunkEnd(s, i)
           /\ Finds(s, i, n) /\ s[i] \in Tokens(N) /\ LineAt(s, l, i, e)
           /\ Moved(s, Place(s, n)) \in Seq(Tokens(N))
           /\ MovedTo(s, Moved(s, Place(s, n)), l, i, e)
  <1>1. PICK i \in 1..l : i = Place(s, n) /\ Finds(s, i, n)
    BY PlaceFinds
  <1>2. PICK e \in i..l : e = ChunkEnd(s, i)
    BY ChunkEnds
  <1>3. LineAt(s, l, i, e)
    BY <1>2, ChunkEnds
  <1>4. s[i] \in Tokens(N) /\ s[i].kind = "record"
    BY <1>1, ElementOfSeq DEF Finds
  <1>5. Cutoff(s[i]) \in Tokens(N) /\ Rest \in Tokens(N)
    BY <1>4, TokenKinds
  <1>6. Cut(s, i) => e = i /\ i < l
    BY <1>3 DEF LineAt
  <1>7. Moved(s, i) \in Seq(Tokens(N)) /\ MovedTo(s, Moved(s, i), l, i, e)
    BY <1>2, <1>5, <1>6, MovedIs
  <1>8. QED
    BY <1>1, <1>2, <1>3, <1>4, <1>7

\* A move adds no record: what begins a line has begun one before.
LEMMA MovedAddsNothing ==
  ASSUME NEW N, NEW s \in Seq(Tokens(N)), NEW n, Holds(s, n),
         NEW m, Holds(Moved(s, Place(s, n)), m)
  PROVE  Holds(s, m)
  <1>1. PICK l \in Nat : l = Len(s)
    BY LenProperties
  <1>0. PICK x : x = Moved(s, Place(s, n))
    OBVIOUS
  <1>10. PICK i \in 1..l : \E e \in i..l :
           /\ Finds(s, i, n) /\ s[i] \in Tokens(N) /\ LineAt(s, l, i, e)
           /\ x \in Seq(Tokens(N)) /\ MovedTo(s, x, l, i, e)
    BY <1>0, <1>1, LineOf
  <1>11. PICK e \in i..l :
           /\ Finds(s, i, n) /\ s[i] \in Tokens(N) /\ LineAt(s, l, i, e)
           /\ x \in Seq(Tokens(N)) /\ MovedTo(s, x, l, i, e)
    BY <1>10
  <1>2. /\ Finds(s, i, n) /\ s[i] \in Tokens(N)
        /\ Cut(s, i) => e = i /\ i < l
        /\ ~Cut(s, i) => e = l \/ s[e] = NL
        /\ ~Cut(s, i) => \A k \in i..(e - 1) : s[k] # NL
        /\ x \in Seq(Tokens(N)) /\ Len(x) = l
        /\ \A q \in 1..(i - 1) : x[q] = s[q]
        /\ \A q \in i..((i + l) - (e + 1)) :
             x[q] = IF Cut(s, i) /\ q = i THEN Rest ELSE s[(q + e + 1) - i]
        /\ \A q \in ((i + l) - e)..l :
             x[q] = IF Cut(s, i) THEN Cutoff(s[i]) ELSE s[(q + e) - l]
    BY <1>11 DEF LineAt, MovedTo
  <1>3. PICK q \in 1..l : Finds(x, q, m)
    BY <1>0, <1>2 DEF Holds
  <1>4. x[q].kind = "record" /\ x[q].name = m /\ (q = 1 \/ (q > 1 /\ x[q - 1] = NL))
    BY <1>3 DEF Finds, LineBegins
  <1>5. SUFFICES \E p \in 1..l : Finds(s, p, m)
    BY <1>1 DEF Holds
  <1>6. CASE q \in 1..(i - 1)
    <2>1. x[q] = s[q] /\ (q > 1 => q - 1 \in 1..(i - 1) /\ x[q - 1] = s[q - 1])
      BY <1>2, <1>6
    <2>2. QED
      BY <1>4, <2>1 DEF Finds, LineBegins
  <1>7. CASE q \in i..((i + l) - (e + 1))
    <2>1. ~(Cut(s, i) /\ q = i)
      <3>1. Cut(s, i) /\ q = i => x[q] = Rest
        BY <1>2, <1>7
      <3>2. QED
        BY <1>2, <1>4, <3>1, TokenKinds
    <2>2. PICK p \in 1..l : p = (q + e + 1) - i /\ p > 1 /\ p - 1 = (q + e) - i
      BY <1>7
    <2>3. x[q] = s[p]
      BY <1>2, <1>7, <2>1, <2>2
    <2>4. s[p - 1] = NL
      <3>1. CASE q = i
        <4>1. p - 1 = e /\ e < l
          BY <1>7, <2>2, <3>1
        <4>2. ~Cut(s, i)
          BY <2>1, <3>1
        <4>3. QED
          BY <1>2, <4>1, <4>2
      <3>2. CASE q # i
        <4>1. q - 1 \in i..((i + l) - (e + 1)) /\ ((q - 1) + e + 1) - i = p - 1 /\ q # 1
          BY <1>7, <2>2, <3>2
        <4>2. x[q - 1] = NL
          BY <1>4, <4>1
        <4>3. ~(Cut(s, i) /\ q - 1 = i)
          <5>1. Cut(s, i) /\ q - 1 = i => x[q - 1] = Rest
            BY <1>2, <4>1
          <5>2. QED
            BY <1>2, <4>2, <5>1, TokenKinds
        <4>4. QED
          BY <1>2, <4>1, <4>2, <4>3
      <3>3. QED
        BY <3>1, <3>2
    <2>5. QED
      BY <1>4, <2>2, <2>3, <2>4 DEF Finds, LineBegins
  <1>8. CASE q \in ((i + l) - e)..l
    <2>1. x[q] = IF Cut(s, i) THEN Cutoff(s[i]) ELSE s[(q + e) - l]
      BY <1>2, <1>8
    <2>2. s[i].kind = "record" /\ s[i].name = n
      BY <1>2 DEF Finds
    <2>3. m = n
      <3>1. CASE Cut(s, i)
        BY <1>2, <1>4, <2>1, <2>2, <3>1, TokenKinds
      <3>2. CASE ~Cut(s, i) /\ q = (i + l) - e
        <4>1. (q + e) - l = i
          BY <3>2
        <4>2. QED
          BY <1>4, <2>1, <2>2, <3>2, <4>1
      <3>3. CASE ~Cut(s, i) /\ q # (i + l) - e
        <4>1. /\ q - 1 \in ((i + l) - e)..l /\ q # 1
              /\ ((q - 1) + e) - l \in i..(e - 1)
          BY <1>8, <3>3
        <4>2. x[q - 1] = s[((q - 1) + e) - l]
          BY <1>2, <3>3, <4>1
        <4>3. s[((q - 1) + e) - l] # NL
          BY <1>2, <3>3, <4>1
        <4>4. QED
          BY <1>4, <4>1, <4>2, <4>3
      <3>4. QED
        BY <3>1, <3>2, <3>3
    <2>4. QED
      BY <1>2, <2>3
  <1>9. QED
    <2>1. \/ q \in 1..(i - 1) \/ q \in i..((i + l) - (e + 1)) \/ q \in ((i + l) - e)..l
      OBVIOUS
    <2>2. QED
      BY <1>6, <1>7, <1>8, <2>1

\* A file with a record on each line and a newline at its end: a line is a
\* record and its newline.
LEMMA WholeLine ==
  ASSUME NEW N, NEW s \in Seq(Tokens(N)), NEW l \in Nat, Len(s) = l,
         WellFormed(s), Ends(s), NEW i \in 1..l, s[i].kind = "record"
  PROVE  i < l /\ s[i + 1] = NL /\ s[i] = Record(s[i].name) /\ ~Glued(s, i)
  <1>1. s[i] # NL
    BY ElementOfSeq, TokenKinds
  <1>2. s[l] = NL
    BY DEF Ends, Last
  <1>3. i # l /\ i < l
    BY <1>1, <1>2
  <1>4. s[i] = Record(s[i].name) /\ s[i + 1] = NL
    BY <1>1, <1>3 DEF WellFormed
  <1>5. QED
    BY <1>3, <1>4 DEF Glued

LineMoved(s, x, l, i) ==
  /\ Len(x) = l
  /\ \A q \in 1..(i - 1) : x[q] = s[q]
  /\ \A q \in i..(l - 2) : x[q] = s[q + 2]
  /\ x[l - 1] = s[i] /\ x[l] = NL

LEMMA WholeMove ==
  ASSUME NEW N, NEW s \in Seq(Tokens(N)), NEW l \in Nat, Len(s) = l,
         WellFormed(s), Ends(s), NEW n, Holds(s, n)
  PROVE  \E i \in 1..(l - 1) :
           /\ i = Place(s, n) /\ ChunkEnd(s, i) = i + 1
           /\ Finds(s, i, n) /\ s[i].kind = "record" /\ s[i + 1] = NL
           /\ Moved(s, Place(s, n)) \in Seq(Tokens(N))
           /\ LineMoved(s, Moved(s, Place(s, n)), l, i)
  <1>0. PICK x : x = Moved(s, Place(s, n))
    OBVIOUS
  <1>1. PICK i \in 1..l : \E e \in i..l :
           /\ i = Place(s, n) /\ e = ChunkEnd(s, i)
           /\ Finds(s, i, n) /\ s[i] \in Tokens(N) /\ LineAt(s, l, i, e)
           /\ x \in Seq(Tokens(N)) /\ MovedTo(s, x, l, i, e)
    BY <1>0, LineOf
  <1>2. PICK e \in i..l :
           /\ i = Place(s, n) /\ e = ChunkEnd(s, i)
           /\ Finds(s, i, n) /\ s[i] \in Tokens(N) /\ LineAt(s, l, i, e)
           /\ x \in Seq(Tokens(N)) /\ MovedTo(s, x, l, i, e)
    BY <1>1
  <1>3. s[i].kind = "record"
    BY <1>2 DEF Finds
  <1>4. i < l /\ s[i + 1] = NL /\ ~Glued(s, i)
    BY <1>3, WholeLine
  <1>5. ~Cut(s, i)
    BY <1>4 DEF Cut
  <1>6. e = i + 1
    <2>1. s[i] # NL
      BY <1>2, <1>3, TokenKinds
    <2>2. e # i
      BY <1>2, <1>4, <1>5, <2>1 DEF LineAt
    <2>3. e > i + 1 => i + 1 \in i..(e - 1)
      OBVIOUS
    <2>4. ~(e > i + 1)
      BY <1>2, <1>4, <1>5, <2>3 DEF LineAt
    <2>5. QED
      BY <2>2, <2>4
  <1>7. \A q \in 1..(i - 1) : x[q] = s[q]
    BY <1>2 DEF MovedTo
  <1>8. ASSUME NEW q \in i..(l - 2) PROVE x[q] = s[q + 2]
    <2>1. q \in i..((i + l) - (e + 1)) /\ (q + e + 1) - i = q + 2
      BY <1>6
    <2>2. x[q] = s[(q + e + 1) - i]
      BY <1>2, <1>5, <2>1 DEF MovedTo
    <2>3. QED
      BY <2>1, <2>2
  <1>9. x[l - 1] = s[i] /\ x[l] = NL
    <2>1. /\ l - 1 \in ((i + l) - e)..l /\ ((l - 1) + e) - l = i
          /\ l \in ((i + l) - e)..l /\ (l + e) - l = i + 1
      BY <1>6
    <2>2. x[l - 1] = s[((l - 1) + e) - l] /\ x[l] = s[(l + e) - l]
      BY <1>2, <1>5, <2>1 DEF MovedTo
    <2>3. QED
      BY <1>4, <2>1, <2>2
  <1>10. i \in 1..(l - 1) /\ Len(x) = l
    BY <1>2, <1>4 DEF MovedTo
  <1>11. LineMoved(s, x, l, i)
    BY <1>7, <1>8, <1>9, <1>10 DEF LineMoved
  <1>12. QED
    BY <1>0, <1>2, <1>3, <1>4, <1>6, <1>10, <1>11

\* It keeps its form and its lines when one of them is moved.
LEMMA MovedKeepsLines ==
  ASSUME NEW N, NEW s \in Seq(Tokens(N)), WellFormed(s), Ends(s), NEW n, Holds(s, n)
  PROVE  /\ WellFormed(Moved(s, Place(s, n))) /\ Ends(Moved(s, Place(s, n)))
         /\ \A m : Holds(s, m) => Holds(Moved(s, Place(s, n)), m)
  <1>1. PICK l \in Nat : l = Len(s)
    BY LenProperties
  <1>2. PICK x : x = Moved(s, Place(s, n))
    OBVIOUS
  <1>11. PICK i \in 1..(l - 1) :
           /\ Finds(s, i, n) /\ s[i].kind = "record" /\ s[i + 1] = NL
           /\ x \in Seq(Tokens(N)) /\ LineMoved(s, x, l, i)
    BY <1>1, <1>2, WholeMove
  <1>3. /\ Finds(s, i, n) /\ s[i].kind = "record" /\ s[i + 1] = NL
        /\ x \in Seq(Tokens(N)) /\ Len(x) = l
        /\ \A q \in 1..(i - 1) : x[q] = s[q]
        /\ \A q \in i..(l - 2) : x[q] = s[q + 2]
        /\ x[l - 1] = s[i] /\ x[l] = NL
    BY <1>11 DEF LineMoved
  <1>4. i - 1 \in 1..l => s[i - 1] = NL
    BY <1>3 DEF Finds, LineBegins
  <1>5. s[l] = NL
    BY <1>1 DEF Ends, Last
  <1>6. ASSUME NEW q \in 1..l
        PROVE  x[q] = NL \/ (x[q] = Record(x[q].name) /\ (q = l \/ x[q + 1] = NL))
    <2>1. CASE q \in 1..(i - 1)
      <3>1. CASE q = i - 1
        BY <1>3, <1>4, <2>1, <3>1
      <3>2. CASE q # i - 1
        <4>1. q + 1 \in 1..(i - 1) /\ q \in 1..Len(s) /\ q # Len(s)
          BY <1>1, <2>1, <3>2
        <4>2. x[q] = s[q] /\ x[q + 1] = s[q + 1]
          BY <1>3, <2>1, <4>1
        <4>3. s[q] = NL \/ (s[q] = Record(s[q].name) /\ s[q + 1] = NL)
          BY <4>1 DEF WellFormed
        <4>4. QED
          BY <4>2, <4>3
      <3>3. QED
        BY <3>1, <3>2
    <2>2. CASE q \in i..(l - 2)
      <3>1. q + 2 \in 1..Len(s) /\ x[q] = s[q + 2]
        BY <1>1, <1>3, <2>2
      <3>2. CASE q = l - 2
        BY <1>5, <3>1, <3>2
      <3>3. CASE q # l - 2
        <4>1. q + 1 \in i..(l - 2) /\ (q + 1) + 2 = (q + 2) + 1 /\ q + 2 # Len(s)
          BY <1>1, <2>2, <3>3
        <4>2. x[q + 1] = s[(q + 2) + 1]
          BY <1>3, <4>1
        <4>3. s[q + 2] = NL \/ (s[q + 2] = Record(s[q + 2].name) /\ s[(q + 2) + 1] = NL)
          BY <3>1, <4>1 DEF WellFormed
        <4>4. QED
          BY <3>1, <4>2, <4>3
      <3>4. QED
        BY <3>2, <3>3
    <2>3. CASE q = l - 1
      <3>1. i \in 1..l /\ s[i] = Record(s[i].name)
        <4>1. i \in 1..l
          OBVIOUS
        <4>2. QED
          BY <1>1, <1>3, <4>1, WholeLine
      <3>2. x[q] = s[i] /\ x[q + 1] = NL
        BY <1>3, <2>3
      <3>3. QED
        BY <3>1, <3>2
    <2>4. CASE q = l
      BY <1>3, <2>4
    <2>5. QED
      BY <2>1, <2>2, <2>3, <2>4
  <1>7. WellFormed(x)
    BY <1>3, <1>6 DEF WellFormed
  <1>8. Ends(x)
    <2>1. x # <<>>
      BY <1>3, EmptySeq
    <2>2. QED
      BY <1>3, <2>1 DEF Ends, Last
  <1>9. ASSUME NEW m, Holds(s, m) PROVE Holds(x, m)
    <2>1. PICK p \in 1..l : Finds(s, p, m)
      BY <1>1, <1>9 DEF Holds
    <2>2. s[p].kind = "record" /\ s[p].name = m /\ (p = 1 \/ (p > 1 /\ s[p - 1] = NL)) /\ s[p] # NL
      <3>1. s[p].kind = "record" /\ s[p] \in Tokens(N)
        BY <1>1, <2>1, ElementOfSeq DEF Finds
      <3>2. s[p] # NL
        BY <3>1, TokenKinds
      <3>3. QED
        BY <2>1, <3>2 DEF Finds, LineBegins
    <2>3. SUFFICES \E q \in 1..l : Finds(x, q, m)
      BY <1>3 DEF Holds
    <2>4. CASE p < i
      <3>1. p \in 1..(i - 1) /\ (p > 1 => p - 1 \in 1..(i - 1))
        BY <2>4
      <3>2. x[p] = s[p] /\ (p > 1 => x[p - 1] = s[p - 1])
        BY <1>3, <3>1
      <3>3. QED
        BY <2>2, <3>2 DEF Finds, LineBegins
    <2>5. CASE p = i
      <3>1. l - 1 \in 1..l /\ x[l - 1] = s[p]
        BY <1>3, <2>5
      <3>2. LineBegins(x, l - 1)
        <4>1. CASE i = 1 /\ l = 2
          BY <4>1 DEF LineBegins
        <4>2. CASE i = l - 1 /\ i # 1
          <5>1. l - 2 \in 1..(i - 1) /\ l - 2 = p - 1 /\ l - 1 > 1 /\ (l - 1) - 1 = l - 2 /\ p # 1
            BY <2>5, <4>2
          <5>2. x[l - 2] = NL
            BY <1>3, <2>2, <5>1
          <5>3. QED
            BY <5>1, <5>2 DEF LineBegins
        <4>3. CASE i < l - 1
          <5>1. l - 2 \in i..(l - 2) /\ (l - 2) + 2 = l /\ l - 1 > 1 /\ (l - 1) - 1 = l - 2
            BY <4>3
          <5>2. x[l - 2] = NL
            BY <1>3, <1>5, <5>1
          <5>3. QED
            BY <5>1, <5>2 DEF LineBegins
        <4>4. QED
          BY <4>1, <4>2, <4>3
      <3>3. QED
        BY <2>2, <3>1, <3>2 DEF Finds
    <2>6. CASE p > i
      <3>1. p # i + 1
        BY <1>3, <2>2
      <3>2. PICK q \in i..(l - 2) : q + 2 = p /\ q = p - 2
        BY <2>6, <3>1
      <3>3. x[q] = s[p] /\ q \in 1..l
        BY <1>3, <3>2
      <3>4. LineBegins(x, q)
        <4>1. CASE q = i
          <5>1. i = 1 \/ (i > 1 /\ i - 1 \in 1..(i - 1) /\ i - 1 \in 1..l)
            OBVIOUS
          <5>2. i > 1 => x[i - 1] = NL
            BY <1>3, <1>4, <5>1
          <5>3. QED
            BY <4>1, <5>1, <5>2 DEF LineBegins
        <4>2. CASE q # i
          <5>1. q - 1 \in i..(l - 2) /\ (q - 1) + 2 = p - 1 /\ q > 1 /\ p # 1
            BY <3>2, <4>2
          <5>2. x[q - 1] = NL
            BY <1>3, <2>2, <5>1
          <5>3. QED
            BY <5>1, <5>2 DEF LineBegins
        <4>3. QED
          BY <4>1, <4>2
      <3>5. QED
        BY <2>2, <3>3, <3>4 DEF Finds
    <2>7. QED
      BY <2>4, <2>5, <2>6
  <1>10. QED
    BY <1>2, <1>7, <1>8, <1>9

\* What the authoritative server takes from a line.
Taken == {Spoiled} \cup UNION {{Address(h, n) : n \in 0..(Addresses[h] - 1)} : h \in Hosts}

LEMMA TakenAre ==
  /\ Taken \subseteq Answers /\ NotFound \notin Taken
  /\ NotFound \in Answers /\ Referral \in Answers /\ Referral # NotFound
  <1>1. Spoiled.kind = "spoiled" /\ NotFound.kind = "404" /\ Referral.kind = "referral"
    BY DEF Spoiled, NotFound, Referral
  <1>2. \A h, n : Address(h, n).kind = "address"
    BY DEF Address
  <1>3. NotFound \notin Taken
    <2>1. ASSUME NotFound \in Taken PROVE FALSE
      <3>1. NotFound = Spoiled \/ \E h \in Hosts : \E n \in 0..(Addresses[h] - 1) : NotFound = Address(h, n)
        BY <2>1 DEF Taken
      <3>2. QED
        BY <1>1, <1>2, <3>1
    <2>2. QED
      BY <2>1
  <1>4. Taken \subseteq Answers /\ NotFound \in Answers /\ Referral \in Answers
    BY DEF Taken, Answers
  <1>5. QED
    BY <1>1, <1>3, <1>4

LEMMA AddressesAre ==
  ASSUME NEW s, NEW i, s[i].name \in Hosts
  PROVE  /\ AddressesAt(s, i) \in Seq(Taken)
         /\ Len(AddressesAt(s, i)) = Addresses[s[i].name]
         /\ ~Glued(s, i) /\ ~s[i].spoiled =>
              \A k \in 1..Addresses[s[i].name] : AddressesAt(s, i)[k] = Address(s[i].name, k - 1)
  <1>1. PICK h \in Hosts : h = s[i].name
    OBVIOUS
  <1>2. PICK n \in Nat \ {0} : n = Addresses[h]
    BY ConstantsAssumption
  <1>3. PICK a : a = [k \in 1..n |-> IF k = n /\ (Glued(s, i) \/ s[i].spoiled) THEN Spoiled
                                     ELSE Address(h, k - 1)]
    OBVIOUS
  <1>4. a = AddressesAt(s, i)
    BY <1>1, <1>2, <1>3 DEF AddressesAt
  <1>5. ASSUME NEW k \in 1..n PROVE Spoiled \in Taken /\ Address(h, k - 1) \in Taken
    <2>1. k - 1 \in 0..(Addresses[h] - 1)
      BY <1>2
    <2>2. QED
      BY <2>1 DEF Taken
  <1>6. a \in [1..n -> Taken]
    BY <1>3, <1>5
  <1>7. a \in Seq(Taken) /\ Len(a) = n
    BY <1>6, TableIsSeq
  <1>8. ~Glued(s, i) /\ ~s[i].spoiled => \A k \in 1..n : a[k] = Address(h, k - 1)
    BY <1>3
  <1>9. QED
    BY <1>1, <1>2, <1>4, <1>7, <1>8

\* The words of a line.
LEMMA WordsTyped ==
  ASSUME NEW s \in Seq(Tokens(Hosts)), NEW n, Holds(s, n)
  PROVE  Words(s, Place(s, n)) \in Seq(Taken)
  <1>1. PICK l \in Nat : l = Len(s)
    BY LenProperties
  <1>2. PICK i \in 1..l : i = Place(s, n)
    BY <1>1, PlaceFinds
  <1>3. PICK e \in i..l : e = ChunkEnd(s, i)
    BY <1>1, ChunkEnds
  <1>4. PICK m \in Nat \ {0} : m = (e + 1) - i
    OBVIOUS
  <1>5. PICK p : p = [k \in 1..m |-> IF s[(i + k) - 1].kind = "record"
                                       THEN AddressesAt(s, (i + k) - 1) ELSE <<>>]
    OBVIOUS
  <1>6. Words(s, i) = FlattenSeq(p)
    <2>1. ChunkEnd(s, i) + 1 - i = m
      BY <1>3, <1>4
    <2>2. \A k \in 1..m : i + k - 1 = (i + k) - 1
      OBVIOUS
    <2>3. p = [k \in 1..(ChunkEnd(s, i) + 1 - i) |->
                 IF s[i + k - 1].kind = "record" THEN AddressesAt(s, i + k - 1) ELSE <<>>]
      BY <1>5, <2>1, <2>2
    <2>4. QED
      BY <2>3 DEF Words
  <1>7. ASSUME NEW k \in 1..m PROVE p[k] \in Seq(Taken)
    <2>1. PICK q \in 1..l : q = (i + k) - 1
      BY <1>4
    <2>2. p[k] = IF s[q].kind = "record" THEN AddressesAt(s, q) ELSE <<>>
      BY <1>5, <2>1
    <2>3. s[q] \in Tokens(Hosts)
      BY <1>1, ElementOfSeq
    <2>4. s[q].kind = "record" => AddressesAt(s, q) \in Seq(Taken)
      BY <2>3, TokenKinds, AddressesAre
    <2>5. <<>> \in Seq(Taken)
      BY EmptySeq
    <2>6. QED
      BY <2>2, <2>4, <2>5
  <1>8. Len(p) = m
    <2>1. p \in [1..m -> Seq(Taken)]
      BY <1>5, <1>7
    <2>2. QED
      BY <2>1, TableIsSeq
  <1>9. QED
    BY <1>2, <1>6, <1>7, <1>8, FlattenTyped

LEMMA WordsAre ==
  ASSUME NEW s \in Seq(Tokens(Hosts)), WellFormed(s), Ends(s), NEW h \in Hosts, Holds(s, h)
  PROVE  /\ Len(Words(s, Place(s, h))) = Addresses[h]
         /\ \A k \in 1..Addresses[h] : Words(s, Place(s, h))[k] = Address(h, k - 1)
  <1>1. PICK l \in Nat : l = Len(s)
    BY LenProperties
  <1>2. PICK i \in 1..(l - 1) : /\ i = Place(s, h) /\ ChunkEnd(s, i) = i + 1
                                /\ Finds(s, i, h) /\ s[i].kind = "record" /\ s[i + 1] = NL
    BY <1>1, WholeMove
  <1>3. PICK p : p = [k \in 1..2 |-> IF s[(i + k) - 1].kind = "record"
                                       THEN AddressesAt(s, (i + k) - 1) ELSE <<>>]
    OBVIOUS
  <1>4. Words(s, i) = FlattenSeq(p)
    <2>1. ChunkEnd(s, i) + 1 - i = 2
      BY <1>2
    <2>2. \A k \in 1..2 : i + k - 1 = (i + k) - 1
      OBVIOUS
    <2>3. p = [k \in 1..(ChunkEnd(s, i) + 1 - i) |->
                 IF s[i + k - 1].kind = "record" THEN AddressesAt(s, i + k - 1) ELSE <<>>]
      BY <1>3, <2>1, <2>2
    <2>4. QED
      BY <2>3 DEF Words
  <1>5. i \in 1..l /\ s[i].name = h
    BY <1>2 DEF Finds
  <1>6. s[i] = Record(h) /\ ~Glued(s, i)
    BY <1>1, <1>2, <1>5, WholeLine
  <1>7. ~s[i].spoiled
    BY <1>6 DEF Record
  <1>8. PICK a : a = AddressesAt(s, i)
    OBVIOUS
  <1>9. a \in Seq(Taken) /\ Len(a) = Addresses[h] /\ \A k \in 1..Addresses[h] : a[k] = Address(h, k - 1)
    BY <1>5, <1>6, <1>7, <1>8, AddressesAre
  <1>10. p[1] = a /\ p[2] = <<>>
    <2>1. 1 \in 1..2 /\ 2 \in 1..2 /\ (i + 1) - 1 = i /\ (i + 2) - 1 = i + 1
      OBVIOUS
    <2>2. NL.kind # "record"
      BY DEF NL
    <2>3. p[1] = a
      BY <1>2, <1>3, <1>8, <2>1
    <2>4. p[2] = <<>>
      BY <1>2, <1>3, <2>1, <2>2
    <2>5. QED
      BY <2>3, <2>4
  <1>11. Len(p) = 2
    <2>1. p \in [1..2 -> {p[1], p[2]}]
      BY <1>3
    <2>2. QED
      BY <2>1, TableIsSeq
  <1>12. FlattenSeq(p) = a
    BY <1>9, <1>10, <1>11, FlattenFirst
  <1>13. QED
    BY <1>2, <1>4, <1>9, <1>12

-----------------------------------------------------------------------------
(* The steps, and the types of what they change.                           *)

LEMMA StepIs ==
  ASSUME Next
  PROVE  \/ \E c \in Client : Leave(c) \/ Killed(c) \/ \E h \in Hosts : Ask(c, h)
         \/ \E s \in Servers : Start(s) \/ Stop(s)
         \/ \E s \in Servers : Send(s) \/ Reply(s) \/ (PassOn(s) /\ (recursive \/ peer[s] = "auth"))
         \/ LocalReceive \/ (AskNext /\ ~recursive)
         \/ Refer("root") \/ Refer("tld") \/ Resolve
         \/ UNCHANGED vars
  <1>1. "local" \in Servers /\ "root" \in Servers /\ "tld" \in Servers /\ "auth" \in Servers
    BY DEF Servers, Zones
  <1>2. CASE Local
    BY <1>1, <1>2 DEF Local, LocalDns, SpotLocalDns
  <1>3. CASE Root
    BY <1>1, <1>3 DEF Root, RootDns, SpotRootDns
  <1>4. CASE TopLevel
    BY <1>1, <1>4 DEF TopLevel, TopLevelDomain, SpotTopLevelDomain
  <1>5. CASE Auth
    BY <1>1, <1>5 DEF Auth, AuthDns, SpotAuthDns
  <1>6. CASE Idle
    BY <1>6 DEF Idle
  <1>7. QED
    BY <1>2, <1>3, <1>4, <1>5, <1>6 DEF Next

LEMMA WhoIs ==
  /\ Zones \subseteq Servers /\ "local" \in Servers /\ "root" \in Zones /\ "tld" \in Zones
  /\ "auth" \in Zones /\ Nobody \notin Servers /\ Nobody \notin Client
  /\ \A c \in Client : c \notin Servers
  /\ "local" \notin Zones /\ "local" # "auth"
  BY ConstantsAssumption DEF Servers, Zones, Nobody

LEMMA RequestsAre ==
  /\ Requests \subseteq Datagrams
  /\ \A d \in Datagrams : /\ d.from \in Client \cup Servers \cup {Nobody}
                          /\ d.text = Exit \/ (d.text \in Hosts /\ d \in Requests)
  /\ \A d \in Requests : d.text \in Hosts /\ d.text # Exit
  BY ConstantsAssumption DEF Requests, Datagrams

LEMMA DatagramIs ==
  ASSUME NEW x \in Client \cup Servers, NEW t \in Hosts \cup {Exit}
  PROVE  Datagram(x, t) \in Datagrams /\ Datagram(x, t).from = x /\ Datagram(x, t).text = t
  BY DEF Datagrams, Datagram

\* The datagrams of a socket that has been closed.
LEMMA OrphanedIs ==
  ASSUME NEW D, D \in {Datagrams, Requests}, NEW q \in Seq(D), NEW x
  PROVE  /\ Orphaned(q, x) \in Seq(D)
         /\ Len(Orphaned(q, x)) = Len(q)
         /\ \A k \in 1..Len(q) : /\ Orphaned(q, x)[k].text = q[k].text
                                 /\ Orphaned(q, x)[k].from = IF q[k].from = x THEN Nobody ELSE q[k].from
  <1>1. PICK n \in Nat : n = Len(q)
    BY LenProperties
  <1>2. PICK o : o = [k \in 1..n |-> IF q[k].from = x THEN [q[k] EXCEPT !.from = Nobody] ELSE q[k]]
    OBVIOUS
  <1>3. o = Orphaned(q, x)
    BY <1>1, <1>2 DEF Orphaned
  <1>4. ASSUME NEW k \in 1..n
        PROVE  /\ o[k] \in D /\ o[k].text = q[k].text
               /\ o[k].from = IF q[k].from = x THEN Nobody ELSE q[k].from
    <2>1. PICK d \in D : d = q[k]
      BY <1>1, ElementOfSeq
    <2>2. o[k] = IF d.from = x THEN [d EXCEPT !.from = Nobody] ELSE d
      BY <1>2, <2>1
    <2>3. /\ [d EXCEPT !.from = Nobody] \in D
          /\ [d EXCEPT !.from = Nobody].text = d.text
          /\ [d EXCEPT !.from = Nobody].from = Nobody
      <3>1. CASE D = Datagrams
        BY <3>1 DEF Datagrams
      <3>2. CASE D = Requests
        BY <3>2 DEF Requests
      <3>3. QED
        BY <3>1, <3>2
    <2>4. QED
      BY <2>1, <2>2, <2>3
  <1>5. o \in [1..n -> D]
    BY <1>2, <1>4
  <1>6. o \in Seq(D) /\ Len(o) = n
    BY <1>5, TableIsSeq
  <1>7. QED
    BY <1>1, <1>3, <1>4, <1>6

\* What a server has before it.
PendingIs(s) ==
  /\ serving[s] \in Seq(Requests) /\ inbox[s] \in Seq(Datagrams) /\ Pending(s) \in Seq(Datagrams)
  /\ at[s] \in {"off", "recv"} => serving[s] = <<>> /\ Pending(s) = inbox[s] /\ mail[s] = <<>>
  /\ at[s] \notin {"off", "recv"} =>
       /\ serving[s] # <<>> /\ serving[s][1] \in Requests /\ Len(serving[s]) = 1
       /\ Len(Pending(s)) = Len(inbox[s]) + 1
       /\ Pending(s)[1] = serving[s][1] /\ 1 \in 1..Len(Pending(s))
       /\ \A k \in 1..Len(inbox[s]) : Pending(s)[k + 1] = inbox[s][k]
  /\ at[s] # "wait" => mail[s] = <<>>
  /\ mail[s] # <<>> => mail[s][1] \in Answers /\ Len(mail[s]) = 1 /\ at[s] = "wait"

LEMMA PendingNow ==
  TypeOK => \A s \in Servers : PendingIs(s)
  <1> SUFFICES ASSUME TypeOK, NEW s \in Servers PROVE PendingIs(s)
    OBVIOUS
  <1>1. serving[s] \in Seq(Requests) /\ inbox[s] \in Seq(Datagrams) /\ mail[s] \in Seq(Answers)
    BY DEF TypeOK
  <1>2. /\ Len(serving[s]) = (IF at[s] \in {"off", "recv"} THEN 0 ELSE 1)
        /\ mail[s] # <<>> => Len(mail[s]) = 1 /\ at[s] = "wait"
    BY DEF TypeOK
  <1>3. serving[s] \in Seq(Datagrams)
    BY <1>1, RequestsAre, SeqMonotonic
  <1>4. PICK p : p = Pending(s)
    OBVIOUS
  <1>5. PICK m \in Nat, n \in Nat : m = Len(serving[s]) /\ n = Len(inbox[s])
    BY <1>1, LenProperties
  <1>6. /\ p \in Seq(Datagrams) /\ Len(p) = m + n
        /\ \A k \in 1..(m + n) : p[k] = IF k <= m THEN serving[s][k] ELSE inbox[s][k - m]
    BY <1>1, <1>3, <1>4, <1>5, ConcatProperties DEF Pending
  <1>7. ASSUME at[s] \in {"off", "recv"} PROVE serving[s] = <<>> /\ p = inbox[s]
    <2>1. serving[s] = <<>>
      BY <1>1, <1>2, <1>7, EmptySeq
    <2>2. QED
      BY <1>1, <1>4, <2>1, ConcatEmptySeq DEF Pending
  <1>8. ASSUME at[s] \notin {"off", "recv"}
        PROVE  /\ serving[s] # <<>> /\ serving[s][1] \in Requests /\ Len(serving[s]) = 1
               /\ Len(p) = n + 1 /\ p[1] = serving[s][1] /\ 1 \in 1..Len(p)
               /\ \A k \in 1..n : p[k + 1] = inbox[s][k]
    <2>1. Len(serving[s]) = 1 /\ m = 1
      BY <1>2, <1>5, <1>8
    <2>2. serving[s] # <<>>
      BY <2>1, EmptySeq
    <2>3. serving[s][1] \in Requests
      <3>1. 1 \in 1..m
        BY <2>1
      <3>2. QED
        BY <1>1, <1>5, <3>1, ElementOfSeq
    <2>4. Len(p) = n + 1 /\ 1 \in 1..(m + n) /\ 1 <= m
      BY <1>6, <2>1
    <2>5. p[1] = serving[s][1]
      BY <1>6, <2>4
    <2>6. ASSUME NEW k \in 1..n PROVE p[k + 1] = inbox[s][k]
      <3>1. k + 1 \in 1..(m + n) /\ ~(k + 1 <= m) /\ (k + 1) - m = k
        BY <2>1
      <3>2. QED
        BY <1>6, <3>1
    <2>7. 1 \in 1..Len(p)
      BY <2>4
    <2>8. QED
      BY <2>1, <2>2, <2>3, <2>4, <2>5, <2>6, <2>7
  <1>9. ASSUME mail[s] # <<>> PROVE mail[s][1] \in Answers /\ Len(mail[s]) = 1
    <2>1. Len(mail[s]) = 1 /\ 1 \in 1..1
      BY <1>2, <1>9
    <2>2. QED
      BY <1>1, <2>1, ElementOfSeq
  <1>10. QED
    BY <1>1, <1>2, <1>4, <1>5, <1>6, <1>7, <1>8, <1>9 DEF PendingIs

LEMMA PendingNext ==
  (TypeOK => \A s \in Servers : PendingIs(s))'
  BY PendingNow, PTL
-----------------------------------------------------------------------------
(* The types.                                                              *)

FileTypes ==
  /\ recursive \in BOOLEAN /\ splits \in BOOLEAN
  /\ files \in [Zones -> Seq(Tokens(Names))] /\ files.auth \in Seq(Tokens(Hosts))
  /\ began \in [Zones -> Seq(Tokens(Names))]

CountTypes == stops \in Nat /\ value \in [Table -> Nat] /\ forgot \in BOOLEAN /\ lost \in BOOLEAN

NetTypes ==
  /\ at \in [Servers -> {"off", "recv", "send", "wait", "reply"}]
  /\ inbox \in [Servers -> Seq(Datagrams)] /\ serving \in [Servers -> Seq(Requests)]
  /\ mail \in [Servers -> Seq(Answers)] /\ result \in [Servers -> Answers]
  /\ \A s \in Servers :
       /\ Len(serving[s]) = (IF at[s] \in {"off", "recv"} THEN 0 ELSE 1)
       /\ mail[s] # <<>> => Len(mail[s]) = 1 /\ at[s] = "wait"
  /\ peer \in [Servers -> Zones]

ClientTypes ==
  /\ cpc \in [Client -> {"prompt", "wait", "gone"}]
  /\ asks \in [Client -> Nat]
  /\ wanted \in [Client -> Seq(Hosts)] /\ \A c \in Client : Len(wanted[c]) <= 1
  /\ answers \in Seq([from : Client, name : Hosts, is : Answers])

LEMMA TypesAre == TypeOK <=> FileTypes /\ CountTypes /\ NetTypes /\ ClientTypes
  BY DEF TypeOK, FileTypes, CountTypes, NetTypes, ClientTypes

LEMMA TypesFrom == (FileTypes /\ CountTypes /\ NetTypes /\ ClientTypes => TypeOK)'
  BY TypesAre, PTL

LEMMA InitTypes == Init => TypeOK
  <1> SUFFICES ASSUME Init PROVE TypeOK
    OBVIOUS
  <1>1. PICK sc \in Scenarios :
          /\ recursive = sc.recursive /\ splits = sc.splits /\ stops = sc.stops /\ asks = sc.asks
          /\ files = sc.files /\ began = sc.files
          /\ at = [s \in Servers |-> IF s \in sc.up THEN "recv" ELSE "off"]
    BY DEF Init
  <1>2. FileTypes /\ stops \in Nat /\ asks \in [Client -> Nat]
    BY <1>1, ConstantsAssumption DEF FileTypes
  <1>3. CountTypes
    BY <1>2 DEF Init, CountTypes
  <1>4. /\ <<>> \in Seq(Datagrams) /\ <<>> \in Seq(Requests) /\ <<>> \in Seq(Answers)
        /\ <<>> \in Seq(Hosts) /\ <<>> \in Seq([from : Client, name : Hosts, is : Answers])
        /\ Len(<<>>) = 0
    BY EmptySeq
  <1>5. NetTypes
    <2>1. at \in [Servers -> {"off", "recv", "send", "wait", "reply"}] /\ \A s \in Servers : at[s] \in {"off", "recv"}
      BY <1>1
    <2>2. inbox \in [Servers -> Seq(Datagrams)] /\ serving \in [Servers -> Seq(Requests)]
          /\ mail \in [Servers -> Seq(Answers)]
      BY <1>4 DEF Init
    <2>3. result \in [Servers -> Answers] /\ peer \in [Servers -> Zones]
      BY TakenAre, WhoIs DEF Init
    <2>4. \A s \in Servers : mail[s] = <<>> /\ serving[s] = <<>>
      BY DEF Init
    <2>5. QED
      BY <1>4, <2>1, <2>2, <2>3, <2>4 DEF NetTypes
  <1>6. ClientTypes
    BY <1>2, <1>4 DEF Init, ClientTypes
  <1>7. QED
    BY <1>2, <1>3, <1>5, <1>6, TypesAre

\* A datagram that is sent.
LEMMA SendToIs ==
  ASSUME TypeOK, NEW s \in Servers, NEW d \in Datagrams, SendTo(s, d)
  PROVE  /\ inbox' \in [Servers -> Seq(Datagrams)] /\ lost' \in BOOLEAN /\ (lost => lost')
         /\ \/ lost' /\ inbox' = inbox
            \/ lost' = lost /\ at[s] # "off" /\ inbox' = [inbox EXCEPT ![s] = Append(@, d)]
  <1>1. inbox \in [Servers -> Seq(Datagrams)] /\ lost \in BOOLEAN
    BY DEF TypeOK
  <1>2. Append(inbox[s], d) \in Seq(Datagrams)
    BY <1>1, AppendProperties
  <1>3. CASE at[s] = "off"
    BY <1>1, <1>3 DEF SendTo
  <1>4. CASE at[s] # "off"
    <2>1. inbox' = [inbox EXCEPT ![s] = Append(@, d)] /\ lost' = lost
      BY <1>4 DEF SendTo
    <2>2. inbox' \in [Servers -> Seq(Datagrams)]
      BY <1>1, <1>2, <2>1
    <2>3. QED
      BY <1>1, <1>4, <2>1, <2>2
  <1>5. QED
    BY <1>3, <1>4

\* A server that ends.
LEMMA EndIs ==
  ASSUME TypeOK, NEW s \in Servers, End(s)
  PROVE  /\ NetTypes' /\ value' \in [Table -> Nat] /\ forgot' \in BOOLEAN
         /\ at' = [at EXCEPT ![s] = "off"] /\ peer' = [peer EXCEPT ![s] = "root"]
         /\ mail' = [mail EXCEPT ![s] = <<>>] /\ result' = [result EXCEPT ![s] = NotFound]
         /\ Pending(s)' = <<>>
         /\ \A t \in Servers \ {s} : /\ inbox'[t] = Orphaned(inbox[t], s)
                                     /\ serving'[t] = Orphaned(serving[t], s)
         /\ IF s = "auth" THEN forgot' ELSE value' = value /\ forgot' = forgot
  <1>1. /\ at' = [at EXCEPT ![s] = "off"] /\ peer' = [peer EXCEPT ![s] = "root"]
        /\ mail' = [mail EXCEPT ![s] = <<>>] /\ result' = [result EXCEPT ![s] = NotFound]
        /\ inbox' = [t \in Servers |-> IF t = s THEN <<>> ELSE Orphaned(inbox[t], s)]
        /\ serving' = [t \in Servers |-> IF t = s THEN <<>> ELSE Orphaned(serving[t], s)]
    BY DEF End
  <1>2. NetTypes /\ value \in [Table -> Nat] /\ forgot \in BOOLEAN
    BY TypesAre DEF CountTypes
  <1>3. /\ <<>> \in Seq(Datagrams) /\ <<>> \in Seq(Requests) /\ <<>> \in Seq(Answers)
        /\ Len(<<>>) = 0
    BY EmptySeq
  <1>4. \A t \in Servers : Orphaned(inbox[t], s) \in Seq(Datagrams)
    <2> SUFFICES ASSUME NEW t \in Servers PROVE Orphaned(inbox[t], s) \in Seq(Datagrams)
      OBVIOUS
    <2>1. inbox[t] \in Seq(Datagrams)
      BY <1>2 DEF NetTypes
    <2>2. QED
      BY <2>1, OrphanedIs
  <1>5. \A t \in Servers : Orphaned(serving[t], s) \in Seq(Requests) /\ Len(Orphaned(serving[t], s)) = Len(serving[t])
    <2> SUFFICES ASSUME NEW t \in Servers
                 PROVE  Orphaned(serving[t], s) \in Seq(Requests) /\ Len(Orphaned(serving[t], s)) = Len(serving[t])
      OBVIOUS
    <2>1. serving[t] \in Seq(Requests)
      BY <1>2 DEF NetTypes
    <2>2. QED
      BY <2>1, OrphanedIs
  <1>6. inbox' \in [Servers -> Seq(Datagrams)] /\ serving' \in [Servers -> Seq(Requests)]
    BY <1>1, <1>3, <1>4, <1>5
  <1>7. /\ at' \in [Servers -> {"off", "recv", "send", "wait", "reply"}]
        /\ mail' \in [Servers -> Seq(Answers)] /\ result' \in [Servers -> Answers]
        /\ peer' \in [Servers -> Zones]
    BY <1>1, <1>2, <1>3, TakenAre, WhoIs DEF NetTypes
  <1>8. ASSUME NEW t \in Servers
        PROVE  /\ Len(serving'[t]) = (IF at'[t] \in {"off", "recv"} THEN 0 ELSE 1)
               /\ mail'[t] # <<>> => Len(mail'[t]) = 1 /\ at'[t] = "wait"
    <2>1. CASE t = s
      BY <1>1, <1>2, <1>3, <2>1 DEF NetTypes
    <2>2. CASE t # s
      <3>1. serving'[t] = Orphaned(serving[t], s) /\ at'[t] = at[t] /\ mail'[t] = mail[t]
        BY <1>1, <1>2, <2>2 DEF NetTypes
      <3>2. QED
        BY <1>2, <1>5, <3>1 DEF NetTypes
    <2>3. QED
      BY <2>1, <2>2
  <1>9. NetTypes'
    BY <1>6, <1>7, <1>8 DEF NetTypes
  <1>10. Pending(s)' = <<>>
    <2>1. serving'[s] = <<>> /\ inbox'[s] = <<>>
      BY <1>1
    <2>2. QED
      BY <1>3, <2>1, ConcatEmptySeq DEF Pending
  <1>11. value' \in [Table -> Nat] /\ forgot' \in BOOLEAN
         /\ IF s = "auth" THEN forgot' ELSE value' = value /\ forgot' = forgot
    <2>1. CASE s = "auth"
      <3>1. value' = [h \in Table |-> 0] /\ forgot' = TRUE
        BY <2>1 DEF End
      <3>2. value' \in [Table -> Nat]
        BY <3>1
      <3>3. QED
        BY <2>1, <3>1, <3>2
    <2>2. CASE s # "auth"
      <3>1. value' = value /\ forgot' = forgot
        BY <2>2 DEF End
      <3>2. QED
        BY <1>2, <2>2, <3>1
    <2>3. QED
      BY <2>1, <2>2
  <1>12. QED
    BY <1>1, <1>9, <1>10, <1>11

\* A request that is taken.
LEMMA TakeIs ==
  ASSUME TypeOK, NEW s \in Servers, Receives(s), NEW d \in Requests, d = Head(inbox[s]),
         NEW l \in {"send", "reply"}, Take(s, d, l), UNCHANGED mail
  PROVE  /\ at' = [at EXCEPT ![s] = l] /\ at[s] = "recv" /\ mail[s] = <<>>
         /\ serving' = [serving EXCEPT ![s] = <<d>>] /\ serving'[s][1] = d
         /\ inbox' = [inbox EXCEPT ![s] = Tail(@)]
         /\ Pending(s)' = Pending(s) /\ 1 \in 1..Len(Pending(s)) /\ Pending(s)[1] = d
         /\ at' \in [Servers -> {"off", "recv", "send", "wait", "reply"}]
         /\ inbox' \in [Servers -> Seq(Datagrams)] /\ serving' \in [Servers -> Seq(Requests)]
         /\ \A t \in Servers :
              /\ Len(serving'[t]) = (IF at'[t] \in {"off", "recv"} THEN 0 ELSE 1)
              /\ mail'[t] # <<>> => Len(mail'[t]) = 1 /\ at'[t] = "wait"
  <1>1. /\ inbox' = [inbox EXCEPT ![s] = Tail(@)] /\ serving' = [serving EXCEPT ![s] = <<d>>]
        /\ at' = [at EXCEPT ![s] = l]
        /\ at[s] = "recv" /\ inbox[s] # <<>>
    BY DEF Take, Receives
  <1>2. PendingIs(s)
    BY PendingNow
  <1>3. PICK q \in Seq(Datagrams) : q = inbox[s]
    BY <1>2 DEF PendingIs
  <1>4. Pending(s) = q /\ mail[s] = <<>> /\ q # <<>>
    BY <1>1, <1>2, <1>3 DEF PendingIs
  <1>5. /\ Head(q) \in Datagrams /\ Tail(q) \in Seq(Datagrams)
        /\ Len(Tail(q)) = Len(q) - 1
        /\ \A k \in 1..Len(Tail(q)) : Tail(q)[k] = q[k + 1]
    BY <1>4, HeadTailProperties
  <1>6. PICK n \in Nat \ {0} : n = Len(q)
    BY <1>3, <1>4, EmptySeq
  <1>7. d \in Datagrams /\ d = q[1]
    BY <1>3, <1>4, <1>5
  <1>8. <<d>> \in Seq(Requests) /\ <<d>> \in Seq(Datagrams) /\ Len(<<d>>) = 1 /\ <<d>>[1] = d
    BY <1>7
  <1>9. PICK y : y = <<d>>
    OBVIOUS
  <1>10. y \o Tail(q) = q
    <2>1. /\ y \o Tail(q) \in Seq(Datagrams) /\ Len(y \o Tail(q)) = Len(y) + Len(Tail(q))
          /\ \A k \in 1..(Len(y) + Len(Tail(q))) :
               (y \o Tail(q))[k] = IF k <= Len(y) THEN y[k] ELSE Tail(q)[k - Len(y)]
      BY <1>5, <1>8, <1>9, ConcatProperties
    <2>2. Len(y) + Len(Tail(q)) = n
      BY <1>5, <1>6, <1>8, <1>9
    <2>3. ASSUME NEW k \in 1..n PROVE (y \o Tail(q))[k] = q[k]
      <3>1. (y \o Tail(q))[k] = IF k <= 1 THEN y[k] ELSE Tail(q)[k - 1]
        BY <1>8, <1>9, <2>1, <2>2
      <3>2. CASE k = 1
        BY <1>7, <1>8, <1>9, <3>1, <3>2
      <3>3. CASE k # 1
        <4>1. k - 1 \in 1..(n - 1) /\ (k - 1) + 1 = k /\ ~(k <= 1)
          BY <3>3
        <4>2. Tail(q)[k - 1] = q[k]
          BY <1>5, <1>6, <4>1
        <4>3. QED
          BY <3>1, <4>1, <4>2
      <3>4. QED
        BY <3>2, <3>3
    <2>4. QED
      BY <1>6, <2>1, <2>2, <2>3, SeqEqual
  <1>11. NetTypes
    BY TypesAre
  <1>12. inbox'[s] = Tail(q) /\ serving'[s] = y
    BY <1>1, <1>3, <1>9, <1>11 DEF NetTypes
  <1>13. Pending(s)' = Pending(s)
    BY <1>4, <1>10, <1>12 DEF Pending
  <1>14. 1 \in 1..Len(q)
    BY <1>6
  <1>15. /\ at' \in [Servers -> {"off", "recv", "send", "wait", "reply"}]
         /\ inbox' \in [Servers -> Seq(Datagrams)] /\ serving' \in [Servers -> Seq(Requests)]
    BY <1>1, <1>3, <1>5, <1>8, <1>11 DEF NetTypes
  <1>16. ASSUME NEW t \in Servers
         PROVE  /\ Len(serving'[t]) = (IF at'[t] \in {"off", "recv"} THEN 0 ELSE 1)
                /\ mail'[t] # <<>> => Len(mail'[t]) = 1 /\ at'[t] = "wait"
    <2>1. CASE t = s
      <3>1. at'[t] = l /\ serving'[t] = y /\ mail'[t] = <<>>
        BY <1>1, <1>4, <1>11, <1>12, <2>1 DEF NetTypes
      <3>2. QED
        BY <1>8, <1>9, <3>1
    <2>2. CASE t # s
      <3>1. at'[t] = at[t] /\ serving'[t] = serving[t] /\ mail'[t] = mail[t]
        BY <1>1, <1>11, <2>2 DEF NetTypes
      <3>2. QED
        BY <1>11, <3>1 DEF NetTypes
    <2>3. QED
      BY <2>1, <2>2
  <1>17. QED
    BY <1>1, <1>4, <1>7, <1>8, <1>9, <1>12, <1>13, <1>14, <1>15, <1>16
-----------------------------------------------------------------------------
(* The requests.                                                           *)

\* Server s has lost the first o of its requests at most, and the senders of
\* some, whose answers will be lost.
RemainsFrom(s, o) ==
  /\ o + Len(Pending(s)') <= Len(Pending(s))
  /\ \A j \in 1..Len(Pending(s)') :
       /\ Pending(s)'[j].text = Pending(s)[j + o].text
       /\ Pending(s)'[j].from = Pending(s)[j + o].from \/ (Pending(s)'[j].from = Nobody /\ lost')
Remains(s) == \E o \in 0..1 : RemainsFrom(s, o)

\* Somebody goes on waiting for the same.
Steady(x) == Waits(x)' /\ Asked(x)' = Asked(x) /\ Wanted(x)' = Wanted(x)

\* Nobody has a request of x.
Answered(x) == \A s \in Servers : \A j \in 1..Len(Pending(s)') : Pending(s)'[j].from # x

LEMMA SameRemains ==
  ASSUME TypeOK, NEW s \in Servers, Pending(s)' = Pending(s)
  PROVE  Remains(s)
  <1>1. Pending(s) \in Seq(Datagrams)
    BY PendingNow DEF PendingIs
  <1>2. PICK n \in Nat : n = Len(Pending(s))
    BY <1>1, LenProperties
  <1>3. \A j \in 1..n : j + 0 = j
    OBVIOUS
  <1>4. RemainsFrom(s, 0)
    BY <1>2, <1>3 DEF RemainsFrom
  <1>5. QED
    BY <1>4 DEF Remains

LEMMA SameSteady ==
  ASSUME NEW x, Waits(x),
         x \in Servers => /\ at'[x] = at[x] /\ mail'[x] = mail[x] /\ peer'[x] = peer[x]
                          /\ serving'[x][1].text = serving[x][1].text,
         x \notin Servers => cpc'[x] = cpc[x] /\ wanted'[x] = wanted[x]
  PROVE  Steady(x)
  BY DEF Steady, Waits, Asked, Wanted

LEMMA Remaining ==
  ASSUME TypeOK, TypeOK', RequestInv, \A s \in Servers : Remains(s), lost => lost',
         \A x : Live(x)' => Live(x) /\ (Waits(x) => Steady(x) \/ Answered(x))
  PROVE  SenderInv' /\ KindInv'
  <1>1. SenderInv /\ KindInv
    BY DEF RequestInv
  <1>2. ASSUME NEW s \in Servers, NEW j \in 1..Len(Pending(s)')
        PROVE  /\ \A x \in Client \cup Servers : Live(x)' /\ Pending(s)'[j].from = x =>
                    /\ Waits(x)' /\ Asked(x)' = s /\ Pending(s)'[j].text = Wanted(x)'
                    /\ \A i \in 1..Len(Pending(s)') : Pending(s)'[i].from = x => i = j
               /\ Pending(s)'[j].from \in Client \/ Pending(s)'[j].text = Exit => s = "local"
               /\ Pending(s)'[j].from = Nobody => lost'
    <2>1. PICK o \in 0..1 : RemainsFrom(s, o)
      BY DEF Remains
    <2>2. /\ Pending(s) \in Seq(Datagrams) /\ Pending(s)' \in Seq(Datagrams)
      BY PendingNow, PendingNext DEF PendingIs
    <2>3. PICK m \in Nat : m = Len(Pending(s))
      BY <2>2, LenProperties
    <2>4. PICK n \in Nat : n = Len(Pending(s)')
      BY <2>2, LenProperties
    <2>5. o + n <= m
      BY <2>1, <2>3, <2>4 DEF RemainsFrom
    <2>6. \A i \in 1..n :
            /\ i + o \in 1..m
            /\ Pending(s)'[i].text = Pending(s)[i + o].text
            /\ Pending(s)'[i].from = Pending(s)[i + o].from \/ (Pending(s)'[i].from = Nobody /\ lost')
      BY <2>1, <2>4, <2>5 DEF RemainsFrom
    <2>7. j \in 1..n
      BY <2>4
    <2>8. PICK x : x = Pending(s)'[j].from
      OBVIOUS
    <2>9. ASSUME Live(x)'
          PROVE  /\ Waits(x)' /\ Asked(x)' = s /\ Pending(s)'[j].text = Wanted(x)'
                 /\ \A i \in 1..n : Pending(s)'[i].from = x => i = j
      <3>1. x # Nobody
        BY <2>9, WhoIs DEF Live
      <3>2. j + o \in 1..m /\ Pending(s)[j + o].from = x /\ Pending(s)[j + o].text = Pending(s)'[j].text
        BY <2>6, <2>7, <2>8, <3>1
      <3>3. Live(x) /\ (Waits(x) => Steady(x) \/ Answered(x))
        BY <2>9
      <3>4. /\ Waits(x) /\ Asked(x) = s /\ Pending(s)[j + o].text = Wanted(x)
            /\ \A i \in 1..m : Pending(s)[i].from = x => i = j + o
        <4>1. x \in Client \cup Servers
          BY <2>9 DEF Live
        <4>2. QED
          BY <1>1, <2>3, <3>2, <3>3, <4>1 DEF SenderInv
      <3>5. ~Answered(x)
        BY <2>8 DEF Answered
      <3>6. Steady(x)
        BY <3>3, <3>4, <3>5
      <3>7. ASSUME NEW i \in 1..n, Pending(s)'[i].from = x PROVE i = j
        <4>1. i + o \in 1..m /\ Pending(s)[i + o].from = x
          BY <2>6, <3>1, <3>7
        <4>2. i + o = j + o
          BY <3>4, <4>1
        <4>3. QED
          BY <4>2
      <3>8. QED
        BY <3>2, <3>4, <3>6, <3>7 DEF Steady
    <2>10. Pending(s)'[j].from \in Client \/ Pending(s)'[j].text = Exit => s = "local"
      <3>1. x \in Client => x = Pending(s)[j + o].from
        BY <2>6, <2>7, <2>8, WhoIs
      <3>2. j + o \in 1..m /\ Pending(s)'[j].text = Pending(s)[j + o].text
        BY <2>6, <2>7
      <3>3. QED
        BY <1>1, <2>3, <2>8, <3>1, <3>2 DEF KindInv
    <2>11. Pending(s)'[j].from = Nobody => lost'
      <3>1. j + o \in 1..m /\ (x = Pending(s)[j + o].from \/ lost')
        BY <2>6, <2>7, <2>8
      <3>2. QED
        BY <1>1, <2>3, <2>8, <3>1 DEF KindInv
    <2>12. QED
      BY <2>4, <2>8, <2>9, <2>10, <2>11
  <1>3. SenderInv'
    BY <1>2 DEF SenderInv
  <1>4. KindInv'
    BY <1>2 DEF KindInv
  <1>5. QED
    BY <1>3, <1>4

LEMMA Sending ==
  ASSUME TypeOK, TypeOK', RequestInv, NEW t \in Servers, NEW d \in Datagrams, d.from # Nobody,
         Pending(t)' = Append(Pending(t), d),
         \A s \in Servers \ {t} : Pending(s)' = Pending(s),
         lost' = lost, Live(d.from), ~Waits(d.from),
         Live(d.from)' => Waits(d.from)' /\ Asked(d.from)' = t /\ Wanted(d.from)' = d.text,
         d.from \in Client \/ d.text = Exit => t = "local",
         \A x : x # d.from /\ Live(x)' => Live(x) /\ (Waits(x) => Steady(x))
  PROVE  SenderInv' /\ KindInv'
  <1>1. SenderInv /\ KindInv
    BY DEF RequestInv
  <1>2. ASSUME NEW s \in Servers, NEW j \in 1..Len(Pending(s)')
        PROVE  /\ \A x \in Client \cup Servers : Live(x)' /\ Pending(s)'[j].from = x =>
                    /\ Waits(x)' /\ Asked(x)' = s /\ Pending(s)'[j].text = Wanted(x)'
                    /\ \A i \in 1..Len(Pending(s)') : Pending(s)'[i].from = x => i = j
               /\ Pending(s)'[j].from \in Client \/ Pending(s)'[j].text = Exit => s = "local"
               /\ Pending(s)'[j].from = Nobody => lost'
    <2>1. Pending(s) \in Seq(Datagrams)
      BY PendingNow DEF PendingIs
    <2>2. PICK m \in Nat : m = Len(Pending(s))
      BY <2>1, LenProperties
    <2>3. \A i \in 1..m : Pending(s)[i].from # d.from
      <3>1. d.from \in Client \cup Servers
        BY RequestsAre
      <3>2. QED
        BY <1>1, <2>2, <3>1 DEF SenderInv
    <2>4. PICK n \in {m, m + 1} :
            /\ n = Len(Pending(s)')
            /\ \A i \in 1..m : Pending(s)'[i] = Pending(s)[i]
            /\ n = m + 1 => s = t /\ Pending(s)'[m + 1] = d
      <3>1. CASE s = t
        BY <2>1, <2>2, <3>1, AppendProperties
      <3>2. CASE s # t
        BY <2>2, <3>2
      <3>3. QED
        BY <3>1, <3>2
    <2>5. PICK x : x = Pending(s)'[j].from
      OBVIOUS
    <2>6. CASE j \in 1..m
      <3>1. Pending(s)'[j] = Pending(s)[j] /\ x # d.from
        BY <2>3, <2>4, <2>5, <2>6
      <3>2. ASSUME Live(x)'
            PROVE  /\ Waits(x)' /\ Asked(x)' = s /\ Pending(s)'[j].text = Wanted(x)'
                   /\ \A i \in 1..n : Pending(s)'[i].from = x => i = j
        <4>1. Live(x) /\ (Waits(x) => Steady(x))
          BY <3>1, <3>2
        <4>2. /\ Waits(x) /\ Asked(x) = s /\ Pending(s)[j].text = Wanted(x)
              /\ \A i \in 1..m : Pending(s)[i].from = x => i = j
          <5>1. x \in Client \cup Servers
            BY <3>2 DEF Live
          <5>2. QED
            BY <1>1, <2>2, <2>5, <2>6, <3>1, <4>1, <5>1 DEF SenderInv
        <4>3. ASSUME NEW i \in 1..n, Pending(s)'[i].from = x PROVE i = j
          <5>1. i \in 1..m \/ (i = m + 1 /\ n = m + 1)
            OBVIOUS
          <5>2. i \in 1..m
            BY <2>4, <3>1, <4>3, <5>1
          <5>3. QED
            BY <2>4, <4>2, <4>3, <5>2
        <4>4. QED
          BY <3>1, <4>1, <4>2, <4>3 DEF Steady
      <3>3. QED
        BY <1>1, <2>2, <2>4, <2>5, <2>6, <3>1, <3>2 DEF KindInv
    <2>7. CASE j \notin 1..m
      <3>1. j = m + 1 /\ n = m + 1
        BY <2>4, <2>7
      <3>2. s = t /\ Pending(s)'[j] = d
        BY <2>4, <3>1
      <3>3. ASSUME NEW i \in 1..n, Pending(s)'[i].from = d.from PROVE i = j
        <4>1. i \in 1..m \/ i = m + 1
          OBVIOUS
        <4>2. i \notin 1..m
          BY <2>3, <2>4, <3>3
        <4>3. QED
          BY <3>1, <4>1, <4>2
      <3>4. QED
        BY <2>4, <3>2, <3>3
    <2>8. QED
      BY <2>6, <2>7
  <1>3. SenderInv'
    BY <1>2 DEF SenderInv
  <1>4. KindInv'
    BY <1>2 DEF KindInv
  <1>5. QED
    BY <1>3, <1>4
LEMMA SamePending ==
  ASSUME NEW s \in Servers, serving'[s] = serving[s], inbox'[s] = inbox[s]
  PROVE  Pending(s)' = Pending(s)
  BY DEF Pending

LEMMA SamePeers ==
  ASSUME RequestInv, recursive' = recursive,
         \A s \in Servers : at'[s] \in {"send", "wait"} => at[s] \in {"send", "wait"} /\ peer'[s] = peer[s]
  PROVE  PeerInv'
  BY DEF RequestInv, PeerInv

LEMMA SameWanted ==
  ASSUME RequestInv, wanted' = wanted, \A c \in Client : cpc'[c] = "wait" => cpc[c] = "wait"
  PROVE  \A c \in Client : cpc'[c] = "wait" => wanted'[c] # <<>>
  BY DEF RequestInv

LEMMA InitRequests == Init => RequestInv
  <1> SUFFICES ASSUME Init PROVE RequestInv
    OBVIOUS
  <1>1. \A s \in Servers : Len(Pending(s)) = 0
    <2> SUFFICES ASSUME NEW s \in Servers PROVE Len(Pending(s)) = 0
      OBVIOUS
    <2>1. serving[s] = <<>> /\ inbox[s] = <<>> /\ <<>> \in Seq(Datagrams) /\ Len(<<>>) = 0
      BY EmptySeq DEF Init
    <2>2. QED
      BY <2>1, ConcatEmptySeq DEF Pending
  <1>2. SenderInv /\ KindInv
    BY <1>1 DEF SenderInv, KindInv
  <1>3. \A s \in Servers : at[s] \in {"off", "recv"}
    BY DEF Init
  <1>4. PeerInv
    BY <1>3 DEF PeerInv
  <1>5. \A c \in Client : cpc[c] # "wait"
    BY DEF Init
  <1>6. QED
    BY <1>2, <1>4, <1>5 DEF RequestInv

LEMMA StartRequests ==
  ASSUME TypeOK, RequestInv, NEW s \in Servers, Start(s)
  PROVE  TypeOK' /\ RequestInv'
  <1>1. /\ at[s] = "off" /\ at' = [at EXCEPT ![s] = "recv"]
        /\ UNCHANGED <<recursive, splits, began, stops, files, value, forgot, inbox, serving, peer,
                       mail, result, cpc, asks, wanted, answers, lost>>
    BY DEF Start, scenario, recordVars, clientVars
  <1>2. TypeOK'
    <2>1. FileTypes' /\ CountTypes' /\ ClientTypes'
      BY <1>1, TypesAre DEF FileTypes, CountTypes, ClientTypes
    <2>2. NetTypes'
      BY <1>1, TypesAre DEF NetTypes
    <2>3. QED
      BY <2>1, <2>2, TypesFrom
  <1>3. \A t \in Servers : t # s => at'[t] = at[t]
    BY <1>1 DEF TypeOK
  <1>4. at'[s] = "recv"
    BY <1>1 DEF TypeOK
  <1>5. \A t \in Servers : Remains(t)
    BY <1>1, SamePending, SameRemains
  <1>6. ASSUME NEW x, Live(x)' PROVE Live(x) /\ (Waits(x) => Steady(x))
    <2>1. Live(x)
      BY <1>1, <1>6 DEF Live
    <2>2. Waits(x) => x # s
      BY <1>1 DEF Waits
    <2>3. QED
      BY <1>1, <1>3, <2>1, <2>2, SameSteady
  <1>7. SenderInv' /\ KindInv'
    BY <1>1, <1>2, <1>5, <1>6, Remaining
  <1>8. PeerInv'
    BY <1>1, <1>3, <1>4, SamePeers
  <1>9. QED
    BY <1>1, <1>2, <1>7, <1>8, SameWanted DEF RequestInv

LEMMA KilledRequests ==
  ASSUME TypeOK, RequestInv, NEW c \in Client, Killed(c)
  PROVE  TypeOK' /\ RequestInv'
  <1>1. /\ stops > 0 /\ stops' = stops - 1 /\ cpc[c] = "wait" /\ cpc' = [cpc EXCEPT ![c] = "gone"]
        /\ UNCHANGED <<recursive, splits, began, files, value, forgot, at, inbox, serving, peer,
                       mail, result, asks, wanted, answers, lost>>
    BY DEF Killed, scenario, recordVars, netVars
  <1>2. TypeOK'
    <2>1. FileTypes' /\ CountTypes' /\ ClientTypes'
      BY <1>1, TypesAre DEF FileTypes, CountTypes, ClientTypes
    <2>2. NetTypes'
      BY <1>1, TypesAre DEF NetTypes
    <2>3. QED
      BY <2>1, <2>2, TypesFrom
  <1>3. \A d \in Client : d # c => cpc'[d] = cpc[d]
    BY <1>1 DEF TypeOK
  <1>4. cpc'[c] = "gone"
    BY <1>1 DEF TypeOK
  <1>5. \A t \in Servers : Remains(t)
    BY <1>1, SamePending, SameRemains
  <1>6. ASSUME NEW x, Live(x)' PROVE Live(x) /\ (Waits(x) => Steady(x))
    <2>1. Live(x) /\ (x \notin Servers => x \in Client /\ x # c)
      BY <1>3, <1>4, <1>6 DEF Live
    <2>2. QED
      BY <1>1, <1>3, <2>1, SameSteady
  <1>7. SenderInv' /\ KindInv'
    BY <1>1, <1>2, <1>5, <1>6, Remaining
  <1>8. PeerInv'
    BY <1>1, SamePeers
  <1>9. \A d \in Client : cpc'[d] = "wait" => cpc[d] = "wait"
    BY <1>3, <1>4
  <1>10. QED
    BY <1>1, <1>2, <1>7, <1>8, <1>9, SameWanted DEF RequestInv

LEMMA PassOnRequests ==
  ASSUME TypeOK, RequestInv, NEW s \in Servers, PassOn(s)
  PROVE  TypeOK' /\ RequestInv'
  <1>1. /\ at[s] = "wait" /\ mail[s] # <<>> /\ result' = [result EXCEPT ![s] = mail[s][1]]
        /\ mail' = [mail EXCEPT ![s] = <<>>] /\ at' = [at EXCEPT ![s] = "reply"]
        /\ UNCHANGED <<recursive, splits, began, stops, files, value, forgot, inbox, serving, peer,
                       cpc, asks, wanted, answers, lost>>
    BY DEF PassOn, scenario, recordVars, clientVars
  <1>2. PendingIs(s)
    BY PendingNow
  <1>3. TypeOK'
    <2>1. FileTypes' /\ CountTypes' /\ ClientTypes'
      BY <1>1, TypesAre DEF FileTypes, CountTypes, ClientTypes
    <2>2. mail[s][1] \in Answers /\ <<>> \in Seq(Answers)
      BY <1>1, <1>2, EmptySeq DEF PendingIs
    <2>3. NetTypes
      BY TypesAre
    <2>4. result' \in [Servers -> Answers] /\ mail' \in [Servers -> Seq(Answers)]
          /\ at' \in [Servers -> {"off", "recv", "send", "wait", "reply"}]
      BY <1>1, <2>2, <2>3 DEF NetTypes
    <2>5. ASSUME NEW t \in Servers
          PROVE  /\ Len(serving'[t]) = (IF at'[t] \in {"off", "recv"} THEN 0 ELSE 1)
                 /\ mail'[t] # <<>> => Len(mail'[t]) = 1 /\ at'[t] = "wait"
      BY <1>1, <2>3 DEF NetTypes
    <2>6. NetTypes'
      BY <1>1, <2>3, <2>4, <2>5 DEF NetTypes
    <2>7. QED
      BY <2>1, <2>6, TypesFrom
  <1>4. \A t \in Servers : t # s => at'[t] = at[t] /\ mail'[t] = mail[t]
    BY <1>1 DEF TypeOK
  <1>5. at'[s] = "reply"
    BY <1>1 DEF TypeOK
  <1>6. \A t \in Servers : Remains(t)
    BY <1>1, SamePending, SameRemains
  <1>7. ASSUME NEW x, Live(x)' PROVE Live(x) /\ (Waits(x) => Steady(x))
    <2>1. Live(x)
      BY <1>1, <1>7 DEF Live
    <2>2. Waits(x) => x # s
      BY <1>1 DEF Waits
    <2>3. QED
      BY <1>1, <1>4, <2>1, <2>2, SameSteady
  <1>8. SenderInv' /\ KindInv'
    BY <1>1, <1>3, <1>6, <1>7, Remaining
  <1>9. PeerInv'
    BY <1>1, <1>4, <1>5, SamePeers
  <1>10. QED
    BY <1>1, <1>3, <1>8, <1>9, SameWanted DEF RequestInv

LEMMA AskNextRequests ==
  ASSUME TypeOK, RequestInv, AskNext, ~recursive
  PROVE  TypeOK' /\ RequestInv'
  <1>1. PICK s \in Servers : s = "local"
    BY WhoIs
  <1>2. /\ at[s] = "wait" /\ mail[s] # <<>> /\ peer[s] # "auth"
        /\ mail' = [mail EXCEPT ![s] = <<>>] /\ peer' = [peer EXCEPT ![s] = NextServer(@)]
        /\ at' = [at EXCEPT ![s] = "send"]
        /\ UNCHANGED <<recursive, splits, began, stops, files, value, forgot, inbox, serving, result,
                       cpc, asks, wanted, answers, lost>>
    BY <1>1 DEF AskNext, scenario, recordVars, clientVars
  <1>3. TypeOK'
    <2>1. FileTypes' /\ CountTypes' /\ ClientTypes'
      BY <1>2, TypesAre DEF FileTypes, CountTypes, ClientTypes
    <2>2. <<>> \in Seq(Answers) /\ \A t \in Zones : NextServer(t) \in Zones
      BY EmptySeq, WhoIs DEF NextServer
    <2>3. NetTypes
      BY TypesAre
    <2>4. peer' \in [Servers -> Zones] /\ mail' \in [Servers -> Seq(Answers)]
          /\ at' \in [Servers -> {"off", "recv", "send", "wait", "reply"}]
      BY <1>2, <2>2, <2>3 DEF NetTypes
    <2>5. ASSUME NEW t \in Servers
          PROVE  /\ Len(serving'[t]) = (IF at'[t] \in {"off", "recv"} THEN 0 ELSE 1)
                 /\ mail'[t] # <<>> => Len(mail'[t]) = 1 /\ at'[t] = "wait"
      BY <1>2, <2>3 DEF NetTypes
    <2>6. NetTypes'
      BY <1>2, <2>3, <2>4, <2>5 DEF NetTypes
    <2>7. QED
      BY <2>1, <2>6, TypesFrom
  <1>4. \A t \in Servers : t # s => at'[t] = at[t] /\ mail'[t] = mail[t] /\ peer'[t] = peer[t]
    BY <1>2 DEF TypeOK
  <1>5. \A t \in Servers : Remains(t)
    BY <1>2, SamePending, SameRemains
  <1>6. ASSUME NEW x, Live(x)' PROVE Live(x) /\ (Waits(x) => Steady(x))
    <2>1. Live(x)
      BY <1>2, <1>6 DEF Live
    <2>2. Waits(x) => x # s
      BY <1>2 DEF Waits
    <2>3. QED
      BY <1>2, <1>4, <2>1, <2>2, SameSteady
  <1>7. SenderInv' /\ KindInv'
    BY <1>2, <1>3, <1>5, <1>6, Remaining
  <1>8. PeerInv'
    BY <1>1, <1>2, <1>4 DEF RequestInv, PeerInv
  <1>9. QED
    BY <1>2, <1>3, <1>7, <1>8, SameWanted DEF RequestInv
\* A datagram that is sent is lost or the last that its receiver has.
LEMMA SentIs ==
  ASSUME TypeOK, NEW t \in Servers, NEW d \in Datagrams, SendTo(t, d), serving' = serving
  PROVE  /\ inbox' \in [Servers -> Seq(Datagrams)] /\ lost' \in BOOLEAN /\ (lost => lost')
         /\ \A s \in Servers \ {t} : Pending(s)' = Pending(s)
         /\ \/ lost' /\ Pending(t)' = Pending(t)
            \/ lost' = lost /\ Pending(t)' = Append(Pending(t), d)
  <1>1. /\ inbox' \in [Servers -> Seq(Datagrams)] /\ lost' \in BOOLEAN /\ (lost => lost')
        /\ \/ lost' /\ inbox' = inbox
           \/ lost' = lost /\ inbox' = [inbox EXCEPT ![t] = Append(@, d)]
    BY SendToIs
  <1>2. inbox \in [Servers -> Seq(Datagrams)]
    BY DEF TypeOK
  <1>3. \A s \in Servers \ {t} : inbox'[s] = inbox[s] /\ serving'[s] = serving[s]
    BY <1>1, <1>2
  <1>4. \A s \in Servers \ {t} : Pending(s)' = Pending(s)
    BY <1>3, SamePending
  <1>5. CASE lost' /\ inbox' = inbox
    BY <1>1, <1>4, <1>5, SamePending
  <1>6. CASE lost' = lost /\ inbox' = [inbox EXCEPT ![t] = Append(@, d)]
    <2>1. inbox'[t] = Append(inbox[t], d)
      BY <1>2, <1>6
    <2>2. serving[t] \in Seq(Datagrams) /\ inbox[t] \in Seq(Datagrams) /\ Pending(t) \in Seq(Datagrams)
      <3>1. serving[t] \in Seq(Requests)
        BY PendingNow DEF PendingIs
      <3>2. serving[t] \in Seq(Datagrams)
        BY <3>1, RequestsAre, SeqMonotonic
      <3>3. QED
        BY <3>2, PendingNow DEF PendingIs
    <2>3. serving[t] \o Append(inbox[t], d) = Append(serving[t] \o inbox[t], d)
      <3>1. \A a \in Seq(Datagrams) : \A b \in Seq(Datagrams) : a \o Append(b, d) = Append(a \o b, d)
        BY AppendToConcat
      <3>2. QED
        BY <2>2, <3>1, Zenon
    <2>7. Pending(t)' = Append(Pending(t), d)
      BY <2>1, <2>3 DEF Pending
    <2>8. QED
      BY <1>1, <1>4, <1>6, <2>7
  <1>7. QED
    BY <1>1, <1>5, <1>6

LEMMA AskRequests ==
  ASSUME TypeOK, RequestInv, NEW c \in Client, NEW h \in Hosts, Ask(c, h)
  PROVE  TypeOK' /\ RequestInv'
  <1>1. /\ cpc[c] = "prompt" /\ asks[c] > 0 /\ asks' = [asks EXCEPT ![c] = @ - 1]
        /\ wanted' = [wanted EXCEPT ![c] = <<h>>] /\ SendTo("local", Datagram(c, h))
        /\ cpc' = [cpc EXCEPT ![c] = "wait"]
        /\ UNCHANGED <<recursive, splits, began, stops, files, value, forgot, at, serving, peer,
                       mail, result, answers>>
    BY DEF Ask, scenario, recordVars
  <1>2. PICK t \in Servers : t = "local"
    BY WhoIs
  <1>3. PICK d \in Datagrams : d = Datagram(c, h) /\ d.from = c /\ d.text = h
    BY DatagramIs
  <1>4. /\ inbox' \in [Servers -> Seq(Datagrams)] /\ lost' \in BOOLEAN /\ (lost => lost')
        /\ \A s \in Servers \ {t} : Pending(s)' = Pending(s)
        /\ \/ lost' /\ Pending(t)' = Pending(t)
           \/ lost' = lost /\ Pending(t)' = Append(Pending(t), d)
    BY <1>1, <1>2, <1>3, SentIs
  <1>5. <<h>> \in Seq(Hosts) /\ Len(<<h>>) = 1 /\ <<h>>[1] = h /\ <<h>> # <<>>
    OBVIOUS
  <1>6. TypeOK'
    <2>1. FileTypes' /\ CountTypes'
      BY <1>1, <1>4, TypesAre DEF FileTypes, CountTypes
    <2>2. ClientTypes'
      <3>1. ClientTypes
        BY TypesAre
      <3>2. cpc' \in [Client -> {"prompt", "wait", "gone"}] /\ asks' \in [Client -> Nat]
            /\ wanted' \in [Client -> Seq(Hosts)]
        BY <1>1, <1>5, <3>1 DEF ClientTypes
      <3>3. \A e \in Client : Len(wanted'[e]) <= 1
        BY <1>1, <1>5, <3>1 DEF ClientTypes
      <3>4. QED
        BY <1>1, <3>1, <3>2, <3>3 DEF ClientTypes
    <2>3. NetTypes'
      BY <1>1, <1>4, TypesAre DEF NetTypes
    <2>4. QED
      BY <2>1, <2>2, <2>3, TypesFrom
  <1>7. /\ \A e \in Client : e # c => cpc'[e] = cpc[e] /\ wanted'[e] = wanted[e]
        /\ cpc'[c] = "wait" /\ wanted'[c] = <<h>>
    BY <1>1 DEF TypeOK
  <1>8. c \notin Servers /\ c # Nobody
    BY WhoIs
  <1>9. Live(c) /\ ~Waits(c) /\ Waits(c)' /\ Asked(c)' = t /\ Wanted(c)' = h
    BY <1>1, <1>2, <1>5, <1>7, <1>8 DEF Live, Waits, Asked, Wanted
  <1>10. ASSUME NEW x, x # c, Live(x)' PROVE Live(x) /\ (Waits(x) => Steady(x))
    <2>1. x \notin Servers => x \in Client
      BY <1>10 DEF Live
    <2>2. Live(x)
      BY <1>7, <1>10, <2>1 DEF Live
    <2>3. QED
      BY <1>1, <1>7, <1>10, <2>1, <2>2, SameSteady
  <1>11. SenderInv' /\ KindInv'
    <2>1. CASE lost' /\ Pending(t)' = Pending(t)
      <3>1. \A s \in Servers : Remains(s)
        BY <1>4, <2>1, SameRemains
      <3>2. \A x : Live(x)' => Live(x) /\ (Waits(x) => Steady(x))
        BY <1>9, <1>10
      <3>3. QED
        BY <1>4, <1>6, <3>1, <3>2, Remaining
    <2>2. CASE lost' = lost /\ Pending(t)' = Append(Pending(t), d)
      BY <1>2, <1>3, <1>4, <1>6, <1>8, <1>9, <1>10, <2>2, Sending
    <2>3. QED
      BY <1>4, <2>1, <2>2
  <1>12. PeerInv'
    BY <1>1, SamePeers
  <1>13. \A e \in Client : cpc'[e] = "wait" => wanted'[e] # <<>>
    BY <1>5, <1>7 DEF RequestInv
  <1>14. QED
    BY <1>6, <1>11, <1>12, <1>13 DEF RequestInv

LEMMA LeaveRequests ==
  ASSUME TypeOK, RequestInv, NEW c \in Client, Leave(c)
  PROVE  TypeOK' /\ RequestInv'
  <1>1. /\ cpc[c] = "prompt" /\ SendTo("local", Datagram(c, Exit))
        /\ cpc' = [cpc EXCEPT ![c] = "gone"]
        /\ UNCHANGED <<recursive, splits, began, stops, files, value, forgot, at, serving, peer,
                       mail, result, asks, wanted, answers>>
    BY DEF Leave, scenario, recordVars
  <1>2. PICK t \in Servers : t = "local"
    BY WhoIs
  <1>3. PICK d \in Datagrams : d = Datagram(c, Exit) /\ d.from = c
    BY DatagramIs
  <1>4. /\ inbox' \in [Servers -> Seq(Datagrams)] /\ lost' \in BOOLEAN /\ (lost => lost')
        /\ \A s \in Servers \ {t} : Pending(s)' = Pending(s)
        /\ \/ lost' /\ Pending(t)' = Pending(t)
           \/ lost' = lost /\ Pending(t)' = Append(Pending(t), d)
    BY <1>1, <1>2, <1>3, SentIs
  <1>5. TypeOK'
    <2>1. FileTypes' /\ CountTypes' /\ ClientTypes'
      BY <1>1, <1>4, TypesAre DEF FileTypes, CountTypes, ClientTypes
    <2>2. NetTypes'
      BY <1>1, <1>4, TypesAre DEF NetTypes
    <2>3. QED
      BY <2>1, <2>2, TypesFrom
  <1>6. (\A e \in Client : e # c => cpc'[e] = cpc[e]) /\ cpc'[c] = "gone"
    BY <1>1 DEF TypeOK
  <1>7. c \notin Servers /\ c # Nobody
    BY WhoIs
  <1>8. Live(c) /\ ~Waits(c) /\ ~Live(c)'
    BY <1>1, <1>6, <1>7 DEF Live, Waits
  <1>9. ASSUME NEW x, x # c, Live(x)' PROVE Live(x) /\ (Waits(x) => Steady(x))
    <2>1. x \notin Servers => x \in Client
      BY <1>9 DEF Live
    <2>2. Live(x)
      BY <1>6, <1>9, <2>1 DEF Live
    <2>3. QED
      BY <1>1, <1>6, <1>9, <2>1, <2>2, SameSteady
  <1>10. SenderInv' /\ KindInv'
    <2>1. CASE lost' /\ Pending(t)' = Pending(t)
      <3>1. \A s \in Servers : Remains(s)
        BY <1>4, <2>1, SameRemains
      <3>2. \A x : Live(x)' => Live(x) /\ (Waits(x) => Steady(x))
        BY <1>8, <1>9
      <3>3. QED
        BY <1>4, <1>5, <3>1, <3>2, Remaining
    <2>2. CASE lost' = lost /\ Pending(t)' = Append(Pending(t), d)
      BY <1>2, <1>3, <1>4, <1>5, <1>7, <1>8, <1>9, <2>2, Sending
    <2>3. QED
      BY <1>4, <2>1, <2>2
  <1>11. PeerInv'
    BY <1>1, SamePeers
  <1>12. \A e \in Client : cpc'[e] = "wait" => cpc[e] = "wait"
    BY <1>6
  <1>13. QED
    BY <1>1, <1>5, <1>10, <1>11, <1>12, SameWanted DEF RequestInv

LEMMA SendRequests ==
  ASSUME TypeOK, RequestInv, NEW s \in Servers, Send(s)
  PROVE  TypeOK' /\ RequestInv'
  <1>1. /\ at[s] = "send" /\ SendTo(peer[s], Datagram(s, serving[s][1].text))
        /\ at' = [at EXCEPT ![s] = "wait"]
        /\ UNCHANGED <<recursive, splits, began, stops, files, value, forgot, serving, peer,
                       mail, result, cpc, asks, wanted, answers>>
    BY DEF Send, scenario, recordVars, clientVars
  <1>2. PendingIs(s)
    BY PendingNow
  <1>3. serving[s][1] \in Requests /\ mail[s] = <<>>
    BY <1>1, <1>2 DEF PendingIs
  <1>4. PICK t \in Zones : t = peer[s]
    BY DEF TypeOK
  <1>5. t \in Servers /\ t # "local"
    BY WhoIs
  <1>6. PICK d \in Datagrams : d = Datagram(s, serving[s][1].text) /\ d.from = s
                               /\ d.text = serving[s][1].text /\ d.text # Exit
    BY <1>3, RequestsAre, DatagramIs
  <1>7. /\ inbox' \in [Servers -> Seq(Datagrams)] /\ lost' \in BOOLEAN /\ (lost => lost')
        /\ \A r \in Servers \ {t} : Pending(r)' = Pending(r)
        /\ \/ lost' /\ Pending(t)' = Pending(t)
           \/ lost' = lost /\ Pending(t)' = Append(Pending(t), d)
    BY <1>1, <1>4, <1>5, <1>6, SentIs
  <1>8. (\A r \in Servers : r # s => at'[r] = at[r]) /\ at'[s] = "wait"
    BY <1>1 DEF TypeOK
  <1>9. TypeOK'
    <2>1. FileTypes' /\ CountTypes' /\ ClientTypes'
      BY <1>1, <1>7, TypesAre DEF FileTypes, CountTypes, ClientTypes
    <2>2. NetTypes
      BY TypesAre
    <2>3. ASSUME NEW r \in Servers
          PROVE  /\ Len(serving'[r]) = (IF at'[r] \in {"off", "recv"} THEN 0 ELSE 1)
                 /\ mail'[r] # <<>> => Len(mail'[r]) = 1 /\ at'[r] = "wait"
      BY <1>1, <1>8, <2>2 DEF NetTypes
    <2>4. NetTypes'
      BY <1>1, <1>7, <2>2, <2>3 DEF NetTypes
    <2>5. QED
      BY <2>1, <2>4, TypesFrom
  <1>10. Live(s) /\ ~Waits(s) /\ Waits(s)' /\ Asked(s)' = t /\ Wanted(s)' = d.text
    BY <1>1, <1>3, <1>4, <1>6, <1>8 DEF Live, Waits, Asked, Wanted
  <1>11. ASSUME NEW x, x # s, Live(x)' PROVE Live(x) /\ (Waits(x) => Steady(x))
    <2>1. Live(x)
      BY <1>1, <1>11 DEF Live
    <2>2. QED
      BY <1>1, <1>8, <1>11, <2>1, SameSteady
  <1>12. SenderInv' /\ KindInv'
    <2>1. CASE lost' /\ Pending(t)' = Pending(t)
      <3>1. \A r \in Servers : Remains(r)
        BY <1>7, <2>1, SameRemains
      <3>2. \A x : Live(x)' => Live(x) /\ (Waits(x) => Steady(x))
        BY <1>10, <1>11
      <3>3. QED
        BY <1>7, <1>9, <3>1, <3>2, Remaining
    <2>2. CASE lost' = lost /\ Pending(t)' = Append(Pending(t), d)
      <3>1. s \notin Client /\ s # Nobody
        BY WhoIs
      <3>2. QED
        BY <1>5, <1>6, <1>7, <1>9, <1>10, <1>11, <2>2, <3>1, Sending
    <2>3. QED
      BY <1>7, <2>1, <2>2
  <1>13. PeerInv'
    BY <1>1, <1>8, SamePeers
  <1>14. QED
    BY <1>1, <1>9, <1>12, <1>13, SameWanted DEF RequestInv
\* What is left when server s ends.
LEMMA EndRemains ==
  ASSUME TypeOK, RequestInv, TypeOK', NEW s \in Servers, End(s), at[s] = "wait" => lost'
  PROVE  /\ \A t \in Servers : Remains(t)
         /\ Answered(s)
         /\ \A x \in Servers : Waits(x) /\ x # s => Steady(x)
  <1>1. /\ at' = [at EXCEPT ![s] = "off"] /\ peer' = [peer EXCEPT ![s] = "root"]
        /\ mail' = [mail EXCEPT ![s] = <<>>]
        /\ Pending(s)' = <<>>
        /\ \A t \in Servers \ {s} : /\ inbox'[t] = Orphaned(inbox[t], s)
                                    /\ serving'[t] = Orphaned(serving[t], s)
    BY EndIs
  <1>2. \A t \in Servers \ {s} : at'[t] = at[t] /\ mail'[t] = mail[t] /\ peer'[t] = peer[t]
    BY <1>1 DEF TypeOK
  <1>3. Len(Pending(s)') = 0
    BY <1>1, EmptySeq
  <1>4. ASSUME NEW t \in Servers, t # s
        PROVE  \E n \in Nat :
                 /\ n = Len(Pending(t)) /\ n = Len(Pending(t)')
                 /\ \A k \in 1..n :
                      /\ Pending(t)'[k].text = Pending(t)[k].text
                      /\ Pending(t)'[k].from = IF Pending(t)[k].from = s THEN Nobody ELSE Pending(t)[k].from
    <2>1. PendingIs(t) /\ PendingIs(t)'
      BY PendingNow, PendingNext
    <2>2. PICK q \in Seq(Datagrams) : q = inbox[t]
      BY <2>1 DEF PendingIs
    <2>3. PICK m \in Nat : m = Len(q)
      BY LenProperties
    <2>4. /\ Len(inbox'[t]) = m
          /\ \A k \in 1..m : /\ inbox'[t][k].text = q[k].text
                             /\ inbox'[t][k].from = IF q[k].from = s THEN Nobody ELSE q[k].from
      BY <1>1, <1>4, <2>2, <2>3, OrphanedIs
    <2>5. CASE at[t] \in {"off", "recv"}
      <3>1. Pending(t) = q /\ Pending(t)' = inbox'[t]
        BY <1>2, <1>4, <2>1, <2>2, <2>5 DEF PendingIs
      <3>2. QED
        BY <2>3, <2>4, <3>1
    <2>6. CASE at[t] \notin {"off", "recv"}
      <3>1. /\ serving[t] \in Seq(Requests) /\ Len(serving[t]) = 1
            /\ Len(Pending(t)) = m + 1 /\ Pending(t)[1] = serving[t][1]
            /\ \A k \in 1..m : Pending(t)[k + 1] = q[k]
        BY <2>1, <2>2, <2>3, <2>6 DEF PendingIs
      <3>2. /\ Len(Pending(t)') = m + 1 /\ Pending(t)'[1] = serving'[t][1]
            /\ \A k \in 1..m : Pending(t)'[k + 1] = inbox'[t][k]
        BY <1>2, <1>4, <2>1, <2>4, <2>6 DEF PendingIs
      <3>3. 1 \in 1..1
        OBVIOUS
      <3>4. /\ serving'[t][1].text = serving[t][1].text
            /\ serving'[t][1].from = IF serving[t][1].from = s THEN Nobody ELSE serving[t][1].from
        BY <1>1, <1>4, <3>1, <3>3, OrphanedIs
      <3>5. ASSUME NEW k \in 1..(m + 1)
            PROVE  /\ Pending(t)'[k].text = Pending(t)[k].text
                   /\ Pending(t)'[k].from = IF Pending(t)[k].from = s THEN Nobody ELSE Pending(t)[k].from
        <4>1. CASE k = 1
          BY <3>1, <3>2, <3>4, <4>1
        <4>2. CASE k # 1
          <5>1. PICK i \in 1..m : k = i + 1
            BY <4>2
          <5>2. Pending(t)'[k] = inbox'[t][i] /\ Pending(t)[k] = q[i]
            BY <3>1, <3>2, <5>1
          <5>3. QED
            BY <2>4, <5>2
        <4>3. QED
          BY <4>1, <4>2
      <3>6. m + 1 \in Nat
        OBVIOUS
      <3>7. QED
        BY <3>1, <3>2, <3>5, <3>6
    <2>7. QED
      BY <2>5, <2>6
  <1>5. ASSUME NEW t \in Servers PROVE Remains(t)
    <2>1. CASE t = s
      <3>1. PICK n \in Nat : n = Len(Pending(s))
        BY PendingNow, LenProperties DEF PendingIs
      <3>2. RemainsFrom(s, 0)
        BY <1>3, <3>1 DEF RemainsFrom
      <3>3. QED
        BY <2>1, <3>2 DEF Remains
    <2>2. CASE t # s
      <3>1. PICK n \in Nat :
              /\ n = Len(Pending(t)) /\ n = Len(Pending(t)')
              /\ \A k \in 1..n :
                   /\ Pending(t)'[k].text = Pending(t)[k].text
                   /\ Pending(t)'[k].from = IF Pending(t)[k].from = s THEN Nobody ELSE Pending(t)[k].from
        BY <1>4, <2>2
      <3>2. ASSUME NEW k \in 1..n, Pending(t)[k].from = s PROVE lost'
        <4>1. s \in Client \cup Servers /\ Live(s)
          BY DEF Live
        <4>2. Waits(s)
          BY <3>1, <3>2, <4>1 DEF RequestInv, SenderInv
        <4>3. QED
          BY <4>2 DEF Waits
      <3>3. \A k \in 1..n : k + 0 = k
        OBVIOUS
      <3>4. RemainsFrom(t, 0)
        BY <3>1, <3>2, <3>3 DEF RemainsFrom
      <3>5. QED
        BY <3>4 DEF Remains
    <2>3. QED
      BY <2>1, <2>2
  <1>6. ASSUME NEW t \in Servers, NEW j \in 1..Len(Pending(t)') PROVE Pending(t)'[j].from # s
    <2>1. t # s
      BY <1>3
    <2>2. QED
      BY <1>4, <2>1, WhoIs
  <1>7. ASSUME NEW x \in Servers, Waits(x), x # s PROVE Steady(x)
    <2>1. serving[x] \in Seq(Requests) /\ Len(serving[x]) = 1
      BY <1>7, PendingNow DEF Waits, PendingIs
    <2>2. 1 \in 1..1
      OBVIOUS
    <2>3. serving'[x][1].text = serving[x][1].text
      BY <1>1, <1>7, <2>1, <2>2, OrphanedIs
    <2>4. QED
      BY <1>2, <1>7, <2>3, SameSteady
  <1>8. QED
    BY <1>5, <1>6, <1>7 DEF Answered

\* A server that ends harms no request, but those it has or sent.
LEMMA EndRequests ==
  ASSUME TypeOK, RequestInv, NEW s \in Servers, End(s), at[s] = "wait" => lost',
         stops' \in Nat, lost' \in BOOLEAN, lost => lost', UNCHANGED <<scenario, files, clientVars>>
  PROVE  TypeOK' /\ RequestInv'
  <1>1. UNCHANGED <<recursive, splits, began, files, cpc, asks, wanted, answers>>
    BY DEF scenario, clientVars
  <1>2. /\ at' = [at EXCEPT ![s] = "off"] /\ peer' = [peer EXCEPT ![s] = "root"]
        /\ NetTypes' /\ value' \in [Table -> Nat] /\ forgot' \in BOOLEAN
    BY EndIs
  <1>3. TypeOK'
    <2>1. FileTypes' /\ CountTypes' /\ ClientTypes'
      BY <1>1, <1>2, TypesAre DEF FileTypes, CountTypes, ClientTypes
    <2>2. QED
      BY <1>2, <2>1, TypesFrom
  <1>4. /\ \A t \in Servers : Remains(t)
        /\ Answered(s)
        /\ \A x \in Servers : Waits(x) /\ x # s => Steady(x)
    BY <1>3, EndRemains
  <1>5. ASSUME NEW x, Live(x)' PROVE Live(x) /\ (Waits(x) => Steady(x) \/ Answered(x))
    <2>1. Live(x)
      BY <1>1, <1>5 DEF Live
    <2>2. CASE x \in Servers
      BY <1>4, <2>1, <2>2
    <2>3. CASE x \notin Servers
      BY <1>1, <2>1, <2>3, SameSteady
    <2>4. QED
      BY <2>2, <2>3
  <1>6. SenderInv' /\ KindInv'
    BY <1>3, <1>4, <1>5, Remaining
  <1>7. \A t \in Servers : at'[t] \in {"send", "wait"} => at[t] \in {"send", "wait"} /\ peer'[t] = peer[t]
    BY <1>2 DEF TypeOK
  <1>8. PeerInv'
    BY <1>1, <1>7, SamePeers
  <1>9. QED
    BY <1>1, <1>3, <1>6, <1>8, SameWanted DEF RequestInv

LEMMA StopRequests ==
  ASSUME TypeOK, RequestInv, NEW s \in Servers, Stop(s)
  PROVE  TypeOK' /\ RequestInv'
  <1>1. /\ stops > 0 /\ stops' = stops - 1 /\ End(s)
        /\ lost' = (lost \/ serving[s] # <<>> \/ inbox[s] # <<>>)
        /\ UNCHANGED <<scenario, files, clientVars>>
    BY DEF Stop
  <1>2. stops' \in Nat
    BY <1>1 DEF TypeOK
  <1>3. at[s] = "wait" => serving[s] # <<>>
    BY PendingNow DEF PendingIs
  <1>4. lost' \in BOOLEAN /\ (lost => lost') /\ (at[s] = "wait" => lost')
    BY <1>1, <1>3
  <1>5. QED
    BY <1>1, <1>2, <1>4, EndRequests
\* The first request of a server that replies, and those behind it.
LEMMA ReplyIs ==
  ASSUME TypeOK, NEW s \in Servers, Reply(s)
  PROVE  /\ at[s] = "reply" /\ at' = [at EXCEPT ![s] = "recv"] /\ serving' = [serving EXCEPT ![s] = <<>>]
         /\ UNCHANGED <<recursive, splits, began, stops, files, value, forgot, inbox, peer, result, asks, wanted>>
         /\ serving[s][1] \in Requests /\ mail[s] = <<>> /\ result[s] \in Answers
         /\ at'[s] = "recv" /\ serving'[s] = <<>>
         /\ \A t \in Servers : t # s => at'[t] = at[t] /\ serving'[t] = serving[t] /\ Pending(t)' = Pending(t)
         /\ 1 \in 1..Len(Pending(s)) /\ Pending(s)[1] = serving[s][1]
         /\ Len(Pending(s)') + 1 = Len(Pending(s))
         /\ \A k \in 1..Len(Pending(s)') : Pending(s)[k + 1] = Pending(s)'[k]
  <1>1. /\ at[s] = "reply" /\ at' = [at EXCEPT ![s] = "recv"] /\ serving' = [serving EXCEPT ![s] = <<>>]
        /\ UNCHANGED <<recursive, splits, began, stops, files, value, forgot, inbox, peer, result, asks, wanted>>
    BY DEF Reply, Deliver, scenario, recordVars
  <1>2. PendingIs(s)
    BY PendingNow
  <1>3. /\ at'[s] = "recv" /\ serving'[s] = <<>> /\ result[s] \in Answers
        /\ \A t \in Servers : t # s => at'[t] = at[t] /\ serving'[t] = serving[t] /\ inbox'[t] = inbox[t]
    BY <1>1 DEF TypeOK
  <1>4. \A t \in Servers : t # s => Pending(t)' = Pending(t)
    BY <1>3, SamePending
  <1>5. inbox[s] \in Seq(Datagrams) /\ inbox'[s] = inbox[s]
    BY <1>1, <1>2 DEF PendingIs
  <1>6. Pending(s)' = inbox[s]
    BY <1>3, <1>5, ConcatEmptySeq DEF Pending
  <1>7. /\ serving[s][1] \in Requests /\ mail[s] = <<>>
        /\ Len(Pending(s)) = Len(inbox[s]) + 1
        /\ Pending(s)[1] = serving[s][1] /\ 1 \in 1..Len(Pending(s))
        /\ \A k \in 1..Len(inbox[s]) : Pending(s)[k + 1] = inbox[s][k]
    BY <1>1, <1>2 DEF PendingIs
  <1>8. QED
    BY <1>1, <1>3, <1>4, <1>6, <1>7

\* Whoever a reply goes to waits for it, and has no other request.
LEMMA ReplyAnswers ==
  ASSUME TypeOK, RequestInv, NEW s \in Servers, Reply(s), NEW x \in Client \cup Servers,
         x = serving[s][1].from, Live(x)
  PROVE  /\ Waits(x) /\ Asked(x) = s /\ Wanted(x) = serving[s][1].text /\ x # s
         /\ \A t \in Servers : \A j \in 1..Len(Pending(t)') : Pending(t)'[j].from # x
  <1>1. /\ at[s] = "reply"
        /\ \A t \in Servers : t # s => Pending(t)' = Pending(t)
        /\ 1 \in 1..Len(Pending(s)) /\ Pending(s)[1] = serving[s][1]
        /\ Len(Pending(s)') + 1 = Len(Pending(s))
        /\ \A k \in 1..Len(Pending(s)') : Pending(s)[k + 1] = Pending(s)'[k]
    BY ReplyIs
  <1>2. \A t \in Servers : \A j \in 1..Len(Pending(t)) : Pending(t)[j].from = x =>
          /\ Waits(x) /\ Asked(x) = t /\ Pending(t)[j].text = Wanted(x)
          /\ \A i \in 1..Len(Pending(t)) : Pending(t)[i].from = x => i = j
    BY DEF RequestInv, SenderInv
  <1>3. /\ Waits(x) /\ Asked(x) = s /\ Wanted(x) = serving[s][1].text
        /\ \A i \in 1..Len(Pending(s)) : Pending(s)[i].from = x => i = 1
    BY <1>1, <1>2
  <1>4. x # s
    BY <1>1, <1>3 DEF Waits
  <1>5. ASSUME NEW t \in Servers, NEW j \in 1..Len(Pending(t)'), Pending(t)'[j].from = x PROVE FALSE
    <2>1. t = s
      BY <1>1, <1>2, <1>3, <1>5
    <2>2. PICK n \in Nat : n = Len(Pending(s))
      BY PendingNow, LenProperties DEF PendingIs
    <2>3. PICK m \in Int : m = Len(Pending(s)')
      <3>1. PendingIs(s)
        BY PendingNow
      <3>2. Pending(s)' = inbox[s] /\ inbox[s] \in Seq(Datagrams)
        <4>1. serving'[s] = <<>> /\ inbox' = inbox /\ inbox[s] \in Seq(Datagrams)
          BY <3>1, ReplyIs DEF PendingIs
        <4>2. QED
          BY <4>1, ConcatEmptySeq DEF Pending
      <3>3. QED
        BY <3>2, LenProperties
    <2>4. j \in 1..m /\ m + 1 = n
      BY <1>1, <1>5, <2>1, <2>2, <2>3
    <2>5. j + 1 \in 1..n /\ j + 1 # 1
      BY <2>4
    <2>6. Pending(s)[j + 1].from = x
      BY <1>1, <1>5, <2>1
    <2>7. QED
      BY <1>3, <2>2, <2>5, <2>6
  <1>6. QED
    BY <1>3, <1>4, <1>5

\* Where the reply goes.
LEMMA ReplyGoes ==
  ASSUME TypeOK, RequestInv, NEW s \in Servers, Reply(s), NEW x, x = serving[s][1].from
  PROVE  \/ /\ x \in Servers /\ x # s /\ at[x] = "wait" /\ mail[x] = <<>> /\ peer[x] = s
            /\ serving[x][1].text = serving[s][1].text
            /\ mail' = [mail EXCEPT ![x] = <<result[s]>>] /\ UNCHANGED <<cpc, answers, lost>>
         \/ /\ x \in Client /\ cpc[x] = "wait" /\ wanted[x][1] = serving[s][1].text /\ s = "local"
            /\ answers' = Append(answers, [from |-> x, name |-> serving[s][1].text, is |-> result[s]])
            /\ cpc' = [cpc EXCEPT ![x] = "prompt"] /\ UNCHANGED <<mail, lost>>
         \/ x \notin Servers /\ ~Live(x) /\ lost' /\ UNCHANGED <<mail, cpc, answers>>
  <1>1. x \in Client \cup Servers \cup {Nobody} /\ Deliver(s, x)
    BY ReplyIs, RequestsAre DEF Reply
  <1>2. CASE x \in Servers
    <2>1. /\ mail' = [mail EXCEPT ![x] = <<result[s]>>] /\ UNCHANGED <<cpc, answers, lost>>
      BY <1>1, <1>2 DEF Deliver
    <2>2. Waits(x) /\ Asked(x) = s /\ Wanted(x) = serving[s][1].text /\ x # s
      BY <1>2, ReplyAnswers DEF Live
    <2>3. QED
      BY <1>2, <2>1, <2>2 DEF Waits, Asked, Wanted
  <1>3. CASE x \in Client /\ cpc[x] = "wait"
    <2>1. x \notin Servers /\ x # Nobody
      BY <1>3, WhoIs
    <2>2. /\ answers' = Append(answers, [from |-> x, name |-> serving[s][1].text, is |-> result[s]])
          /\ cpc' = [cpc EXCEPT ![x] = "prompt"] /\ UNCHANGED <<mail, lost>>
      BY <1>1, <1>3, <2>1 DEF Deliver
    <2>3. Asked(x) = s /\ Wanted(x) = serving[s][1].text
      BY <1>3, ReplyAnswers DEF Live
    <2>4. QED
      BY <1>3, <2>1, <2>2, <2>3 DEF Asked, Wanted
  <1>4. CASE x \notin Servers /\ ~(x \in Client /\ cpc[x] = "wait")
    <2>1. x = Nobody \/ x \in Client
      BY <1>1, <1>4
    <2>2. lost' = TRUE /\ UNCHANGED <<mail, cpc, answers>>
      BY <1>1, <1>4, <2>1 DEF Deliver
    <2>3. ~Live(x)
      <3>1. Live(x) => x \in Client /\ cpc[x] # "wait"
        BY <1>4, <2>1, WhoIs DEF Live
      <3>2. Live(x) => Waits(x)
        BY <3>1, ReplyAnswers
      <3>3. QED
        BY <1>4, <3>1, <3>2 DEF Waits
    <2>4. QED
      BY <1>4, <2>2, <2>3
  <1>5. QED
    BY <1>2, <1>3, <1>4

LEMMA ReplyRequests ==
  ASSUME TypeOK, RequestInv, NEW s \in Servers, Reply(s)
  PROVE  TypeOK' /\ RequestInv'
  <1>1. PICK x : x = serving[s][1].from
    OBVIOUS
  <1>2. /\ at[s] = "reply" /\ at' = [at EXCEPT ![s] = "recv"] /\ serving' = [serving EXCEPT ![s] = <<>>]
        /\ UNCHANGED <<recursive, splits, began, stops, files, value, forgot, inbox, peer, result, asks, wanted>>
        /\ serving[s][1] \in Requests /\ mail[s] = <<>> /\ result[s] \in Answers
        /\ at'[s] = "recv" /\ serving'[s] = <<>>
        /\ \A t \in Servers : t # s => at'[t] = at[t] /\ serving'[t] = serving[t] /\ Pending(t)' = Pending(t)
    BY ReplyIs
  <1>3. \/ /\ x \in Servers /\ x # s /\ at[x] = "wait" /\ mail[x] = <<>>
           /\ mail' = [mail EXCEPT ![x] = <<result[s]>>] /\ UNCHANGED <<cpc, answers, lost>>
        \/ /\ x \in Client /\ cpc[x] = "wait"
           /\ answers' = Append(answers, [from |-> x, name |-> serving[s][1].text, is |-> result[s]])
           /\ cpc' = [cpc EXCEPT ![x] = "prompt"] /\ UNCHANGED <<mail, lost>>
        \/ x \notin Servers /\ ~Live(x) /\ lost' /\ UNCHANGED <<mail, cpc, answers>>
    BY <1>1, ReplyGoes
  <1>4. NetTypes /\ ClientTypes /\ lost \in BOOLEAN
    BY TypesAre DEF CountTypes
  <1>5. \A t \in Servers : t # x => mail'[t] = mail[t]
    BY <1>3, <1>4 DEF NetTypes
  <1>6. \A c \in Client : c # x => cpc'[c] = cpc[c]
    BY <1>3, <1>4 DEF ClientTypes
  <1>7. /\ lost' \in BOOLEAN /\ (lost => lost') /\ \A c \in Client : cpc'[c] = "wait" => cpc[c] = "wait"
    <2>1. lost' = lost \/ lost' = TRUE
      BY <1>3, ReplyGoes DEF Deliver, Reply
    <2>2. \A c \in Client : cpc'[c] = "wait" => cpc[c] = "wait"
      BY <1>3, <1>4 DEF ClientTypes
    <2>3. QED
      BY <1>4, <2>1, <2>2
  <1>8. TypeOK'
    <2>1. FileTypes' /\ CountTypes'
      BY <1>2, <1>7, TypesAre DEF FileTypes, CountTypes
    <2>2. ClientTypes'
      <3>1. x \in Client => [from |-> x, name |-> serving[s][1].text, is |-> result[s]] \in [from : Client, name : Hosts, is : Answers]
        BY <1>2, RequestsAre
      <3>2. answers' \in Seq([from : Client, name : Hosts, is : Answers])
        <4>1. PICK S : S = [from : Client, name : Hosts, is : Answers]
          OBVIOUS
        <4>2. PICK e : e = [from |-> x, name |-> serving[s][1].text, is |-> result[s]]
          OBVIOUS
        <4>3. answers \in Seq(S) /\ (x \in Client => e \in S)
          BY <1>4, <3>1, <4>1, <4>2 DEF ClientTypes
        <4>4. answers' = answers \/ (x \in Client /\ answers' = Append(answers, e))
          BY <1>3, <4>2
        <4>5. answers' \in Seq(S)
          BY <4>3, <4>4, AppendProperties
        <4>6. QED
          BY <4>1, <4>5
      <3>3. cpc' \in [Client -> {"prompt", "wait", "gone"}]
        BY <1>3, <1>4 DEF ClientTypes
      <3>4. QED
        BY <1>2, <1>4, <3>2, <3>3 DEF ClientTypes
    <2>3. NetTypes'
      <3>1. PICK y : y = <<result[s]>>
        OBVIOUS
      <3>2. y \in Seq(Answers) /\ Len(y) = 1
        BY <1>2, <3>1
      <3>3. mail' = mail \/ (x \in Servers /\ mail' = [mail EXCEPT ![x] = y])
        BY <1>3, <3>1
      <3>4. <<>> \in Seq(Requests) /\ Len(<<>>) = 0
        BY EmptySeq
      <3>5. mail' \in [Servers -> Seq(Answers)] /\ serving' \in [Servers -> Seq(Requests)]
            /\ at' \in [Servers -> {"off", "recv", "send", "wait", "reply"}]
        BY <1>2, <1>4, <3>2, <3>3, <3>4 DEF NetTypes
      <3>6. ASSUME NEW t \in Servers
            PROVE  /\ Len(serving'[t]) = (IF at'[t] \in {"off", "recv"} THEN 0 ELSE 1)
                   /\ mail'[t] # <<>> => Len(mail'[t]) = 1 /\ at'[t] = "wait"
        <4>1. Len(serving'[t]) = (IF at'[t] \in {"off", "recv"} THEN 0 ELSE 1)
          <5>1. CASE t = s
            BY <1>2, <3>4, <5>1
          <5>2. CASE t # s
            <6>1. serving'[t] = serving[t] /\ at'[t] = at[t]
              BY <1>2, <5>2
            <6>2. QED
              BY <1>4, <6>1 DEF NetTypes
          <5>3. QED
            BY <5>1, <5>2
        <4>2. CASE t = x /\ mail' # mail
          <5>1. x \in Servers /\ x # s /\ at[x] = "wait" /\ mail' = [mail EXCEPT ![x] = y]
            BY <1>3, <3>1, <4>2
          <5>2. mail'[t] = y /\ at'[t] = "wait"
            BY <1>2, <1>4, <4>2, <5>1 DEF NetTypes
          <5>3. QED
            BY <3>2, <4>1, <5>2
        <4>3. CASE t # x \/ mail' = mail
          <5>1. mail'[t] = mail[t] /\ (mail[t] # <<>> => t # s)
            BY <1>2, <1>5, <4>3
          <5>2. QED
            BY <1>2, <1>4, <4>1, <5>1 DEF NetTypes
        <4>4. QED
          BY <4>2, <4>3
      <3>7. QED
        BY <1>2, <1>4, <3>5, <3>6 DEF NetTypes
    <2>4. QED
      BY <2>1, <2>2, <2>3, TypesFrom
  <1>9. ASSUME NEW t \in Servers PROVE Remains(t)
    <2>1. CASE t = s
      <3>1. RemainsFrom(s, 1)
        <4>1. PICK n \in Nat : n = Len(Pending(s)')
          BY <1>8, PendingNext, LenProperties DEF PendingIs
        <4>2. Len(Pending(s)) = n + 1 /\ \A k \in 1..n : Pending(s)[k + 1] = Pending(s)'[k]
          BY <4>1, ReplyIs
        <4>3. 1 + n <= n + 1
          OBVIOUS
        <4>4. QED
          BY <4>1, <4>2, <4>3 DEF RemainsFrom
      <3>2. QED
        BY <2>1, <3>1 DEF Remains
    <2>2. CASE t # s
      BY <1>2, <2>2, SameRemains
    <2>3. QED
      BY <2>1, <2>2
  <1>10. ASSUME NEW y, Live(y)' PROVE Live(y) /\ (Waits(y) => Steady(y) \/ Answered(y))
    <2>1. Live(y)
      BY <1>3, <1>4, <1>10 DEF Live, ClientTypes
    <2>2. CASE y = x
      BY <1>1, <2>1, <2>2, ReplyAnswers DEF Answered, Live
    <2>3. CASE y # x
      <3>1. Waits(y) => y # s
        BY <1>2 DEF Waits
      <3>2. y \notin Servers => y \in Client
        BY <2>1 DEF Live
      <3>3. QED
        BY <1>2, <1>5, <1>6, <2>1, <2>3, <3>1, <3>2, SameSteady
    <2>4. QED
      BY <2>2, <2>3
  <1>11. SenderInv' /\ KindInv'
    BY <1>7, <1>8, <1>9, <1>10, Remaining
  <1>12. \A t \in Servers : at'[t] \in {"send", "wait"} => at[t] \in {"send", "wait"} /\ peer'[t] = peer[t]
    BY <1>2
  <1>13. PeerInv'
    BY <1>2, <1>12, SamePeers
  <1>14. QED
    BY <1>2, <1>7, <1>8, <1>11, <1>13, SameWanted DEF RequestInv
\* What a server receives is the first of what it has.
LEMMA ReceivedIs ==
  ASSUME TypeOK, RequestInv, NEW s \in Servers, Receives(s)
  PROVE  /\ at[s] = "recv" /\ Head(inbox[s]) \in Datagrams
         /\ 1 \in 1..Len(Pending(s)) /\ Head(inbox[s]) = Pending(s)[1]
         /\ s # "local" \/ Head(inbox[s]).text # Exit =>
              Head(inbox[s]) \in Requests /\ Head(inbox[s]).text \in Hosts
  <1>1. at[s] = "recv" /\ inbox[s] # <<>>
    BY DEF Receives
  <1>2. inbox[s] \in Seq(Datagrams) /\ Pending(s) = inbox[s]
    BY <1>1, PendingNow DEF PendingIs
  <1>3. PICK n \in Nat \ {0} : n = Len(inbox[s])
    BY <1>1, <1>2, EmptySeq
  <1>4. Head(inbox[s]) \in Datagrams
    BY <1>1, <1>2, HeadTailProperties
  <1>5. 1 \in 1..n
    OBVIOUS
  <1>6. Head(inbox[s]) = inbox[s][1]
    BY <1>1, <1>2
  <1>7. s # "local" => Head(inbox[s]).text # Exit
    BY <1>2, <1>3, <1>5, <1>6 DEF RequestInv, KindInv
  <1>8. QED
    BY <1>1, <1>2, <1>3, <1>4, <1>5, <1>6, <1>7, RequestsAre

LEMMA TakeRequests ==
  ASSUME TypeOK, RequestInv, NEW s \in Servers, Receives(s), NEW d \in Requests, d = Head(inbox[s]),
         NEW l \in {"send", "reply"}, Take(s, d, l), UNCHANGED <<scenario, stops, clientVars, mail, lost, forgot>>,
         NEW p \in Zones, peer' = [peer EXCEPT ![s] = p] \/ (peer' = peer /\ l = "reply"),
         l = "send" => IF s = "local" THEN p = "root" ELSE recursive /\ s # "auth" /\ p = NextServer(s),
         result' \in [Servers -> Answers], FileTypes', value' \in [Table -> Nat]
  PROVE  TypeOK' /\ RequestInv'
  <1>1. UNCHANGED <<recursive, splits, began, stops, cpc, asks, wanted, answers, mail, lost, forgot>>
    BY DEF scenario, clientVars
  <1>2. /\ at' = [at EXCEPT ![s] = l] /\ at[s] = "recv" /\ mail[s] = <<>>
        /\ serving' = [serving EXCEPT ![s] = <<d>>]
        /\ inbox' = [inbox EXCEPT ![s] = Tail(@)]
        /\ Pending(s)' = Pending(s)
        /\ at' \in [Servers -> {"off", "recv", "send", "wait", "reply"}]
        /\ inbox' \in [Servers -> Seq(Datagrams)] /\ serving' \in [Servers -> Seq(Requests)]
        /\ \A t \in Servers :
             /\ Len(serving'[t]) = (IF at'[t] \in {"off", "recv"} THEN 0 ELSE 1)
             /\ mail'[t] # <<>> => Len(mail'[t]) = 1 /\ at'[t] = "wait"
    BY <1>1, TakeIs
  <1>3. NetTypes /\ ClientTypes /\ CountTypes
    BY TypesAre
  <1>4. TypeOK'
    <2>1. CountTypes' /\ ClientTypes'
      BY <1>1, <1>3 DEF CountTypes, ClientTypes
    <2>2. peer' \in [Servers -> Zones]
      BY <1>3 DEF NetTypes
    <2>3. NetTypes'
      BY <1>1, <1>2, <1>3, <2>2 DEF NetTypes
    <2>4. QED
      BY <2>1, <2>3, TypesFrom
  <1>5. \A t \in Servers : t # s => /\ at'[t] = at[t] /\ serving'[t] = serving[t]
                                    /\ inbox'[t] = inbox[t] /\ peer'[t] = peer[t]
    BY <1>2, <1>3 DEF NetTypes
  <1>6. \A t \in Servers : Remains(t)
    BY <1>2, <1>5, SamePending, SameRemains
  <1>7. ASSUME NEW x, Live(x)' PROVE Live(x) /\ (Waits(x) => Steady(x))
    <2>1. Live(x)
      BY <1>1, <1>7 DEF Live
    <2>2. Waits(x) => x # s
      BY <1>2 DEF Waits
    <2>3. QED
      BY <1>1, <1>5, <2>1, <2>2, SameSteady
  <1>8. SenderInv' /\ KindInv'
    BY <1>1, <1>4, <1>6, <1>7, Remaining
  <1>9. at'[s] = l /\ (l = "send" => peer'[s] = p)
    BY <1>2, <1>3 DEF NetTypes
  <1>10. ASSUME NEW t \in Servers, at'[t] \in {"send", "wait"}
         PROVE  IF t = "local" THEN recursive' => peer'[t] = "root"
                ELSE recursive' /\ t # "auth" /\ peer'[t] = NextServer(t)
    <2>1. CASE t = s
      BY <1>1, <1>9, <1>10, <2>1
    <2>2. CASE t # s
      BY <1>1, <1>5, <1>10, <2>2 DEF RequestInv, PeerInv
    <2>3. QED
      BY <2>1, <2>2
  <1>11. PeerInv'
    BY <1>10 DEF PeerInv
  <1>12. QED
    BY <1>1, <1>4, <1>8, <1>11, SameWanted DEF RequestInv

LEMMA LocalReceiveRequests ==
  ASSUME TypeOK, RequestInv, LocalReceive
  PROVE  TypeOK' /\ RequestInv'
  <1>1. PICK s \in Servers : s = "local"
    BY WhoIs
  <1>2. PICK d : d = Head(inbox[s])
    OBVIOUS
  <1>3. /\ Receives(s) /\ UNCHANGED <<scenario, stops, files, clientVars>>
        /\ \/ d.text = Exit /\ End(s) /\ lost' = (lost \/ Len(inbox[s]) > 1)
           \/ /\ d.text # Exit /\ Take(s, d, "send") /\ peer' = [peer EXCEPT ![s] = "root"]
              /\ UNCHANGED <<mail, result, lost, value, forgot>>
    BY <1>1, <1>2 DEF LocalReceive
  <1>4. at[s] = "recv" /\ (d.text # Exit => d \in Requests)
    BY <1>2, <1>3, ReceivedIs
  <1>5. CASE d.text = Exit /\ End(s) /\ lost' = (lost \/ Len(inbox[s]) > 1)
    <2>1. stops' \in Nat
      BY <1>3 DEF TypeOK
    <2>2. lost' \in BOOLEAN /\ (lost => lost') /\ (at[s] = "wait" => lost')
      BY <1>4, <1>5
    <2>3. QED
      BY <1>3, <1>5, <2>1, <2>2, EndRequests
  <1>6. CASE /\ d.text # Exit /\ Take(s, d, "send") /\ peer' = [peer EXCEPT ![s] = "root"]
             /\ UNCHANGED <<mail, result, lost, value, forgot>>
    <2>1. FileTypes' /\ result' \in [Servers -> Answers] /\ value' \in [Table -> Nat]
      BY <1>3, <1>6, TypesAre DEF FileTypes, NetTypes, CountTypes, scenario
    <2>2. UNCHANGED <<scenario, stops, clientVars, mail, lost, forgot>>
      BY <1>3, <1>6
    <2>3. "root" \in Zones /\ "send" \in {"send", "reply"}
      BY WhoIs
    <2>4. QED
      BY <1>1, <1>2, <1>3, <1>4, <1>6, <2>1, <2>2, <2>3, TakeRequests
  <1>7. QED
    BY <1>3, <1>5, <1>6
LEMMA MovedTyped ==
  ASSUME NEW N, NEW s \in Seq(Tokens(N)), NEW n, Holds(s, n)
  PROVE  Moved(s, Place(s, n)) \in Seq(Tokens(N))
  <1>1. PICK l \in Nat : l = Len(s)
    BY LenProperties
  <1>2. QED
    BY <1>1, LineOf

\* The root or the top level server has taken d and will answer, or ask.
Refers(s, d, l) ==
  /\ Receives(s) /\ d = Head(inbox[s]) /\ d.text \in Hosts /\ Take(s, d, l)
  /\ UNCHANGED <<scenario, stops, clientVars, mail, lost, forgot, value>>
  /\ \/ /\ Holds(files[s], Domain[s][d.text]) /\ l = (IF recursive THEN "send" ELSE "reply")
        /\ files' = [files EXCEPT ![s] = Moved(files[s], Place(files[s], Domain[s][d.text]))]
        /\ result' = [result EXCEPT ![s] = Referral]
        /\ peer' = [peer EXCEPT ![s] = NextServer(s)]
     \/ /\ ~Holds(files[s], Domain[s][d.text]) /\ l = "reply"
        /\ result' = [result EXCEPT ![s] = NotFound]
        /\ UNCHANGED <<files, peer>>

LEMMA ReferIs ==
  ASSUME TypeOK, RequestInv, NEW s \in {"root", "tld"}, Refer(s)
  PROVE  \E d \in Requests : \E l \in {"send", "reply"} : Refers(s, d, l)
  <1>1. s \in Servers /\ s # "local" /\ Receives(s)
    BY WhoIs DEF Refer
  <1>2. PICK d \in Requests : d = Head(inbox[s]) /\ d.text \in Hosts
    BY <1>1, ReceivedIs
  <1>3. /\ IF Holds(files[s], Domain[s][d.text])
             THEN /\ files' = [files EXCEPT ![s] = Moved(files[s], Place(files[s], Domain[s][d.text]))]
                  /\ Take(s, d, IF recursive THEN "send" ELSE "reply")
                  /\ result' = [result EXCEPT ![s] = Referral]
                  /\ peer' = [peer EXCEPT ![s] = NextServer(s)]
             ELSE /\ Take(s, d, "reply")
                  /\ result' = [result EXCEPT ![s] = NotFound]
                  /\ UNCHANGED <<files, peer>>
        /\ UNCHANGED <<scenario, stops, value, forgot, mail, clientVars, lost>>
    BY <1>2 DEF Refer
  <1>4. CASE Holds(files[s], Domain[s][d.text])
    <2>1. PICK l \in {"send", "reply"} : l = (IF recursive THEN "send" ELSE "reply")
      OBVIOUS
    <2>2. Refers(s, d, l)
      BY <1>1, <1>2, <1>3, <1>4, <2>1 DEF Refers
    <2>3. QED
      BY <2>2
  <1>5. CASE ~Holds(files[s], Domain[s][d.text])
    <2>1. Refers(s, d, "reply")
      BY <1>1, <1>2, <1>3, <1>5 DEF Refers
    <2>2. QED
      BY <2>1
  <1>6. QED
    BY <1>4, <1>5

LEMMA ReferRequests ==
  ASSUME TypeOK, RequestInv, NEW s \in {"root", "tld"}, Refer(s)
  PROVE  TypeOK' /\ RequestInv'
  <1>1. PICK d \in Requests : \E l \in {"send", "reply"} : Refers(s, d, l)
    BY ReferIs
  <1>2. PICK l \in {"send", "reply"} : Refers(s, d, l)
    BY <1>1
  <1>3. s \in Servers /\ s \in Zones /\ s # "local" /\ s # "auth" /\ NextServer(s) \in Zones
    BY WhoIs DEF NextServer
  <1>4. FileTypes /\ NetTypes /\ CountTypes
    BY TypesAre
  <1>5. UNCHANGED <<recursive, splits, began>>
    BY <1>2 DEF Refers, scenario
  <1>6. FileTypes'
    <2>1. CASE Holds(files[s], Domain[s][d.text])
      <3>1. PICK m : m = Moved(files[s], Place(files[s], Domain[s][d.text]))
        OBVIOUS
      <3>2. m \in Seq(Tokens(Names))
        BY <1>3, <1>4, <2>1, <3>1, MovedTyped DEF FileTypes
      <3>3. files' = [files EXCEPT ![s] = m]
        BY <1>2, <2>1, <3>1 DEF Refers
      <3>4. files' \in [Zones -> Seq(Tokens(Names))] /\ files'.auth = files.auth
        BY <1>3, <1>4, <3>2, <3>3, WhoIs DEF FileTypes
      <3>5. QED
        BY <1>4, <1>5, <3>4 DEF FileTypes
    <2>2. CASE ~Holds(files[s], Domain[s][d.text])
      BY <1>2, <1>4, <1>5, <2>2 DEF FileTypes, Refers
    <2>3. QED
      BY <2>1, <2>2
  <1>7. result' \in [Servers -> Answers] /\ value' \in [Table -> Nat]
    <2>1. result' \in {[result EXCEPT ![s] = Referral], [result EXCEPT ![s] = NotFound]} /\ value' = value
      BY <1>2 DEF Refers
    <2>2. QED
      BY <1>4, <2>1, TakenAre DEF NetTypes, CountTypes
  <1>8. /\ Receives(s) /\ d = Head(inbox[s]) /\ Take(s, d, l)
        /\ UNCHANGED <<scenario, stops, clientVars, mail, lost, forgot>>
        /\ l = "send" => recursive
        /\ peer' = [peer EXCEPT ![s] = NextServer(s)] \/ (peer' = peer /\ l = "reply")
    BY <1>2 DEF Refers
  <1>9. QED
    BY <1>3, <1>6, <1>7, <1>8, TakeRequests

\* The authoritative server has taken d and will answer.
Resolves(d) ==
  /\ Receives("auth") /\ d = Head(inbox["auth"]) /\ d.text \in Hosts /\ Take("auth", d, "reply")
  /\ UNCHANGED <<scenario, stops, clientVars, mail, lost, forgot, peer>>
  /\ \/ /\ ~Holds(files.auth, d.text)
        /\ result' = [result EXCEPT !["auth"] = NotFound]
        /\ UNCHANGED <<files, value>>
     \/ /\ Holds(files.auth, d.text) /\ d.text \in Table
        /\ Pointer(d.text) < Len(Words(files.auth, Place(files.auth, d.text)))
        /\ result' = [result EXCEPT !["auth"] = Words(files.auth, Place(files.auth, d.text))[Pointer(d.text) + 1]]
        /\ value' = [value EXCEPT ![d.text] = Rotated(d.text)]
        /\ files' = [files EXCEPT !.auth = Moved(files.auth, Place(files.auth, d.text))]

LEMMA ResolveIs ==
  ASSUME TypeOK, RequestInv, Resolve
  PROVE  \/ \E d \in Requests : Resolves(d)
         \/ Receives("auth") /\ End("auth") /\ UNCHANGED <<scenario, files, stops, clientVars, lost>>
  <1>1. "auth" \in Servers /\ "auth" # "local" /\ Receives("auth")
    BY WhoIs DEF Resolve
  <1>2. PICK d \in Requests : d = Head(inbox["auth"]) /\ d.text \in Hosts
    BY <1>1, ReceivedIs
  <1>3. PICK h : h = d.text
    OBVIOUS
  <1>4. PICK w : w = Words(files.auth, Place(files.auth, h))
    OBVIOUS
  <1>5. /\ \/ /\ ~Holds(files.auth, h)
              /\ Take("auth", d, "reply")
              /\ result' = [result EXCEPT !["auth"] = NotFound]
              /\ UNCHANGED <<files, value, forgot, peer, mail>>
           \/ /\ Holds(files.auth, h) /\ h \in Table /\ Pointer(h) < Len(w)
              /\ Take("auth", d, "reply")
              /\ result' = [result EXCEPT !["auth"] = w[Pointer(h) + 1]]
              /\ value' = [value EXCEPT ![h] = Rotated(h)]
              /\ files' = [files EXCEPT !.auth = Moved(files.auth, Place(files.auth, h))]
              /\ UNCHANGED <<forgot, peer, mail>>
           \/ /\ Holds(files.auth, h) /\ (h \in Table => Pointer(h) >= Len(w))
              /\ End("auth")
              /\ UNCHANGED files
        /\ UNCHANGED <<scenario, stops, clientVars, lost>>
    BY <1>2, <1>3, <1>4 DEF Resolve
  <1>6. CASE ~Holds(files.auth, h) /\ Take("auth", d, "reply")
             /\ result' = [result EXCEPT !["auth"] = NotFound]
             /\ UNCHANGED <<files, value, forgot, peer, mail>>
    <2>1. Resolves(d)
      BY <1>1, <1>2, <1>3, <1>5, <1>6 DEF Resolves
    <2>2. QED
      BY <2>1
  <1>7. CASE /\ Holds(files.auth, h) /\ h \in Table /\ Pointer(h) < Len(w)
             /\ Take("auth", d, "reply")
             /\ result' = [result EXCEPT !["auth"] = w[Pointer(h) + 1]]
             /\ value' = [value EXCEPT ![h] = Rotated(h)]
             /\ files' = [files EXCEPT !.auth = Moved(files.auth, Place(files.auth, h))]
             /\ UNCHANGED <<forgot, peer, mail>>
    <2>1. Resolves(d)
      BY <1>1, <1>2, <1>3, <1>4, <1>5, <1>7 DEF Resolves
    <2>2. QED
      BY <2>1
  <1>8. CASE End("auth") /\ UNCHANGED files
    BY <1>1, <1>5, <1>8
  <1>9. QED
    BY <1>5, <1>6, <1>7, <1>8

LEMMA TokensGrow ==
  /\ Hosts \subseteq Names
  /\ \A s : s \in Seq(Tokens(Hosts)) => s \in Seq(Tokens(Names))
  <1>1. Hosts \subseteq Names
    BY DEF Names
  <1>2. Tokens(Hosts) \subseteq Tokens(Names)
    BY <1>1 DEF Tokens
  <1>3. QED
    BY <1>1, <1>2, SeqMonotonic

\* What the authoritative server finds.
LEMMA ResolvedIs ==
  ASSUME TypeOK, NEW h \in Hosts, Holds(files.auth, h), h \in Table,
         NEW w, w = Words(files.auth, Place(files.auth, h)), Pointer(h) < Len(w)
  PROVE  /\ Pointer(h) \in 0..2 /\ Pointer(h) + 1 \in 1..Len(w) /\ w[Pointer(h) + 1] \in Taken
         /\ WellFormed(files.auth) /\ Ends(files.auth) => w[Pointer(h) + 1] = Address(h, Pointer(h))
  <1>1. files.auth \in Seq(Tokens(Hosts)) /\ value[h] \in Nat
    BY DEF TypeOK
  <1>2. w \in Seq(Taken)
    BY <1>1, WordsTyped
  <1>3. PICK p \in 0..2 : p = Pointer(h)
    BY <1>1 DEF Pointer
  <1>4. PICK n \in Nat : n = Len(w)
    BY <1>2, LenProperties
  <1>5. p < n
    BY <1>3, <1>4
  <1>6. p + 1 \in 1..n
    BY <1>5
  <1>7. w[p + 1] \in Taken
    BY <1>2, <1>4, <1>6, ElementOfSeq
  <1>8. ASSUME WellFormed(files.auth), Ends(files.auth) PROVE w[p + 1] = Address(h, p)
    <2>1. Len(w) = Addresses[h] /\ \A k \in 1..Addresses[h] : w[k] = Address(h, k - 1)
      BY <1>1, <1>8, WordsAre
    <2>2. \A k \in 1..n : w[k] = Address(h, k - 1)
      BY <1>4, <2>1
    <2>3. (p + 1) - 1 = p
      OBVIOUS
    <2>4. QED
      BY <1>6, <2>2, <2>3
  <1>9. QED
    BY <1>3, <1>4, <1>6, <1>7, <1>8

LEMMA ResolveRequests ==
  ASSUME TypeOK, RequestInv, Resolve
  PROVE  TypeOK' /\ RequestInv'
  <1>1. PICK s \in Servers : s = "auth"
    BY WhoIs
  <1>2. FileTypes /\ NetTypes /\ CountTypes
    BY TypesAre
  <1>3. CASE \E d \in Requests : Resolves(d)
    <2>1. PICK d \in Requests : Resolves(d)
      BY <1>3
    <2>2. UNCHANGED <<recursive, splits, began>>
      BY <2>1 DEF Resolves, scenario
    <2>3. CASE ~Holds(files.auth, d.text)
      <3>1. result' = [result EXCEPT ![s] = NotFound] /\ UNCHANGED <<files, value>>
        BY <1>1, <2>1, <2>3 DEF Resolves
      <3>2. FileTypes' /\ result' \in [Servers -> Answers] /\ value' \in [Table -> Nat]
        BY <1>2, <2>2, <3>1, TakenAre DEF FileTypes, NetTypes, CountTypes
      <3>3. "root" \in Zones /\ "reply" \in {"send", "reply"}
        BY WhoIs
      <3>4. /\ Receives(s) /\ d = Head(inbox[s]) /\ Take(s, d, "reply") /\ peer' = peer
            /\ UNCHANGED <<scenario, stops, clientVars, mail, lost, forgot>>
        BY <1>1, <2>1 DEF Resolves
      <3>5. QED
        BY <3>2, <3>3, <3>4, TakeRequests
    <2>4. CASE Holds(files.auth, d.text)
      <3>1. PICK h \in Hosts : h = d.text
        BY <2>1 DEF Resolves
      <3>2. PICK w : w = Words(files.auth, Place(files.auth, h))
        OBVIOUS
      <3>3. PICK m : m = Moved(files.auth, Place(files.auth, h))
        OBVIOUS
      <3>4. /\ h \in Table /\ Pointer(h) < Len(w)
            /\ result' = [result EXCEPT ![s] = w[Pointer(h) + 1]]
            /\ value' = [value EXCEPT ![h] = Rotated(h)]
            /\ files' = [files EXCEPT !.auth = m]
        BY <1>1, <2>1, <2>4, <3>1, <3>2, <3>3 DEF Resolves
      <3>5. w[Pointer(h) + 1] \in Answers
        BY <2>4, <3>1, <3>2, <3>4, ResolvedIs, TakenAre
      <3>6. result' \in [Servers -> Answers]
        BY <1>2, <3>4, <3>5 DEF NetTypes
      <3>7. value' \in [Table -> Nat]
        BY <1>2, <3>4 DEF CountTypes, Rotated
      <3>8. m \in Seq(Tokens(Hosts)) /\ m \in Seq(Tokens(Names))
        BY <1>2, <2>4, <3>1, <3>3, MovedTyped, TokensGrow DEF FileTypes
      <3>9. FileTypes'
        BY <1>2, <2>2, <3>4, <3>8, WhoIs DEF FileTypes
      <3>10. "root" \in Zones /\ "reply" \in {"send", "reply"}
        BY WhoIs
      <3>11. /\ Receives(s) /\ d = Head(inbox[s]) /\ Take(s, d, "reply") /\ peer' = peer
             /\ UNCHANGED <<scenario, stops, clientVars, mail, lost, forgot>>
        BY <1>1, <2>1 DEF Resolves
      <3>12. QED
        BY <3>6, <3>7, <3>9, <3>10, <3>11, TakeRequests
    <2>5. QED
      BY <2>3, <2>4
  <1>4. CASE Receives("auth") /\ End("auth") /\ UNCHANGED <<scenario, files, stops, clientVars, lost>>
    <2>1. stops' \in Nat /\ lost' \in BOOLEAN /\ lost' = lost /\ at[s] # "wait"
      BY <1>1, <1>2, <1>4 DEF CountTypes, Receives
    <2>2. QED
      BY <1>1, <1>4, <2>1, EndRequests
  <1>5. QED
    BY <1>3, <1>4, ResolveIs

LEMMA StutterRequests ==
  ASSUME TypeOK, RequestInv, UNCHANGED vars
  PROVE  TypeOK' /\ RequestInv'
  <1>1. /\ UNCHANGED <<recursive, splits, began, stops, files, value, forgot, at, inbox, serving, peer>>
        /\ UNCHANGED <<mail, result, cpc, asks, wanted, answers, lost>>
    BY DEF vars, scenario, recordVars, netVars, clientVars
  <1>2. TypeOK'
    <2>1. FileTypes' /\ CountTypes' /\ ClientTypes'
      BY <1>1, TypesAre DEF FileTypes, CountTypes, ClientTypes
    <2>2. NetTypes'
      BY <1>1, TypesAre DEF NetTypes
    <2>3. QED
      BY <2>1, <2>2, TypesFrom
  <1>3. \A t \in Servers : Remains(t)
    BY <1>1, SamePending, SameRemains
  <1>4. ASSUME NEW x, Live(x)' PROVE Live(x) /\ (Waits(x) => Steady(x))
    <2>1. Live(x)
      BY <1>1, <1>4 DEF Live
    <2>2. QED
      BY <1>1, <2>1, SameSteady
  <1>5. SenderInv' /\ KindInv'
    BY <1>1, <1>2, <1>3, <1>4, Remaining
  <1>6. PeerInv'
    BY <1>1, SamePeers
  <1>7. QED
    BY <1>1, <1>2, <1>5, <1>6, SameWanted DEF RequestInv

LEMMA NextRequests == TypeOK /\ RequestInv /\ [Next]_vars => (TypeOK /\ RequestInv)'
  <1> SUFFICES ASSUME TypeOK, RequestInv, [Next]_vars PROVE TypeOK' /\ RequestInv'
    OBVIOUS
  <1>1. CASE Next
    <2>1. CASE \E c \in Client : Leave(c) \/ Killed(c) \/ \E h \in Hosts : Ask(c, h)
      BY <2>1, LeaveRequests, KilledRequests, AskRequests
    <2>2. CASE \E s \in Servers : Start(s) \/ Stop(s)
      BY <2>2, StartRequests, StopRequests
    <2>3. CASE \E s \in Servers : Send(s) \/ Reply(s) \/ (PassOn(s) /\ (recursive \/ peer[s] = "auth"))
      BY <2>3, SendRequests, ReplyRequests, PassOnRequests
    <2>4. CASE LocalReceive \/ (AskNext /\ ~recursive)
      BY <2>4, LocalReceiveRequests, AskNextRequests
    <2>5. CASE Refer("root") \/ Refer("tld")
      BY <2>5, ReferRequests
    <2>6. CASE Resolve
      BY <2>6, ResolveRequests
    <2>7. CASE UNCHANGED vars
      BY <2>7, StutterRequests
    <2>8. QED
      BY <1>1, <2>1, <2>2, <2>3, <2>4, <2>5, <2>6, <2>7, StepIs
  <1>2. QED
    BY <1>1, StutterRequests

\* A request whose sender is still there is the only one of its sender, who
\* waits for the reply of the server that has it; "exit" reaches the local
\* server only, and no server asks one that may be asking it: whichever
\* servers and clients are stopped, and in whatever order their datagrams come
\* (sendto and recvfrom of localDns.c, rootDns.c, tldDns.c and authDns.c).
THEOREM Requesting == Spec => [](TypeOK /\ RequestInv)
  <1>1. Init => TypeOK /\ RequestInv
    BY InitTypes, InitRequests
  <1>2. QED
    BY <1>1, NextRequests, PTL DEF Spec

\* Every variable has its type.
THEOREM NameServerTypes == Spec => []TypeOK
  BY Requesting, PTL
-----------------------------------------------------------------------------
(* The record files.                                                       *)

LEMMA InitFiles == Init => FileInv
  <1> SUFFICES ASSUME Init PROVE FileInv
    OBVIOUS
  <1>1. PICK sc \in Scenarios : files = sc.files /\ began = sc.files
    BY DEF Init
  <1>2. \A s \in Zones : WellFormed(files[s])
    BY <1>1, ConstantsAssumption
  <1>3. files = began
    BY <1>1
  <1>4. QED
    BY <1>2, <1>3 DEF FileInv, KnownStaysKnown

\* A record file that changes is one in which a line has been moved.
FileMoves(s) ==
  \E n : Holds(files[s], n) /\ files' = [files EXCEPT ![s] = Moved(files[s], Place(files[s], n))]

LEMMA FilesAre ==
  ASSUME TypeOK, RequestInv, [Next]_vars
  PROVE  UNCHANGED scenario /\ (files' = files \/ \E s \in Zones : FileMoves(s))
  <1>1. CASE Refer("root") \/ Refer("tld")
    <2>1. PICK s \in {"root", "tld"} : Refer(s)
      BY <1>1
    <2>2. PICK d \in Requests : \E l \in {"send", "reply"} : Refers(s, d, l)
      BY <2>1, ReferIs
    <2>3. s \in Zones
      BY WhoIs
    <2>4. files' = files \/ FileMoves(s)
      BY <2>2 DEF Refers, FileMoves
    <2>5. QED
      BY <2>2, <2>3, <2>4 DEF Refers
  <1>2. CASE Resolve
    <2>1. CASE \E d \in Requests : Resolves(d)
      <3>1. files' = files \/ FileMoves("auth")
        BY <2>1 DEF Resolves, FileMoves
      <3>2. QED
        BY <2>1, <3>1, WhoIs DEF Resolves
    <2>2. QED
      BY <1>2, <2>1, ResolveIs
  <1>3. CASE \E s \in Servers : Send(s) \/ Reply(s) \/ PassOn(s)
    BY <1>3 DEF Send, Reply, Deliver, PassOn, recordVars
  <1>4. CASE \E s \in Servers : Start(s) \/ Stop(s)
    BY <1>4 DEF Start, Stop, recordVars
  <1>5. CASE \E c \in Client : Leave(c) \/ Killed(c) \/ \E h \in Hosts : Ask(c, h)
    BY <1>5 DEF Leave, Killed, Ask, recordVars
  <1>6. CASE LocalReceive \/ AskNext
    BY <1>6 DEF LocalReceive, AskNext, recordVars
  <1>7. CASE UNCHANGED vars
    BY <1>7 DEF vars, recordVars
  <1>8. QED
    BY <1>1, <1>2, <1>3, <1>4, <1>5, <1>6, <1>7, StepIs

\* No step adds a record to a file.
LEMMA NoneAdded ==
  ASSUME TypeOK, RequestInv, [Next]_vars, NEW s \in Zones, NEW m, Holds(files'[s], m)
  PROVE  Holds(files[s], m)
  <1>1. files \in [Zones -> Seq(Tokens(Names))]
    BY DEF TypeOK
  <1>2. CASE files' = files
    BY <1>2
  <1>3. CASE \E t \in Zones : FileMoves(t)
    <2>1. PICK t \in Zones : FileMoves(t)
      BY <1>3
    <2>2. PICK n : Holds(files[t], n) /\ files' = [files EXCEPT ![t] = Moved(files[t], Place(files[t], n))]
      BY <2>1 DEF FileMoves
    <2>3. CASE t = s
      <3>1. files[s] \in Seq(Tokens(Names)) /\ Holds(files[s], n)
            /\ files'[s] = Moved(files[s], Place(files[s], n))
        BY <1>1, <2>2, <2>3
      <3>2. QED
        BY <3>1, MovedAddsNothing
    <2>4. CASE t # s
      BY <1>1, <2>2, <2>4
    <2>5. QED
      BY <2>3, <2>4
  <1>4. QED
    BY <1>2, <1>3, FilesAre

LEMMA NextFiles == TypeOK /\ RequestInv /\ FileInv /\ [Next]_vars => FileInv'
  <1> SUFFICES ASSUME TypeOK, RequestInv, FileInv, [Next]_vars PROVE FileInv'
    OBVIOUS
  <1>1. files \in [Zones -> Seq(Tokens(Names))] /\ began' = began
    BY FilesAre DEF TypeOK, scenario
  <1>2. ASSUME NEW s \in Zones, Ends(began[s])
        PROVE  /\ WellFormed(files'[s]) /\ Ends(files'[s])
               /\ \A n \in Names : Holds(began[s], n) => Holds(files'[s], n)
    <2>1. /\ WellFormed(files[s]) /\ Ends(files[s])
          /\ \A n \in Names : Holds(began[s], n) => Holds(files[s], n)
      BY <1>2 DEF FileInv, KnownStaysKnown
    <2>2. CASE files' = files
      BY <2>1, <2>2
    <2>3. CASE \E t \in Zones : FileMoves(t)
      <3>1. PICK t \in Zones : FileMoves(t)
        BY <2>3
      <3>2. PICK n : Holds(files[t], n) /\ files' = [files EXCEPT ![t] = Moved(files[t], Place(files[t], n))]
        BY <3>1 DEF FileMoves
      <3>3. CASE t = s
        <4>1. files[s] \in Seq(Tokens(Names)) /\ Holds(files[s], n)
              /\ files'[s] = Moved(files[s], Place(files[s], n))
          BY <1>1, <3>2, <3>3
        <4>2. /\ WellFormed(files'[s]) /\ Ends(files'[s])
              /\ \A m : Holds(files[s], m) => Holds(files'[s], m)
          BY <2>1, <4>1, MovedKeepsLines
        <4>3. QED
          BY <2>1, <4>2
      <3>4. CASE t # s
        BY <1>1, <2>1, <3>2, <3>4
      <3>5. QED
        BY <3>3, <3>4
    <2>4. QED
      BY <2>2, <2>3, FilesAre
  <1>3. QED
    BY <1>1, <1>2 DEF FileInv, KnownStaysKnown

\* The record files keep their form.
THEOREM FilesKept == Spec => [](TypeOK /\ RequestInv /\ FileInv)
  <1>1. Init => TypeOK /\ RequestInv /\ FileInv
    BY InitTypes, InitRequests, InitFiles
  <1>2. QED
    BY <1>1, NextRequests, NextFiles, PTL DEF Spec

\* A record file with all its newlines loses no record, however often each of
\* its lines has been moved to the end, and whenever its server is stopped
\* between two requests (the rewriting of the file in rootDns.c, tldDns.c and
\* authDns.c).
THEOREM RecordsKept == Spec => []KnownStaysKnown
  BY FilesKept, PTL DEF FileInv
-----------------------------------------------------------------------------
(* The replies on their way.                                               *)

LEMMA SameBrings ==
  ASSUME NEW s \in Servers, recursive' = recursive, at'[s] = at[s], mail'[s] = mail[s],
         result'[s] = result[s], peer'[s] = peer[s],
         Has(s) => serving'[s][1].text = serving[s][1].text
  PROVE  \A h, x : Brings(s, h, x)' <=> Brings(s, h, x)
  <1>1. Has(s)' <=> Has(s)
    BY DEF Has
  <1>2. Held(s)' = Held(s)
    BY DEF Held
  <1>3. QED
    BY <1>1, <1>2 DEF Brings

\* A step that makes no reply, and brings none to a client.
Quiet ==
  /\ \A s \in Servers : \A h \in Hosts : \A x \in Answers :
       /\ Brings(s, h, x)' => Brings(s, h, x)
       /\ Brings(s, h, x) /\ ~lost' => Brings(s, h, x)'
  /\ answers' = answers /\ (value' = value \/ forgot') /\ (lost => lost') /\ (forgot => forgot')
  /\ \A c \in Client : cpc'[c] = "prompt" => cpc[c] = "prompt" /\ wanted'[c] = wanted[c]

\* The datagrams of a stopped server leave the texts of the others.
LEMMA EndSame ==
  ASSUME TypeOK, NEW s \in Servers, End(s), NEW t \in Servers, t # s
  PROVE  /\ at'[t] = at[t] /\ mail'[t] = mail[t] /\ result'[t] = result[t] /\ peer'[t] = peer[t]
         /\ Has(t) => serving'[t][1].text = serving[t][1].text
  <1>1. /\ at' = [at EXCEPT ![s] = "off"] /\ peer' = [peer EXCEPT ![s] = "root"]
        /\ mail' = [mail EXCEPT ![s] = <<>>] /\ result' = [result EXCEPT ![s] = NotFound]
        /\ serving'[t] = Orphaned(serving[t], s)
    BY EndIs
  <1>2. NetTypes
    BY TypesAre
  <1>3. at'[t] = at[t] /\ mail'[t] = mail[t] /\ result'[t] = result[t] /\ peer'[t] = peer[t]
    BY <1>1, <1>2 DEF NetTypes
  <1>4. ASSUME Has(t) PROVE serving'[t][1].text = serving[t][1].text
    <2>1. at[t] \notin {"off", "recv"}
      BY <1>4, PendingNow DEF PendingIs, Has
    <2>2. serving[t] \in Seq(Requests) /\ Len(serving[t]) = 1 /\ 1 \in 1..1
      BY <2>1, PendingNow DEF PendingIs
    <2>3. QED
      BY <1>1, <2>2, OrphanedIs
  <1>5. QED
    BY <1>3, <1>4

LEMMA EndQuiet ==
  ASSUME TypeOK, NEW s \in Servers, End(s), recursive' = recursive, Has(s) => lost',
         lost => lost', UNCHANGED clientVars
  PROVE  Quiet
  <1>1. /\ at' = [at EXCEPT ![s] = "off"] /\ mail' = [mail EXCEPT ![s] = <<>>]
        /\ IF s = "auth" THEN forgot' ELSE value' = value /\ forgot' = forgot
    BY EndIs
  <1>2. at'[s] = "off" /\ mail'[s] = <<>>
    BY <1>1 DEF TypeOK
  <1>3. ~Has(s)'
    BY <1>2 DEF Has
  <1>4. \A t \in Servers \ {s} : \A h, x : Brings(t, h, x)' <=> Brings(t, h, x)
    BY EndSame, SameBrings
  <1>5. \A h, x : ~Brings(s, h, x)' /\ (Brings(s, h, x) => lost')
    BY <1>3 DEF Brings
  <1>6. (value' = value \/ forgot') /\ (forgot => forgot')
    BY <1>1
  <1>7. UNCHANGED <<cpc, wanted, answers>>
    BY DEF clientVars
  <1>8. QED
    BY <1>4, <1>5, <1>6, <1>7 DEF Quiet

LEMMA QuietClients ==
  ASSUME TypeOK, NEW c \in Client, Leave(c) \/ Killed(c) \/ \E h \in Hosts : Ask(c, h)
  PROVE  Quiet
  <1>1. /\ UNCHANGED <<recursive, at, mail, result, peer, serving, value, forgot, answers>>
        /\ lost => lost'
    <2>1. CASE Killed(c)
      BY <2>1 DEF Killed, scenario, recordVars, netVars
    <2>2. CASE Leave(c)
      BY <2>2 DEF Leave, scenario, recordVars, SendTo
    <2>3. CASE \E h \in Hosts : Ask(c, h)
      BY <2>3 DEF Ask, scenario, recordVars, SendTo
    <2>4. QED
      BY <2>1, <2>2, <2>3
  <1>2. \A s \in Servers : \A h, x : Brings(s, h, x)' <=> Brings(s, h, x)
    BY <1>1, SameBrings
  <1>3. \A d \in Client : cpc'[d] = "prompt" => cpc[d] = "prompt" /\ wanted'[d] = wanted[d]
    <2>1. cpc \in [Client -> {"prompt", "wait", "gone"}]
      BY DEF TypeOK
    <2>2. CASE Killed(c)
      BY <2>1, <2>2 DEF Killed
    <2>3. CASE Leave(c)
      BY <2>1, <2>3 DEF Leave
    <2>4. CASE \E h \in Hosts : Ask(c, h)
      <3>1. PICK h \in Hosts : Ask(c, h)
        BY <2>4
      <3>2. cpc' = [cpc EXCEPT ![c] = "wait"] /\ wanted' = [wanted EXCEPT ![c] = <<h>>]
        BY <3>1 DEF Ask
      <3>3. QED
        BY <2>1, <3>2 DEF TypeOK
    <2>5. QED
      BY <2>2, <2>3, <2>4
  <1>4. QED
    BY <1>1, <1>2, <1>3 DEF Quiet

LEMMA QuietServers ==
  ASSUME TypeOK, NEW s \in Servers,
         Start(s) \/ Stop(s) \/ Send(s) \/ (PassOn(s) /\ (recursive \/ peer[s] = "auth")), RequestInv
  PROVE  Quiet
  <1>1. NetTypes /\ PendingIs(s)
    BY TypesAre, PendingNow
  <1>2. CASE Start(s)
    <2>1. /\ at' = [at EXCEPT ![s] = "recv"] /\ at[s] = "off"
          /\ UNCHANGED <<recursive, mail, result, peer, serving, value, forgot, lost, cpc, wanted, answers>>
      BY <1>2 DEF Start, scenario, recordVars, clientVars
    <2>2. \A t \in Servers \ {s} : \A h, x : Brings(t, h, x)' <=> Brings(t, h, x)
      BY <1>1, <2>1, SameBrings DEF NetTypes
    <2>3. ~Has(s) /\ ~Has(s)'
      BY <1>1, <2>1 DEF Has, NetTypes, PendingIs
    <2>4. \A h, x : ~Brings(s, h, x) /\ ~Brings(s, h, x)'
      BY <2>3 DEF Brings
    <2>5. QED
      BY <2>1, <2>2, <2>4 DEF Quiet
  <1>3. CASE Stop(s)
    <2>1. Has(s) => serving[s] # <<>>
      BY <1>1 DEF Has, PendingIs
    <2>2. /\ End(s) /\ lost' = (lost \/ serving[s] # <<>> \/ inbox[s] # <<>>) /\ recursive' = recursive
          /\ UNCHANGED clientVars
      BY <1>3 DEF Stop, scenario
    <2>3. QED
      BY <2>1, <2>2, EndQuiet
  <1>4. CASE Send(s)
    <2>1. /\ at[s] = "send" /\ at' = [at EXCEPT ![s] = "wait"] /\ (lost => lost')
          /\ UNCHANGED <<recursive, mail, result, peer, serving, value, forgot, cpc, wanted, answers>>
      BY <1>4 DEF Send, SendTo, scenario, recordVars, clientVars
    <2>2. \A t \in Servers \ {s} : \A h, x : Brings(t, h, x)' <=> Brings(t, h, x)
      BY <1>1, <2>1, SameBrings DEF NetTypes
    <2>3. ~Has(s) /\ ~Has(s)'
      BY <1>1, <2>1 DEF Has, NetTypes, PendingIs
    <2>4. \A h, x : ~Brings(s, h, x) /\ ~Brings(s, h, x)'
      BY <2>3 DEF Brings
    <2>5. QED
      BY <2>1, <2>2, <2>4 DEF Quiet
  <1>5. CASE PassOn(s) /\ (recursive \/ peer[s] = "auth")
    <2>1. /\ at[s] = "wait" /\ mail[s] # <<>> /\ result' = [result EXCEPT ![s] = mail[s][1]]
          /\ mail' = [mail EXCEPT ![s] = <<>>] /\ at' = [at EXCEPT ![s] = "reply"]
          /\ UNCHANGED <<recursive, peer, serving, value, forgot, cpc, wanted, answers, lost>>
      BY <1>5 DEF PassOn, scenario, recordVars, clientVars
    <2>2. \A t \in Servers \ {s} : \A h, x : Brings(t, h, x)' <=> Brings(t, h, x)
      BY <1>1, <2>1, SameBrings DEF NetTypes
    <2>3. at'[s] = "reply" /\ mail'[s] = <<>> /\ result'[s] = mail[s][1]
      BY <1>1, <2>1 DEF NetTypes
    <2>4. ~recursive => s = "local"
      BY <2>1 DEF RequestInv, PeerInv
    <2>5. Has(s) /\ Has(s)'
      BY <1>5, <2>1, <2>3, <2>4 DEF Has
    <2>6. Held(s)' = Held(s)
      BY <2>1, <2>3 DEF Held
    <2>7. \A h, x : Brings(s, h, x)' <=> Brings(s, h, x)
      BY <2>1, <2>5, <2>6 DEF Brings
    <2>8. QED
      BY <2>1, <2>2, <2>7 DEF Quiet
  <1>6. QED
    BY <1>2, <1>3, <1>4, <1>5

LEMMA QuietLocal ==
  ASSUME TypeOK, RequestInv, LocalReceive \/ (AskNext /\ ~recursive)
  PROVE  Quiet
  <1>1. PICK s \in Servers : s = "local"
    BY WhoIs
  <1>2. NetTypes /\ PendingIs(s)
    BY TypesAre, PendingNow
  <1>3. CASE AskNext /\ ~recursive
    <2>1. /\ at[s] = "wait" /\ mail[s] # <<>> /\ peer[s] # "auth"
          /\ mail' = [mail EXCEPT ![s] = <<>>] /\ peer' = [peer EXCEPT ![s] = NextServer(@)]
          /\ at' = [at EXCEPT ![s] = "send"]
          /\ UNCHANGED <<recursive, value, forgot, serving, result, cpc, wanted, answers, lost>>
      BY <1>1, <1>3 DEF AskNext, scenario, recordVars, clientVars
    <2>2. \A t \in Servers \ {s} : \A h, x : Brings(t, h, x)' <=> Brings(t, h, x)
      BY <1>2, <2>1, SameBrings DEF NetTypes
    <2>3. ~Has(s) /\ ~Has(s)'
      BY <1>2, <1>3, <2>1 DEF Has, NetTypes
    <2>4. \A h, x : ~Brings(s, h, x) /\ ~Brings(s, h, x)'
      BY <2>3 DEF Brings
    <2>5. QED
      BY <2>1, <2>2, <2>4 DEF Quiet
  <1>4. CASE LocalReceive
    <2>1. PICK d : d = Head(inbox[s])
      OBVIOUS
    <2>2. /\ Receives(s) /\ UNCHANGED <<scenario, stops, files, clientVars>>
          /\ \/ d.text = Exit /\ End(s) /\ lost' = (lost \/ Len(inbox[s]) > 1)
             \/ /\ d.text # Exit /\ Take(s, d, "send") /\ peer' = [peer EXCEPT ![s] = "root"]
                /\ UNCHANGED <<mail, result, lost, value, forgot>>
      BY <1>1, <1>4, <2>1 DEF LocalReceive
    <2>3. at[s] = "recv" /\ mail[s] = <<>>
      BY <1>2, <2>2 DEF Receives, PendingIs
    <2>4. ~Has(s)
      BY <2>3 DEF Has
    <2>5. CASE d.text = Exit /\ End(s) /\ lost' = (lost \/ Len(inbox[s]) > 1)
      BY <2>2, <2>4, <2>5, EndQuiet DEF scenario
    <2>6. CASE /\ d.text # Exit /\ Take(s, d, "send") /\ peer' = [peer EXCEPT ![s] = "root"]
               /\ UNCHANGED <<mail, result, lost, value, forgot>>
      <3>1. /\ at' = [at EXCEPT ![s] = "send"] /\ serving' = [serving EXCEPT ![s] = <<d>>]
            /\ peer' = [peer EXCEPT ![s] = "root"]
            /\ UNCHANGED <<recursive, mail, result, lost, value, forgot, cpc, wanted, answers>>
        BY <2>2, <2>6 DEF Take, scenario, clientVars
      <3>2. \A t \in Servers \ {s} : \A h, x : Brings(t, h, x)' <=> Brings(t, h, x)
        BY <1>2, <3>1, SameBrings DEF NetTypes
      <3>3. ~Has(s)'
        BY <1>2, <2>3, <3>1 DEF Has, NetTypes
      <3>4. \A h, x : ~Brings(s, h, x) /\ ~Brings(s, h, x)'
        BY <2>4, <3>3 DEF Brings
      <3>5. QED
        BY <3>1, <3>2, <3>4 DEF Quiet
    <2>7. QED
      BY <2>2, <2>5, <2>6
  <1>5. QED
    BY <1>3, <1>4

LEMMA QuietStutter ==
  ASSUME UNCHANGED vars
  PROVE  Quiet
  <1>1. UNCHANGED <<recursive, at, mail, result, peer, serving, value, forgot, cpc, wanted, answers, lost>>
    BY DEF vars, scenario, recordVars, netVars, clientVars
  <1>2. \A s \in Servers : \A h, x : Brings(s, h, x)' <=> Brings(s, h, x)
    BY <1>1, SameBrings
  <1>3. QED
    BY <1>1, <1>2 DEF Quiet
LEMMA StepKinds ==
  ASSUME TypeOK, RequestInv, [Next]_vars
  PROVE  \/ Quiet
         \/ \E s \in {"root", "tld"} : \E d \in Requests : \E l \in {"send", "reply"} : Refers(s, d, l)
         \/ \E d \in Requests : Resolves(d)
         \/ \E s \in Servers : Reply(s)
  <1>1. CASE Resolve
    <2>1. CASE Receives("auth") /\ End("auth") /\ UNCHANGED <<scenario, files, stops, clientVars, lost>>
      <3>1. PICK s \in Servers : s = "auth"
        BY WhoIs
      <3>2. at[s] = "recv" /\ mail[s] = <<>>
        BY <2>1, <3>1, PendingNow DEF Receives, PendingIs
      <3>3. ~Has(s)
        BY <3>2 DEF Has
      <3>4. QED
        BY <2>1, <3>1, <3>3, EndQuiet DEF scenario
    <2>2. QED
      BY <1>1, <2>1, ResolveIs
  <1>2. CASE Refer("root") \/ Refer("tld")
    BY <1>2, ReferIs
  <1>3. CASE \E s \in Servers : Start(s) \/ Stop(s) \/ Send(s) \/ (PassOn(s) /\ (recursive \/ peer[s] = "auth"))
    BY <1>3, QuietServers
  <1>4. CASE \E c \in Client : Leave(c) \/ Killed(c) \/ \E h \in Hosts : Ask(c, h)
    BY <1>4, QuietClients
  <1>5. CASE LocalReceive \/ (AskNext /\ ~recursive)
    BY <1>5, QuietLocal
  <1>6. CASE UNCHANGED vars
    BY <1>6, QuietStutter
  <1>7. CASE Next
    BY <1>1, <1>2, <1>3, <1>4, <1>5, <1>6, <1>7, StepIs
  <1>8. QED
    BY <1>6, <1>7

\* A server that has taken a request had no reply, and may have one.
LEMMA TakeBrings ==
  ASSUME TypeOK, NEW s \in Servers, Receives(s), NEW d, NEW l \in {"send", "reply"}, Take(s, d, l),
         UNCHANGED <<recursive, mail>>,
         \A t \in Servers : t # s => result'[t] = result[t] /\ peer'[t] = peer[t]
  PROVE  /\ \A t \in Servers : t # s => \A h, x : Brings(t, h, x)' <=> Brings(t, h, x)
         /\ ~Has(s)
         /\ Has(s)' <=> l = "reply" /\ (recursive \/ s \in {"auth", "local"})
         /\ \A h, x : Brings(s, h, x)' <=> Has(s)' /\ h = d.text /\ x = result'[s]
  <1>1. NetTypes /\ PendingIs(s)
    BY TypesAre, PendingNow
  <1>2. at[s] = "recv" /\ mail[s] = <<>>
    BY <1>1 DEF Receives, PendingIs
  <1>3. at' = [at EXCEPT ![s] = l] /\ serving' = [serving EXCEPT ![s] = <<d>>]
    BY DEF Take
  <1>4. \A t \in Servers : t # s => at'[t] = at[t] /\ serving'[t] = serving[t]
    BY <1>1, <1>3 DEF NetTypes
  <1>5. at'[s] = l /\ serving'[s] = <<d>> /\ <<d>>[1] = d
    BY <1>1, <1>3 DEF NetTypes
  <1>6. \A t \in Servers : t # s => \A h, x : Brings(t, h, x)' <=> Brings(t, h, x)
    BY <1>4, SameBrings
  <1>7. ~Has(s)
    BY <1>2 DEF Has
  <1>8. Has(s)' <=> l = "reply" /\ (recursive \/ s \in {"auth", "local"})
    BY <1>2, <1>5 DEF Has
  <1>9. Has(s)' => Held(s)' = result'[s]
    BY <1>5, <1>8 DEF Held
  <1>10. \A h, x : Brings(s, h, x)' <=> Has(s)' /\ h = d.text /\ x = result'[s]
    BY <1>5, <1>9 DEF Brings
  <1>11. QED
    BY <1>6, <1>7, <1>8, <1>10

\* The root and the top level server make no reply but 404.
LEMMA ReferBrings ==
  ASSUME TypeOK, NEW s \in {"root", "tld"}, NEW d \in Requests, NEW l \in {"send", "reply"}, Refers(s, d, l)
  PROVE  /\ \A t \in Servers : t # s => \A h, x : Brings(t, h, x)' <=> Brings(t, h, x)
         /\ ~Has(s)
         /\ \A h, x : Brings(s, h, x)' => x = NotFound /\ Suits(h, x)'
         /\ UNCHANGED <<cpc, wanted, answers, value, forgot, lost, scenario>>
  <1>1. s \in Servers /\ s \in Zones /\ s \notin {"auth", "local"}
    BY WhoIs
  <1>2. NetTypes
    BY TypesAre
  <1>3. /\ Receives(s) /\ Take(s, d, l) /\ UNCHANGED <<scenario, mail, cpc, wanted, answers, value, forgot, lost>>
        /\ UNCHANGED recursive
    BY DEF Refers, scenario, clientVars
  <1>4. \A t \in Servers : t # s => result'[t] = result[t] /\ peer'[t] = peer[t]
    BY <1>1, <1>2 DEF Refers, NetTypes
  <1>5. /\ \A t \in Servers : t # s => \A h, x : Brings(t, h, x)' <=> Brings(t, h, x)
        /\ ~Has(s)
        /\ Has(s)' => l = "reply" /\ recursive
        /\ \A h, x : Brings(s, h, x)' => Has(s)' /\ h = d.text /\ x = result'[s]
    BY <1>1, <1>3, <1>4, TakeBrings
  <1>6. ASSUME NEW h, NEW x, Brings(s, h, x)' PROVE x = NotFound /\ Suits(h, x)'
    <2>1. l = "reply" /\ recursive /\ h = d.text /\ x = result'[s]
      BY <1>5, <1>6
    <2>2. /\ ~Holds(files[s], Domain[s][h]) /\ result' = [result EXCEPT ![s] = NotFound] /\ files' = files
      BY <2>1 DEF Refers
    <2>3. x = NotFound
      BY <1>1, <1>2, <2>1, <2>2 DEF NetTypes
    <2>4. Lacks(s, h)'
      BY <1>1, <2>2 DEF Lacks
    <2>5. Suits(h, x)'
      BY <1>1, <1>3, <2>1, <2>3, <2>4 DEF Suits
    <2>6. QED
      BY <2>3, <2>5
  <1>7. QED
    BY <1>3, <1>5, <1>6

\* The reply of the authoritative server.
LEMMA ResolveBrings ==
  ASSUME TypeOK, FileInv, NEW d \in Requests, Resolves(d), NEW h, h = d.text,
         NEW x, x = result'["auth"]
  PROVE  /\ \A t \in Servers : t # "auth" => \A g, y : Brings(t, g, y)' <=> Brings(t, g, y)
         /\ ~Has("auth")
         /\ h \in Hosts
         /\ \A g, y : Brings("auth", g, y)' <=> g = h /\ y = x
         /\ Suits(h, x)'
         /\ UNCHANGED <<cpc, wanted, answers, forgot, lost, scenario>>
         /\ \/ x = NotFound /\ value' = value
            \/ /\ x # NotFound /\ h \in Table /\ x \in Answers
               /\ value' = [value EXCEPT ![h] = value[h] + 1]
               /\ Ends(began.auth) => x = Address(h, value[h] % 3)
  <1>1. PICK s \in Servers : s = "auth" /\ s \in Zones
    BY WhoIs
  <1>3. NetTypes /\ FileTypes
    BY TypesAre
  <1>4. /\ Receives(s) /\ Take(s, d, "reply") /\ h \in Hosts /\ UNCHANGED recursive
        /\ UNCHANGED <<scenario, mail, peer, cpc, wanted, answers, forgot, lost>>
    BY <1>1 DEF Resolves, scenario, clientVars
  <1>5. \A t \in Servers : t # s => result'[t] = result[t] /\ peer'[t] = peer[t]
    BY <1>1, <1>3, <1>4 DEF Resolves, NetTypes
  <1>6. /\ \A t \in Servers : t # s => \A g, y : Brings(t, g, y)' <=> Brings(t, g, y)
        /\ ~Has(s)
        /\ Has(s)'
        /\ \A g, y : Brings(s, g, y)' <=> Has(s)' /\ g = d.text /\ y = result'[s]
    BY <1>1, <1>4, <1>5, TakeBrings
  <1>8. Suits(h, x)' /\ \/ x = NotFound /\ value' = value
                        \/ /\ x # NotFound /\ h \in Table /\ x \in Answers
                           /\ value' = [value EXCEPT ![h] = value[h] + 1]
                           /\ Ends(began.auth) => x = Address(h, value[h] % 3)
    <2>1. CASE ~Holds(files.auth, h)
      <3>1. result' = [result EXCEPT ![s] = NotFound] /\ files' = files /\ value' = value
        BY <1>1, <2>1 DEF Resolves
      <3>2. x = NotFound
        BY <1>1, <1>3, <3>1 DEF NetTypes
      <3>3. Lacks(s, h)'
        BY <1>1, <2>1, <3>1 DEF Lacks
      <3>4. Suits(h, x)'
        BY <1>1, <3>2, <3>3 DEF Suits
      <3>5. QED
        BY <3>1, <3>2, <3>4
    <2>2. CASE Holds(files.auth, h)
      <3>1. PICK w : w = Words(files.auth, Place(files.auth, h))
        OBVIOUS
      <3>2. /\ h \in Table /\ Pointer(h) < Len(w)
            /\ result' = [result EXCEPT ![s] = w[Pointer(h) + 1]]
            /\ value' = [value EXCEPT ![h] = Rotated(h)]
        BY <1>1, <2>2, <3>1 DEF Resolves
      <3>3. x = w[Pointer(h) + 1]
        BY <1>1, <1>3, <3>2 DEF NetTypes
      <3>4. /\ Pointer(h) \in 0..2 /\ x \in Taken
            /\ WellFormed(files.auth) /\ Ends(files.auth) => x = Address(h, Pointer(h))
        BY <1>4, <2>2, <3>1, <3>2, <3>3, ResolvedIs
      <3>5. x \in Answers /\ x # NotFound
        BY <3>4, TakenAre
      <3>6. Ends(began.auth) => x = Address(h, Pointer(h))
        BY <1>1, <3>4 DEF FileInv
      <3>7. began' = began
        BY <1>4 DEF scenario
      <3>8. Suits(h, x)'
        BY <3>4, <3>5, <3>6, <3>7 DEF Suits
      <3>9. value' = [value EXCEPT ![h] = value[h] + 1] /\ (Ends(began.auth) => x = Address(h, value[h] % 3))
        BY <3>2, <3>6 DEF Rotated, Pointer
      <3>10. QED
        BY <3>2, <3>5, <3>8, <3>9
    <2>3. QED
      BY <2>1, <2>2
  <1>9. QED
    BY <1>1, <1>4, <1>6, <1>8, <1>9
-----------------------------------------------------------------------------
(* The replies suit the questions.                                         *)

LEMMA HeldTyped ==
  ASSUME TypeOK, NEW s \in Servers, Has(s)
  PROVE  /\ Held(s) \in Answers /\ serving[s][1].text \in Hosts
         /\ at[s] \in {"reply", "wait"} /\ (at[s] = "wait" => mail[s] # <<>>)
         /\ 1 \in 1..Len(Pending(s))
  <1>1. PendingIs(s) /\ result[s] \in Answers
    BY PendingNow DEF TypeOK
  <1>2. at[s] = "reply" \/ (mail[s] # <<>> /\ at[s] = "wait")
    BY <1>1 DEF Has, PendingIs
  <1>3. Held(s) \in Answers
    BY <1>1, <1>2 DEF Held, PendingIs
  <1>4. serving[s][1] \in Requests /\ 1 \in 1..Len(Pending(s))
    BY <1>1, <1>2 DEF PendingIs
  <1>5. QED
    BY <1>2, <1>3, <1>4, RequestsAre

\* A reply passes to the server that asked.
LEMMA ReplyBrings ==
  ASSUME TypeOK, RequestInv, NEW s \in Servers, Reply(s), NEW x, x = serving[s][1].from
  PROVE  /\ \A t \in Servers : t # s /\ t # x => \A h, y : Brings(t, h, y)' <=> Brings(t, h, y)
         /\ ~Has(s)'
         /\ x \in Servers => x # s /\ ~Has(x) /\ \A h, y : Brings(x, h, y)' <=> Brings(s, h, y)
  <1>1. /\ at[s] = "reply" /\ at'[s] = "recv" /\ serving'[s] = <<>> /\ mail[s] = <<>>
        /\ \A t \in Servers : t # s => at'[t] = at[t] /\ serving'[t] = serving[t]
        /\ UNCHANGED <<recursive, peer, result>>
    BY ReplyIs
  <1>2. NetTypes
    BY TypesAre
  <1>0. \/ x \in Servers /\ x # s /\ mail' = [mail EXCEPT ![x] = <<result[s]>>]
        \/ x \notin Servers /\ mail' = mail
    <2>1. \/ x \in Servers /\ x # s /\ mail' = [mail EXCEPT ![x] = <<result[s]>>]
          \/ x \in Client /\ mail' = mail
          \/ x \notin Servers /\ mail' = mail
      BY ReplyGoes
    <2>2. QED
      BY <2>1, WhoIs
  <1>3. \A t \in Servers : t # x => mail'[t] = mail[t]
    BY <1>0, <1>2 DEF NetTypes
  <1>4. \A t \in Servers : t # s /\ t # x => \A h, y : Brings(t, h, y)' <=> Brings(t, h, y)
    BY <1>1, <1>3, SameBrings
  <1>5. x # s
    BY <1>0
  <1>6. ~Has(s)'
    BY <1>1, <1>3, <1>5 DEF Has
  <1>7. ASSUME x \in Servers
        PROVE  ~Has(x) /\ \A h, y : Brings(x, h, y)' <=> Brings(s, h, y)
    <2>1. /\ at[x] = "wait" /\ mail[x] = <<>> /\ peer[x] = s
          /\ serving[x][1].text = serving[s][1].text
          /\ mail' = [mail EXCEPT ![x] = <<result[s]>>]
      BY <1>7, ReplyGoes, WhoIs
    <2>2. mail'[x] # <<>> /\ mail'[x][1] = result[s] /\ at'[x] = "wait" /\ peer'[x] = s
          /\ serving'[x][1].text = serving[s][1].text
      BY <1>1, <1>2, <1>5, <1>7, <2>1 DEF NetTypes
    <2>3. s \in Zones
      BY <1>2, <1>7, <2>1 DEF NetTypes
    <2>4. Has(s) <=> recursive \/ s = "auth"
      BY <1>1, <2>3, WhoIs DEF Has
    <2>5. Has(x)' <=> recursive \/ s = "auth"
      BY <1>1, <2>2 DEF Has
    <2>6. Held(s) = result[s] /\ Held(x)' = result[s]
      BY <1>1, <2>2 DEF Held
    <2>7. ~Has(x)
      BY <2>1 DEF Has
    <2>8. QED
      BY <2>2, <2>4, <2>5, <2>6, <2>7 DEF Brings
  <1>8. QED
    BY <1>4, <1>5, <1>6, <1>7

\* What suits a question goes on suiting it.
LEMMA SuitsStays ==
  ASSUME TypeOK, RequestInv, [Next]_vars, NEW h, NEW x, Suits(h, x)
  PROVE  Suits(h, x)'
  <1>1. recursive' = recursive /\ began' = began
    BY FilesAre DEF scenario
  <1>2. \A s \in Zones : Lacks(s, h) => Lacks(s, h)'
    BY NoneAdded DEF Lacks
  <1>3. QED
    BY <1>1, <1>2 DEF Suits

LEMMA NextSuits == TypeOK /\ RequestInv /\ FileInv /\ SuitsInv /\ [Next]_vars => SuitsInv'
  <1> SUFFICES ASSUME TypeOK, RequestInv, FileInv, SuitsInv, [Next]_vars,
                      NEW s \in Servers, NEW h \in Hosts, NEW x \in Answers, Brings(s, h, x)'
               PROVE  Suits(h, x)'
    BY DEF SuitsInv
  <1>1. ASSUME NEW t \in Servers, Brings(t, h, x) PROVE Suits(h, x)'
    BY <1>1, SuitsStays DEF SuitsInv
  <1>2. CASE Quiet
    BY <1>1, <1>2 DEF Quiet
  <1>3. CASE \E r \in {"root", "tld"} : \E d \in Requests : \E l \in {"send", "reply"} : Refers(r, d, l)
    BY <1>1, <1>3, ReferBrings
  <1>4. CASE \E d \in Requests : Resolves(d)
    <2>1. PICK d \in Requests : Resolves(d)
      BY <1>4
    <2>2. PICK g : g = d.text
      OBVIOUS
    <2>3. PICK y : y = result'["auth"]
      OBVIOUS
    <2>4. /\ \A t \in Servers : t # "auth" => \A e, z : Brings(t, e, z)' <=> Brings(t, e, z)
          /\ \A e, z : Brings("auth", e, z)' <=> e = g /\ z = y
          /\ Suits(g, y)'
      BY <2>1, <2>2, <2>3, ResolveBrings
    <2>5. CASE s = "auth"
      <3>1. h = g /\ x = y
        BY <2>4, <2>5
      <3>2. QED
        BY <2>4, <3>1
    <2>6. CASE s # "auth"
      BY <1>1, <2>4, <2>6
    <2>7. QED
      BY <2>5, <2>6
  <1>5. CASE \E r \in Servers : Reply(r)
    <2>1. PICK r \in Servers : Reply(r)
      BY <1>5
    <2>2. PICK y : y = serving[r][1].from
      OBVIOUS
    <2>3. /\ \A t \in Servers : t # r /\ t # y => \A g, z : Brings(t, g, z)' <=> Brings(t, g, z)
          /\ ~Has(r)'
          /\ y \in Servers => \A g, z : Brings(y, g, z)' <=> Brings(r, g, z)
      BY <2>1, <2>2, ReplyBrings
    <2>4. s # r
      BY <2>3 DEF Brings
    <2>5. Brings(s, h, x) \/ Brings(r, h, x)
      BY <2>3, <2>4
    <2>6. QED
      BY <1>1, <2>5
  <1>6. QED
    BY <1>2, <1>3, <1>4, <1>5, StepKinds

LEMMA InitBrings == Init => \A s \in Servers : ~Has(s)
  <1> SUFFICES ASSUME Init, NEW s \in Servers PROVE ~Has(s)
    OBVIOUS
  <1>1. at[s] # "reply" /\ mail[s] = <<>>
    BY DEF Init
  <1>2. QED
    BY <1>1 DEF Has

\* What a client is answered.
AnswersIt(c, h, i, x) ==
  /\ answers[i] = [from |-> c, name |-> h, is |-> x] /\ Suits(h, x)
  /\ \A j \in (i + 1)..Len(answers) : answers[j].from # c

LEMMA NextAnswers ==
  TypeOK /\ RequestInv /\ FileInv /\ SuitsInv /\ AnswerIsMine /\ [Next]_vars => AnswerIsMine'
  <1> SUFFICES ASSUME TypeOK, RequestInv, FileInv, SuitsInv, AnswerIsMine, [Next]_vars,
                      NEW c \in Client, NEW h \in Hosts, cpc'[c] = "prompt", wanted'[c] # <<>>, h = wanted'[c][1]
               PROVE  \E i \in 1..Len(answers') : \E x \in Answers :
                        /\ answers'[i] = [from |-> c, name |-> h, is |-> x] /\ Suits(h, x)'
                        /\ \A j \in (i + 1)..Len(answers') : answers'[j].from # c
    BY DEF AnswerIsMine
  <1>1. ClientTypes
    BY TypesAre
  <1>2. ASSUME cpc[c] = "prompt", wanted'[c] = wanted[c]
        PROVE  \E i \in 1..Len(answers) : \E x \in Answers : AnswersIt(c, h, i, x)
    BY <1>2 DEF AnswerIsMine, AnswersIt
  <1>3. ASSUME answers' = answers, cpc[c] = "prompt", wanted'[c] = wanted[c]
        PROVE  \E i \in 1..Len(answers') : \E x \in Answers :
                 /\ answers'[i] = [from |-> c, name |-> h, is |-> x] /\ Suits(h, x)'
                 /\ \A j \in (i + 1)..Len(answers') : answers'[j].from # c
    <2>1. PICK i \in 1..Len(answers) : \E x \in Answers : AnswersIt(c, h, i, x)
      BY <1>2, <1>3
    <2>2. PICK x \in Answers : AnswersIt(c, h, i, x)
      BY <2>1
    <2>3. Suits(h, x)'
      BY <2>2, SuitsStays DEF AnswersIt
    <2>4. QED
      BY <1>3, <2>2, <2>3 DEF AnswersIt
  <1>4. CASE Quiet
    BY <1>3, <1>4 DEF Quiet
  <1>5. CASE \E r \in {"root", "tld"} : \E d \in Requests : \E l \in {"send", "reply"} : Refers(r, d, l)
    BY <1>3, <1>5, ReferBrings
  <1>6. CASE \E d \in Requests : Resolves(d)
    BY <1>3, <1>6 DEF Resolves, clientVars
  <1>7. CASE \E r \in Servers : Reply(r)
    <2>1. PICK r \in Servers : Reply(r)
      BY <1>7
    <2>2. PICK y : y = serving[r][1].from
      OBVIOUS
    <2>3. wanted' = wanted /\ at[r] = "reply" /\ serving[r][1].text \in Hosts /\ result[r] \in Answers
      BY <2>1, ReplyIs, RequestsAre
    <2>4. CASE y \in Client /\ cpc[y] = "wait" /\ wanted[y][1] = serving[r][1].text /\ r = "local"
               /\ answers' = Append(answers, [from |-> y, name |-> serving[r][1].text, is |-> result[r]])
               /\ cpc' = [cpc EXCEPT ![y] = "prompt"] /\ UNCHANGED <<mail, lost>>
      <3>1. PICK g \in Hosts : g = serving[r][1].text
        BY <2>3
      <3>2. PICK x \in Answers : x = result[r]
        BY <2>3
      <3>3. PICK e : e = [from |-> y, name |-> g, is |-> x]
        OBVIOUS
      <3>4. PICK S : S = [from : Client, name : Hosts, is : Answers]
        OBVIOUS
      <3>5. e \in S /\ e.from = y /\ answers \in Seq(S) /\ answers' = Append(answers, e)
        BY <1>1, <2>4, <3>1, <3>2, <3>3, <3>4 DEF ClientTypes
      <3>6. PICK n \in Nat : n = Len(answers)
        BY <3>5, LenProperties
      <3>7. /\ Len(answers') = n + 1 /\ answers'[n + 1] = e
            /\ \A i \in 1..n : answers'[i] = answers[i]
        BY <3>5, <3>6, AppendProperties
      <3>8. CASE c = y
        <4>1. h = g
          BY <2>3, <2>4, <3>1, <3>8
        <4>2. Brings(r, g, x)
          BY <2>3, <2>4, <3>1, <3>2 DEF Brings, Has, Held
        <4>3. Suits(g, x)
          BY <4>2 DEF SuitsInv
        <4>4. Suits(g, x)'
          BY <4>3, SuitsStays
        <4>5. n + 1 \in 1..(n + 1) /\ ((n + 1) + 1)..(n + 1) = {}
          OBVIOUS
        <4>6. QED
          BY <3>3, <3>7, <3>8, <4>1, <4>4, <4>5
      <3>9. CASE c # y
        <4>1. cpc[c] = "prompt" /\ wanted'[c] = wanted[c]
          BY <1>1, <2>3, <2>4, <3>9 DEF ClientTypes
        <4>2. PICK i \in 1..n : \E z \in Answers : AnswersIt(c, h, i, z)
          BY <1>2, <3>6, <4>1
        <4>3. PICK z \in Answers : AnswersIt(c, h, i, z)
          BY <4>2
        <4>4. Suits(h, z)'
          BY <4>3, SuitsStays DEF AnswersIt
        <4>5. answers'[i] = [from |-> c, name |-> h, is |-> z] /\ i \in 1..(n + 1)
          BY <3>7, <4>3 DEF AnswersIt
        <4>6. ASSUME NEW j \in (i + 1)..(n + 1) PROVE answers'[j].from # c
          <5>1. CASE j = n + 1
            BY <3>5, <3>7, <3>9, <5>1
          <5>2. CASE j # n + 1
            <6>1. j \in (i + 1)..n /\ j \in 1..n
              BY <5>2
            <6>2. QED
              BY <3>6, <3>7, <4>3, <6>1 DEF AnswersIt
          <5>3. QED
            BY <5>1, <5>2
        <4>7. QED
          BY <3>7, <4>4, <4>5, <4>6
      <3>10. QED
        BY <3>8, <3>9
    <2>5. CASE UNCHANGED <<cpc, answers>>
      BY <1>3, <2>3, <2>5
    <2>6. QED
      BY <2>1, <2>2, <2>4, <2>5, ReplyGoes
  <1>8. QED
    BY <1>4, <1>5, <1>6, <1>7, StepKinds

LEMMA AnsweringTheorem == Spec => [](TypeOK /\ RequestInv /\ FileInv /\ SuitsInv /\ AnswerIsMine)
  <1>1. Init => SuitsInv
    BY InitBrings DEF SuitsInv, Brings
  <1>2. Init => AnswerIsMine
    <2> SUFFICES ASSUME Init PROVE AnswerIsMine
      OBVIOUS
    <2>1. \A c \in Client : wanted[c] = <<>>
      BY DEF Init
    <2>2. QED
      BY <2>1 DEF AnswerIsMine
  <1>3. QED
    BY <1>1, <1>2, InitTypes, InitRequests, InitFiles, NextRequests, NextFiles, NextSuits, NextAnswers,
       PTL DEF Spec

\* A client that has a reply has the reply to its last question, for the host
\* it asked for, and 404 only if a server that is asked has no record of it:
\* whoever else asks, and whichever servers are stopped and started again
\* (the reply of localDns.c goes to the client_addr of the request it serves).
THEOREM AnswersAreMine == Spec => []AnswerIsMine
  BY AnsweringTheorem, PTL
-----------------------------------------------------------------------------
(* The rotation of the addresses.                                          *)

\* As long as no datagram is lost, a request to a zone's server has a server
\* that waits for the reply to it.
LEMMA Upstream ==
  ASSUME TypeOK, RequestInv, ~lost, NEW t \in Zones, 1 \in 1..Len(Pending(t))
  PROVE  \E x \in Servers : Waits(x) /\ peer[x] = t
  <1>1. t \in Servers /\ t # "local"
    BY WhoIs
  <1>2. Pending(t) \in Seq(Datagrams)
    BY <1>1, PendingNow DEF PendingIs
  <1>3. PICK x : x = Pending(t)[1].from
    OBVIOUS
  <1>4. x \in Client \cup Servers \cup {Nobody}
    BY <1>2, <1>3, ElementOfSeq, RequestsAre
  <1>5. x \notin Client /\ x # Nobody
    BY <1>1, <1>3 DEF RequestInv, KindInv
  <1>6. x \in Servers /\ Live(x)
    BY <1>4, <1>5 DEF Live
  <1>7. Waits(x) /\ Asked(x) = t
    BY <1>1, <1>3, <1>6 DEF RequestInv, SenderInv
  <1>8. QED
    BY <1>6, <1>7 DEF Asked

LEMMA WaitsIs ==
  ASSUME TypeOK, RequestInv, NEW s \in Servers, Waits(s)
  PROVE  /\ ~Has(s) /\ 1 \in 1..Len(Pending(s))
         /\ IF s = "local" THEN recursive => peer[s] = "root"
            ELSE recursive /\ s # "auth" /\ peer[s] = NextServer(s)
  <1>1. at[s] = "wait" /\ mail[s] = <<>>
    BY DEF Waits
  <1>2. ~Has(s)
    BY <1>1 DEF Has
  <1>3. 1 \in 1..Len(Pending(s))
    BY <1>1, PendingNow DEF PendingIs
  <1>4. QED
    BY <1>1, <1>2, <1>3 DEF RequestInv, PeerInv

\* Whoever asks for a request, from the one that has it up to the local server,
\* waits.
LEMMA UpTo ==
  ASSUME TypeOK, RequestInv, ~lost
  PROVE  /\ ~recursive => \A t \in Zones : 1 \in 1..Len(Pending(t)) => Waits("local")
         /\ recursive => /\ 1 \in 1..Len(Pending("root")) => Waits("local")
                         /\ 1 \in 1..Len(Pending("tld")) => Waits("local") /\ Waits("root")
                         /\ 1 \in 1..Len(Pending("auth")) => Waits("local") /\ Waits("root") /\ Waits("tld")
  <1>1. /\ "root" # "tld" /\ "root" # "auth" /\ "tld" # "auth" /\ "local" # "root" /\ "local" # "tld"
        /\ NextServer("root") = "tld" /\ NextServer("tld") = "auth"
    BY DEF NextServer
  <1>2. ASSUME ~recursive, NEW t \in Zones, 1 \in 1..Len(Pending(t)) PROVE Waits("local")
    <2>1. PICK x \in Servers : Waits(x) /\ peer[x] = t
      BY <1>2, Upstream
    <2>2. x = "local"
      BY <1>2, <2>1, WaitsIs
    <2>3. QED
      BY <2>1, <2>2
  <1>3. ASSUME recursive, 1 \in 1..Len(Pending("root")) PROVE Waits("local")
    <2>1. PICK x \in Servers : Waits(x) /\ peer[x] = "root"
      BY <1>3, Upstream, WhoIs
    <2>2. x = "local" \/ peer[x] = NextServer(x)
      BY <2>1, WaitsIs
    <2>3. NextServer(x) # "root"
      BY DEF NextServer
    <2>4. QED
      BY <2>1, <2>2, <2>3
  <1>4. ASSUME recursive, 1 \in 1..Len(Pending("tld")) PROVE Waits("local") /\ Waits("root")
    <2>1. PICK x \in Servers : Waits(x) /\ peer[x] = "tld"
      BY <1>4, Upstream, WhoIs
    <2>2. x # "local"
      BY <1>1, <1>4, <2>1, WaitsIs
    <2>3. NextServer(x) = "tld"
      BY <2>1, <2>2, WaitsIs
    <2>4. x = "root"
      BY <1>1, <2>3 DEF NextServer
    <2>5. 1 \in 1..Len(Pending("root"))
      BY <2>1, <2>4, WaitsIs
    <2>6. QED
      BY <1>3, <1>4, <2>1, <2>4, <2>5
  <1>5. ASSUME recursive, 1 \in 1..Len(Pending("auth"))
        PROVE  Waits("local") /\ Waits("root") /\ Waits("tld")
    <2>1. PICK x \in Servers : Waits(x) /\ peer[x] = "auth"
      BY <1>5, Upstream, WhoIs
    <2>2. x # "local" /\ x # "auth"
      BY <1>1, <1>5, <2>1, WaitsIs
    <2>3. NextServer(x) = "auth"
      BY <2>1, <2>2, WaitsIs
    <2>4. x = "tld"
      BY <1>1, <2>2, <2>3 DEF NextServer, Servers, Zones
    <2>5. 1 \in 1..Len(Pending("tld"))
      BY <2>1, <2>4, WaitsIs
    <2>6. QED
      BY <1>4, <1>5, <2>1, <2>4, <2>5
  <1>6. QED
    BY <1>2, <1>3, <1>4, <1>5

LEMMA IterativeHas ==
  ASSUME TypeOK, RequestInv, ~recursive, NEW s \in Servers, Has(s)
  PROVE  s \in {"auth", "local"}
  <1>1. at[s] = "reply" \/ at[s] = "wait"
    BY HeldTyped
  <1>2. CASE at[s] = "reply"
    BY <1>2, HeldTyped, PendingNow DEF Has, PendingIs
  <1>3. CASE at[s] = "wait"
    BY <1>3 DEF RequestInv, PeerInv
  <1>4. QED
    BY <1>1, <1>2, <1>3

LEMMA AtMostOne ==
  ASSUME TypeOK, RequestInv, ~lost, NEW s \in Servers, NEW r \in Servers, Has(s), Has(r)
  PROVE  s = r
  <1>1. 1 \in 1..Len(Pending(s)) /\ 1 \in 1..Len(Pending(r)) /\ ~Waits(s) /\ ~Waits(r)
    BY HeldTyped, WaitsIs
  <1>2. CASE ~recursive
    <2>1. s \in {"auth", "local"} /\ r \in {"auth", "local"}
      BY <1>2, IterativeHas
    <2>2. s = "auth" => ~(r = "local")
      BY <1>1, <1>2, UpTo, WhoIs
    <2>3. r = "auth" => ~(s = "local")
      BY <1>1, <1>2, UpTo, WhoIs
    <2>4. QED
      BY <2>1, <2>2, <2>3
  <1>3. CASE recursive
    <2>1. \A x \in Servers : x \in {"local", "root", "tld", "auth"}
      BY DEF Servers, Zones
    <2>2. s = "root" \/ r = "root" => ~Waits("root") /\ Waits("local")
      BY <1>1, <1>3, UpTo
    <2>3. s = "tld" \/ r = "tld" => ~Waits("tld") /\ Waits("root") /\ Waits("local")
      BY <1>1, <1>3, UpTo
    <2>4. s = "auth" \/ r = "auth" => ~Waits("auth") /\ Waits("tld") /\ Waits("root") /\ Waits("local")
      BY <1>1, <1>3, UpTo
    <2>5. s = "local" \/ r = "local" => ~Waits("local")
      BY <1>1
    <2>6. QED
      BY <2>1, <2>2, <2>3, <2>4, <2>5
  <1>4. QED
    BY <1>2, <1>3

\* While a request waits for the authoritative server, nobody has a reply.
LEMMA NoneHas ==
  ASSUME TypeOK, RequestInv, ~lost, Receives("auth"), NEW s \in Servers
  PROVE  ~Has(s)
  <1>1. PICK a \in Servers : a = "auth" /\ a \in Zones
    BY WhoIs
  <1>2. 1 \in 1..Len(Pending(a)) /\ at[a] = "recv"
    BY <1>1, ReceivedIs
  <1>3. ~Has(a)
    BY <1>2, HeldTyped
  <1>4. CASE ~recursive
    <2>1. ~Has("local")
      BY <1>1, <1>2, <1>4, UpTo, WaitsIs, WhoIs
    <2>2. QED
      BY <1>1, <1>3, <1>4, <2>1, IterativeHas
  <1>5. CASE recursive
    <2>1. Waits("local") /\ Waits("root") /\ Waits("tld")
      BY <1>1, <1>2, <1>5, UpTo
    <2>2. s \in {"local", "root", "tld", "auth"}
      BY DEF Servers, Zones
    <2>3. QED
      BY <1>1, <1>3, <2>1, <2>2, WaitsIs
  <1>6. QED
    BY <1>4, <1>5

\* Counting replies.
LEMMA RepliesTyped ==
  ASSUME NEW h, NEW j \in Nat \ {0}
  PROVE  RepliesBefore(j, h) \in Nat /\ IsFiniteSet({i \in 1..(j - 1) : Resolved(i, h)})
  <1> DEFINE T == {i \in 1..(j - 1) : Resolved(i, h)}
  <1>1. IsFiniteSet(1..(j - 1))
    BY FS_Interval
  <1>2. T \in SUBSET (1..(j - 1))
    OBVIOUS
  <1>3. IsFiniteSet(T)
    <2> HIDE DEF T
    <2>1. QED
      BY <1>1, <1>2, FS_Subset
  <1>4. Cardinality(T) \in Nat
    <2> HIDE DEF T
    <2>1. QED
      BY <1>3, FS_CardinalityType
  <1>5. QED
    BY <1>3, <1>4 DEF RepliesBefore

LEMMA RepliesGrow ==
  ASSUME NEW S, answers \in Seq(S), NEW e \in S, answers' = Append(answers, e),
         NEW n \in Nat, n = Len(answers), NEW h
  PROVE  /\ Len(answers') = n + 1 /\ answers'[n + 1] = e /\ \A i \in 1..n : answers'[i] = answers[i]
         /\ \A j \in 1..(n + 1) : RepliesBefore(j, h)' = RepliesBefore(j, h)
         /\ Replies(h) = RepliesBefore(n + 1, h) /\ Replies(h) \in Nat
         /\ Replies(h)' = IF e.name = h /\ e.is # NotFound THEN Replies(h) + 1 ELSE Replies(h)
  <1>1. Len(answers') = n + 1 /\ answers'[n + 1] = e /\ \A i \in 1..n : answers'[i] = answers[i]
    BY AppendProperties
  <1>2. \A i \in 1..n : Resolved(i, h)' <=> Resolved(i, h)
    BY <1>1 DEF Resolved
  <1>3. ASSUME NEW j \in 1..(n + 1) PROVE RepliesBefore(j, h)' = RepliesBefore(j, h)
    <2>1. \A i \in 1..(j - 1) : i \in 1..n
      OBVIOUS
    <2>2. {i \in 1..(j - 1) : Resolved(i, h)}' = {i \in 1..(j - 1) : Resolved(i, h)}
      BY <1>2, <2>1
    <2>3. QED
      BY <2>2 DEF RepliesBefore
  <1>4. Replies(h) = RepliesBefore(n + 1, h)
    BY DEF Replies
  <1>5. n + 1 \in Nat \ {0} /\ n + 1 \in 1..(n + 1) /\ (n + 1) - 1 = n /\ ((n + 1) + 1) - 1 = n + 1
    OBVIOUS
  <1>6. Replies(h) \in Nat
    BY <1>4, <1>5, RepliesTyped
  <1> DEFINE T == {i \in 1..n : Resolved(i, h)}
             U == {i \in 1..(n + 1) : Resolved(i, h)'}
  <1>7. IsFiniteSet(T) /\ Cardinality(T) = Replies(h)
    <2>1. T = {i \in 1..((n + 1) - 1) : Resolved(i, h)}
      BY <1>5
    <2>2. IsFiniteSet(T)
      BY <1>5, <2>1, RepliesTyped
    <2>3. QED
      BY <1>4, <2>1, <2>2 DEF RepliesBefore
  <1>8. Replies(h)' = Cardinality(U)
    <2>1. U = {i \in 1..(((n + 1) + 1) - 1) : Resolved(i, h)'}
      BY <1>5
    <2>2. Replies(h)' = Cardinality({i \in 1..((Len(answers') + 1) - 1) : Resolved(i, h)'})
      BY DEF Replies, RepliesBefore
    <2>3. QED
      BY <1>1, <2>1, <2>2
  <1>9. Resolved(n + 1, h)' <=> e.name = h /\ e.is # NotFound
    BY <1>1 DEF Resolved
  <1>10. CASE e.name = h /\ e.is # NotFound
    <2>1. U = T \cup {n + 1} /\ n + 1 \notin T
      BY <1>2, <1>9, <1>10
    <2> HIDE DEF T, U
    <2>2. Cardinality(U) = Cardinality(T) + 1
      BY <1>7, <2>1, FS_AddElement
    <2>3. QED
      BY <1>1, <1>3, <1>4, <1>6, <1>7, <1>8, <1>10, <2>2
  <1>11. CASE ~(e.name = h /\ e.is # NotFound)
    <2>1. U = T
      BY <1>2, <1>9, <1>11
    <2> HIDE DEF T, U
    <2>2. QED
      BY <1>1, <1>3, <1>4, <1>6, <1>7, <1>8, <1>11, <2>1
  <1>12. QED
    BY <1>10, <1>11
\* RotationInv, for one host.
RotationOf(h) ==
  /\ \A s \in Servers : \A x \in Answers \ {NotFound} : Brings(s, h, x) =>
       h \in Table /\ value[h] = Replies(h) + 1 /\ x = Address(h, Replies(h) % 3)
  /\ h \in Table /\ (\A s \in Servers : \A x \in Answers \ {NotFound} : ~Brings(s, h, x)) =>
       value[h] = Replies(h)

\* A step that brings no reply for a host nearer than another server.
LEMMA SameRotation ==
  ASSUME NEW h \in Hosts, RotationOf(h), Replies(h)' = Replies(h), h \in Table => value'[h] = value[h],
         \A x \in Answers \ {NotFound} :
           (\E s \in Servers : Brings(s, h, x)') <=> (\E s \in Servers : Brings(s, h, x))
  PROVE  RotationOf(h)'
  <1>1. ASSUME NEW s \in Servers, NEW x \in Answers \ {NotFound}, Brings(s, h, x)'
        PROVE  h \in Table /\ value'[h] = Replies(h)' + 1 /\ x = Address(h, Replies(h)' % 3)
    <2>1. PICK t \in Servers : Brings(t, h, x)
      BY <1>1
    <2>2. h \in Table /\ value[h] = Replies(h) + 1 /\ x = Address(h, Replies(h) % 3)
      BY <2>1 DEF RotationOf
    <2>3. QED
      BY <2>2
  <1>2. ASSUME h \in Table, \A s \in Servers : \A x \in Answers \ {NotFound} : ~Brings(s, h, x)'
        PROVE  value'[h] = Replies(h)'
    <2>1. \A s \in Servers : \A x \in Answers \ {NotFound} : ~Brings(s, h, x)
      BY <1>2
    <2>2. value[h] = Replies(h)
      BY <1>2, <2>1 DEF RotationOf
    <2>3. QED
      BY <1>2, <2>2
  <1>3. QED
    BY <1>1, <1>2 DEF RotationOf

\* As long as there are no new replies.
LEMMA SameAnswers ==
  ASSUME answers' = answers
  PROVE  /\ \A h : Replies(h)' = Replies(h)
         /\ \A h, j : RepliesBefore(j, h)' = RepliesBefore(j, h)
         /\ \A h, j : Resolved(j, h)' <=> Resolved(j, h)
  <1>1. \A h, j : Resolved(j, h)' <=> Resolved(j, h)
    BY DEF Resolved
  <1>2. ASSUME NEW h, NEW j PROVE RepliesBefore(j, h)' = RepliesBefore(j, h)
    BY <1>1 DEF RepliesBefore
  <1>3. ASSUME NEW h PROVE Replies(h)' = Replies(h)
    BY <1>1 DEF Replies, RepliesBefore
  <1>4. QED
    BY <1>1, <1>2, <1>3

\* The promise of RoundRobin.
InTurn ==
  \A h \in Hosts : \A j \in 1..Len(answers) :
    Resolved(j, h) => answers[j].is = Address(h, RepliesBefore(j, h) % 3)

LEMMA SameTurns ==
  ASSUME answers' = answers, InTurn
  PROVE  InTurn'
  BY SameAnswers DEF InTurn

\* The authoritative server counts a reply when it makes it.
LEMMA ResolvesRotation ==
  ASSUME TypeOK, RequestInv, FileInv, ~lost, Ends(began.auth), \A h \in Hosts : RotationOf(h),
         NEW d \in Requests, Resolves(d), NEW g \in Hosts
  PROVE  RotationOf(g)'
  <1>1. PICK a \in Servers : a = "auth"
    BY WhoIs
  <1>2. PICK h : h = d.text
    OBVIOUS
  <1>3. PICK x : x = result'["auth"]
    OBVIOUS
  <1>4. /\ \A t \in Servers : t # a => \A e, y : Brings(t, e, y)' <=> Brings(t, e, y)
        /\ \A e, y : Brings(a, e, y)' <=> e = h /\ y = x
        /\ answers' = answers
        /\ \/ x = NotFound /\ value' = value
           \/ /\ x # NotFound /\ h \in Table /\ x \in Answers
              /\ value' = [value EXCEPT ![h] = value[h] + 1]
              /\ x = Address(h, value[h] % 3)
    BY <1>1, <1>2, <1>3, ResolveBrings
  <1>5. \A t \in Servers : \A e, y : ~Brings(t, e, y)
    <2>1. \A t \in Servers : ~Has(t)
      BY NoneHas DEF Resolves
    <2>2. QED
      BY <2>1 DEF Brings
  <1>6. Replies(g)' = Replies(g)
    BY <1>4, SameAnswers
  <1>7. value \in [Table -> Nat]
    BY DEF TypeOK
  <1>8. CASE x = NotFound \/ g # h
    <2>1. g \in Table => value'[g] = value[g]
      BY <1>4, <1>7, <1>8
    <2>2. \A t \in Servers : \A y \in Answers \ {NotFound} : ~Brings(t, g, y)'
      BY <1>4, <1>5, <1>8
    <2>3. RotationOf(g)
      OBVIOUS
    <2>4. QED
      BY <1>5, <1>6, <2>1, <2>2, <2>3, SameRotation
  <1>9. CASE x # NotFound /\ g = h
    <2>1. g \in Table /\ value'[g] = value[g] + 1 /\ x = Address(g, value[g] % 3) /\ x \in Answers
      BY <1>4, <1>7, <1>9
    <2>2. value[g] = Replies(g)
      BY <1>5, <2>1 DEF RotationOf
    <2>3. \A t \in Servers : \A y : Brings(t, g, y)' => t = a /\ y = x
      BY <1>4, <1>5, <1>9
    <2>4. Brings(a, g, x)'
      BY <1>4, <1>9
    <2>5. g \in Table /\ value'[g] = Replies(g)' + 1 /\ x = Address(g, Replies(g)' % 3)
      BY <1>6, <2>1, <2>2
    <2>6. QED
      BY <1>9, <2>1, <2>3, <2>4, <2>5 DEF RotationOf
  <1>10. QED
    BY <1>8, <1>9

\* A reply comes to a client in its turn.
LEMMA ReplyRotation ==
  ASSUME TypeOK, RequestInv, ~lost, ~lost', \A h \in Hosts : RotationOf(h), InTurn,
         NEW s \in Servers, Reply(s)
  PROVE  (\A h \in Hosts : RotationOf(h)') /\ InTurn'
  <1>1. PICK y : y = serving[s][1].from
    OBVIOUS
  <1>2. /\ \A t \in Servers : t # s /\ t # y => \A h, x : Brings(t, h, x)' <=> Brings(t, h, x)
        /\ ~Has(s)'
        /\ y \in Servers => y # s /\ ~Has(y) /\ \A h, x : Brings(y, h, x)' <=> Brings(s, h, x)
    BY <1>1, ReplyBrings
  <1>3. at[s] = "reply" /\ value' = value /\ serving[s][1].text \in Hosts /\ result[s] \in Answers
    BY ReplyIs, RequestsAre
  <1>4. \A h, x : ~Brings(s, h, x)'
    BY <1>2 DEF Brings
  <1>5. CASE y \in Servers /\ answers' = answers
    <2>1. \A h, x : ~Brings(y, h, x)
      BY <1>2, <1>5 DEF Brings
    <2>2. ASSUME NEW h \in Hosts PROVE RotationOf(h)'
      <3>1. \A x : (\E t \in Servers : Brings(t, h, x)') <=> (\E t \in Servers : Brings(t, h, x))
        BY <1>2, <1>4, <1>5, <2>1
      <3>2. Replies(h)' = Replies(h) /\ value'[h] = value[h] /\ RotationOf(h)
        BY <1>3, <1>5, SameAnswers
      <3>3. QED
        BY <3>1, <3>2, SameRotation
    <2>3. QED
      BY <1>5, <2>2, SameTurns
  <1>6. CASE /\ y \in Client /\ s = "local"
             /\ answers' = Append(answers, [from |-> y, name |-> serving[s][1].text, is |-> result[s]])
    <2>1. PICK g \in Hosts : g = serving[s][1].text
      BY <1>3
    <2>2. PICK z \in Answers : z = result[s]
      BY <1>3
    <2>3. PICK e : e = [from |-> y, name |-> g, is |-> z]
      OBVIOUS
    <2>4. PICK S : S = [from : Client, name : Hosts, is : Answers]
      OBVIOUS
    <2>5. e \in S /\ answers \in Seq(S) /\ answers' = Append(answers, e)
      BY <1>6, <2>1, <2>2, <2>3, <2>4, TypesAre DEF ClientTypes
    <2>6. PICK n \in Nat : n = Len(answers)
      BY <2>5, LenProperties
    <2>7. e.name = g /\ e.is = z
      BY <2>3
    <2>8. /\ Len(answers') = n + 1 /\ answers'[n + 1] = e /\ \A i \in 1..n : answers'[i] = answers[i]
          /\ \A h : \A j \in 1..(n + 1) : RepliesBefore(j, h)' = RepliesBefore(j, h)
          /\ \A h : Replies(h) = RepliesBefore(n + 1, h) /\ Replies(h) \in Nat
          /\ \A h : Replies(h)' = IF g = h /\ z # NotFound THEN Replies(h) + 1 ELSE Replies(h)
      <3>1. ASSUME NEW h
            PROVE  /\ Len(answers') = n + 1 /\ answers'[n + 1] = e /\ \A i \in 1..n : answers'[i] = answers[i]
                   /\ \A j \in 1..(n + 1) : RepliesBefore(j, h)' = RepliesBefore(j, h)
                   /\ Replies(h) = RepliesBefore(n + 1, h) /\ Replies(h) \in Nat
                   /\ Replies(h)' = IF e.name = h /\ e.is # NotFound THEN Replies(h) + 1 ELSE Replies(h)
        BY <2>5, <2>6, RepliesGrow
      <3>2. Len(answers') = n + 1 /\ answers'[n + 1] = e /\ \A i \in 1..n : answers'[i] = answers[i]
        BY <3>1
      <3>3. \A h : \A j \in 1..(n + 1) : RepliesBefore(j, h)' = RepliesBefore(j, h)
        BY <3>1
      <3>4. \A h : Replies(h) = RepliesBefore(n + 1, h) /\ Replies(h) \in Nat
        BY <3>1
      <3>5. ASSUME NEW h PROVE Replies(h)' = IF g = h /\ z # NotFound THEN Replies(h) + 1 ELSE Replies(h)
        BY <2>7, <3>1
      <3>6. QED
        BY <3>2, <3>3, <3>4, <3>5
    <2>9. Has(s) /\ Brings(s, g, z) /\ \A h, x : Brings(s, h, x) => h = g /\ x = z
      BY <1>3, <1>6, <2>1, <2>2 DEF Brings, Has, Held
    <2>10. \A t \in Servers : t # s => \A h, x : ~Brings(t, h, x)
      BY <2>9, AtMostOne DEF Brings
    <2>11. y \notin Servers
      BY <1>6, WhoIs
    <2>12. \A t \in Servers : \A h, x : ~Brings(t, h, x)'
      BY <1>2, <1>4, <2>10, <2>11
    <2>13. z # NotFound => g \in Table /\ value[g] = Replies(g) + 1 /\ z = Address(g, Replies(g) % 3)
      BY <2>9 DEF RotationOf
    <2>14. ASSUME NEW h \in Hosts PROVE RotationOf(h)'
      <3>1. CASE h = g /\ z # NotFound
        BY <1>3, <2>8, <2>12, <2>13, <3>1 DEF RotationOf
      <3>2. CASE ~(h = g /\ z # NotFound)
        <4>1. \A t \in Servers : \A x \in Answers \ {NotFound} : ~Brings(t, h, x)
          BY <2>9, <2>10, <3>2
        <4>2. Replies(h)' = Replies(h) /\ value'[h] = value[h] /\ RotationOf(h)
          BY <1>3, <2>8, <3>2
        <4>3. QED
          BY <2>12, <4>1, <4>2, SameRotation
      <3>3. QED
        BY <3>1, <3>2
    <2>15. ASSUME NEW h \in Hosts, NEW j \in 1..(n + 1), Resolved(j, h)'
           PROVE  answers'[j].is = Address(h, RepliesBefore(j, h)' % 3)
      <3>1. RepliesBefore(j, h)' = RepliesBefore(j, h)
        BY <2>8
      <3>2. CASE j = n + 1
        <4>1. h = g /\ z # NotFound
          BY <2>7, <2>8, <2>15, <3>2 DEF Resolved
        <4>2. z = Address(h, RepliesBefore(n + 1, h) % 3)
          BY <2>8, <2>13, <4>1
        <4>3. QED
          BY <2>7, <2>8, <3>1, <3>2, <4>2
      <3>3. CASE j # n + 1
        <4>1. j \in 1..n /\ answers'[j] = answers[j]
          BY <2>8, <3>3
        <4>2. Resolved(j, h)
          BY <2>15, <4>1 DEF Resolved
        <4>3. answers[j].is = Address(h, RepliesBefore(j, h) % 3)
          BY <2>6, <4>1, <4>2 DEF InTurn
        <4>4. QED
          BY <3>1, <4>1, <4>3
      <3>4. QED
        BY <3>2, <3>3
    <2>16. InTurn'
      BY <2>8, <2>15 DEF InTurn
    <2>17. QED
      BY <2>14, <2>16
  <1>7. QED
    BY <1>1, <1>5, <1>6, ReplyGoes

LEMMA NextRotation ==
  TypeOK /\ RequestInv /\ FileInv /\ RoundRobin /\ RotationInv /\ [Next]_vars => (RoundRobin /\ RotationInv)'
  <1> SUFFICES ASSUME TypeOK, RequestInv, FileInv, RoundRobin, RotationInv, [Next]_vars,
                      Ends(began'.auth), ~lost', ~forgot'
               PROVE  (\A h \in Hosts : RotationOf(h)') /\ InTurn'
    BY DEF RoundRobin, RotationInv, RotationOf, InTurn
  <1>1. Ends(began.auth)
    BY FilesAre DEF scenario
  <1>2. ~lost /\ ~forgot => (\A h \in Hosts : RotationOf(h)) /\ InTurn
    BY <1>1 DEF RoundRobin, RotationInv, RotationOf, InTurn
  <1>3. CASE Quiet
    <2>1. /\ answers' = answers /\ value' = value /\ ~lost /\ ~forgot
          /\ \A s \in Servers : \A h \in Hosts : \A x \in Answers : Brings(s, h, x)' <=> Brings(s, h, x)
      BY <1>3 DEF Quiet
    <2>2. ASSUME NEW h \in Hosts PROVE RotationOf(h)'
      <3>1. Replies(h)' = Replies(h) /\ value'[h] = value[h] /\ RotationOf(h)
        BY <1>2, <2>1, SameAnswers
      <3>2. QED
        BY <2>1, <3>1, SameRotation
    <2>3. QED
      BY <1>2, <2>1, <2>2, SameTurns
  <1>4. CASE \E s \in {"root", "tld"} : \E d \in Requests : \E l \in {"send", "reply"} : Refers(s, d, l)
    <2>1. PICK s \in {"root", "tld"} : \E d \in Requests : \E l \in {"send", "reply"} : Refers(s, d, l)
      BY <1>4
    <2>2. /\ \A t \in Servers : t # s => \A h, x : Brings(t, h, x)' <=> Brings(t, h, x)
          /\ ~Has(s)
          /\ \A h, x : Brings(s, h, x)' => x = NotFound
          /\ answers' = answers /\ value' = value /\ ~forgot /\ ~lost
      BY <2>1, ReferBrings
    <2>3. ASSUME NEW h \in Hosts PROVE RotationOf(h)'
      <3>1. Replies(h)' = Replies(h) /\ value'[h] = value[h] /\ RotationOf(h)
        BY <1>2, <2>2, SameAnswers
      <3>2. \A x : ~Brings(s, h, x)
        BY <2>2 DEF Brings
      <3>3. \A x \in Answers \ {NotFound} : \A t \in Servers : Brings(t, h, x)' <=> Brings(t, h, x)
        BY <2>2, <3>2
      <3>4. QED
        BY <3>1, <3>3, SameRotation
    <2>4. QED
      BY <1>2, <2>2, <2>3, SameTurns
  <1>5. CASE \E d \in Requests : Resolves(d)
    <2>1. PICK d \in Requests : Resolves(d)
      BY <1>5
    <2>2. answers' = answers /\ ~lost /\ ~forgot
      BY <2>1 DEF Resolves, clientVars
    <2>3. QED
      BY <1>1, <1>2, <2>1, <2>2, ResolvesRotation, SameTurns
  <1>6. CASE \E s \in Servers : Reply(s)
    <2>1. PICK s \in Servers : Reply(s)
      BY <1>6
    <2>2. ~forgot /\ ~lost
      <3>1. PICK y : y = serving[s][1].from
        OBVIOUS
      <3>2. lost' = lost
        BY <2>1, <3>1, ReplyGoes
      <3>3. QED
        BY <2>1, <3>2, ReplyIs
    <2>3. QED
      BY <1>2, <2>1, <2>2, ReplyRotation
  <1>7. QED
    BY <1>3, <1>4, <1>5, <1>6, StepKinds

LEMMA InitRotation == Init => RoundRobin /\ RotationInv
  <1> SUFFICES ASSUME Init PROVE RoundRobin /\ RotationInv
    OBVIOUS
  <1>1. answers = <<>> /\ Len(answers) = 0 /\ value = [h \in Table |-> 0]
    BY DEF Init
  <1>2. RoundRobin
    BY <1>1 DEF RoundRobin
  <1>3. \A s \in Servers : \A h, x : ~Brings(s, h, x)
    BY InitBrings DEF Brings
  <1>4. ASSUME NEW h \in Hosts PROVE Replies(h) = 0
    <2> DEFINE T == {i \in 1..((Len(answers) + 1) - 1) : Resolved(i, h)}
    <2>1. T = {}
      BY <1>1
    <2> HIDE DEF T
    <2>2. Cardinality(T) = 0
      BY <2>1, FS_EmptySet
    <2>3. QED
      BY <2>2 DEF T, Replies, RepliesBefore
  <1>5. RotationInv
    BY <1>1, <1>3, <1>4 DEF RotationInv
  <1>6. QED
    BY <1>2, <1>5

\* The replies to a name are its addresses in turn, over all the clients and
\* whatever other names they ask for, as long as no datagram is lost and the
\* authoritative server, whose ip_lookuptable counts, goes on: rotate_dns_ip
\* is called when a reply is made, and since there is never a second reply on
\* its way, the replies come in the order in which they were counted.
THEOREM AddressesRotate == Spec => []RoundRobin
  <1>1. Spec => [](TypeOK /\ RequestInv /\ FileInv /\ RoundRobin /\ RotationInv)
    BY InitTypes, InitRequests, InitFiles, InitRotation, NextRequests, NextFiles, NextRotation, PTL DEF Spec
  <1>2. QED
    BY <1>1, PTL

=============================================================================
