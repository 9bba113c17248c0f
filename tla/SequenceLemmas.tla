--------------------------- MODULE SequenceLemmas ---------------------------
(***************************************************************************)
(* Facts about numbers and sequences that the proofs of several modules    *)
(* need and the library does not have: what remainders and quotients are,  *)
(* and what FlattenSeq concatenates.                                       *)
(***************************************************************************)
EXTENDS Integers, SequencesExt, FiniteSetTheorems, SequenceTheorems, WellFoundedInduction, TLAPS

\* The remainder of an integer.
LEMMA Remainder ==
  ASSUME NEW m \in Int, NEW d \in Nat, d > 0
  PROVE  /\ m % d \in 0..(d - 1) /\ m \div d \in Int
         /\ m = d * (m \div d) + (m % d)
  BY SMT

LEMMA MultipleOf ==
  ASSUME NEW q \in Int, NEW d \in Nat, d > 0
  PROVE  (d * q) % d = 0
  <1>1. PICK k \in Int, r \in 0..(d - 1) : (d * q = d * k + r) /\ r = (d * q) % d
    BY Remainder
  <1>2. r = d * (q - k)
    BY <1>1
  <1>3. q - k < 1
    <2>1. SUFFICES ASSUME q - k >= 1 PROVE FALSE
      OBVIOUS
    <2>2. d * (q - k) >= d
      BY <2>1
    <2>3. QED
      BY <1>2, <2>2
  <1>4. q - k > -1
    <2>1. SUFFICES ASSUME q - k <= -1 PROVE FALSE
      OBVIOUS
    <2>2. d * (q - k) <= -d
      BY <2>1
    <2>3. QED
      BY <1>2, <2>2
  <1>5. QED
    BY <1>1, <1>2, <1>3, <1>4

\* What wraps around among the n integers from a on.
LEMMA WrapAround ==
  ASSUME NEW a \in Int, NEW n \in Nat, n > 0, NEW x \in Int,
         NEW w, w = ((x - a) % n) + a
  PROVE  w \in Int /\ a <= w /\ w <= a + n - 1 /\ (w - x) % n = 0
  <1>1. x - a \in Int
    OBVIOUS
  <1>2. PICK r \in 0..(n - 1), q \in Int :
          (r = (x - a) % n) /\ (x - a = n * q + r)
    BY <1>1, Remainder
  <1>3. w = r + a /\ w \in Int /\ a <= w /\ w <= a + n - 1
    BY <1>2
  <1>4. w - x = n * (-q)
    BY <1>2, <1>3
  <1>5. (n * (-q)) % n = 0
    BY <1>2, MultipleOf
  <1>6. QED
    BY <1>3, <1>4, <1>5

LEMMA QuotientBounds ==
  ASSUME NEW A \in Nat, NEW B \in Nat, B > 0, NEW q, q = A \div B
  PROVE  /\ q \in Nat /\ q <= A /\ (q > 0 /\ q = A => B = 1)
         /\ \E p \in Nat : p = B * q /\ p <= A /\ A - p < B
  <1>1. q \in Int /\ A % B \in 0..(B - 1) /\ A = B * (A \div B) + (A % B)
    BY Remainder
  <1>2. PICK r \in 0..(B - 1) : A = B * q + r
    BY <1>1
  <1>3. q >= 0
    <2>1. SUFFICES ASSUME q <= -1 PROVE FALSE
      BY <1>1
    <2>2. B * q <= -B
      BY <1>1, <2>1
    <2>3. QED
      BY <1>1, <1>2, <2>2
  <1>4. PICK p \in Int : p = B * q /\ p <= A /\ A - p < B /\ p >= 0
    BY <1>1, <1>2, <1>3
  <1>5. q <= p
    BY <1>1, <1>3, <1>4
  <1>6. q > 0 /\ q = A => B = 1
    <2>1. SUFFICES ASSUME q > 0, q = A, B >= 2 PROVE FALSE
      OBVIOUS
    <2>2. B * q >= 2 * q
      BY <1>1, <1>3, <2>1
    <2>3. QED
      BY <1>1, <1>4, <2>1, <2>2
  <1>7. QED
    BY <1>1, <1>3, <1>4, <1>5, <1>6

LEMMA TimesMinus ==
  ASSUME NEW x \in Int, NEW y \in Int
  PROVE  (-x) * y = -(x * y) /\ x * (-y) = -(x * y) /\ (-x) * (-y) = x * y /\ x * y = y * x
  BY SMT

Magnitude(x) == IF x < 0 THEN -x ELSE x

\* A quotient rounded towards 0.
Truncated(a, b) ==
  LET q == Magnitude(a) \div Magnitude(b) IN IF (a < 0) = (b < 0) THEN q ELSE -q

\* It is no larger than what is divided, and as large for 1 and -1 only.
LEMMA TruncatedQuotient ==
  ASSUME NEW a \in Int, NEW b \in Int, b # 0
  PROVE  /\ Truncated(a, b) \in Int
         /\ Truncated(a, b) <= Magnitude(a) /\ -Truncated(a, b) <= Magnitude(a)
         /\ Truncated(a, b) > 0 /\ Truncated(a, b) = Magnitude(a)
              => (a < 0 /\ b = -1) \/ (a > 0 /\ b = 1)
         /\ Magnitude(Truncated(a, b) * b) <= Magnitude(a)
         /\ Magnitude(a - Truncated(a, b) * b) < Magnitude(b)
  <1>0. PICK A, B : A = Magnitude(a) /\ B = Magnitude(b)
    OBVIOUS
  <1>q. PICK q : q = A \div B
    OBVIOUS
  <1>t. PICK t : t = Truncated(a, b) /\ t = (IF (a < 0) = (b < 0) THEN q ELSE -q)
    BY <1>0, <1>q DEF Truncated
  <1>1. /\ A \in Nat /\ B \in Nat /\ B > 0
        /\ (a = A /\ a >= 0) \/ (a = -A /\ a < 0)
        /\ (b = B /\ b >= 0) \/ (b = -B /\ b < 0)
    BY <1>0 DEF Magnitude
  <1>2. /\ q \in Nat /\ q <= A /\ (q > 0 /\ q = A => B = 1)
        /\ \E p \in Nat : p = B * q /\ p <= A /\ A - p < B
    BY <1>1, <1>q, QuotientBounds
  <1>3. PICK p \in Nat : p = B * q /\ p <= A /\ A - p < B
    BY <1>2
  <1>4. /\ (-q) * B = -p /\ q * (-B) = -p /\ (-q) * (-B) = p /\ q * B = p
    BY <1>1, <1>2, <1>3, TimesMinus
  <1>5. t \in Int /\ ((t * b = p /\ a = A) \/ (t * b = -p /\ a = -A))
    <2>1. CASE a >= 0 /\ b >= 0
      <3>1. t = q /\ a = A /\ b = B
        BY <1>1, <1>t, <2>1
      <3>2. QED
        BY <1>2, <1>4, <3>1
    <2>2. CASE a < 0 /\ b < 0
      <3>1. t = q /\ a = -A /\ b = -B
        BY <1>1, <1>t, <2>2
      <3>2. QED
        BY <1>2, <1>4, <3>1
    <2>3. CASE a >= 0 /\ b < 0
      <3>1. t = -q /\ a = A /\ b = -B
        BY <1>1, <1>t, <2>3
      <3>2. QED
        BY <1>2, <1>4, <3>1
    <2>4. CASE a < 0 /\ b >= 0
      <3>1. t = -q /\ a = -A /\ b = B
        BY <1>1, <1>t, <2>4
      <3>2. QED
        BY <1>2, <1>4, <3>1
    <2>5. QED
      BY <2>1, <2>2, <2>3, <2>4
  <1>6. PICK z : z = t * b
    OBVIOUS
  <1>7. z \in Int /\ ((z = p /\ a = A) \/ (z = -p /\ a = -A))
    BY <1>5, <1>6
  <1>8. Magnitude(z) <= A /\ Magnitude(a - z) < B
    BY <1>1, <1>3, <1>7 DEF Magnitude
  <1>9. t <= A /\ -t <= A
    BY <1>1, <1>2, <1>t
  <1>10. t > 0 /\ t = A => (a < 0 /\ b = -1) \/ (a > 0 /\ b = 1)
    <2>1. SUFFICES ASSUME t > 0, t = A PROVE (a < 0 /\ b = -1) \/ (a > 0 /\ b = 1)
      OBVIOUS
    <2>2. t = q /\ B = 1 /\ (a < 0) = (b < 0)
      BY <1>1, <1>2, <1>t, <2>1
    <2>3. QED
      BY <1>1, <2>1, <2>2
  <1>11. QED
    BY <1>0, <1>t, <1>5, <1>6, <1>8, <1>9, <1>10

\* A set of natural numbers has a least one.
LEMMA LeastNumber ==
  ASSUME NEW T, T \subseteq Nat, T # {}
  PROVE  \E x \in T : \A y \in T : x <= y
  <1> DEFINE R == OpToRel(<, Nat)
  <1>1. IsWellFoundedOn(R, Nat)
    BY NatLessThanWellFounded
  <1>2. PICK x \in T : \A y \in T : <<y, x>> \notin R
    <2> HIDE DEF R
    <2>1. QED
      BY <1>1, WFMin
  <1>3. ASSUME NEW y \in T
        PROVE  x <= y
    <2>1. x \in Nat /\ y \in Nat
      OBVIOUS
    <2>2. y < x => <<y, x>> \in R
      BY <2>1 DEF OpToRel
    <2>3. ~(y < x)
      BY <1>2, <2>2
    <2>4. QED
      BY <2>1, <2>3
  <1>4. QED
    BY <1>3

\* What FlattenSeq computes, piece by piece.
Flattens(g, p, n) ==
  /\ g = [i \in 1..n |-> g[i]]
  /\ \A i \in 1..n : g[i] = IF i = 1 THEN p[i] ELSE g[i - 1] \o p[i]

LEMMA FlattensExists ==
  ASSUME NEW p, NEW n \in Nat
  PROVE  \E g : Flattens(g, p, n)
  <1> DEFINE T == {m \in Nat : ~ \E g : Flattens(g, p, m)}
  <1>1. SUFFICES ASSUME T # {} PROVE FALSE
    OBVIOUS
  <1>2. PICK m \in T : \A k \in T : m <= k
    BY <1>1, LeastNumber
  <1>3. m \in Nat /\ ~ \E g : Flattens(g, p, m)
    OBVIOUS
  <1>4. CASE m = 0
    <2> DEFINE g == [i \in 1..0 |-> 0]
    <2>1. g = [i \in 1..m |-> g[i]]
      BY <1>4
    <2>2. Flattens(g, p, m)
      BY <1>4, <2>1 DEF Flattens
    <2>3. QED
      BY <1>3, <2>2
  <1>5. CASE m > 0
    <2>1. m - 1 \in Nat /\ m - 1 \notin T
      BY <1>2, <1>3, <1>5
    <2>2. PICK g : Flattens(g, p, m - 1)
      BY <2>1
    <2> DEFINE h == [i \in 1..m |-> IF i = m THEN (IF m = 1 THEN p[m] ELSE g[m - 1] \o p[m])
                                             ELSE g[i]]
    <2>3. ASSUME NEW i \in 1..m
          PROVE  h[i] = IF i = 1 THEN p[i] ELSE h[i - 1] \o p[i]
      <3>1. CASE i = m /\ m = 1
        BY <3>1
      <3>2. CASE i = m /\ m # 1
        <4>1. m - 1 \in 1..m /\ m - 1 # m
          BY <1>3, <1>5, <3>2
        <4>2. h[m - 1] = g[m - 1]
          BY <4>1
        <4>3. QED
          BY <3>2, <4>2
      <3>3. CASE i # m
        <4>1. i \in 1..(m - 1) /\ (i # 1 => i - 1 \in 1..m /\ i - 1 # m)
          BY <1>3, <3>3
        <4>2. g[i] = IF i = 1 THEN p[i] ELSE g[i - 1] \o p[i]
          BY <2>2, <4>1 DEF Flattens
        <4>3. h[i] = g[i] /\ (i # 1 => h[i - 1] = g[i - 1])
          BY <3>3, <4>1
        <4>4. QED
          BY <4>2, <4>3
      <3>4. QED
        BY <3>1, <3>2, <3>3
    <2>4. h = [i \in 1..m |-> h[i]]
      OBVIOUS
    <2> HIDE DEF h
    <2>5. Flattens(h, p, m)
      BY <2>3, <2>4 DEF Flattens
    <2>6. QED
      BY <1>3, <2>5
  <1>6. QED
    BY <1>3, <1>4, <1>5

LEMMA FlattenedBy ==
  ASSUME NEW p, NEW n \in Nat \ {0}, Len(p) = n
  PROVE  \E g : Flattens(g, p, n) /\ FlattenSeq(p) = g[n]
  <1> DEFINE E(g) == g = [i \in 1..n |-> IF i = 1 THEN p[i] ELSE g[i - 1] \o p[i]]
  <1>1. FlattenSeq(p) = (CHOOSE g : E(g))[n]
    BY DEF FlattenSeq
  <1>2. PICK g : Flattens(g, p, n)
    BY FlattensExists
  <1>3. PICK b : b = [i \in 1..n |-> IF i = 1 THEN p[i] ELSE g[i - 1] \o p[i]]
    OBVIOUS
  <1>4. g = b
    <2>1. g = [i \in 1..n |-> g[i]] /\ b = [i \in 1..n |-> b[i]]
      BY <1>2, <1>3 DEF Flattens
    <2>2. \A i \in 1..n : g[i] = b[i]
      BY <1>2, <1>3 DEF Flattens
    <2>3. QED
      BY <2>1, <2>2
  <1>5. E(CHOOSE x : E(x))
    <2>1. E(g)
      BY <1>3, <1>4
    <2> HIDE DEF E
    <2>2. QED
      BY <2>1
  <1>6. PICK x : x = (CHOOSE y : E(y))
    OBVIOUS
  <1>7. Flattens(x, p, n)
    <2>1. E(x)
      <3> HIDE DEF E
      <3>1. QED
        BY <1>5, <1>6
    <2>2. x = [i \in 1..n |-> IF i = 1 THEN p[i] ELSE x[i - 1] \o p[i]]
      BY <2>1
    <2>3. QED
      BY <2>2 DEF Flattens
  <1>8. QED
    BY <1>1, <1>6, <1>7

\* A concatenation of pieces that have one element or none holds the elements
\* of those that have one, in their order.
Picks(h, p, m, r) ==
  /\ h \in [1..Len(r) -> 1..m]
  /\ \A j \in 1..Len(r) : p[h[j]] # <<>> /\ r[j] = p[h[j]][1]
  /\ \A j, k \in 1..Len(r) : j < k => h[j] < h[k]
  /\ \A i \in 1..m : p[i] # <<>> => \E j \in 1..Len(r) : h[j] = i

\* A piece more.
LEMMA PicksOneMore ==
  ASSUME NEW S, NEW p, NEW m \in Nat, NEW q \in Seq(S), NEW h, Picks(h, p, m, q),
         p[m + 1] \in Seq(S), Len(p[m + 1]) <= 1
  PROVE  q \o p[m + 1] \in Seq(S) /\ \E k : Picks(k, p, m + 1, q \o p[m + 1])
  <1>1. PICK n \in Nat : n = Len(q)
    BY LenProperties
  <1>2. PICK r : r = q \o p[m + 1]
    OBVIOUS
  <1>3. r \in Seq(S)
    BY <1>2, ConcatProperties
  <1>4. CASE p[m + 1] = <<>>
    <2>1. r = q
      BY <1>2, <1>4, ConcatEmptySeq
    <2>2. 1..m \subseteq 1..(m + 1) /\ \A i \in 1..(m + 1) : i = m + 1 \/ i \in 1..m
      OBVIOUS
    <2>3. Picks(h, p, m + 1, q)
      BY <1>4, <2>2 DEF Picks
    <2>4. QED
      BY <1>2, <1>3, <2>1, <2>3
  <1>5. CASE p[m + 1] # <<>>
    <2>1. Len(p[m + 1]) = 1
      <3>1. PICK z \in Seq(S) : z = p[m + 1]
        OBVIOUS
      <3>2. Len(z) \in Nat \ {0} /\ Len(z) <= 1
        BY <1>5, <3>1, EmptySeq
      <3>3. PICK l \in Nat \ {0} : l = Len(z) /\ l <= 1
        BY <3>2
      <3>4. l = 1
        BY <3>3
      <3>5. QED
        BY <3>1, <3>3, <3>4
    <2>2. /\ Len(r) = n + 1
          /\ \A j \in 1..n : r[j] = q[j]
          /\ r[n + 1] = p[m + 1][1]
      <3>1. /\ Len(r) = n + 1
            /\ \A j \in 1..(n + 1) : r[j] = IF j <= n THEN q[j] ELSE p[m + 1][j - n]
        BY <1>1, <1>2, <2>1, ConcatProperties
      <3>2. n + 1 \in 1..(n + 1) /\ (n + 1) - n = 1 /\ ~(n + 1 <= n)
        BY <1>1
      <3>3. QED
        BY <3>1, <3>2
    <2> DEFINE k == [j \in 1..(n + 1) |-> IF j = n + 1 THEN m + 1 ELSE h[j]]
    <2>3. /\ \A j \in 1..n : k[j] = h[j] /\ h[j] \in 1..m
          /\ k[n + 1] = m + 1 /\ k \in [1..(n + 1) -> 1..(m + 1)]
      <3>1. h \in [1..n -> 1..m]
        BY <1>1 DEF Picks
      <3>2. \A j \in 1..(n + 1) : (j = n + 1 /\ j \notin 1..n) \/ (j # n + 1 /\ j \in 1..n)
        BY <1>1
      <3>3. \A j \in 1..n : h[j] \in 1..m /\ h[j] \in 1..(m + 1) /\ j \in 1..(n + 1) /\ j # n + 1
        BY <1>1, <3>1
      <3>4. n + 1 \in 1..(n + 1) /\ m + 1 \in 1..(m + 1)
        BY <1>1
      <3>5. QED
        BY <3>2, <3>3, <3>4
    <2> HIDE DEF k
    <2>4. \A j \in 1..(n + 1) : p[k[j]] # <<>> /\ r[j] = p[k[j]][1]
      <3>1. ASSUME NEW j \in 1..n
            PROVE  p[k[j]] # <<>> /\ r[j] = p[k[j]][1]
        BY <1>1, <2>2, <2>3 DEF Picks
      <3>2. \A j \in 1..(n + 1) : j = n + 1 \/ j \in 1..n
        BY <1>1
      <3>3. QED
        BY <1>5, <2>2, <2>3, <3>1, <3>2
    <2>5. \A i, j \in 1..(n + 1) : i < j => k[i] < k[j]
      <3>1. ASSUME NEW i \in 1..(n + 1), NEW j \in 1..(n + 1), i < j
            PROVE  k[i] < k[j]
        <4>1. i \in 1..n
          BY <1>1, <3>1
        <4>2. CASE j \in 1..n
          BY <1>1, <2>3, <3>1, <4>1, <4>2 DEF Picks
        <4>3. CASE j = n + 1
          <5>1. k[j] = m + 1 /\ k[i] = h[i] /\ h[i] \in 1..m
            BY <2>3, <4>1, <4>3
          <5>2. PICK x \in 1..m : x = h[i]
            BY <5>1
          <5>3. x < m + 1
            OBVIOUS
          <5>4. QED
            BY <5>1, <5>2, <5>3
        <4>4. QED
          BY <1>1, <4>2, <4>3
      <3>2. QED
        BY <3>1
    <2>6. \A i \in 1..(m + 1) : p[i] # <<>> => \E j \in 1..(n + 1) : k[j] = i
      <3>1. ASSUME NEW i \in 1..m, p[i] # <<>>
            PROVE  \E j \in 1..(n + 1) : k[j] = i
        <4>1. PICK j \in 1..n : h[j] = i
          BY <1>1, <3>1 DEF Picks
        <4>2. j \in 1..(n + 1) /\ k[j] = i
          BY <1>1, <2>3, <4>1
        <4>3. QED
          BY <4>2
      <3>2. n + 1 \in 1..(n + 1) /\ \A i \in 1..(m + 1) : i = m + 1 \/ i \in 1..m
        BY <1>1
      <3>3. QED
        BY <2>3, <3>1, <3>2
    <2>7. Picks(k, p, m + 1, r)
      BY <2>2, <2>3, <2>4, <2>5, <2>6 DEF Picks
    <2>8. QED
      BY <1>2, <1>3, <2>7
  <1>6. QED
    BY <1>4, <1>5

LEMMA FlattenPicks ==
  ASSUME NEW S, NEW n \in Nat \ {0}, NEW p, Len(p) = n,
         \A i \in 1..n : p[i] \in Seq(S) /\ Len(p[i]) <= 1
  PROVE  FlattenSeq(p) \in Seq(S) /\ \E h : Picks(h, p, n, FlattenSeq(p))
  <1>1. PICK g : Flattens(g, p, n) /\ FlattenSeq(p) = g[n]
    BY FlattenedBy
  <1> DEFINE Good(m) == g[m] \in Seq(S) /\ \E h : Picks(h, p, m, g[m])
             T == {m \in 1..n : ~Good(m)}
  <1>2. ASSUME T # {} PROVE FALSE
    <2>1. T \subseteq Nat
      OBVIOUS
    <2>2. PICK m \in T : \A k \in T : m <= k
      <3> HIDE DEF T
      <3>1. QED
        BY <1>2, <2>1, LeastNumber
    <2>3. m \in 1..n /\ ~Good(m)
      OBVIOUS
    <2> HIDE DEF Good
    <2>4. CASE m = 1
      <3>1. Flattens(g, p, n) /\ 1 \in 1..n
        BY <1>1
      <3>2. g[1] = p[1]
        BY <3>1 DEF Flattens
      <3>3. <<>> \in Seq(S) /\ Len(<<>>) = 0
        BY EmptySeq
      <3>4. Picks([j \in 1..0 |-> 0], p, 0, <<>>)
        BY <3>3 DEF Picks
      <3>5. p[0 + 1] \in Seq(S) /\ Len(p[0 + 1]) <= 1
        BY <3>1
      <3>6. <<>> \o p[0 + 1] \in Seq(S) /\ \E k : Picks(k, p, 0 + 1, <<>> \o p[0 + 1])
        BY <3>3, <3>4, <3>5, PicksOneMore
      <3>7. <<>> \o p[1] = p[1]
        BY <3>5, ConcatEmptySeq
      <3>8. 0 + 1 = 1
        OBVIOUS
      <3>9. Good(1)
        BY <3>2, <3>6, <3>7, <3>8 DEF Good
      <3>10. QED
        BY <2>3, <2>4, <3>9
    <2>5. CASE m # 1
      <3>1. PICK l \in 1..n : m = l + 1 /\ m - 1 = l
        BY <2>3, <2>5
      <3>2. Good(l)
        BY <2>2, <3>1
      <3>3. g[l + 1] = g[l] \o p[l + 1]
        BY <1>1, <2>3, <2>5, <3>1 DEF Flattens
      <3>4. g[l] \in Seq(S) /\ \E h : Picks(h, p, l, g[l])
        BY <3>2 DEF Good
      <3>5. p[l + 1] \in Seq(S) /\ Len(p[l + 1]) <= 1 /\ l \in Nat
        BY <2>3, <3>1
      <3>6. g[l + 1] \in Seq(S) /\ \E k : Picks(k, p, l + 1, g[l + 1])
        BY <3>3, <3>4, <3>5, PicksOneMore
      <3>7. Good(m)
        BY <3>1, <3>6 DEF Good
      <3>8. QED
        BY <2>3, <3>7
    <2>6. QED
      BY <2>4, <2>5
  <1>3. Good(n)
    <2>1. n \in 1..n /\ n \notin T
      BY <1>2
    <2>2. QED
      BY <2>1
  <1>4. QED
    BY <1>1, <1>3

LEMMA TableIsSeq ==
  ASSUME NEW X, NEW n \in Nat, NEW p \in [1..n -> X]
  PROVE  p \in Seq(X) /\ Len(p) = n
  <1>1. p \in Seq(X)
    BY SeqDef
  <1>2. PICK m \in Nat : m = Len(p) /\ DOMAIN p = 1..m
    BY <1>1, LenProperties
  <1>3. 1..n = 1..m
    BY <1>2
  <1>4. n = m
    <2>1. n > 0 => n \in 1..m
      BY <1>3
    <2>2. m > 0 => m \in 1..n
      BY <1>3
    <2>3. QED
      BY <2>1, <2>2
  <1>5. QED
    BY <1>1, <1>2, <1>4

\* The concatenation of sequences over a set is one.
LEMMA FlattenTyped ==
  ASSUME NEW S, NEW n \in Nat \ {0}, NEW p, Len(p) = n,
         \A i \in 1..n : p[i] \in Seq(S)
  PROVE  FlattenSeq(p) \in Seq(S)
  <1>1. PICK g : Flattens(g, p, n) /\ FlattenSeq(p) = g[n]
    BY FlattenedBy
  <1> DEFINE T == {m \in 1..n : g[m] \notin Seq(S)}
  <1>2. ASSUME T # {} PROVE FALSE
    <2>1. T \subseteq Nat
      OBVIOUS
    <2>2. PICK m \in T : \A k \in T : m <= k
      <3> HIDE DEF T
      <3>1. QED
        BY <1>2, <2>1, LeastNumber
    <2>3. m \in 1..n /\ g[m] \notin Seq(S)
      OBVIOUS
    <2>4. m # 1
      <3>1. m = 1 => g[m] = p[1]
        BY <1>1, <2>3 DEF Flattens
      <3>2. QED
        BY <2>3, <3>1
    <2>5. PICK l \in 1..n : m = l + 1 /\ m - 1 = l
      BY <2>3, <2>4
    <2>6. g[l] \in Seq(S)
      BY <2>2, <2>5
    <2>7. g[m] = g[l] \o p[m]
      BY <1>1, <2>3, <2>4, <2>5 DEF Flattens
    <2>8. p[m] \in Seq(S)
      BY <2>3
    <2>9. QED
      BY <2>3, <2>6, <2>7, <2>8, ConcatProperties
  <1>3. n \in 1..n
    OBVIOUS
  <1>4. QED
    BY <1>1, <1>2, <1>3

\* The second of two sequences may be empty.
LEMMA FlattenFirst ==
  ASSUME NEW S, NEW p, Len(p) = 2, p[1] \in Seq(S), p[2] = <<>>
  PROVE  FlattenSeq(p) = p[1]
  <1>1. PICK g : Flattens(g, p, 2) /\ FlattenSeq(p) = g[2]
    <2>1. PICK n \in Nat \ {0} : n = 2
      OBVIOUS
    <2>2. \E g : Flattens(g, p, n) /\ FlattenSeq(p) = g[n]
      BY <2>1, FlattenedBy
    <2>3. QED
      BY <2>1, <2>2
  <1>2. 1 \in 1..2 /\ 2 \in 1..2 /\ 2 - 1 = 1 /\ 2 # 1
    OBVIOUS
  <1>3. g[1] = p[1]
    BY <1>1, <1>2 DEF Flattens
  <1>4. g[2] = g[1] \o p[2]
    BY <1>1, <1>2 DEF Flattens
  <1>5. QED
    BY <1>1, <1>3, <1>4, ConcatEmptySeq

LEMMA AppendToConcat ==
  ASSUME NEW S, NEW s \in Seq(S), NEW t \in Seq(S), NEW e \in S
  PROVE  s \o Append(t, e) = Append(s \o t, e)
  <1>1. PICK y : y = <<e>>
    OBVIOUS
  <1>2. y \in Seq(S)
    BY <1>1
  <1>3. Append(t, e) = t \o y /\ s \o t \in Seq(S)
    BY <1>1, AppendIsConcat, ConcatProperties
  <1>4. Append(s \o t, e) = (s \o t) \o y
    BY <1>1, <1>3, AppendIsConcat
  <1>5. (s \o t) \o y = s \o (t \o y)
    BY <1>2, ConcatAssociative
  <1>6. QED
    BY <1>3, <1>4, <1>5

=============================================================================
