----------------------------- MODULE Nagle_proof -----------------------------
(***************************************************************************)
(* Theorems about Nagle, for every segment size, every number of           *)
(* characters typed and whichever process may be stopped.                  *)
(***************************************************************************)
EXTENDS Nagle, SequenceTheorems, TLAPS

-----------------------------------------------------------------------------
(* Type correctness.                                                       *)

LEMMA TypeInit == Init => TypeOK
  <1> SUFFICES ASSUME Init PROVE TypeOK
    OBVIOUS
  <1>1. <<>> \in Seq(Characters) /\ <<>> \in Seq(Seq(Characters))
    BY EmptySeq
  <1>2. 0 \in 0..MaxTyped
    BY ConstantsAssumption
  <1>3. buf \in Seq(Characters) /\ sent \in Seq(Seq(Characters)) /\ up \in Seq(Seq(Characters))
    BY <1>1 DEF Init
  <1>4. printed \in Seq(Characters) /\ swallowed \subseteq Characters
    BY <1>1 DEF Init
  <1>5. /\ mpc \in {"syn", "reply", "prompt", "test", "load", "store", "dead"}
        /\ tpc \in {"none", "recv", "load", "store"}
        /\ spc \in {"syn", "synack", "recv", "sleep", "down"}
        /\ stale \in BOOLEAN /\ reply \in BOOLEAN /\ rst \in BOOLEAN
    BY DEF Init
  <1>6. mreg \in Int /\ treg \in Int /\ unacked \in Int /\ acks \in Nat /\ typed \in 0..MaxTyped
    BY <1>2 DEF Init
  <1>7. QED
    BY <1>3, <1>4, <1>5, <1>6 DEF TypeOK

\* The characters of messages are characters.
LEMMA CharsInTyped ==
  ASSUME NEW T, NEW s \in Seq(Seq(T)), NEW K, K \subseteq DOMAIN s
  PROVE  CharsIn(s, K) \subseteq T
  <1>1. ASSUME NEW k \in K
        PROVE  ToSet(s[k]) \subseteq T
    <2>1. s[k] \in Seq(T)
      BY LenProperties, ElementOfSeq
    <2>2. QED
      BY <2>1, LenProperties, ElementOfSeq DEF ToSet
  <1>2. QED
    BY <1>1 DEF CharsIn

\* What is left of the messages when the first k have been received.
LEMMA RestTyped ==
  ASSUME NEW S, NEW s \in Seq(S), NEW k \in 1..Len(s)
  PROVE  /\ SubSeq(s, k + 1, Len(s)) \in Seq(S)
         /\ Len(SubSeq(s, k + 1, Len(s))) = Len(s) - k
         /\ \A i \in 1..(Len(s) - k) : SubSeq(s, k + 1, Len(s))[i] = s[k + i]
  <1>1. PICK n \in Nat : n = Len(s)
    BY LenProperties
  <1>2. \A i \in (k + 1)..n : s[i] \in S
    BY <1>1, ElementOfSeq
  <1>3. k + 1 \in Int /\ n \in Int /\ n - (k + 1) + 1 = n - k /\ k \in 1..n
    BY <1>1
  <1>4. /\ SubSeq(s, k + 1, n) \in Seq(S)
        /\ Len(SubSeq(s, k + 1, n)) = IF k + 1 <= n THEN n - (k + 1) + 1 ELSE 0
        /\ \A i \in 1..(n - (k + 1) + 1) : SubSeq(s, k + 1, n)[i] = s[k + 1 + i - 1]
    BY ONLY <1>2, <1>3, SubSeqProperties
  <1>5. Len(SubSeq(s, k + 1, n)) = n - k
    BY <1>3, <1>4
  <1>6. \A i \in 1..(n - k) : SubSeq(s, k + 1, n)[i] = s[k + i]
    <2>1. \A i \in 1..(n - k) : k + 1 + i - 1 = k + i
      OBVIOUS
    <2>2. QED
      BY <1>3, <1>4, <2>1
  <1>7. QED
    BY <1>1, <1>4, <1>5, <1>6

LEMMA SendBufferTypes ==
  ASSUME TypeOK, NEW b \in Seq(Characters), SendBuffer(b)
  PROVE  /\ mpc' \in {"load", "dead"}
         /\ up' \in Seq(Seq(Characters))
         /\ sent' \in Seq(Seq(Characters))
         /\ buf' \in Seq(Characters)
  BY AppendProperties, EmptySeq DEF TypeOK, SendBuffer

LEMMA MainTypes ==
  ASSUME TypeOK, MainStep \/ Type \/ ClientStopped
  PROVE  TypeOK'
  <1>1. Handshake \in Seq(Characters)
    BY EmptySeq DEF Handshake
  <1>2. CASE SendSyn
    BY <1>1, <1>2, AppendProperties DEF SendSyn, TypeOK, threadVars, serverVars
  <1>3. CASE RecvReply
    BY <1>1, <1>3, AppendProperties DEF RecvReply, TypeOK, serverVars
  <1>4. CASE Type
    <2>1. typed + 1 \in Characters /\ typed' \in 0..MaxTyped /\ buf \in Seq(Characters)
      BY <1>4, ConstantsAssumption DEF Type, TypeOK, Characters
    <2>2. Append(buf, typed + 1) \in Seq(Characters)
      BY <2>1, AppendProperties
    <2>3. /\ mpc' \in {"load", "dead", "test"}
          /\ up' \in Seq(Seq(Characters))
          /\ sent' \in Seq(Seq(Characters))
          /\ buf' \in Seq(Characters)
      <3>1. CASE Full(Append(buf, typed + 1))
        BY <1>4, <2>2, <3>1, SendBufferTypes DEF Type
      <3>2. CASE ~Full(Append(buf, typed + 1))
        BY <1>4, <2>2, <3>2 DEF Type, TypeOK
      <3>3. QED
        BY <3>1, <3>2
    <2>4. QED
      BY <1>4, <2>1, <2>3 DEF Type, TypeOK, threadVars, serverVars
  <1>5. CASE Test
    <2>1. buf \in Seq(Characters)
      BY DEF TypeOK
    <2>2. /\ mpc' \in {"load", "dead", "prompt"}
          /\ up' \in Seq(Seq(Characters))
          /\ sent' \in Seq(Seq(Characters))
          /\ buf' \in Seq(Characters)
      <3>1. CASE unacked # 0
        BY <1>5, <3>1 DEF Test, TypeOK
      <3>2. CASE unacked = 0
        BY <1>5, <2>1, <3>2, SendBufferTypes DEF Test
      <3>3. QED
        BY <3>1, <3>2
    <2>3. QED
      BY <1>5, <2>2 DEF Test, TypeOK, threadVars, serverVars
  <1>6. CASE LoadForIncrement
    BY <1>6 DEF LoadForIncrement, TypeOK, threadVars, serverVars
  <1>7. CASE StoreIncrement
    BY <1>7 DEF StoreIncrement, TypeOK, threadVars, serverVars
  <1>8. CASE ClientStopped
    BY <1>8 DEF ClientStopped, TypeOK, threadVars
  <1>9. QED
    BY <1>2, <1>3, <1>4, <1>5, <1>6, <1>7, <1>8 DEF MainStep

LEMMA ThreadTypes ==
  ASSUME TypeOK, ThreadStep
  PROVE  TypeOK'
  <1>1. CASE RecvAck
    <2>1. acks' \in Nat
      BY <1>1 DEF RecvAck, TypeOK
    <2>2. QED
      BY <1>1, <2>1 DEF RecvAck, TypeOK, mainVars, serverVars
  <1>2. CASE RecvEof
    BY <1>2 DEF RecvEof, TypeOK, mainVars, serverVars
  <1>3. CASE LoadForDecrement
    BY <1>3 DEF LoadForDecrement, TypeOK, mainVars, serverVars
  <1>4. CASE StoreDecrement
    BY <1>4 DEF StoreDecrement, TypeOK, mainVars, serverVars
  <1>5. QED
    BY <1>1, <1>2, <1>3, <1>4 DEF ThreadStep

LEMMA ServerTypes ==
  ASSUME TypeOK, ServerStep \/ ServerStopped
  PROVE  TypeOK'
  <1>1. up \in Seq(Seq(Characters)) /\ printed \in Seq(Characters) /\ swallowed \subseteq Characters
    BY DEF TypeOK
  <1>2. CASE RecvSyn
    <2>1. up' \in Seq(Seq(Characters))
      BY <1>1, <1>2, HeadTailProperties DEF RecvSyn
    <2>2. QED
      BY <1>2, <2>1 DEF RecvSyn, TypeOK, mainVars, threadVars
  <1>3. CASE RecvSynAck
    <2>1. PICK k \in 1..Len(up) : /\ up' = SubSeq(up, k + 1, Len(up))
                                  /\ swallowed' = swallowed \cup CharsIn(up, 1..k)
      BY <1>3 DEF RecvSynAck
    <2>2. 1..k \subseteq DOMAIN up
      BY <1>1, LenProperties
    <2>3. up' \in Seq(Seq(Characters)) /\ swallowed' \subseteq Characters
      BY <1>1, <2>1, <2>2, RestTyped, CharsInTyped
    <2>4. QED
      BY <1>3, <2>3 DEF RecvSynAck, TypeOK, mainVars, threadVars
  <1>4. CASE RecvData
    <2>1. PICK k \in 1..Len(up) : /\ up' = SubSeq(up, k + 1, Len(up))
                                  /\ printed' = printed \o up[1]
                                  /\ swallowed' = swallowed \cup CharsIn(up, 2..k)
      BY <1>4 DEF RecvData
    <2>2. 2..k \subseteq DOMAIN up /\ 1 \in 1..Len(up)
      BY <1>1, LenProperties
    <2>3. up[1] \in Seq(Characters)
      BY <1>1, <2>2, ElementOfSeq
    <2>4. /\ up' \in Seq(Seq(Characters))
          /\ swallowed' \subseteq Characters
          /\ printed' \in Seq(Characters)
      BY <1>1, <2>1, <2>2, <2>3, RestTyped, CharsInTyped, ConcatProperties
    <2>5. QED
      BY <1>4, <2>4 DEF RecvData, TypeOK, mainVars, threadVars
  <1>5. CASE RecvNothing
    BY <1>5 DEF RecvNothing, TypeOK, mainVars, threadVars
  <1>6. CASE SendAck
    <2>1. spc' \in {"down", "recv"} /\ acks' \in Nat
      BY <1>6 DEF SendAck, TypeOK
    <2>2. rst' \in BOOLEAN
      BY <1>6 DEF SendAck, TypeOK
    <2>3. QED
      BY <1>6, <2>1, <2>2 DEF SendAck, TypeOK, mainVars, threadVars
  <1>7. CASE ServerStopped
    BY <1>7 DEF ServerStopped, TypeOK, mainVars, threadVars
  <1>8. QED
    BY <1>2, <1>3, <1>4, <1>5, <1>6, <1>7 DEF ServerStep

LEMMA TypeStep == TypeOK /\ [Next]_vars => TypeOK'
  <1> SUFFICES ASSUME TypeOK, [Next]_vars PROVE TypeOK'
    OBVIOUS
  <1>1. CASE MainStep \/ Type \/ ClientStopped
    BY <1>1, MainTypes
  <1>2. CASE ThreadStep
    BY <1>2, ThreadTypes
  <1>3. CASE ServerStep \/ ServerStopped
    BY <1>3, ServerTypes
  <1>4. CASE UNCHANGED vars
    BY <1>4 DEF vars, mainVars, threadVars, serverVars, TypeOK
  <1>5. QED
    BY <1>1, <1>2, <1>3, <1>4 DEF Next, Quiescent

\* Every reachable state of the exercise has the types of TypeOK.
THEOREM NagleTypes == Spec => []TypeOK
  <1>1. QED
    BY TypeInit, TypeStep, PTL DEF Spec

-----------------------------------------------------------------------------
(* The segments that are sent.                                             *)

\* Characters, positions and lengths as numbers.
LEMMA SegmentTypes ==
  ASSUME TypeOK
  PROVE  /\ Characters \subseteq Nat
         /\ typed \in Nat
         /\ Len(sent) \in Nat /\ DOMAIN sent = 1..Len(sent)
         /\ Len(up) \in Nat /\ DOMAIN up = 1..Len(up)
         /\ Len(buf) \in Nat /\ DOMAIN buf = 1..Len(buf)
         /\ \A k \in 1..Len(sent) : /\ sent[k] \in Seq(Characters)
                                    /\ Len(sent[k]) \in Nat
                                    /\ DOMAIN sent[k] = 1..Len(sent[k])
         /\ \A k \in 1..Len(up) : up[k] \in Seq(Characters)
  <1>1. Characters \subseteq Nat /\ typed \in Nat
    BY DEF TypeOK, Characters
  <1>2. sent \in Seq(Seq(Characters)) /\ up \in Seq(Seq(Characters)) /\ buf \in Seq(Characters)
    BY DEF TypeOK
  <1>3. \A k \in 1..Len(sent) : sent[k] \in Seq(Characters)
    BY <1>2, ElementOfSeq
  <1>4. \A k \in 1..Len(up) : up[k] \in Seq(Characters)
    BY <1>2, ElementOfSeq
  <1>5. \A k \in 1..Len(sent) : Len(sent[k]) \in Nat /\ DOMAIN sent[k] = 1..Len(sent[k])
    BY <1>3, LenProperties
  <1>6. /\ Len(sent) \in Nat /\ DOMAIN sent = 1..Len(sent)
        /\ Len(up) \in Nat /\ DOMAIN up = 1..Len(up)
        /\ Len(buf) \in Nat /\ DOMAIN buf = 1..Len(buf)
    BY <1>2, LenProperties
  <1>7. QED
    BY <1>1, <1>3, <1>4, <1>5, <1>6

LEMMA BeforeTyped ==
  ASSUME TypeOK, KeystrokesKept, NEW n \in 0..Len(sent)
  PROVE  Before(n + 1) \in Nat
  <1>1. CASE n = 0
    BY <1>1 DEF Before
  <1>2. CASE n # 0
    <2>1. n \in 1..Len(sent) /\ n + 1 # 1 /\ n + 1 - 1 = n
      BY <1>2, SegmentTypes
    <2>2. sent[n] \in Seq(Characters) /\ sent[n] # <<>>
      BY <2>1, SegmentTypes DEF KeystrokesKept
    <2>3. Len(sent[n]) \in 1..Len(sent[n])
      BY <2>2, EmptySeq
    <2>4. sent[n][Len(sent[n])] \in Nat
      BY <2>2, <2>3, ElementOfSeq, SegmentTypes
    <2>5. Before(n + 1) = sent[n][Len(sent[n])]
      BY ONLY <2>1 DEF Before, Last
    <2>6. QED
      BY <2>4, <2>5
  <1>3. QED
    BY <1>1, <1>2

\* A segment b that goes on where the last one ended keeps the segments
\* consecutive, in order, and of at most MSS characters.
LEMMA SegmentAppended ==
  ASSUME TypeOK, TypeOK', KeystrokesKept, OrderInv,
         \A k \in DOMAIN sent : Len(sent[k]) \in 1..MSS,
         NEW b \in Seq(Characters), b # <<>>, Len(b) <= MSS,
         \A j \in DOMAIN b : b[j] = Before(Len(sent) + 1) + j,
         sent' = Append(sent, b), buf' = <<>>,
         typed' = Before(Len(sent) + 1) + Len(b)
  PROVE  /\ KeystrokesKept' /\ OrderInv'
         /\ \A k \in DOMAIN sent' : Len(sent'[k]) \in 1..MSS
  <1>1. PICK n \in Nat : n = Len(sent)
    BY SegmentTypes
  <1>2. PICK m \in Nat : m = Len(b)
    BY LenProperties
  <1>3. m \in 1..MSS /\ DOMAIN b = 1..m
    <2>1. m # 0
      BY <1>2, EmptySeq
    <2>2. QED
      BY <1>2, <2>1, LenProperties, ConstantsAssumption
  <1>4. sent \in Seq(Seq(Characters)) /\ DOMAIN sent = 1..n
    BY <1>1, SegmentTypes DEF TypeOK
  <1>5. /\ Len(sent') = n + 1 /\ DOMAIN sent' = 1..(n + 1)
        /\ sent'[n + 1] = b
        /\ \A k \in 1..n : sent'[k] = sent[k]
    <2>1. sent' \in Seq(Seq(Characters))
      BY DEF TypeOK
    <2>2. QED
      BY <1>1, <1>4, <2>1, AppendProperties, LenProperties
  <1> DEFINE e == Before(n + 1)
  <1>6. \A j \in 1..m : b[j] = e + j
    BY <1>1, <1>3
  <1>7. e \in Nat
    <2>1. n \in 0..Len(sent)
      BY <1>1
    <2>2. QED
      BY <2>1, BeforeTyped
  <1>8. Before(n + 1)' = e
    <2>1. CASE n = 0
      BY <2>1 DEF Before
    <2>2. CASE n # 0
      <3>1. n \in 1..n /\ n + 1 # 1 /\ n + 1 - 1 = n
        BY <1>1, <2>2
      <3>2. sent'[n] = sent[n]
        BY <1>5, <3>1
      <3>3. e = Last(sent[n])
        BY <3>1 DEF Before
      <3>4. Before(n + 1)' = sent'[n][Len(sent'[n])]
        BY ONLY <3>1 DEF Before, Last
      <3>5. QED
        BY <3>2, <3>3, <3>4 DEF Last
    <2>3. QED
      BY <2>1, <2>2
  <1>9. Before(n + 2)' = e + m
    <2>1. n + 2 # 1 /\ n + 2 - 1 = n + 1
      BY <1>1
    <2>2. Before(n + 2)' = b[m]
      BY <1>2, <1>5, <2>1 DEF Before, Last
    <2>3. QED
      BY <1>3, <1>6, <2>2
  <1>10. KeystrokesKept'
    <2>1. ASSUME NEW k \in 1..n
          PROVE  /\ sent'[k] # <<>>
                 /\ \A j \in DOMAIN sent'[k] : sent'[k][j] = Before(k)' + j
      <3>1. sent'[k] = sent[k] /\ sent[k] # <<>>
        BY <1>4, <1>5 DEF KeystrokesKept
      <3>2. Before(k)' = Before(k)
        <4>1. CASE k = 1
          BY <4>1 DEF Before
        <4>2. CASE k # 1
          <5>1. k - 1 \in 1..n
            BY <1>1, <4>2
          <5>2. QED
            BY <1>5, <4>2, <5>1 DEF Before
        <4>3. QED
          BY <4>1, <4>2
      <3>3. \A j \in DOMAIN sent[k] : sent[k][j] = Before(k) + j
        BY <1>4 DEF KeystrokesKept
      <3>4. QED
        BY <3>1, <3>2, <3>3
    <2>2. sent'[n + 1] # <<>> /\ \A j \in DOMAIN sent'[n + 1] : sent'[n + 1][j] = Before(n + 1)' + j
      BY <1>3, <1>5, <1>6, <1>8
    <2>3. \A k \in DOMAIN sent' : k \in 1..n \/ k = n + 1
      BY <1>5
    <2>4. Len(sent') + 1 = n + 2
      BY <1>5
    <2>5. /\ \A j \in DOMAIN buf' : buf'[j] = Before(n + 2)' + j
          /\ typed' = Before(n + 2)' + Len(buf')
      <3>1. DOMAIN buf' = {} /\ Len(buf') = 0
        BY EmptySeq, LenProperties
      <3>2. typed' = e + m
        BY <1>1, <1>2
      <3>3. QED
        BY <1>7, <1>9, <3>1, <3>2
    <2>6. QED
      BY <2>1, <2>2, <2>3, <2>4, <2>5 DEF KeystrokesKept
  <1>11. \A k \in DOMAIN sent' : Len(sent'[k]) \in 1..MSS
    <2>1. \A k \in DOMAIN sent' : k \in 1..n \/ k = n + 1
      BY <1>5
    <2>2. QED
      BY <1>2, <1>3, <1>4, <1>5, <2>1
  <1>12. \A x \in ToSet(b) : x \in Nat /\ e < x /\ x <= e + m
    <2>1. \A x \in ToSet(b) : \E j \in 1..m : x = e + j
      BY <1>3, <1>6 DEF ToSet
    <2>2. \A j \in 1..m : e + j \in Nat /\ e < e + j /\ e + j <= e + m
      BY <1>7
    <2>3. QED
      BY <2>1, <2>2
  <1>13. \A k \in 1..n : \A x \in ToSet(sent[k]) : x \in Nat /\ x <= e
    <2>1. ASSUME NEW k \in 1..n, NEW x \in ToSet(sent[k])
          PROVE  x \in Nat /\ x <= e
      <3>1. x \in Chars(sent)
        BY <1>4 DEF Chars, CharsIn
      <3>2. x <= e
        BY <1>1, <3>1 DEF OrderInv
      <3>3. x \in Characters
        BY <1>1, ElementOfSeq, SegmentTypes DEF ToSet
      <3>4. QED
        BY <3>2, <3>3, SegmentTypes
    <2>2. QED
      BY <2>1
  <1>14. OrderInv'
    <2>1. ASSUME NEW j \in 1..(n + 1), NEW k \in 1..(n + 1), j < k,
                 NEW x \in ToSet(sent'[j]), NEW y \in ToSet(sent'[k])
          PROVE  x < y
      <3>1. j \in 1..n
        BY <1>1, <2>1
      <3>2. x \in ToSet(sent[j]) /\ x \in Nat /\ x <= e
        BY <1>5, <1>13, <3>1
      <3>3. CASE k = n + 1
        <4>1. y \in Nat /\ e < y
          BY <1>5, <1>12, <3>3
        <4>2. QED
          BY <1>7, <3>2, <4>1
      <3>4. CASE k # n + 1
        <4>1. k \in 1..n
          BY <1>1, <3>4
        <4>2. y \in ToSet(sent[k])
          BY <1>5, <4>1
        <4>3. QED
          BY <1>4, <2>1, <3>1, <3>2, <4>1, <4>2 DEF OrderInv, InTypingOrder
      <3>5. QED
        BY <3>3, <3>4
    <2>2. ASSUME NEW x \in Chars(sent')
          PROVE  x <= e + m
      <3>1. PICK k \in 1..(n + 1) : x \in ToSet(sent'[k])
        BY <1>5 DEF Chars, CharsIn
      <3>2. CASE k = n + 1
        BY <1>5, <1>12, <3>1, <3>2
      <3>3. CASE k # n + 1
        <4>1. k \in 1..n
          BY <1>1, <3>3
        <4>2. x \in Nat /\ x <= e
          BY <1>5, <1>13, <3>1, <4>1
        <4>3. QED
          BY <1>3, <1>7, <4>2
      <3>4. QED
        BY <3>2, <3>3
    <2>3. Before(Len(sent) + 1)' = e + m
      <3>1. Len(sent') + 1 = n + 2
        BY <1>5
      <3>2. QED
        BY <1>9, <3>1 DEF Before
    <2>4. InTypingOrder(sent')
      BY <1>5, <2>1 DEF InTypingOrder
    <2>5. QED
      BY <2>2, <2>3, <2>4 DEF OrderInv
  <1>15. QED
    BY <1>10, <1>11, <1>14

-----------------------------------------------------------------------------
(* The messages under way, and what is left alone by a step.               *)

\* The numbers that UnderWay relates.
LEMMA MessageNumbers ==
  ASSUME TypeOK, SegmentInv
  PROVE  /\ Received \in Int /\ Received >= -1
         /\ Len(sent) \in Nat /\ Len(up) \in Nat /\ Len(sent) = Received + Len(up)
         /\ \A i \in 1..Len(up) : IF Received + i >= 1
                                    THEN Received + i \in 1..Len(sent) /\ up[i] = sent[Received + i]
                                    ELSE i = 1 /\ up[i] = Handshake
  <1>1. PICK n \in Nat, u \in Nat : /\ n = Len(sent) /\ u = Len(up)
                                    /\ DOMAIN sent = 1..n /\ DOMAIN up = 1..u
    BY SegmentTypes
  <1>2. PICK r \in Int : r = Received /\ r = n - u
    BY <1>1 DEF Received
  <1>3. /\ \A i \in 1..u : r + i >= 1 => up[i] = sent[r + i]
        /\ r >= -1
        /\ (r = -1 /\ u >= 1) => up[1] = Handshake
    <2>1. \A i \in 1..u : r + i >= 1 => up[i] = sent[r + i]
      BY <1>1, <1>2 DEF SegmentInv, UnderWay
    <2>2. CASE mpc = "syn"
      <3>1. n = 0 /\ u = 0
        BY <1>1, <2>2, EmptySeq DEF SegmentInv, UnderWay, BufferInv
      <3>2. QED
        BY <1>2, <2>1, <3>1
    <2>3. CASE mpc = "reply"
      <3>1. n = 0
        BY <1>1, <2>3, EmptySeq DEF SegmentInv, BufferInv
      <3>2. up = <<Handshake>> \/ up = <<>>
        BY <2>3 DEF SegmentInv, UnderWay
      <3>3. (u = 1 /\ up[1] = Handshake) \/ u = 0
        BY <1>1, <3>2, EmptySeq
      <3>4. QED
        BY <1>2, <2>1, <3>1, <3>3
    <2>4. CASE mpc \notin {"syn", "reply"}
      <3>1. spc # "syn"
        BY <2>4 DEF SegmentInv, UnderWay
      <3>2. \/ r = -1 /\ up[1] = Handshake
            \/ r >= 0
        BY <1>2, <2>4, <3>1 DEF SegmentInv, UnderWay
      <3>3. QED
        BY <2>1, <3>2
    <2>5. QED
      BY <2>2, <2>3, <2>4
  <1>4. ASSUME NEW i \in 1..u
        PROVE  IF r + i >= 1
                 THEN r + i \in 1..n /\ up[i] = sent[r + i]
                 ELSE i = 1 /\ up[i] = Handshake
    <2>1. CASE r + i >= 1
      BY <1>2, <1>3, <2>1
    <2>2. CASE ~(r + i >= 1)
      <3>1. i = 1 /\ r = -1 /\ u >= 1
        BY <1>3, <2>2
      <3>2. QED
        BY <1>3, <2>2, <3>1
    <2>3. QED
      BY <2>1, <2>2
  <1>5. n = r + u
    BY <1>2
  <1>6. QED
    BY <1>1, <1>2, <1>3, <1>4, <1>5

LEMMA SegmentsSame ==
  ASSUME KeystrokesKept, OrderInv, UNCHANGED <<sent, buf, typed>>
  PROVE  KeystrokesKept' /\ OrderInv'
  BY DEF KeystrokesKept, OrderInv, Before, Last, InTypingOrder, Chars, CharsIn, ToSet

LEMMA TakenSame ==
  ASSUME TakenInv, UNCHANGED <<sent, up, printed, swallowed>>
  PROVE  TakenInv'
  BY DEF TakenInv, Received, CharsIn, ToSet

\* A process stays at p, or is neither before nor after the step in the handshake H.
SameOrPast(p, q, H) == q = p \/ (p \notin H /\ q \notin H)

\* Once the handshake of a side is over, its place does not matter to what is
\* under way.
LEMMA UnderWaySame ==
  ASSUME UnderWay, UNCHANGED <<sent, up, reply>>,
         SameOrPast(mpc, mpc', {"syn", "reply"}), SameOrPast(spc, spc', {"syn", "synack"})
  PROVE  UnderWay'
  <1>1. Received' = Received
    BY DEF Received
  <1>2. QED
    BY <1>1 DEF UnderWay, Handshake, SameOrPast

-----------------------------------------------------------------------------
(* Steps of the client.                                                    *)

\* Before anything has been received, nothing has been taken.
LEMMA NoneTaken ==
  ASSUME NEW s, NEW r \in Int, r <= 0
  PROVE  CharsIn(s, 1..r) = {}
  <1>1. 1..r = {}
    OBVIOUS
  <1>2. QED
    BY <1>1 DEF CharsIn

\* A step of the handshake changes neither segments nor what has been taken.
LEMMA HandshakeKeeps ==
  ASSUME TypeOK, SegmentInv, UNCHANGED <<typed, buf, sent, printed, swallowed>>,
         Received <= 0, Received' \in Int, Received' <= 0,
         BufferInv', UnderWay'
  PROVE  SegmentInv'
  <1>1. KeystrokesKept' /\ OrderInv'
    BY SegmentsSame DEF SegmentInv
  <1>2. TakenInv'
    <2>1. CharsIn(sent, 1..Received) = {} /\ CharsIn(sent', 1..Received') = {}
      BY MessageNumbers, NoneTaken
    <2>2. QED
      BY <2>1 DEF SegmentInv, TakenInv
  <1>3. QED
    BY <1>1, <1>2 DEF SegmentInv

LEMMA SendSynKeeps ==
  ASSUME TypeOK, SegmentInv, SendSyn
  PROVE  SegmentInv'
  <1>1. /\ spc = "syn" /\ up = <<>> /\ sent = <<>> /\ typed = 0 /\ buf = <<>>
        /\ reply = FALSE
    BY DEF SendSyn, SegmentInv, UnderWay, BufferInv, TypeOK
  <1>2. /\ UNCHANGED <<typed, buf, sent, printed, swallowed, spc, reply>>
        /\ mpc' = "reply"
        /\ up' = <<Handshake>>
    <2>1. Append(<<>>, Handshake) = <<Handshake>>
      OBVIOUS
    <2>2. QED
      BY <1>1, <2>1 DEF SendSyn, serverVars
  <1>3. Received = 0 /\ Received' = -1
    BY <1>1, <1>2, EmptySeq DEF Received
  <1>4. BufferInv'
    BY <1>1, <1>2 DEF SegmentInv, BufferInv
  <1>5. UnderWay'
    <2>1. DOMAIN up' = {1}
      BY <1>2
    <2>2. \A i \in DOMAIN up' : ~(Received' + i >= 1)
      BY <1>3, <2>1
    <2>3. QED
      BY <1>1, <1>2, <2>2 DEF UnderWay, Handshake
  <1>6. QED
    BY <1>2, <1>3, <1>4, <1>5, HandshakeKeeps

LEMMA RecvReplyKeeps ==
  ASSUME TypeOK, SegmentInv, RecvReply
  PROVE  SegmentInv'
  <1>1. /\ spc = "synack" /\ up = <<>> /\ sent = <<>> /\ typed = 0 /\ buf = <<>>
    BY DEF RecvReply, SegmentInv, UnderWay, BufferInv
  <1>2. /\ UNCHANGED <<typed, buf, sent, printed, swallowed, spc>>
        /\ mpc' = "prompt" /\ reply' = FALSE
        /\ up' = <<Handshake>>
    <2>1. Append(<<>>, Handshake) = <<Handshake>>
      OBVIOUS
    <2>2. QED
      BY <1>1, <2>1 DEF RecvReply, serverVars
  <1>3. Received = 0 /\ Received' = -1
    BY <1>1, <1>2, EmptySeq DEF Received
  <1>4. BufferInv'
    <2>1. Len(buf') = 0 /\ 0 < MSS
      BY <1>1, <1>2, EmptySeq, ConstantsAssumption
    <2>2. QED
      BY <1>1, <1>2, <2>1 DEF SegmentInv, BufferInv
  <1>5. UnderWay'
    <2>1. DOMAIN up' = {1} /\ up'[1] = Handshake
      BY <1>2
    <2>2. \A i \in DOMAIN up' : ~(Received' + i >= 1)
      BY <1>3, <2>1
    <2>3. QED
      BY <1>1, <1>2, <1>3, <2>1, <2>2 DEF UnderWay, Handshake
  <1>6. QED
    BY <1>2, <1>3, <1>4, <1>5, HandshakeKeeps
\* A segment that is sent is also put under way.
LEMMA SendKeeps ==
  ASSUME TypeOK, TypeOK', SegmentInv,
         NEW b \in Seq(Characters), b # <<>>, Len(b) <= MSS,
         \A j \in DOMAIN b : b[j] = Before(Len(sent) + 1) + j,
         typed' = Before(Len(sent) + 1) + Len(b),
         mpc \notin {"syn", "reply"}, SendBuffer(b),
         UNCHANGED <<reply, serverVars>>
  PROVE  SegmentInv'
  <1>1. /\ sent' = Append(sent, b) /\ up' = Append(up, b) /\ buf' = <<>>
        /\ mpc' \in {"load", "dead"}
        /\ UNCHANGED <<reply, spc, printed, swallowed>>
    BY DEF SendBuffer, serverVars
  <1>2. /\ KeystrokesKept' /\ OrderInv'
        /\ \A k \in DOMAIN sent' : Len(sent'[k]) \in 1..MSS
    BY <1>1, SegmentAppended DEF SegmentInv, BufferInv
  <1>3. BufferInv'
    BY <1>1, <1>2 DEF BufferInv
  <1>4. PICK n \in Nat, u \in Nat, r \in Int :
          n = Len(sent) /\ u = Len(up) /\ r = Received /\ n = r + u /\ r >= -1
    BY MessageNumbers
  <1>5. /\ Len(sent') = n + 1 /\ sent'[n + 1] = b
        /\ \A k \in 1..n : sent'[k] = sent[k]
        /\ Len(up') = u + 1 /\ up'[u + 1] = b /\ DOMAIN up' = 1..(u + 1)
        /\ \A k \in 1..u : up'[k] = up[k]
    <2>1. /\ sent \in Seq(Seq(Characters)) /\ b \in Seq(Characters)
          /\ up \in Seq(Seq(Characters)) /\ up' \in Seq(Seq(Characters))
      BY DEF TypeOK
    <2>2. /\ Len(sent') = n + 1 /\ sent'[n + 1] = b
          /\ \A k \in 1..n : sent'[k] = sent[k]
      <3>1. /\ Len(Append(sent, b)) = Len(sent) + 1 /\ Append(sent, b)[Len(sent) + 1] = b
            /\ \A k \in 1..Len(sent) : Append(sent, b)[k] = sent[k]
        BY <2>1, AppendProperties
      <3>2. QED
        BY <1>1, <1>4, <3>1
    <2>3. /\ Len(up') = u + 1 /\ up'[u + 1] = b
          /\ \A k \in 1..u : up'[k] = up[k]
      BY <1>1, <1>4, <2>1, AppendProperties
    <2>4. DOMAIN up' = 1..(u + 1)
      BY <2>1, <2>3, LenProperties
    <2>5. QED
      BY <2>2, <2>3, <2>4
  <1>6. Received' = r
    BY <1>4, <1>5 DEF Received
  <1>7. UnderWay'
    <2>1. spc # "syn" /\ spc' # "syn"
      BY <1>1 DEF SegmentInv, UnderWay
    <2>2. ASSUME spc' = "synack"
          PROVE  r = -1 /\ up'[1] = Handshake
      <3>1. r = -1 /\ up[1] = Handshake
        BY <1>1, <1>4, <2>2 DEF SegmentInv, UnderWay
      <3>2. 1 \in 1..u
        BY <1>4, <3>1
      <3>3. QED
        BY <1>5, <3>1, <3>2
    <2>3. ASSUME spc' \notin {"syn", "synack"}
          PROVE  r >= 0
      BY <1>1, <1>4, <2>3 DEF SegmentInv, UnderWay
    <2>4. ASSUME NEW i \in 1..(u + 1), r + i >= 1
          PROVE  up'[i] = sent'[r + i]
      <3>1. CASE i = u + 1
        <4>1. r + i = n + 1
          BY <1>4, <3>1
        <4>2. QED
          BY <1>5, <3>1, <4>1
      <3>2. CASE i # u + 1
        <4>1. i \in 1..u
          BY <3>2
        <4>2. r + i \in 1..n
          BY <1>4, <2>4, <4>1
        <4>3. up[i] = sent[r + i]
          BY <1>4, <2>4, <4>1, MessageNumbers
        <4>4. QED
          BY <1>5, <4>1, <4>2, <4>3
      <3>3. QED
        BY <3>1, <3>2
    <2>5. QED
      BY <1>1, <1>5, <1>6, <2>1, <2>2, <2>3, <2>4 DEF UnderWay, Handshake
  <1>8. TakenInv'
    <2>1. r <= n
      BY <1>4
    <2>2. \A k \in 1..r : sent'[k] = sent[k]
      BY <1>5, <2>1
    <2>3. CharsIn(sent', 1..r) = CharsIn(sent, 1..r)
      BY <2>2 DEF CharsIn
    <2>4. QED
      BY <1>1, <1>4, <1>6, <2>3 DEF SegmentInv, TakenInv
  <1>9. QED
    BY <1>2, <1>3, <1>7, <1>8 DEF SegmentInv

\* The buffer with one more character typed goes on where the segments ended.
LEMMA BufferExtended ==
  ASSUME TypeOK, SegmentInv, mpc \in {"prompt", "test"}, typed + 1 \in Characters
  PROVE  /\ Append(buf, typed + 1) \in Seq(Characters)
         /\ Append(buf, typed + 1) # <<>>
         /\ Len(Append(buf, typed + 1)) = Len(buf) + 1
         /\ Len(Append(buf, typed + 1)) <= MSS
         /\ \A j \in DOMAIN Append(buf, typed + 1) :
              Append(buf, typed + 1)[j] = Before(Len(sent) + 1) + j
         /\ typed + 1 = Before(Len(sent) + 1) + Len(Append(buf, typed + 1))
  <1> DEFINE e == Before(Len(sent) + 1)
             b == Append(buf, typed + 1)
  <1>1. PICK m \in Nat : m = Len(buf) /\ DOMAIN buf = 1..m
    BY SegmentTypes
  <1>2. /\ b \in Seq(Characters) /\ b # <<>> /\ Len(b) = m + 1
        /\ \A i \in 1..m : b[i] = buf[i]
        /\ b[m + 1] = typed + 1
    BY <1>1, AppendProperties DEF TypeOK
  <1>3. DOMAIN b = 1..(m + 1)
    BY <1>2, LenProperties
  <1>4. typed = e + m /\ \A j \in 1..m : buf[j] = e + j
    BY <1>1 DEF SegmentInv, KeystrokesKept
  <1>5. e \in Int
    <2>1. Len(sent) \in 0..Len(sent)
      BY SegmentTypes
    <2>2. QED
      BY <2>1, BeforeTyped DEF SegmentInv
  <1>6. typed + 1 = e + (m + 1)
    BY <1>4, <1>5
  <1>7. \A j \in 1..(m + 1) : b[j] = e + j
    <2>1. \A j \in 1..(m + 1) : j \in 1..m \/ j = m + 1
      OBVIOUS
    <2>2. QED
      BY <1>2, <1>4, <1>6, <2>1
  <1>8. m + 1 <= MSS
    BY <1>1, ConstantsAssumption DEF SegmentInv, BufferInv
  <1>9. QED
    BY <1>1, <1>2, <1>3, <1>6, <1>7, <1>8

LEMMA TypeKeeps ==
  ASSUME TypeOK, TypeOK', SegmentInv, Type
  PROVE  SegmentInv'
  <1> DEFINE b == Append(buf, typed + 1)
  <1>1. typed + 1 \in Characters /\ mpc = "prompt"
    BY ConstantsAssumption DEF Type, TypeOK, Characters
  <1>2. /\ b \in Seq(Characters) /\ b # <<>> /\ Len(b) = Len(buf) + 1 /\ Len(b) <= MSS
        /\ \A j \in DOMAIN b : b[j] = Before(Len(sent) + 1) + j
        /\ typed + 1 = Before(Len(sent) + 1) + Len(b)
    BY <1>1, BufferExtended
  <1>3. UNCHANGED <<reply, serverVars>> /\ typed' = typed + 1
    BY DEF Type
  <1>4. CASE Full(b)
    <2>1. SendBuffer(b)
      BY <1>4 DEF Type
    <2>2. QED
      BY <1>1, <1>2, <1>3, <2>1, SendKeeps
  <1>5. CASE ~Full(b)
    <2>1. /\ buf' = b /\ mpc' = "test" /\ UNCHANGED <<up, sent>>
      BY <1>5 DEF Type
    <2>2. Len(b) < MSS
      <3>1. Len(b) \in Nat
        BY <1>2, LenProperties
      <3>2. QED
        BY <1>5, <3>1, ConstantsAssumption DEF Full
    <2>3. KeystrokesKept'
      <3>1. /\ \A j \in DOMAIN buf' : buf'[j] = Before(Len(sent) + 1)' + j
            /\ typed' = Before(Len(sent) + 1)' + Len(buf')
        <4>1. Before(Len(sent) + 1)' = Before(Len(sent) + 1)
          BY <2>1 DEF Before
        <4>2. QED
          BY <1>2, <1>3, <2>1, <4>1
      <3>2. \A k \in DOMAIN sent' :
              /\ sent'[k] # <<>>
              /\ \A j \in DOMAIN sent'[k] : sent'[k][j] = Before(k)' + j
        BY <2>1 DEF SegmentInv, KeystrokesKept, Before
      <3>3. QED
        BY <3>1, <3>2 DEF KeystrokesKept
    <2>4. OrderInv'
      BY <2>1 DEF SegmentInv, OrderInv, Before, Last, InTypingOrder, Chars, CharsIn, ToSet
    <2>5. BufferInv'
      BY <1>1, <1>2, <2>1, <2>2 DEF SegmentInv, BufferInv
    <2>6. UnderWay'
      <3>1. SameOrPast(mpc, mpc', {"syn", "reply"}) /\ SameOrPast(spc, spc', {"syn", "synack"})
        BY <1>1, <1>3, <2>1 DEF SameOrPast, serverVars
      <3>2. QED
        BY <1>3, <2>1, <3>1, UnderWaySame DEF SegmentInv
    <2>7. TakenInv'
      BY <1>3, <2>1, TakenSame DEF SegmentInv, serverVars
    <2>8. QED
      BY <2>3, <2>4, <2>5, <2>6, <2>7 DEF SegmentInv
  <1>6. QED
    BY <1>4, <1>5

\* A step that moves the main thread or the server past its handshake and
\* leaves the segments alone.
LEMMA RestKeeps ==
  ASSUME SegmentInv, BufferInv', UNCHANGED <<typed, buf, sent, up, reply, printed, swallowed>>,
         SameOrPast(mpc, mpc', {"syn", "reply"}), SameOrPast(spc, spc', {"syn", "synack"})
  PROVE  SegmentInv'
  BY SegmentsSame, UnderWaySame, TakenSame DEF SegmentInv

LEMMA TestKeeps ==
  ASSUME TypeOK, TypeOK', SegmentInv, Test
  PROVE  SegmentInv'
  <1>1. /\ mpc = "test" /\ typed' = typed
        /\ UNCHANGED <<reply, serverVars>>
    BY DEF Test
  <1>2. CASE unacked # 0
    <2>1. mpc' = "prompt" /\ UNCHANGED <<up, sent, buf>>
      BY <1>2 DEF Test
    <2>2. BufferInv'
      BY <1>1, <2>1 DEF SegmentInv, BufferInv
    <2>3. SameOrPast(mpc, mpc', {"syn", "reply"}) /\ SameOrPast(spc, spc', {"syn", "synack"})
      BY <1>1, <2>1 DEF SameOrPast, serverVars
    <2>4. UNCHANGED <<typed, buf, sent, up, reply, printed, swallowed>>
      BY <1>1, <2>1 DEF serverVars
    <2>5. QED
      BY <2>2, <2>3, <2>4, RestKeeps
  <1>3. CASE unacked = 0
    <2>1. SendBuffer(buf)
      BY <1>3 DEF Test
    <2>2. /\ buf \in Seq(Characters) /\ buf # <<>> /\ Len(buf) <= MSS
          /\ \A j \in DOMAIN buf : buf[j] = Before(Len(sent) + 1) + j
          /\ typed' = Before(Len(sent) + 1) + Len(buf)
      <3>1. Len(buf) \in Nat /\ Len(buf) < MSS
        BY <1>1, SegmentTypes DEF SegmentInv, BufferInv
      <3>2. QED
        BY <1>1, <3>1, ConstantsAssumption DEF TypeOK, SegmentInv, BufferInv, KeystrokesKept
    <2>3. QED
      BY <1>1, <2>1, <2>2, SendKeeps
  <1>4. QED
    BY <1>2, <1>3

\* The other steps of the client touch neither buffer nor messages.
LEMMA OtherClientKeeps ==
  ASSUME TypeOK, SegmentInv,
         LoadForIncrement \/ StoreIncrement \/ ClientStopped \/ ThreadStep
  PROVE  SegmentInv'
  <1>1. CASE LoadForIncrement
    <2>1. /\ mpc = "load" /\ mpc' = "store" /\ spc' = spc
          /\ UNCHANGED <<typed, buf, sent, up, reply, printed, swallowed>>
      BY <1>1 DEF LoadForIncrement, serverVars
    <2>2. BufferInv'
      BY <2>1 DEF SegmentInv, BufferInv
    <2>3. SameOrPast(mpc, mpc', {"syn", "reply"}) /\ SameOrPast(spc, spc', {"syn", "synack"})
      BY <2>1 DEF SameOrPast
    <2>4. QED
      BY <2>1, <2>2, <2>3, RestKeeps
  <1>2. CASE StoreIncrement
    <2>1. /\ mpc = "store" /\ mpc' = "prompt" /\ spc' = spc
          /\ UNCHANGED <<typed, buf, sent, up, reply, printed, swallowed>>
      BY <1>2 DEF StoreIncrement, serverVars
    <2>2. BufferInv'
      <3>1. Len(<<>>) < MSS
        BY EmptySeq, ConstantsAssumption
      <3>2. QED
        BY <2>1, <3>1 DEF SegmentInv, BufferInv
    <2>3. SameOrPast(mpc, mpc', {"syn", "reply"}) /\ SameOrPast(spc, spc', {"syn", "synack"})
      BY <2>1 DEF SameOrPast
    <2>4. QED
      BY <2>1, <2>2, <2>3, RestKeeps
  <1>3. CASE ClientStopped
    <2>1. /\ mpc = "prompt" /\ mpc' = "dead" /\ spc' = spc
          /\ UNCHANGED <<typed, buf, sent, up, reply, printed, swallowed>>
      BY <1>3 DEF ClientStopped
    <2>2. BufferInv'
      BY <2>1 DEF SegmentInv, BufferInv
    <2>3. SameOrPast(mpc, mpc', {"syn", "reply"}) /\ SameOrPast(spc, spc', {"syn", "synack"})
      BY <2>1 DEF SameOrPast
    <2>4. QED
      BY <2>1, <2>2, <2>3, RestKeeps
  <1>4. CASE ThreadStep
    <2>1. UNCHANGED <<mpc, spc, typed, buf, sent, up, reply, printed, swallowed>>
      BY <1>4 DEF ThreadStep, RecvAck, RecvEof, LoadForDecrement, StoreDecrement,
                  mainVars, serverVars
    <2>2. BufferInv'
      BY <2>1 DEF SegmentInv, BufferInv
    <2>3. SameOrPast(mpc, mpc', {"syn", "reply"}) /\ SameOrPast(spc, spc', {"syn", "synack"})
      BY <2>1 DEF SameOrPast
    <2>4. QED
      BY <2>1, <2>2, <2>3, RestKeeps
  <1>5. QED
    BY <1>1, <1>2, <1>3, <1>4
-----------------------------------------------------------------------------
(* Steps of the server.                                                    *)

\* The messages from the a-th to the k-th under way are segments sent.
LEMMA CharsUnderWay ==
  ASSUME TypeOK, SegmentInv, NEW a \in 1..Len(up), NEW k \in 0..Len(up),
         Received + a >= 1
  PROVE  CharsIn(up, a..k) = CharsIn(sent, (Received + a)..(Received + k))
  <1>1. PICK u \in Nat, r \in Int :
          /\ u = Len(up) /\ r = Received
          /\ \A i \in 1..u : r + i >= 1 => up[i] = sent[r + i]
    BY MessageNumbers
  <1>2. \A i \in a..k : i \in 1..u /\ r + i >= 1 /\ r + i \in (r + a)..(r + k)
    BY <1>1
  <1>3. CharsIn(up, a..k) \subseteq CharsIn(sent, (r + a)..(r + k))
    BY <1>1, <1>2 DEF CharsIn
  <1>4. CharsIn(sent, (r + a)..(r + k)) \subseteq CharsIn(up, a..k)
    <2>1. ASSUME NEW x, NEW i \in (r + a)..(r + k), x \in ToSet(sent[i])
          PROVE  \E j \in a..k : x \in ToSet(up[j])
      <3>1. i - r \in a..k /\ r + (i - r) = i
        BY <1>1
      <3>2. up[i - r] = sent[i]
        BY <1>1, <1>2, <3>1
      <3>3. QED
        BY <2>1, <3>1, <3>2
    <2>2. QED
      BY <2>1 DEF CharsIn
  <1>5. QED
    BY <1>1, <1>3, <1>4

\* What is left of the messages after the first k are still the segments that
\* have not been received.
LEMMA RestUnderWay ==
  ASSUME TypeOK, SegmentInv, NEW k \in 1..Len(up),
         up' = SubSeq(up, k + 1, Len(up)), sent' = sent, UNCHANGED <<mpc, reply>>,
         mpc \notin {"syn", "reply"}, spc' \notin {"syn", "synack"}
  PROVE  /\ Received' = Received + k
         /\ UnderWay'
  <1>1. PICK n \in Nat, u \in Nat, r \in Int :
          /\ n = Len(sent) /\ u = Len(up) /\ r = Received
          /\ n = r + u /\ r >= -1
          /\ \A i \in 1..u : r + i >= 1 => up[i] = sent[r + i]
    BY MessageNumbers
  <1>2. /\ up' \in Seq(Seq(Characters)) /\ Len(up') = u - k
        /\ \A i \in 1..(u - k) : up'[i] = up[k + i]
    BY <1>1, RestTyped DEF TypeOK
  <1>3. DOMAIN up' = 1..(u - k)
    BY <1>2, LenProperties
  <1>4. Received' = r + k /\ r + k >= 0
    <2>1. k \in 1..u
      BY <1>1
    <2>2. Received' = n - (u - k)
      BY ONLY <1>1, <1>2, sent' = sent DEF Received
    <2>3. QED
      BY ONLY <1>1, <2>1, <2>2
  <1>5. \A i \in 1..(u - k) : up'[i] = sent[(r + k) + i]
    <2>1. \A i \in 1..(u - k) : k + i \in 1..u /\ r + (k + i) >= 1 /\ r + (k + i) = (r + k) + i
      BY <1>1
    <2>2. QED
      BY <1>1, <1>2, <2>1
  <1>6. UnderWay'
    <2>1. \A i \in DOMAIN up' : up'[i] = sent'[Received' + i]
      BY <1>3, <1>4, <1>5
    <2>2. QED
      BY <1>4, <2>1 DEF UnderWay
  <1>7. QED
    BY <1>1, <1>4, <1>6

LEMMA RecvSynKeeps ==
  ASSUME TypeOK, SegmentInv, RecvSyn
  PROVE  SegmentInv'
  <1>1. mpc = "reply" /\ up = <<Handshake>> /\ sent = <<>> /\ typed = 0 /\ buf = <<>>
    <2>1. spc = "syn" /\ up # <<>>
      BY DEF RecvSyn
    <2>2. mpc = "reply" /\ up = <<Handshake>>
      BY <2>1 DEF SegmentInv, UnderWay
    <2>3. QED
      BY <2>2 DEF SegmentInv, BufferInv
  <1>2. /\ UNCHANGED <<typed, buf, sent, printed, swallowed, mpc>>
        /\ spc' = "synack"
        /\ up' = <<>>
    <2>1. Tail(<<Handshake>>) = <<>>
      OBVIOUS
    <2>2. QED
      BY <1>1, <2>1 DEF RecvSyn, mainVars
  <1>3. Received = -1 /\ Received' = 0
    BY <1>1, <1>2, EmptySeq DEF Received
  <1>4. BufferInv'
    BY <1>1, <1>2 DEF SegmentInv, BufferInv
  <1>5. UnderWay'
    BY <1>1, <1>2 DEF UnderWay
  <1>6. QED
    BY <1>2, <1>3, <1>4, <1>5, HandshakeKeeps

LEMMA RecvSynAckKeeps ==
  ASSUME TypeOK, SegmentInv, RecvSynAck
  PROVE  SegmentInv'
  <1>1. PICK k \in 1..Len(up) : /\ up' = SubSeq(up, k + 1, Len(up))
                                /\ swallowed' = swallowed \cup CharsIn(up, 1..k)
    BY DEF RecvSynAck
  <1>2. /\ UNCHANGED <<mpc, typed, buf, sent, reply, printed>>
        /\ spc = "synack" /\ spc' = "recv"
    BY DEF RecvSynAck, mainVars
  <1>3. mpc \notin {"syn", "reply"}
    <2>1. up # <<>>
      BY <1>1, EmptySeq
    <2>2. QED
      BY <1>2, <2>1 DEF SegmentInv, UnderWay
  <1>4. Received = -1 /\ up[1] = Handshake
    BY <1>2, <1>3 DEF SegmentInv, UnderWay
  <1>5. Received' = Received + k /\ UnderWay'
    BY <1>1, <1>2, <1>3, RestUnderWay
  <1>6. PICK u \in Nat : u = Len(up) /\ k \in 1..u
    BY MessageNumbers
  <1>7. CharsIn(up, 1..k) = CharsIn(sent, 1..(k - 1))
    <2>1. CASE u = 1
      <3>1. k = 1 /\ 1..k = {1} /\ 1..(k - 1) = {}
        BY <1>6, <2>1
      <3>2. QED
        BY <1>4, <3>1 DEF CharsIn, ToSet, Handshake
    <2>2. CASE u # 1
      <3>1. 2 \in 1..u /\ k \in 0..u /\ -1 + 2 = 1 /\ -1 + k = k - 1
        BY <1>6, <2>2
      <3>2. CharsIn(up, 2..k) = CharsIn(sent, 1..(k - 1))
        <4>1. Received + 2 >= 1 /\ Received + 2 = 1 /\ Received + k = k - 1
          BY <1>4, <3>1
        <4>2. CharsIn(up, 2..k) = CharsIn(sent, (Received + 2)..(Received + k))
          BY <1>6, <3>1, <4>1, CharsUnderWay
        <4>3. QED
          BY <4>1, <4>2
      <3>3. 1..k = {1} \cup 2..k
        BY <1>6
      <3>4. CharsIn(up, 1..k) = ToSet(Handshake) \cup CharsIn(up, 2..k)
        BY <1>4, <3>3 DEF CharsIn
      <3>5. ToSet(Handshake) = {}
        BY DEF ToSet, Handshake
      <3>6. QED
        BY <3>2, <3>4, <3>5
    <2>3. QED
      BY <2>1, <2>2
  <1>8. KeystrokesKept' /\ OrderInv'
    BY <1>2, SegmentsSame DEF SegmentInv
  <1>9. BufferInv'
    BY <1>2 DEF SegmentInv, BufferInv
  <1>10. TakenInv'
    <2>1. ToSet(printed) \cup swallowed = {}
      BY <1>4, NoneTaken DEF SegmentInv, TakenInv
    <2>2. Received' = k - 1
      BY <1>4, <1>5, <1>6
    <2>3. ToSet(printed') \cup swallowed' = CharsIn(sent', 1..Received')
      BY <1>1, <1>2, <1>7, <2>1, <2>2
    <2>4. ToSet(printed') \cap swallowed' = {}
      BY <1>2, <2>1
    <2>5. QED
      BY <1>2, <2>3, <2>4 DEF SegmentInv, TakenInv
  <1>11. QED
    BY <1>5, <1>8, <1>9, <1>10 DEF SegmentInv
\* Characters of earlier segments are smaller.
LEMMA EarlierSmaller ==
  ASSUME TypeOK, SegmentInv, NEW K, NEW L, K \subseteq DOMAIN sent, L \subseteq DOMAIN sent,
         \A k \in K, l \in L : k < l,
         NEW x \in CharsIn(sent, K), NEW y \in CharsIn(sent, L)
  PROVE  x < y /\ x # y
  <1>1. PICK k \in K : x \in ToSet(sent[k])
    BY DEF CharsIn
  <1>2. PICK l \in L : y \in ToSet(sent[l])
    BY DEF CharsIn
  <1>3. x < y
    BY <1>1, <1>2 DEF SegmentInv, OrderInv, InTypingOrder
  <1>4. x \in Nat /\ y \in Nat
    BY <1>1, <1>2, ElementOfSeq, SegmentTypes DEF ToSet
  <1>5. QED
    BY <1>3, <1>4

\* The positions of a concatenation.
LEMMA ConcatSet ==
  ASSUME NEW T, NEW s \in Seq(T), NEW t \in Seq(T)
  PROVE  ToSet(s \o t) = ToSet(s) \cup ToSet(t)
  <1>1. PICK n \in Nat, m \in Nat : /\ n = Len(s) /\ DOMAIN s = 1..n
                                    /\ m = Len(t) /\ DOMAIN t = 1..m
    BY LenProperties
  <1>2. /\ DOMAIN (s \o t) = 1..(n + m)
        /\ \A i \in 1..(n + m) : (s \o t)[i] = IF i <= n THEN s[i] ELSE t[i - n]
    BY <1>1, ConcatProperties, LenProperties
  <1>3. ToSet(s \o t) \subseteq ToSet(s) \cup ToSet(t)
    <2>1. ASSUME NEW i \in 1..(n + m)
          PROVE  (s \o t)[i] \in ToSet(s) \cup ToSet(t)
      <3>1. CASE i <= n
        BY <1>1, <1>2, <3>1 DEF ToSet
      <3>2. CASE ~(i <= n)
        <4>1. i - n \in 1..m
          BY <3>2
        <4>2. QED
          BY <1>1, <1>2, <3>2, <4>1 DEF ToSet
      <3>3. QED
        BY <3>1, <3>2
    <2>2. QED
      BY <1>2, <2>1 DEF ToSet
  <1>4. ToSet(s) \subseteq ToSet(s \o t)
    <2>1. \A i \in 1..n : i \in 1..(n + m) /\ i <= n
      OBVIOUS
    <2>2. QED
      BY <1>1, <1>2, <2>1 DEF ToSet
  <1>5. ToSet(t) \subseteq ToSet(s \o t)
    <2>1. ASSUME NEW i \in 1..m
          PROVE  t[i] \in ToSet(s \o t)
      <3>1. n + i \in 1..(n + m) /\ ~(n + i <= n) /\ n + i - n = i
        OBVIOUS
      <3>2. (s \o t)[n + i] = t[i]
        BY <1>2, <3>1
      <3>3. QED
        BY <1>2, <3>1, <3>2 DEF ToSet
    <2>2. QED
      BY <1>1, <2>1 DEF ToSet
  <1>6. QED
    BY <1>3, <1>4, <1>5

\* Two increasing sequences of characters, the second above the first.
LEMMA ConcatIncreasing ==
  ASSUME NEW s \in Seq(Nat), NEW t \in Seq(Nat),
         \A j, k \in DOMAIN s : j < k => s[j] < s[k],
         \A j, k \in DOMAIN t : j < k => t[j] < t[k],
         \A x \in ToSet(s), y \in ToSet(t) : x < y
  PROVE  \A j, k \in DOMAIN (s \o t) : j < k => (s \o t)[j] < (s \o t)[k]
  <1>1. PICK n \in Nat, m \in Nat : /\ n = Len(s) /\ DOMAIN s = 1..n
                                    /\ m = Len(t) /\ DOMAIN t = 1..m
    BY LenProperties
  <1>2. /\ DOMAIN (s \o t) = 1..(n + m)
        /\ \A i \in 1..(n + m) : (s \o t)[i] = IF i <= n THEN s[i] ELSE t[i - n]
    BY <1>1, ConcatProperties, LenProperties
  <1>3. SUFFICES ASSUME NEW j \in 1..(n + m), NEW k \in 1..(n + m), j < k
                 PROVE  (s \o t)[j] < (s \o t)[k]
    BY <1>2
  <1>4. CASE k <= n
    <2>1. j \in 1..n /\ k \in 1..n
      BY <1>3, <1>4
    <2>2. (s \o t)[j] = s[j] /\ (s \o t)[k] = s[k]
      BY <1>2, <2>1
    <2>3. QED
      BY <1>1, <1>3, <2>1, <2>2
  <1>5. CASE j <= n /\ ~(k <= n)
    <2>1. j \in 1..n /\ k - n \in 1..m
      BY <1>3, <1>5
    <2>2. (s \o t)[j] = s[j] /\ (s \o t)[k] = t[k - n]
      BY <1>2, <1>5, <2>1
    <2>3. s[j] \in ToSet(s) /\ t[k - n] \in ToSet(t)
      BY <1>1, <2>1 DEF ToSet
    <2>4. QED
      BY <2>2, <2>3
  <1>6. CASE ~(j <= n) /\ ~(k <= n)
    <2>1. j - n \in 1..m /\ k - n \in 1..m /\ j - n < k - n
      BY <1>3, <1>6
    <2>2. (s \o t)[j] = t[j - n] /\ (s \o t)[k] = t[k - n]
      BY <1>2, <1>6, <2>1
    <2>3. QED
      BY <1>1, <2>1, <2>2
  <1>7. QED
    <2>1. j <= n \/ ~(k <= n)
      BY <1>3
    <2>2. QED
      BY <1>4, <1>5, <1>6, <2>1

LEMMA RecvDataKeeps ==
  ASSUME TypeOK, TypeOK', SegmentInv, RecvData
  PROVE  SegmentInv'
  <1>1. PICK k \in 1..Len(up) : /\ up' = SubSeq(up, k + 1, Len(up))
                                /\ printed' = printed \o up[1]
                                /\ swallowed' = swallowed \cup CharsIn(up, 2..k)
    BY DEF RecvData
  <1>2. /\ UNCHANGED <<mpc, typed, buf, sent, reply>>
        /\ spc = "recv" /\ spc' = "sleep"
    BY DEF RecvData, mainVars
  <1>3. mpc \notin {"syn", "reply"}
    BY <1>2 DEF SegmentInv, UnderWay
  <1>4. Received' = Received + k /\ UnderWay'
    BY <1>1, <1>2, <1>3, RestUnderWay
  <1>5. PICK n \in Nat, u \in Nat, r \in Nat :
          /\ n = Len(sent) /\ u = Len(up) /\ r = Received
          /\ n = r + u /\ k \in 1..u
          /\ \A i \in 1..u : r + i >= 1 => up[i] = sent[r + i]
    <2>1. Received >= 0
      BY <1>2 DEF SegmentInv, UnderWay
    <2>2. QED
      BY <2>1, MessageNumbers
  <1>6. DOMAIN sent = 1..n
    BY <1>5, SegmentTypes
  <1>7. /\ r + 1 \in 1..n /\ r + k \in 1..n /\ 1 \in 1..u
        /\ 1..r \subseteq 1..n /\ (r + 2)..(r + k) \subseteq 1..n
    BY <1>5
  <1>8. up[1] = sent[r + 1] /\ up[1] \in Seq(Characters)
    <2>1. r + 1 >= 1
      OBVIOUS
    <2>2. QED
      BY <1>5, <1>7, <2>1, SegmentTypes
  <1> DEFINE old == CharsIn(sent, 1..r)
             now == ToSet(sent[r + 1])
             rest == CharsIn(sent, (r + 2)..(r + k))
  <1>9. now = CharsIn(sent, {r + 1})
    BY DEF CharsIn
  <1>10. CharsIn(up, 2..k) = rest
    <2>1. CASE k = 1
      <3>1. 2..k = {} /\ (r + 2)..(r + k) = {}
        BY <2>1
      <3>2. QED
        BY <3>1 DEF CharsIn
    <2>2. CASE k # 1
      <3>1. 2 \in 1..u /\ k \in 0..u /\ r + 2 >= 1
        BY <1>5, <2>2
      <3>2. QED
        BY <1>5, <3>1, CharsUnderWay
    <2>3. QED
      BY <2>1, <2>2
  <1>11. ToSet(printed') = ToSet(printed) \cup now
    <2>1. printed \in Seq(Characters) /\ up[1] \in Seq(Characters)
      BY <1>8 DEF TypeOK
    <2>2. ToSet(printed \o up[1]) = ToSet(printed) \cup ToSet(up[1])
      BY <2>1, ConcatSet
    <2>3. QED
      BY <1>1, <1>8, <2>2
  <1>12. ToSet(printed) \cup swallowed = old /\ ToSet(printed) \cap swallowed = {}
    BY <1>5 DEF SegmentInv, TakenInv
  <1>13. /\ \A x \in old, y \in now : x < y /\ x # y
         /\ \A x \in now, y \in rest : x < y /\ x # y
         /\ \A x \in old, y \in rest : x < y /\ x # y
    <2>1. /\ \A i \in 1..r, j \in {r + 1} : i < j
          /\ \A i \in {r + 1}, j \in (r + 2)..(r + k) : i < j
          /\ \A i \in 1..r, j \in (r + 2)..(r + k) : i < j
      OBVIOUS
    <2>2. {r + 1} \subseteq 1..n
      BY <1>7
    <2>3. QED
      BY <1>6, <1>7, <1>9, <2>1, <2>2, EarlierSmaller
  <1>14. KeystrokesKept' /\ OrderInv'
    BY <1>2, SegmentsSame DEF SegmentInv
  <1>15. BufferInv'
    BY <1>2 DEF SegmentInv, BufferInv
  <1>16. TakenInv'
    <2>1. CharsIn(sent, 1..(r + k)) = old \cup now \cup rest
      <3>1. 1..(r + k) = 1..r \cup {r + 1} \cup (r + 2)..(r + k)
        BY <1>5
      <3>2. QED
        BY <3>1 DEF CharsIn
    <2>2. ToSet(printed') \cup swallowed' = CharsIn(sent', 1..Received')
      BY <1>1, <1>2, <1>4, <1>5, <1>10, <1>11, <1>12, <2>1
    <2>3. ToSet(printed') \cap swallowed' = {}
      BY <1>1, <1>10, <1>11, <1>12, <1>13
    <2>4. \A i, j \in DOMAIN printed' : i < j => printed'[i] < printed'[j]
      <3>1. printed \in Seq(Nat) /\ up[1] \in Seq(Nat)
        BY <1>8, SegmentTypes, SeqMonotonic DEF TypeOK
      <3>2. \A i, j \in DOMAIN printed : i < j => printed[i] < printed[j]
        BY DEF SegmentInv, TakenInv
      <3>3. \A i, j \in DOMAIN up[1] : i < j => up[1][i] < up[1][j]
        <4>1. \A j \in DOMAIN up[1] : up[1][j] = Before(r + 1) + j
          BY <1>6, <1>7, <1>8 DEF SegmentInv, KeystrokesKept
        <4>2. SUFFICES ASSUME NEW i \in DOMAIN up[1], NEW j \in DOMAIN up[1], i < j
                       PROVE  up[1][i] < up[1][j]
          OBVIOUS
        <4>3. i \in Nat /\ j \in Nat /\ Len(up[1]) \in Nat
          BY <1>8, LenProperties
        <4>4. up[1][i] = Before(r + 1) + i /\ up[1][j] = Before(r + 1) + j
          BY <4>1
        <4>5. Before(r + 1) \in Int
          <5>1. r \in 0..Len(sent)
            BY <1>5
          <5>2. QED
            BY <5>1, BeforeTyped DEF SegmentInv
        <4>6. QED
          BY <4>2, <4>3, <4>4, <4>5
      <3>4. \A x \in ToSet(printed), y \in ToSet(up[1]) : x < y
        BY <1>8, <1>12, <1>13
      <3>5. QED
        BY <1>1, <3>1, <3>2, <3>3, <3>4, ConcatIncreasing
    <2>5. QED
      BY <2>2, <2>3, <2>4 DEF TakenInv
  <1>17. QED
    BY <1>4, <1>14, <1>15, <1>16 DEF SegmentInv
\* The other steps of the server touch no message.
LEMMA OtherServerKeeps ==
  ASSUME TypeOK, SegmentInv, RecvNothing \/ SendAck \/ ServerStopped
  PROVE  SegmentInv'
  <1>1. /\ UNCHANGED <<mpc, typed, buf, sent, up, reply, printed, swallowed>>
        /\ spc \in {"recv", "sleep"} /\ spc' \in {"recv", "sleep", "down"}
    BY DEF RecvNothing, SendAck, ServerStopped, mainVars
  <1>2. BufferInv'
    BY <1>1 DEF SegmentInv, BufferInv
  <1>3. SameOrPast(mpc, mpc', {"syn", "reply"}) /\ SameOrPast(spc, spc', {"syn", "synack"})
    BY <1>1 DEF SameOrPast
  <1>4. QED
    BY <1>1, <1>2, <1>3, RestKeeps

-----------------------------------------------------------------------------
(* The invariant and the properties it implies.                            *)

LEMMA SegmentInit == Init => SegmentInv
  <1> SUFFICES ASSUME Init PROVE SegmentInv
    OBVIOUS
  <1>1. /\ mpc = "syn" /\ spc = "syn" /\ reply = FALSE /\ typed = 0
        /\ buf = <<>> /\ sent = <<>> /\ up = <<>> /\ printed = <<>> /\ swallowed = {}
    BY DEF Init
  <1>2. Len(<<>>) = 0 /\ DOMAIN <<>> = {}
    BY EmptySeq
  <1>3. KeystrokesKept
    <2>1. Before(Len(sent) + 1) = 0
      <3>1. Len(sent) + 1 = 1
        BY <1>1, <1>2
      <3>2. QED
        BY <3>1 DEF Before
    <2>2. QED
      BY <1>1, <1>2, <2>1 DEF KeystrokesKept
  <1>4. BufferInv
    BY <1>1, <1>2 DEF BufferInv
  <1>5. OrderInv
    BY <1>1, <1>2 DEF OrderInv, InTypingOrder, Chars, CharsIn
  <1>6. Received = 0
    BY <1>1, <1>2 DEF Received
  <1>7. UnderWay
    BY <1>1, <1>2 DEF UnderWay
  <1>8. TakenInv
    <2>1. CharsIn(sent, 1..Received) = {}
      BY <1>6, NoneTaken
    <2>2. ToSet(printed) = {}
      BY <1>1, <1>2 DEF ToSet
    <2>3. QED
      BY <1>1, <1>2, <2>1, <2>2 DEF TakenInv
  <1>9. QED
    BY <1>3, <1>4, <1>5, <1>7, <1>8 DEF SegmentInv

LEMMA SegmentStep == TypeOK /\ SegmentInv /\ [Next]_vars => SegmentInv'
  <1> SUFFICES ASSUME TypeOK, SegmentInv, [Next]_vars PROVE SegmentInv'
    OBVIOUS
  <1>1. TypeOK'
    BY TypeStep
  <1>2. CASE MainStep
    BY <1>1, <1>2, SendSynKeeps, RecvReplyKeeps, TestKeeps, OtherClientKeeps DEF MainStep
  <1>3. CASE Type
    BY <1>1, <1>3, TypeKeeps
  <1>4. CASE ThreadStep \/ ClientStopped
    BY <1>4, OtherClientKeeps
  <1>5. CASE ServerStep
    BY <1>1, <1>5, RecvSynKeeps, RecvSynAckKeeps, RecvDataKeeps, OtherServerKeeps DEF ServerStep
  <1>6. CASE ServerStopped
    BY <1>6, OtherServerKeeps
  <1>7. CASE UNCHANGED vars
    <2>1. UNCHANGED <<mpc, spc, typed, buf, sent, up, reply, printed, swallowed>>
      BY <1>7 DEF vars, mainVars, threadVars, serverVars
    <2>2. BufferInv'
      BY <2>1 DEF SegmentInv, BufferInv
    <2>3. SameOrPast(mpc, mpc', {"syn", "reply"}) /\ SameOrPast(spc, spc', {"syn", "synack"})
      BY <2>1 DEF SameOrPast
    <2>4. QED
      BY <2>1, <2>2, <2>3, RestKeeps
  <1>8. QED
    BY <1>2, <1>3, <1>4, <1>5, <1>6, <1>7 DEF Next, Quiescent

\* SegmentInv is an invariant: at every point of both threads and of the
\* server, what has been typed is in the buffer or in a segment, and what has
\* been sent is under way or taken.
THEOREM Segments == Spec => [](TypeOK /\ SegmentInv)
  <1>1. Init => TypeOK /\ SegmentInv
    BY TypeInit, SegmentInit
  <1>2. TypeOK /\ SegmentInv /\ [Next]_vars => (TypeOK /\ SegmentInv)'
    BY TypeStep, SegmentStep
  <1>3. QED
    BY <1>1, <1>2, PTL DEF Spec

\* No character typed is lost, doubled or put out of order on its way from the
\* keyboard to a segment, whatever the two threads make of unacked_packets.
THEOREM NothingTypedIsLost == Spec => []KeystrokesKept
  <1>1. TypeOK /\ SegmentInv => KeystrokesKept
    BY DEF SegmentInv
  <1>2. QED
    BY <1>1, Segments, PTL

\* A character waits for fewer than MSS others, whatever the two threads make of
\* unacked_packets.
THEOREM WaitIsBounded == Spec => []BoundedWait
  <1>1. TypeOK /\ SegmentInv => BoundedWait
    BY DEF SegmentInv, BufferInv, BoundedWait
  <1>2. QED
    BY <1>1, Segments, PTL

\* The characters under way are those of the segments not yet received.
LEMMA UnderWayIsRest ==
  ASSUME TypeOK, SegmentInv
  PROVE  Chars(up) = CharsIn(sent, {k \in DOMAIN sent : k > Received})
  <1>1. PICK n \in Nat, u \in Nat, r \in Int :
          /\ n = Len(sent) /\ u = Len(up) /\ r = Received
          /\ n = r + u /\ r >= -1
          /\ \A i \in 1..u : IF r + i >= 1
                               THEN r + i \in 1..n /\ up[i] = sent[r + i]
                               ELSE i = 1 /\ up[i] = Handshake
    BY MessageNumbers
  <1>2. DOMAIN sent = 1..n /\ DOMAIN up = 1..u
    BY <1>1, SegmentTypes
  <1>3. ASSUME NEW i \in 1..u, NEW x \in ToSet(up[i])
        PROVE  \E k \in 1..n : k > r /\ x \in ToSet(sent[k])
    <2>1. r + i >= 1
      <3>1. ToSet(Handshake) = {}
        BY DEF ToSet, Handshake
      <3>2. QED
        BY <1>1, <1>3, <3>1
    <2>2. r + i \in 1..n /\ r + i > r /\ up[i] = sent[r + i]
      BY <1>1, <2>1
    <2>3. QED
      BY <1>3, <2>2
  <1>4. ASSUME NEW k \in 1..n, k > r, NEW x \in ToSet(sent[k])
        PROVE  \E i \in 1..u : x \in ToSet(up[i])
    <2>1. k - r \in 1..u /\ r + (k - r) = k /\ k >= 1
      BY <1>1, <1>4
    <2>2. up[k - r] = sent[k]
      BY <1>1, <2>1
    <2>3. QED
      BY <1>4, <2>1, <2>2
  <1>5. Chars(up) = UNION {ToSet(up[i]) : i \in 1..u}
    BY <1>2 DEF Chars, CharsIn
  <1>6. CharsIn(sent, {k \in DOMAIN sent : k > Received}) = UNION {ToSet(sent[k]) : k \in {l \in 1..n : l > r}}
    BY <1>1, <1>2 DEF CharsIn
  <1>7. QED
    BY ONLY <1>3, <1>4, <1>5, <1>6

\* Every character sent is under way, printed or swallowed, and only one of
\* these; what is printed is in the order of typing.
THEOREM ArrivesOnce == Spec => []EachCharacterOnce
  <1>1. ASSUME TypeOK, SegmentInv
        PROVE  EachCharacterOnce
    <2>1. PICK n \in Nat, u \in Nat, r \in Int :
            /\ n = Len(sent) /\ u = Len(up) /\ r = Received
            /\ n = r + u /\ r >= -1
            /\ \A i \in 1..u : IF r + i >= 1
                                 THEN r + i \in 1..n /\ up[i] = sent[r + i]
                                 ELSE i = 1 /\ up[i] = Handshake
      BY <1>1, MessageNumbers
    <2>2. DOMAIN sent = 1..n /\ DOMAIN up = 1..u
      BY <1>1, <2>1, SegmentTypes
    <2> DEFINE taken == CharsIn(sent, 1..r)
               rest == CharsIn(sent, {k \in 1..n : k > r})
    <2>3. Chars(up) = rest
      BY <1>1, <2>1, <2>2, UnderWayIsRest
    <2>4. ToSet(printed) \cup swallowed = taken /\ ToSet(printed) \cap swallowed = {}
      BY <1>1, <2>1 DEF SegmentInv, TakenInv
    <2>5. Chars(sent) = taken \cup rest
      <3>1. 1..n = 1..r \cup {k \in 1..n : k > r}
        BY <2>1
      <3>2. QED
        BY <2>2, <3>1 DEF Chars, CharsIn
    <2>6. taken \cap rest = {}
      <3>1. 1..r \subseteq 1..n /\ \A k \in 1..r, l \in {m \in 1..n : m > r} : k < l
        BY <2>1
      <3>2. \A x \in taken, y \in rest : x # y
        BY <1>1, <2>2, <3>1, EarlierSmaller
      <3>3. QED
        BY <3>2
    <2>7. InTypingOrder(up)
      <3>1. SUFFICES ASSUME NEW j \in 1..u, NEW k \in 1..u, j < k,
                            NEW x \in ToSet(up[j]), NEW y \in ToSet(up[k])
                     PROVE  x < y
        BY <2>2 DEF InTypingOrder
      <3>2. r + j >= 1
        <4>1. ToSet(Handshake) = {}
          BY DEF ToSet, Handshake
        <4>2. QED
          BY <2>1, <3>1, <4>1
      <3>3. r + k >= 1
        BY <3>1, <3>2
      <3>4. /\ r + j \in 1..n /\ up[j] = sent[r + j]
            /\ r + k \in 1..n /\ up[k] = sent[r + k]
            /\ r + j < r + k
        BY <2>1, <3>1, <3>2, <3>3
      <3>5. QED
        BY <1>1, <2>2, <3>1, <3>4 DEF SegmentInv, OrderInv, InTypingOrder
    <2>8. \A j, k \in DOMAIN printed : j < k => printed[j] < printed[k]
      BY <1>1 DEF SegmentInv, TakenInv
    <2>9. QED
      BY <2>3, <2>4, <2>5, <2>6, <2>7, <2>8 DEF EachCharacterOnce
  <1>2. QED
    BY <1>1, Segments, PTL

=============================================================================
