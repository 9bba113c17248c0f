------------------------- MODULE SlidingWindow_proof -------------------------
(***************************************************************************)
(* Theorems about SlidingWindow, for every set of clients, every data,     *)
(* window sizes, buffer size and junk.                                     *)
(***************************************************************************)
EXTENDS SlidingWindow, SequenceTheorems, TLAPS

-----------------------------------------------------------------------------
(* A family of sequences with one of them extended or shortened.           *)

LEMMA AppendAt ==
  ASSUME NEW S, NEW T, NEW f \in [S -> Seq(T)], NEW x \in S, NEW e \in T
  PROVE  [f EXCEPT ![x] = Append(@, e)] \in [S -> Seq(T)]
  <1>1. Append(f[x], e) \in Seq(T)
    BY AppendProperties
  <1>2. QED
    BY <1>1

LEMMA TailAt ==
  ASSUME NEW S, NEW T, NEW f \in [S -> Seq(T)], NEW x \in S, f[x] # <<>>
  PROVE  /\ [f EXCEPT ![x] = Tail(@)] \in [S -> Seq(T)]
         /\ Head(f[x]) \in T
  <1>1. Tail(f[x]) \in Seq(T) /\ Head(f[x]) \in T
    BY HeadTailProperties
  <1>2. QED
    BY <1>1

LEMMA NextElement ==
  ASSUME NEW T, NEW s \in Seq(T), NEW n \in Nat, n < Len(s)
  PROVE  s[n + 1] \in T
  <1>1. n + 1 \in 1..Len(s)
    BY LenProperties
  <1>2. QED
    BY <1>1, ElementOfSeq

LEMMA IncrementAt ==
  ASSUME NEW S, NEW f \in [S -> Nat], NEW x \in S
  PROVE  [f EXCEPT ![x] = @ + 1] \in [S -> Nat]
  OBVIOUS

-----------------------------------------------------------------------------
(* Type correctness.                                                       *)

\* while(t--) is entered with a positive count, and t is 0 only when the loop
\* has ended: what makes t - 1 a natural number.
CountPositive == spc = "recv" => t # 0

TypeInv == TypeOK /\ CountPositive

LEMMA TypeInit == Init => TypeInv
  <1> SUFFICES ASSUME Init PROVE TypeInv
    OBVIOUS
  <1>1. HandshakePacket(0) \in Packet
    BY DEF HandshakePacket, Packet
  <1>2. QED
    BY <1>1 DEF Init, TypeInv, TypeOK, CountPositive, ClientPc, ServerPc, ConnState

\* The packets the two sides build are packets.
LEMMA PacketTypes ==
  ASSUME NEW w \in Windows \cup {0}, NEW n \in Nat, NEW d \in Data \cup {FIN}
  PROVE  HandshakePacket(w) \in Packet /\ DataPacket(n, d) \in Packet
  BY DEF HandshakePacket, DataPacket, Packet

LEMMA WhileTestTypes ==
  ASSUME TypeInv, NEW c \in Clients, WhileTest(c)
  PROVE  /\ cpc' \in [Clients -> ClientPc]
         /\ i' \in [Clients -> Nat]
         /\ conn' \in [Clients -> ConnState]
  <1> USE DEF TypeInv, TypeOK
  <1>1. cpc' \in [Clients -> ClientPc]
    BY DEF WhileTest, WindowPc, ClientPc
  <1>2. i' \in [Clients -> Nat]
    <2>1. CASE i' = [i EXCEPT ![c] = 0]
      BY <2>1
    <2>2. CASE i' = i
      BY <2>2
    <2>3. QED
      BY <2>1, <2>2 DEF WhileTest
  <1>3. conn' \in [Clients -> ConnState]
    BY DEF WhileTest, CloseState, ConnState
  <1>4. QED
    BY <1>1, <1>2, <1>3

LEMMA ClientTypes ==
  ASSUME TypeInv, NEW c \in Clients, ClientStep(c) \/ ClientKilled(c)
  PROVE  TypeInv'
  <1> USE ConstantsAssumption DEF TypeInv, TypeOK, CountPositive, ClientPc, ServerPc, ConnState,
            serverVars, netVars, clientVars
  <1>1. CASE Connect(c)
    <2>1. backlog' \in Seq(Clients)
      <3>1. Append(backlog, c) \in Seq(Clients)
        BY AppendProperties
      <3>2. QED
        BY <1>1, <3>1 DEF Connect
    <2>2. QED
      BY <1>1, <2>1 DEF Connect
  <1>2. CASE SendSyn(c)
    <2>1. PICK w \in Windows, f \in Payloads :
            /\ window' = [window EXCEPT ![c] = w]
            /\ frames' = [frames EXCEPT ![c] = f]
            /\ up' = [up EXCEPT ![c] = Append(@, HandshakePacket(w))]
      BY <1>2 DEF SendSyn
    <2>2. HandshakePacket(w) \in Packet
      BY DEF HandshakePacket, Packet
    <2>3. up' \in [Clients -> Seq(Packet)]
      BY <2>1, <2>2, AppendAt
    <2>4. frames' \in [Clients -> Seq(Data)] /\ window' \in [Clients -> Windows \cup {0}]
      BY <2>1
    <2>5. QED
      BY <1>2, <2>3, <2>4 DEF SendSyn
  <1>3. CASE RecvReply(c)
    <2>1. up' \in [Clients -> Seq(Packet)]
      <3>1. HandshakePacket(window[c]) \in Packet
        BY DEF HandshakePacket, Packet
      <3>2. QED
        BY <1>3, <3>1, AppendAt DEF RecvReply
    <2>2. down' \in [Clients -> Seq(Nat)]
      BY <1>3, TailAt DEF RecvReply
    <2>3. /\ cpc' \in [Clients -> ClientPc]
          /\ i' \in [Clients -> Nat]
          /\ conn' \in [Clients -> ConnState]
      BY WhileTestTypes, <1>3 DEF RecvReply
    <2>4. QED
      BY <1>3, <2>1, <2>2, <2>3 DEF RecvReply
  <1>4. CASE SendFrame(c)
    <2>1. frames[c][start[c] + 1] \in Data
      BY <1>4, NextElement DEF SendFrame
    <2>2. DataPacket(seqno[c], frames[c][start[c] + 1]) \in Packet
      BY <2>1 DEF DataPacket, Packet
    <2>3. up' \in [Clients -> Seq(Packet)]
      BY <1>4, <2>2, AppendAt DEF SendFrame
    <2>4. cpc' \in [Clients -> ClientPc]
      <3>1. WindowPc(window[c], i[c] + 1) \in ClientPc
        BY DEF WindowPc
      <3>2. QED
        BY <1>4, <3>1 DEF SendFrame
    <2>5. seqno' \in [Clients -> Nat]
      BY <1>4, IncrementAt DEF SendFrame
    <2>6. start' \in [Clients -> Nat] /\ i' \in [Clients -> Nat]
      BY <1>4, IncrementAt DEF SendFrame
    <2>7. QED
      BY <1>4, <2>3, <2>4, <2>5, <2>6 DEF SendFrame
  <1>5. CASE SendFin(c)
    <2>1. DataPacket(seqno[c], FIN) \in Packet
      BY DEF DataPacket, Packet
    <2>2. up' \in [Clients -> Seq(Packet)]
      BY <1>5, <2>1, AppendAt DEF SendFin
    <2>3. seqno' \in [Clients -> Nat]
      BY <1>5, IncrementAt DEF SendFin
    <2>4. cpc' \in [Clients -> ClientPc]
      BY <1>5 DEF SendFin
    <2>5. QED
      BY <1>5, <2>2, <2>3, <2>4 DEF SendFin
  <1>6. CASE RecvWindowAck(c)
    <2>1. down' \in [Clients -> Seq(Nat)] /\ Head(down[c]) \in Nat
      BY <1>6, TailAt DEF RecvWindowAck
    <2>2. /\ cpc' \in [Clients -> ClientPc]
          /\ i' \in [Clients -> Nat]
          /\ conn' \in [Clients -> ConnState]
      BY WhileTestTypes, <1>6 DEF RecvWindowAck
    <2>3. QED
      BY <1>6, <2>1, <2>2 DEF RecvWindowAck
  <1>7. CASE ServerGone(c)
    BY <1>7 DEF ServerGone
  <1>8. CASE ClientKilled(c)
    BY <1>8 DEF ClientKilled, CloseState
  <1>9. QED
    BY <1>1, <1>2, <1>3, <1>4, <1>5, <1>6, <1>7, <1>8 DEF ClientStep

\* What send() does to the connection keeps its types.
LEMMA SendAckTypes ==
  ASSUME TypeInv, NEW n \in Nat, SendAck(cur, n)
  PROVE  down' \in [Clients -> Seq(Nat)] /\ conn' \in [Clients -> ConnState]
  <1> USE DEF TypeInv, TypeOK, ConnState
  <1>1. CASE down' = [down EXCEPT ![cur] = Append(@, n)] /\ UNCHANGED conn
    BY <1>1, AppendAt
  <1>2. CASE conn' = [conn EXCEPT ![cur] = "broken"] /\ UNCHANGED down
    BY <1>2
  <1>3. QED
    BY <1>1, <1>2 DEF SendAck

LEMMA ServerTypes ==
  ASSUME TypeInv, ServerStep
  PROVE  TypeInv'
  <1> USE ConstantsAssumption DEF TypeInv, TypeOK, CountPositive, ClientPc, ServerPc, ConnState,
            serverVars, netVars, clientVars, ReceiverPc
  <1>1. CASE Accept
    <2>1. df' \in Packet /\ last_seq' \in Nat
      <3>1. PICK n \in Junk, d \in Data \cup {FIN} : df' = DataPacket(n, d)
        BY <1>1 DEF Accept
      <3>2. QED
        BY <1>1, <3>1 DEF Accept, DataPacket, Packet
    <2>2. cur' \in Clients /\ backlog' \in Seq(Clients)
      BY <1>1, HeadTailProperties DEF Accept
    <2>3. QED
      BY <1>1, <2>1, <2>2 DEF Accept
  <1>2. CASE RecvSyn
    <2>1. win' \in Windows \cup {0} /\ up' \in [Clients -> Seq(Packet)]
      <3>1. CASE up[cur] # <<>> /\ win' = Head(up[cur]).window_size
                 /\ up' = [up EXCEPT ![cur] = Tail(@)]
        <4>1. Head(up[cur]) \in Packet /\ up' \in [Clients -> Seq(Packet)]
          BY <3>1, TailAt
        <4>2. Head(up[cur]).window_size \in Windows \cup {0}
          BY <4>1 DEF Packet
        <4>3. QED
          BY <3>1, <4>1, <4>2
      <3>2. CASE win' \in Windows /\ UNCHANGED up
        BY <3>2
      <3>3. QED
        BY <1>2, <3>1, <3>2 DEF RecvSyn
    <2>2. down' \in [Clients -> Seq(Nat)] /\ conn' \in [Clients -> ConnState]
      BY <1>2, SendAckTypes DEF RecvSyn
    <2>3. QED
      BY <1>2, <2>1, <2>2 DEF RecvSyn
  <1>3. CASE RecvSynAck
    <2>1. win \in Nat
      OBVIOUS
    <2>2. up' \in [Clients -> Seq(Packet)]
      <3>1. CASE up' = up
        BY <3>1
      <3>2. CASE up[cur] # <<>> /\ up' = [up EXCEPT ![cur] = Tail(@)]
        BY <3>2, TailAt
      <3>3. QED
        BY <1>3, <3>1, <3>2 DEF RecvSynAck
    <2>3. conn' \in [Clients -> ConnState]
      BY <1>3 DEF RecvSynAck
    <2>4. QED
      BY <1>3, <2>1, <2>2, <2>3 DEF RecvSynAck
  <1>4. CASE RecvFrame
    <2>1. Received \in Packet
      BY TailAt DEF Received
    <2>2. Received.seq_num \in Nat
      BY <2>1 DEF Packet
    <2>3. up' \in [Clients -> Seq(Packet)]
      BY <1>4, TailAt DEF RecvFrame, StopOnFin, PrintPacket, IsFin, Rest
    <2>4. CASE Received.data = FIN
      BY <1>4, <2>1, <2>3, <2>4 DEF RecvFrame, StopOnFin, PrintPacket, IsFin, Rest
    <2>5. CASE Received.data # FIN
      <3>1. printed' \in [Clients -> Seq(Packet)]
        <4>1. [printed EXCEPT ![cur] = Append(@, Received)] \in [Clients -> Seq(Packet)]
          BY <2>1, AppendAt
        <4>2. QED
          BY <1>4, <2>5, <4>1 DEF RecvFrame, StopOnFin, PrintPacket, IsFin, Rest
      <3>2. t' \in Nat /\ (t' # 0 \/ spc' = "ack") /\ spc' \in {"recv", "ack"}
        BY <1>4, <2>5 DEF RecvFrame, StopOnFin, PrintPacket, IsFin, Rest
      <3>3. QED
        BY <1>4, <2>1, <2>2, <2>3, <2>5, <3>1, <3>2 DEF RecvFrame, StopOnFin, PrintPacket, IsFin, Rest
    <2>6. QED
      BY <2>4, <2>5
  <1>5. CASE RecvFailed
    BY <1>5 DEF RecvFailed
  <1>6. CASE SendWindowAck
    <2>1. down' \in [Clients -> Seq(Nat)] /\ conn' \in [Clients -> ConnState]
      <3>1. last_seq + 1 \in Nat
        OBVIOUS
      <3>2. SendAck(cur, last_seq + 1)
        BY <1>6 DEF SendWindowAck, AckNum
      <3>3. QED
        BY <3>1, <3>2, SendAckTypes, ZenonT(30)
    <2>2. win \in Nat
      OBVIOUS
    <2>3. QED
      BY <1>6, <2>1, <2>2 DEF SendWindowAck, AckNum
  <1>7. CASE SigPipe
    BY <1>7 DEF SigPipe
  <1>8. QED
    BY <1>1, <1>2, <1>3, <1>4, <1>5, <1>6, <1>7 DEF ServerStep

LEMMA TypeStep == TypeInv /\ [Next]_vars => TypeInv'
  <1> SUFFICES ASSUME TypeInv, [Next]_vars PROVE TypeInv'
    OBVIOUS
  <1>1. CASE \E c \in Clients : ClientStep(c) \/ ClientKilled(c)
    BY <1>1, ClientTypes
  <1>2. CASE ServerStep
    BY <1>2, ServerTypes
  <1>3. CASE UNCHANGED vars
    BY <1>3 DEF TypeInv, TypeOK, CountPositive, vars, clientVars, netVars, serverVars
  <1>4. QED
    BY <1>1, <1>2, <1>3 DEF Next, Quiescent

\* Every reachable state has its types: in particular the count of while(t--)
\* never goes below zero and only packets and acknowledgement numbers travel.
THEOREM TypeCorrect == Spec => []TypeOK
  <1>1. Spec => []TypeInv
    BY TypeInit, TypeStep, PTL DEF Spec
  <1>2. TypeInv => TypeOK
    BY DEF TypeInv
  <1>3. QED
    BY <1>1, <1>2, PTL

-----------------------------------------------------------------------------
(* Delivery: DeliveryInv is inductive.                                     *)

\* The types of one client's state, and of its lengths.
LEMMA LocalTypes ==
  ASSUME TypeInv, NEW c \in Clients
  PROVE  /\ start[c] \in Nat /\ seqno[c] \in Nat
         /\ frames[c] \in Seq(Data) /\ Len(frames[c]) \in Nat
         /\ up[c] \in Seq(Packet) /\ Len(up[c]) \in Nat
         /\ printed[c] \in Seq(Packet) /\ Len(printed[c]) \in Nat
         /\ down[c] \in Seq(Nat)
  <1>1. /\ start[c] \in Nat /\ seqno[c] \in Nat
        /\ frames[c] \in Seq(Data) /\ up[c] \in Seq(Packet)
        /\ printed[c] \in Seq(Packet) /\ down[c] \in Seq(Nat)
    BY DEF TypeInv, TypeOK
  <1>2. QED
    BY <1>1, LenProperties

\* A step that leaves alone what ClientInv says of d keeps it.
Untouched(d) ==
  /\ cpc'[d] = cpc[d] /\ window'[d] = window[d] /\ frames'[d] = frames[d]
  /\ start'[d] = start[d] /\ seqno'[d] = seqno[d]
  /\ up'[d] = up[d] /\ down'[d] = down[d] /\ conn'[d] = conn[d]
  /\ printed'[d] = printed[d]
  /\ Unserved(d)' <=> Unserved(d)
  /\ (cur' = d /\ spc' = "synack") => (cur = d /\ spc = "synack")
  /\ Receiving(d)' => Receiving(d) /\ flag' = flag

LEMMA UntouchedKept ==
  ASSUME NEW d \in Clients, ClientInv(d), Untouched(d)
  PROVE  ClientInv(d)'
  <1> USE DEF ClientInv, Untouched, Emitted
  <1>1. SenderInv(d)'
    BY DEF SenderInv
  <1>2. UnservedInv(d)'
    BY DEF UnservedInv
  <1>3. HandshakeInv(d)'
    BY DEF HandshakeInv
  <1>4. ReceivingInv(d)'
    BY DEF ReceivingInv
  <1>5. StreamInv(d)'
    BY DEF StreamInv, StreamPacket
  <1>6. PrintedInv(d)'
    BY DEF PrintedInv
  <1>7. QED
    BY <1>1, <1>2, <1>3, <1>4, <1>5, <1>6

\* c appends the next packet of its stream to its channel.
LEMMA StreamExtended ==
  ASSUME TypeInv, NEW c \in Clients, StreamInv(c), seqno[c] >= 1,
         up'[c] = Append(up[c], StreamPacket(c, seqno[c])),
         StreamPacket(c, seqno[c]) \in Packet,
         seqno'[c] = seqno[c] + 1, frames' = frames, window' = window
  PROVE  StreamInv(c)' /\ Len(up'[c]) = Len(up[c]) + 1
  <1>1. /\ Len(up'[c]) = Len(up[c]) + 1
        /\ \A k \in 1..Len(up[c]) : up'[c][k] = up[c][k]
        /\ up'[c][Len(up[c]) + 1] = StreamPacket(c, seqno[c])
    BY LocalTypes, AppendProperties
  <1>2. Emitted(c) = seqno[c] - 1 /\ Emitted(c)' = seqno[c]
    BY LocalTypes DEF Emitted
  <1>3. \A n : StreamPacket(c, n)' = StreamPacket(c, n)
    BY DEF StreamPacket
  <1>4. ASSUME NEW k \in 1..Len(up'[c])
        PROVE  IF Len(up'[c]) - k < seqno[c]
                 THEN up'[c][k] = StreamPacket(c, seqno[c] - (Len(up'[c]) - k))
                 ELSE up'[c][k] = HandshakePacket(window[c])
    <2>1. CASE k = Len(up[c]) + 1
      <3>1. Len(up'[c]) - k = 0 /\ 0 < seqno[c] /\ seqno[c] - 0 = seqno[c]
        BY <1>1, <2>1, LocalTypes
      <3>2. QED
        BY <1>1, <2>1, <3>1
    <2>2. CASE k \in 1..Len(up[c])
      <3>1. /\ (Len(up'[c]) - k < seqno[c]) <=> (Len(up[c]) - k < Emitted(c))
            /\ seqno[c] - (Len(up'[c]) - k) = Emitted(c) - (Len(up[c]) - k)
        <4>1. seqno[c] \in Nat /\ Len(up[c]) \in Nat /\ k \in Nat
          BY <2>2, LocalTypes
        <4>2. Len(up'[c]) - k = Len(up[c]) - k + 1
          BY <1>1, <4>1
        <4>3. QED
          BY <1>2, <4>1, <4>2
      <3>2. up'[c][k] = up[c][k]
        BY <1>1, <2>2
      <3>3. IF Len(up[c]) - k < Emitted(c)
              THEN up[c][k] = StreamPacket(c, Emitted(c) - (Len(up[c]) - k))
              ELSE up[c][k] = HandshakePacket(window[c])
        BY <2>2 DEF StreamInv
      <3>4. QED
        BY <3>1, <3>2, <3>3
    <2>3. QED
      BY <1>1, <2>1, <2>2, LocalTypes
  <1>5. StreamInv(c)'
    BY <1>2, <1>3, <1>4 DEF StreamInv
  <1>6. QED
    BY <1>1, <1>5

\* c takes the first packet out of its channel.
LEMMA StreamShortened ==
  ASSUME TypeInv, NEW c \in Clients, StreamInv(c), up[c] # <<>>,
         up'[c] = Tail(up[c]),
         seqno' = seqno, frames' = frames, window' = window
  PROVE  StreamInv(c)' /\ Len(up'[c]) = Len(up[c]) - 1
  <1>1. /\ Len(up'[c]) = Len(up[c]) - 1
        /\ \A k \in 1..Len(up'[c]) : up'[c][k] = up[c][k + 1]
    BY LocalTypes, HeadTailProperties
  <1>2. Emitted(c)' = Emitted(c) /\ \A n : StreamPacket(c, n)' = StreamPacket(c, n)
    BY DEF Emitted, StreamPacket
  <1>3. ASSUME NEW k \in 1..Len(up'[c])
        PROVE  IF Len(up'[c]) - k < Emitted(c)
                 THEN up'[c][k] = StreamPacket(c, Emitted(c) - (Len(up'[c]) - k))
                 ELSE up'[c][k] = HandshakePacket(window[c])
    <2>1. Len(up[c]) \in Nat
      BY LocalTypes
    <2>2. k + 1 \in 1..Len(up[c]) /\ Len(up'[c]) - k = Len(up[c]) - (k + 1)
      BY <1>1, <2>1
    <2>3. IF Len(up[c]) - (k + 1) < Emitted(c)
            THEN up[c][k + 1] = StreamPacket(c, Emitted(c) - (Len(up[c]) - (k + 1)))
            ELSE up[c][k + 1] = HandshakePacket(window[c])
      BY <2>2 DEF StreamInv
    <2>4. QED
      BY <1>1, <2>2, <2>3
  <1>4. StreamInv(c)'
    BY <1>2, <1>3 DEF StreamInv
  <1>5. QED
    BY <1>1, <1>4

LEMMA StreamSame ==
  ASSUME NEW c \in Clients, StreamInv(c), up'[c] = up[c],
         seqno'[c] = seqno[c], frames'[c] = frames[c], window'[c] = window[c]
  PROVE  StreamInv(c)'
  BY DEF StreamInv, StreamPacket, Emitted

LEMMA PrintedSame ==
  ASSUME NEW c \in Clients, PrintedInv(c), printed'[c] = printed[c],
         start'[c] = start[c], frames'[c] = frames[c],
         conn'[c] = "open" => conn[c] = "open"
  PROVE  PrintedInv(c)'
  BY DEF PrintedInv

-----------------------------------------------------------------------------
(* The client's steps.                                                     *)

\* What the steps of client c leave alone, but for the accept queue.
OnlyClient(c) ==
  /\ \A d \in Clients \ {c} :
       /\ cpc'[d] = cpc[d] /\ window'[d] = window[d] /\ frames'[d] = frames[d]
       /\ start'[d] = start[d] /\ seqno'[d] = seqno[d]
       /\ up'[d] = up[d] /\ down'[d] = down[d] /\ conn'[d] = conn[d]
  /\ UNCHANGED <<spc, cur, t, flag, printed>>

LEMMA OthersKept ==
  ASSUME DeliveryInv, NEW c \in Clients, OnlyClient(c),
         \A d \in Clients \ {c} : InBacklog(d)' <=> InBacklog(d),
         NEW d \in Clients \ {c}
  PROVE  ClientInv(d)'
  <1>1. Untouched(d)
    BY DEF OnlyClient, Untouched, Unserved, Receiving
  <1>2. QED
    BY <1>1, UntouchedKept DEF DeliveryInv

LEMMA QueueKept ==
  ASSUME TypeInv, QueueInv, NEW c \in Clients, OnlyClient(c),
         backlog' = backlog, cpc'[c] # "idle"
  PROVE  QueueInv' /\ (\A d \in Clients : InBacklog(d)' <=> InBacklog(d))
  <1>1. \A d \in Clients : InBacklog(d)' <=> InBacklog(d)
    BY DEF InBacklog
  <1>2. cur \in Clients /\ \A k \in 1..Len(backlog) : backlog[k] \in Clients
    <2>1. backlog \in Seq(Clients) /\ cur \in Clients
      BY DEF TypeInv, TypeOK
    <2>2. QED
      BY <2>1, ElementOfSeq
  <1>3. \A d \in Clients : cpc[d] # "idle" => cpc'[d] # "idle"
    BY DEF OnlyClient
  <1>4. QED
    BY <1>1, <1>2, <1>3 DEF QueueInv, OnlyClient

\* A client that is being received from, or waits for its handshake to be
\* answered, is not queued.
LEMMA ServedNotQueued ==
  ASSUME QueueInv, NEW c \in Clients, Unserved(c), cpc[c] # "idle"
  PROVE  ~Receiving(c) /\ ~(cur = c /\ spc = "synack")
  BY DEF QueueInv, Unserved, Receiving

\* A client whose process ends keeps everything but its socket.
LEMMA EndedKept ==
  ASSUME NEW c \in Clients, ClientInv(c), cpc'[c] = "dead",
         window'[c] = window[c], frames'[c] = frames[c], start'[c] = start[c],
         seqno'[c] = seqno[c], up'[c] = up[c], down'[c] = down[c],
         printed'[c] = printed[c], conn'[c] = "open" => conn[c] = "open",
         Unserved(c)' => Unserved(c), UNCHANGED <<spc, cur, flag>>
  PROVE  ClientInv(c)'
  <1>1. SenderInv(c)'
    BY DEF ClientInv, SenderInv, Emitted
  <1>2. UnservedInv(c)'
    BY DEF ClientInv, UnservedInv
  <1>3. HandshakeInv(c)'
    BY DEF ClientInv, HandshakeInv, Emitted
  <1>4. ReceivingInv(c)'
    BY DEF ClientInv, ReceivingInv, Receiving, Emitted
  <1>5. StreamInv(c)'
    BY StreamSame DEF ClientInv
  <1>6. PrintedInv(c)'
    BY PrintedSame DEF ClientInv
  <1>7. QED
    BY <1>1, <1>2, <1>3, <1>4, <1>5, <1>6 DEF ClientInv

LEMMA KilledKeeps ==
  ASSUME TypeInv, DeliveryInv, NEW c \in Clients, ClientKilled(c) \/ ServerGone(c)
  PROVE  DeliveryInv'
  <1>1. OnlyClient(c) /\ backlog' = backlog /\ cpc'[c] = "dead"
    BY DEF ClientKilled, ServerGone, OnlyClient, serverVars, netVars, TypeInv, TypeOK
  <1>2. QueueInv' /\ (\A d \in Clients : InBacklog(d)' <=> InBacklog(d))
    BY <1>1, QueueKept DEF DeliveryInv
  <1>3. conn'[c] = "open" => conn[c] = "open"
    BY DEF ClientKilled, ServerGone, CloseState, netVars, TypeInv, TypeOK
  <1>4. /\ window' = window /\ frames' = frames /\ start' = start
        /\ seqno' = seqno /\ up' = up /\ down' = down
    BY DEF ClientKilled, ServerGone, netVars
  <1>5. Unserved(c)' => Unserved(c)
    BY <1>1, <1>2 DEF Unserved, OnlyClient
  <1>6. ClientInv(c)'
    BY <1>1, <1>3, <1>4, <1>5, EndedKept DEF DeliveryInv, OnlyClient
  <1>7. QED
    BY <1>1, <1>2, <1>6, OthersKept DEF DeliveryInv

LEMMA ConnectKeeps ==
  ASSUME TypeInv, DeliveryInv, NEW c \in Clients, Connect(c)
  PROVE  DeliveryInv'
  <1>1. OnlyClient(c) /\ cpc'[c] # "idle" /\ cpc[c] = "idle"
    BY DEF Connect, OnlyClient, serverVars, TypeInv, TypeOK
  <1>2. /\ window' = window /\ frames' = frames /\ start' = start
        /\ seqno' = seqno /\ up' = up /\ down' = down /\ conn' = conn
        /\ printed' = printed
    BY DEF Connect
  <1>3. ClientInv(c) /\ QueueInv
    BY DEF DeliveryInv
  <1>4. /\ backlog \in Seq(Clients) /\ Len(backlog) \in Nat /\ cur \in Clients
        /\ \A k \in 1..Len(backlog) : backlog[k] \in Clients
    <2>1. backlog \in Seq(Clients) /\ cur \in Clients
      BY DEF TypeInv, TypeOK
    <2>2. QED
      BY <2>1, ElementOfSeq, LenProperties
  <1>5. ~InBacklog(c)
    BY <1>1, <1>3 DEF QueueInv, InBacklog
  <1>6. CASE spc = "down"
    <2>1. backlog' = backlog /\ cpc'[c] = "dead"
      BY <1>6 DEF Connect, TypeInv, TypeOK
    <2>2. QueueInv' /\ (\A d \in Clients : InBacklog(d)' <=> InBacklog(d))
      BY <1>1, <1>3, <2>1, QueueKept
    <2>3. Unserved(c)
      BY <1>1 DEF Unserved
    <2>4. ClientInv(c)'
      BY <1>1, <1>2, <1>3, <2>1, <2>3, EndedKept DEF OnlyClient
    <2>5. QED
      BY <1>1, <2>2, <2>4, OthersKept DEF DeliveryInv
  <1>7. CASE spc # "down"
    <2>1. backlog' = Append(backlog, c) /\ cpc'[c] = "input"
      BY <1>7 DEF Connect, TypeInv, TypeOK
    <2>2. /\ Len(backlog') = Len(backlog) + 1
          /\ \A k \in 1..Len(backlog) : backlog'[k] = backlog[k]
          /\ backlog'[Len(backlog) + 1] = c
      BY <1>4, <2>1, AppendProperties
    <2>3. \A d \in Clients \ {c} : InBacklog(d)' <=> InBacklog(d)
      <3>1. \A k \in 1..Len(backlog') : k \in 1..Len(backlog) \/ k = Len(backlog) + 1
        BY <1>4, <2>2
      <3>2. \A k \in 1..Len(backlog) : k \in 1..Len(backlog')
        BY <1>4, <2>2
      <3>3. QED
        BY <2>2, <3>1, <3>2 DEF InBacklog
    <2>4. InBacklog(c)'
      <3>1. Len(backlog) + 1 \in 1..Len(backlog')
        BY <1>4, <2>2
      <3>2. QED
        BY <2>2, <3>1 DEF InBacklog
    <2>5. QueueInv'
      <3>1. \A k \in 1..Len(backlog') : k \in 1..Len(backlog) \/ k = Len(backlog) + 1
        BY <1>4, <2>2
      <3>2. \A k \in 1..Len(backlog) : backlog[k] # c
        BY <1>5 DEF InBacklog
      <3>3. \A j, k \in 1..Len(backlog') : backlog'[j] = backlog'[k] => j = k
        BY <1>3, <2>2, <3>1, <3>2 DEF QueueInv
      <3>4. \A k \in 1..Len(backlog') : cpc'[backlog'[k]] # "idle"
        BY <1>1, <1>3, <1>4, <2>2, <3>1, <3>2 DEF QueueInv, OnlyClient
      <3>5. spc \in {"syn", "synack", "recv", "ack"} =>
              /\ cpc'[cur] # "idle"
              /\ ~ \E k \in 1..Len(backlog') : backlog'[k] = cur
        <4>1. SUFFICES ASSUME spc \in {"syn", "synack", "recv", "ack"}
                       PROVE  /\ cpc'[cur] # "idle"
                              /\ ~ \E k \in 1..Len(backlog') : backlog'[k] = cur
          OBVIOUS
        <4>2. cpc[cur] # "idle" /\ ~InBacklog(cur)
          BY <1>3, <4>1 DEF QueueInv
        <4>3. cur # c
          BY <1>1, <4>2
        <4>4. cpc'[cur] # "idle"
          BY <1>1, <1>4, <4>2, <4>3 DEF OnlyClient
        <4>5. QED
          BY <2>2, <3>1, <4>2, <4>3, <4>4 DEF InBacklog
      <3>6. spc' = spc /\ cur' = cur /\ t' = t /\ flag' = flag
        BY <1>1 DEF OnlyClient
      <3>7. QED
        BY <1>3, <3>3, <3>4, <3>5, <3>6 DEF QueueInv, InBacklog
    <2>6. ClientInv(c)'
      <3>1. Unserved(c)
        BY <1>1 DEF Unserved
      <3>2. Unserved(c)'
        BY <2>4 DEF Unserved
      <3>3. ~Receiving(c)' /\ ~(cur' = c /\ spc' = "synack")
        BY <1>1, <1>3 DEF QueueInv, Receiving, OnlyClient
      <3>4. SenderInv(c)'
        BY <1>1, <1>2, <1>3, <2>1, <3>2, LocalTypes DEF ClientInv, SenderInv, Emitted
      <3>5. UnservedInv(c)'
        BY <1>1, <1>2, <1>3, <2>1, <3>1 DEF ClientInv, UnservedInv
      <3>6. HandshakeInv(c)' /\ ReceivingInv(c)'
        BY <3>3 DEF HandshakeInv, ReceivingInv
      <3>7. StreamInv(c)' /\ PrintedInv(c)'
        BY <1>2, <1>3, StreamSame, PrintedSame DEF ClientInv
      <3>8. QED
        BY <3>4, <3>5, <3>6, <3>7 DEF ClientInv
    <2>7. QED
      BY <1>1, <2>3, <2>5, <2>6, OthersKept DEF DeliveryInv
  <1>8. QED
    BY <1>6, <1>7

LEMMA SendSynKeeps ==
  ASSUME TypeInv, DeliveryInv, NEW c \in Clients, SendSyn(c)
  PROVE  DeliveryInv'
  <1>1. PICK w \in Windows, f \in Payloads :
          /\ window' = [window EXCEPT ![c] = w]
          /\ frames' = [frames EXCEPT ![c] = f]
          /\ up' = [up EXCEPT ![c] = Append(@, HandshakePacket(w))]
    BY DEF SendSyn
  <1>2. /\ OnlyClient(c) /\ backlog' = backlog /\ conn' = conn /\ start' = start
        /\ seqno' = seqno /\ down' = down /\ printed' = printed
        /\ cpc[c] = "input" /\ cpc'[c] = "wait_reply"
        /\ window'[c] = w /\ frames'[c] = f
        /\ up'[c] = Append(up[c], HandshakePacket(w))
    BY <1>1 DEF SendSyn, OnlyClient, serverVars, TypeInv, TypeOK
  <1>3. ClientInv(c) /\ QueueInv
    BY DEF DeliveryInv
  <1>4. QueueInv' /\ (\A d \in Clients : InBacklog(d)' <=> InBacklog(d))
    BY <1>2, <1>3, QueueKept
  <1>5. Unserved(c) /\ up[c] = <<>> /\ seqno[c] = 1 /\ printed[c] = <<>> /\ down[c] = <<>>
    BY <1>2, <1>3 DEF ClientInv, SenderInv, UnservedInv
  <1>6. start[c] = 0
    <2>1. start[c] <= seqno[c] - 1
      BY <1>3 DEF ClientInv, SenderInv, Emitted
    <2>2. QED
      BY <1>5, <2>1, LocalTypes
  <1>7. up'[c] = <<HandshakePacket(w)>>
    BY <1>2, <1>5
  <1>8. ~Receiving(c) /\ ~(cur = c /\ spc = "synack")
    BY <1>2, <1>3, <1>5, ServedNotQueued
  <1>9. SenderInv(c)'
    <2>1. Len(frames'[c]) \in Nat
      BY <1>2, ConstantsAssumption, LenProperties
    <2>2. conn[c] = "open"
      BY <1>2, <1>3 DEF ClientInv, SenderInv
    <2>3. QED
      BY <1>2, <1>5, <1>6, <2>1, <2>2 DEF SenderInv, Emitted
  <1>10. UnservedInv(c)'
    BY <1>2, <1>5, <1>7 DEF UnservedInv
  <1>11. HandshakeInv(c)' /\ ReceivingInv(c)'
    BY <1>2, <1>8 DEF HandshakeInv, ReceivingInv, Receiving, OnlyClient
  <1>12. StreamInv(c)'
    BY <1>2, <1>5, <1>7 DEF StreamInv, Emitted
  <1>13. PrintedInv(c)'
    BY <1>2, <1>5, <1>6 DEF PrintedInv
  <1>14. ClientInv(c)'
    BY <1>9, <1>10, <1>11, <1>12, <1>13 DEF ClientInv
  <1>15. QED
    BY <1>2, <1>4, <1>14, OthersKept DEF DeliveryInv

\* After an acknowledgement a client with data left goes on with its
\* connection open, and one without ends and closes it.
LEMMA AfterWhileTest ==
  ASSUME TypeInv, NEW c \in Clients, WhileTest(c)
  PROVE  /\ \/ start[c] < Len(frames[c]) /\ cpc'[c] \in {"window", "wait_ack"}
               /\ conn'[c] = conn[c]
            \/ ~(start[c] < Len(frames[c])) /\ cpc'[c] = "exited" /\ conn'[c] # "open"
         /\ \A d \in Clients \ {c} : cpc'[d] = cpc[d] /\ conn'[d] = conn[d]
  BY DEF WhileTest, WindowPc, CloseState, TypeInv, TypeOK

LEMMA RecvReplyKeeps ==
  ASSUME TypeInv, DeliveryInv, NEW c \in Clients, RecvReply(c)
  PROVE  DeliveryInv'
  <1>1. /\ WhileTest(c) /\ cpc[c] = "wait_reply" /\ down[c] # <<>>
        /\ up'[c] = Append(up[c], HandshakePacket(window[c]))
        /\ window' = window /\ frames' = frames /\ start' = start
        /\ seqno' = seqno /\ printed' = printed /\ backlog' = backlog
    BY DEF RecvReply, TypeInv, TypeOK
  <1>2. \A d \in Clients \ {c} : up'[d] = up[d] /\ down'[d] = down[d]
    BY DEF RecvReply, TypeInv, TypeOK
  <1>3. OnlyClient(c) /\ cpc'[c] \in {"window", "wait_ack", "exited"}
    BY <1>1, <1>2, AfterWhileTest DEF RecvReply, OnlyClient, serverVars
  <1>4. ClientInv(c) /\ QueueInv
    BY DEF DeliveryInv
  <1>5. QueueInv' /\ (\A d \in Clients : InBacklog(d)' <=> InBacklog(d))
    BY <1>1, <1>3, <1>4, QueueKept
  <1>6. seqno[c] = 1 /\ start[c] <= seqno[c] - 1
    BY <1>1, <1>4 DEF ClientInv, SenderInv, Emitted
  <1>7. start[c] = 0 /\ Emitted(c) = 0
    BY <1>6, LocalTypes DEF Emitted
  <1>8. ~Unserved(c)
    BY <1>1, <1>4 DEF ClientInv, UnservedInv
  <1>9. ~Unserved(c)'
    BY <1>3, <1>5, <1>8 DEF Unserved, OnlyClient
  <1>10. ~Receiving(c)
    BY <1>1, <1>4 DEF ClientInv, ReceivingInv
  <1>11. SenderInv(c)'
    <2>1. 0 <= Len(frames[c])
      BY LocalTypes
    <2>2. conn[c] = "open"
      BY <1>1, <1>4 DEF ClientInv, SenderInv
    <2>3. conn'[c] # "open" => cpc'[c] \in {"exited", "dead"}
      BY <1>1, <2>2, AfterWhileTest
    <2>4. QED
      BY <1>1, <1>3, <1>6, <1>7, <2>1, <2>3 DEF SenderInv, Emitted
  <1>12. HandshakeInv(c)'
    <2>1. ASSUME cur = c, spc = "synack"
          PROVE  printed[c] = <<>> /\ Len(up'[c]) = 1
      <3>1. printed[c] = <<>> /\ up[c] = <<>>
        BY <1>1, <1>4, <2>1 DEF ClientInv, HandshakeInv
      <3>2. QED
        BY <1>1, <3>1
    <2>2. Emitted(c)' = 0 /\ 0 + 1 = 1
      BY <1>1, <1>7 DEF Emitted
    <2>3. spc' = spc /\ cur' = cur
      BY <1>3 DEF OnlyClient
    <2>4. QED
      BY <1>1, <1>3, <2>1, <2>2, <2>3 DEF HandshakeInv
  <1>13. UnservedInv(c)' /\ ReceivingInv(c)'
    BY <1>3, <1>9, <1>10 DEF UnservedInv, ReceivingInv, Receiving, OnlyClient
  <1>14. StreamInv(c)'
    <2>1. HandshakePacket(window[c]) \in Packet
      BY DEF HandshakePacket, Packet, TypeInv, TypeOK
    <2>2. /\ Len(up'[c]) = Len(up[c]) + 1
          /\ \A k \in 1..Len(up[c]) : up'[c][k] = up[c][k]
          /\ up'[c][Len(up[c]) + 1] = HandshakePacket(window[c])
      BY <1>1, <2>1, LocalTypes, AppendProperties
    <2>3. Len(up[c]) \in Nat
      BY LocalTypes
    <2>4. \A k \in 1..Len(up[c]) : up[c][k] = HandshakePacket(window[c])
      <3>1. \A k \in 1..Len(up[c]) : ~(Len(up[c]) - k < 0)
        BY <2>3
      <3>2. QED
        BY <1>4, <1>7, <3>1 DEF ClientInv, StreamInv
    <2>5. \A k \in 1..Len(up'[c]) :
            up'[c][k] = HandshakePacket(window[c]) /\ ~(Len(up'[c]) - k < 0)
      <3>1. \A k \in 1..Len(up'[c]) : k \in 1..Len(up[c]) \/ k = Len(up[c]) + 1
        BY <2>2, <2>3
      <3>2. \A k \in 1..Len(up'[c]) : ~(Len(up'[c]) - k < 0)
        BY <2>2, <2>3
      <3>3. QED
        BY <2>2, <2>4, <3>1, <3>2
    <2>6. Emitted(c)' = 0
      BY <1>1, <1>7 DEF Emitted
    <2>7. QED
      BY <1>1, <2>5, <2>6 DEF StreamInv
  <1>15. PrintedInv(c)'
    <2>1. conn'[c] = "open" => conn[c] = "open"
      BY <1>1, AfterWhileTest
    <2>2. QED
      BY <1>1, <1>4, <2>1, PrintedSame DEF ClientInv
  <1>16. ClientInv(c)'
    BY <1>11, <1>12, <1>13, <1>14, <1>15 DEF ClientInv
  <1>17. QED
    BY <1>3, <1>5, <1>16, OthersKept DEF DeliveryInv

LEMMA RecvWindowAckKeeps ==
  ASSUME TypeInv, DeliveryInv, NEW c \in Clients, RecvWindowAck(c)
  PROVE  DeliveryInv'
  <1>1. /\ WhileTest(c) /\ cpc[c] = "wait_ack" /\ down[c] # <<>>
        /\ window' = window /\ frames' = frames /\ start' = start /\ up' = up
        /\ seqno' = seqno /\ printed' = printed /\ backlog' = backlog
    BY DEF RecvWindowAck
  <1>2. \A d \in Clients \ {c} : down'[d] = down[d]
    BY DEF RecvWindowAck, TypeInv, TypeOK
  <1>3. OnlyClient(c) /\ cpc'[c] \in {"window", "wait_ack", "exited"}
    BY <1>1, <1>2, AfterWhileTest DEF RecvWindowAck, OnlyClient, serverVars
  <1>4. ClientInv(c) /\ QueueInv
    BY DEF DeliveryInv
  <1>5. QueueInv' /\ (\A d \in Clients : InBacklog(d)' <=> InBacklog(d))
    BY <1>1, <1>3, <1>4, QueueKept
  <1>6. ~Unserved(c)
    BY <1>1, <1>4 DEF ClientInv, UnservedInv
  <1>7. ~Unserved(c)'
    BY <1>3, <1>5, <1>6 DEF Unserved, OnlyClient
  <1>8. conn'[c] = "open" => conn[c] = "open"
    BY <1>1, AfterWhileTest
  <1>9. SenderInv(c)'
    <2>1. conn[c] = "open"
      BY <1>1, <1>4 DEF ClientInv, SenderInv
    <2>2. conn'[c] # "open" => cpc'[c] = "exited"
      BY <1>1, <2>1, AfterWhileTest
    <2>3. Emitted(c) = start[c] + 1 => cpc'[c] = "exited"
      <3>1. SUFFICES ASSUME Emitted(c) = start[c] + 1
                     PROVE  ~(start[c] < Len(frames[c]))
        BY <1>1, AfterWhileTest
      <3>2. start[c] = Len(frames[c])
        BY <1>4, <3>1 DEF ClientInv, SenderInv
      <3>3. QED
        BY <3>2, LocalTypes
    <2>4. QED
      BY <1>1, <1>3, <1>4, <2>2, <2>3 DEF ClientInv, SenderInv, Emitted
  <1>10. UnservedInv(c)'
    BY <1>7 DEF UnservedInv
  <1>11. HandshakeInv(c)'
    BY <1>1, <1>3, <1>4 DEF ClientInv, HandshakeInv, OnlyClient, Emitted
  <1>12. ReceivingInv(c)'
    BY <1>1, <1>3, <1>4, <1>8 DEF ClientInv, ReceivingInv, Receiving, OnlyClient, Emitted
  <1>13. StreamInv(c)' /\ PrintedInv(c)'
    BY <1>1, <1>4, <1>8, StreamSame, PrintedSame DEF ClientInv
  <1>14. ClientInv(c)'
    BY <1>9, <1>10, <1>11, <1>12, <1>13 DEF ClientInv
  <1>15. QED
    BY <1>3, <1>5, <1>14, OthersKept DEF DeliveryInv

\* The step that sends the next packet of the stream, a datum or FIN.
LEMMA EmitKeeps ==
  ASSUME TypeInv, DeliveryInv, NEW c \in Clients, SendFrame(c) \/ SendFin(c)
  PROVE  DeliveryInv'
  <1>1. /\ cpc[c] = "window" /\ cpc'[c] \in {"window", "wait_ack"}
        /\ window' = window /\ frames' = frames /\ conn' = conn /\ down' = down
        /\ printed' = printed /\ backlog' = backlog
        /\ seqno'[c] = seqno[c] + 1
    BY DEF SendFrame, SendFin, WindowPc, TypeInv, TypeOK
  <1>2. OnlyClient(c)
    BY DEF SendFrame, SendFin, OnlyClient, serverVars, TypeInv, TypeOK
  <1>3. ClientInv(c) /\ QueueInv
    BY DEF DeliveryInv
  <1>4. QueueInv' /\ (\A d \in Clients : InBacklog(d)' <=> InBacklog(d))
    BY <1>1, <1>2, <1>3, QueueKept
  <1>5. Emitted(c) = start[c] /\ conn[c] = "open" /\ ~Unserved(c)
    <2>1. /\ start[c] <= Emitted(c) /\ Emitted(c) <= start[c] + 1
          /\ Emitted(c) # start[c] + 1 /\ conn[c] = "open"
      BY <1>1, <1>3 DEF ClientInv, SenderInv
    <2>2. start[c] \in Nat /\ Emitted(c) \in Int
      BY LocalTypes DEF Emitted
    <2>3. ~Unserved(c)
      BY <1>1, <1>3 DEF ClientInv, UnservedInv
    <2>4. QED
      BY <2>1, <2>2, <2>3
  <1>6. /\ start[c] \in Nat /\ seqno[c] = start[c] + 1 /\ Len(frames[c]) \in Nat
        /\ Len(up[c]) \in Nat /\ Len(printed[c]) \in Nat
    BY <1>5, LocalTypes DEF Emitted
  <1>7. ~Unserved(c)'
    BY <1>1, <1>2, <1>4, <1>5 DEF Unserved, OnlyClient
  <1>8. /\ start'[c] \in {start[c], start[c] + 1} /\ start'[c] <= Len(frames[c])
        /\ start'[c] = start[c] => cpc'[c] = "wait_ack" /\ start[c] = Len(frames[c])
        /\ up'[c] = Append(up[c], StreamPacket(c, seqno[c]))
        /\ StreamPacket(c, seqno[c]) \in Packet
    <2>1. CASE SendFrame(c)
      <3>1. /\ start'[c] = start[c] + 1 /\ start[c] < Len(frames[c])
            /\ up'[c] = Append(up[c], DataPacket(seqno[c], frames[c][start[c] + 1]))
        BY <2>1 DEF SendFrame, TypeInv, TypeOK
      <3>2. StreamPacket(c, seqno[c]) = DataPacket(seqno[c], frames[c][start[c] + 1])
        BY <1>6, <3>1 DEF StreamPacket
      <3>3. frames[c][start[c] + 1] \in Data
        BY <3>1, LocalTypes, NextElement
      <3>4. StreamPacket(c, seqno[c]) \in Packet
        BY <1>6, <3>2, <3>3 DEF DataPacket, Packet
      <3>5. QED
        BY <1>6, <3>1, <3>2, <3>4
    <2>2. CASE SendFin(c)
      <3>1. /\ start'[c] = start[c] /\ start[c] >= Len(frames[c])
            /\ cpc'[c] = "wait_ack"
            /\ up'[c] = Append(up[c], DataPacket(seqno[c], FIN))
        BY <2>2 DEF SendFin, TypeInv, TypeOK
      <3>2. start[c] = Len(frames[c])
        BY <1>3, <1>6, <3>1 DEF ClientInv, SenderInv
      <3>3. StreamPacket(c, seqno[c]) = DataPacket(seqno[c], FIN)
        BY <1>6, <3>2 DEF StreamPacket
      <3>4. StreamPacket(c, seqno[c]) \in Packet
        BY <1>6, <3>3 DEF DataPacket, Packet
      <3>5. QED
        BY <3>1, <3>2, <3>3, <3>4
    <2>3. QED
      BY <2>1, <2>2
  <1>9. StreamInv(c)' /\ Len(up'[c]) = Len(up[c]) + 1
    <2>1. Append(up[c], StreamPacket(c, seqno[c])) \in Seq(Packet)
          /\ Len(up'[c]) = Len(up[c]) + 1
          /\ \A k \in 1..Len(up[c]) : up'[c][k] = up[c][k]
          /\ up'[c][Len(up[c]) + 1] = StreamPacket(c, seqno[c])
      BY <1>8, LocalTypes, AppendProperties
    <2>2. seqno[c] >= 1
      BY <1>6
    <2>3. QED
      BY <1>1, <1>3, <1>8, <2>2, StreamExtended DEF ClientInv
  <1>10. Emitted(c)' = Emitted(c) + 1
    BY <1>1, <1>6 DEF Emitted
  <1>11. SenderInv(c)'
    <2>1. Emitted(c)' = start[c] + 1
      BY <1>5, <1>10
    <2>2. start'[c] <= Emitted(c)' /\ Emitted(c)' <= start'[c] + 1
      BY <1>6, <1>8, <2>1
    <2>3. Emitted(c)' = start'[c] + 1 => start'[c] = start[c]
      BY <1>6, <1>8, <2>1
    <2>4. seqno'[c] >= 1
      BY <1>1, <1>6
    <2>5. QED
      BY <1>1, <1>5, <1>8, <2>2, <2>3, <2>4 DEF SenderInv
  <1>12. UnservedInv(c)'
    BY <1>7 DEF UnservedInv
  <1>13. HandshakeInv(c)'
    <2>1. ASSUME cur = c, spc = "synack"
          PROVE  printed[c] = <<>> /\ Len(up[c]) = Emitted(c) + 1
      BY <1>1, <1>3, <2>1 DEF ClientInv, HandshakeInv
    <2>2. spc' = spc /\ cur' = cur
      BY <1>2 DEF OnlyClient
    <2>3. QED
      BY <1>1, <1>9, <1>10, <2>1, <2>2 DEF HandshakeInv
  <1>14. ReceivingInv(c)'
    <2>1. ASSUME Receiving(c)
          PROVE  /\ Len(up[c]) <= Emitted(c)
                 /\ flag => Emitted(c) <= Len(printed[c]) + Len(up[c])
                 /\ flag => Len(printed[c]) + Len(up[c]) = Emitted(c)
      BY <1>3, <1>5, <2>1 DEF ClientInv, ReceivingInv
    <2>2. Receiving(c)' <=> Receiving(c)
      BY <1>2 DEF OnlyClient, Receiving
    <2>3. printed' = printed /\ flag' = flag
      BY <1>2 DEF OnlyClient
    <2>4. ASSUME Receiving(c)
          PROVE  /\ Len(up'[c]) <= Emitted(c)'
                 /\ flag => Len(printed[c]) + Len(up'[c]) = Emitted(c)'
                 /\ flag => Emitted(c)' <= Len(printed[c]) + Len(up'[c])
      <3>1. Len(up[c]) <= start[c] /\ (flag => Len(printed[c]) + Len(up[c]) = start[c])
        BY <1>5, <2>1, <2>4
      <3>2. Len(up'[c]) = Len(up[c]) + 1 /\ Emitted(c)' = start[c] + 1
        BY <1>5, <1>9, <1>10
      <3>3. Len(up'[c]) <= Emitted(c)'
        BY <1>6, <3>1, <3>2
      <3>4. Len(printed[c]) + Len(up[c]) = start[c] =>
              /\ Len(printed[c]) + Len(up'[c]) = Emitted(c)'
              /\ Emitted(c)' <= Len(printed[c]) + Len(up'[c])
        <4>1. \A p, u, e \in Nat :
                p + u = e => p + (u + 1) = e + 1 /\ e + 1 <= p + (u + 1)
          OBVIOUS
        <4>2. Len(printed[c]) + Len(up[c]) = start[c] =>
                /\ Len(printed[c]) + (Len(up[c]) + 1) = start[c] + 1
                /\ start[c] + 1 <= Len(printed[c]) + (Len(up[c]) + 1)
          BY <1>6, <4>1
        <4>3. QED
          BY <3>2, <4>2, Zenon
      <3>5. flag => Len(printed[c]) + Len(up'[c]) = Emitted(c)'
                    /\ Emitted(c)' <= Len(printed[c]) + Len(up'[c])
        BY <3>1, <3>4, Zenon
      <3>6. QED
        BY <3>3, <3>5
    <2>5. cpc'[c] \notin {"idle", "input", "wait_reply"}
      BY <1>1
    <2>6. QED
      BY <2>2, <2>3, <2>4, <2>5 DEF ReceivingInv
  <1>15. PrintedInv(c)'
    <2>1. Len(printed[c]) <= start[c]
          /\ \A k \in 1..Len(printed[c]) :
               k <= start[c] => printed[c][k] = DataPacket(k, frames[c][k])
      BY <1>3, <1>5 DEF ClientInv, PrintedInv
    <2>2. \A k \in 1..Len(printed[c]) : k <= start[c]
      BY <1>6, <2>1
    <2>3. Len(printed[c]) <= start'[c]
      BY <1>6, <1>8, <2>1
    <2>4. QED
      BY <1>1, <2>1, <2>2, <2>3 DEF PrintedInv
  <1>16. ClientInv(c)'
    BY <1>9, <1>11, <1>12, <1>13, <1>14, <1>15 DEF ClientInv
  <1>17. QED
    BY <1>2, <1>4, <1>16, OthersKept DEF DeliveryInv

-----------------------------------------------------------------------------
(* The server's steps.                                                     *)

\* What the server's steps leave alone while it serves one connection.
OnlyServed ==
  /\ UNCHANGED <<cpc, window, frames, start, seqno, cur, backlog>>
  /\ \A d \in Clients \ {cur} :
       up'[d] = up[d] /\ down'[d] = down[d] /\ conn'[d] = conn[d]
       /\ printed'[d] = printed[d]

LEMMA NotServedKept ==
  ASSUME DeliveryInv, OnlyServed, NEW d \in Clients \ {cur}
  PROVE  ClientInv(d)'
  <1>1. Untouched(d)
    BY DEF OnlyServed, Untouched, Unserved, InBacklog, Receiving
  <1>2. QED
    BY <1>1, UntouchedKept DEF DeliveryInv

\* The queue does not change while a connection is served.
LEMMA ServedQueueKept ==
  ASSUME QueueInv, OnlyServed, spc # "accept", spc # "down",
         spc \in ServerPc, spc' = "recv" => t' # 0 /\ flag',
         spc' \in {"syn", "synack"} => flag'
  PROVE  QueueInv'
  BY DEF QueueInv, OnlyServed, InBacklog, ServerPc

\* A client that is served is not waiting to be.
LEMMA ServedClient ==
  ASSUME QueueInv, spc \in {"synack", "recv", "ack"}
  PROVE  ~Unserved(cur)
  BY DEF QueueInv, Unserved

LEMMA AcceptKeeps ==
  ASSUME TypeInv, DeliveryInv, Accept
  PROVE  DeliveryInv'
  <1>1. /\ spc = "accept" /\ spc' = "syn" /\ cur' = Head(backlog)
        /\ backlog # <<>> /\ backlog' = Tail(backlog) /\ flag' = TRUE
        /\ UNCHANGED <<clientVars, up, down, conn, printed>>
    BY DEF Accept
  <1>2. /\ backlog \in Seq(Clients) /\ Len(backlog) \in Nat
        /\ Len(backlog') = Len(backlog) - 1 /\ Len(backlog) >= 1
        /\ \A k \in 1..Len(backlog') : backlog'[k] = backlog[k + 1]
        /\ cur' = backlog[1]
    <2>1. backlog \in Seq(Clients)
      BY DEF TypeInv, TypeOK
    <2>2. Len(backlog) \in Nat /\ Len(backlog) # 0
      BY <1>1, <2>1, EmptySeq, LenProperties
    <2>3. Len(backlog') = Len(backlog) - 1
          /\ \A k \in 1..Len(backlog') : backlog'[k] = backlog[k + 1]
      BY <1>1, <2>1, HeadTailProperties
    <2>4. QED
      BY <1>1, <2>1, <2>2, <2>3
  <1>3. QueueInv
    BY DEF DeliveryInv
  <1>4. /\ \A k \in 1..Len(backlog') : k + 1 \in 1..Len(backlog) /\ k + 1 # 1
        /\ \A k \in 1..Len(backlog) : k = 1 \/ (k - 1 \in 1..Len(backlog') /\ (k - 1) + 1 = k)
        /\ 1 \in 1..Len(backlog)
    BY <1>2
  <1>5. \A k \in 1..Len(backlog') : backlog'[k] # cur'
    BY <1>2, <1>3, <1>4 DEF QueueInv
  <1>6. QueueInv'
    <2>1. \A j, k \in 1..Len(backlog') : backlog'[j] = backlog'[k] => j = k
      <3>1. SUFFICES ASSUME NEW j \in 1..Len(backlog'), NEW k \in 1..Len(backlog'),
                            backlog'[j] = backlog'[k]
                     PROVE  j = k
        OBVIOUS
      <3>2. j + 1 = k + 1
        BY <1>2, <1>3, <1>4, <3>1 DEF QueueInv
      <3>3. QED
        BY <3>2
    <2>2. \A k \in 1..Len(backlog') : cpc'[backlog'[k]] # "idle"
      BY <1>1, <1>2, <1>3, <1>4 DEF QueueInv, clientVars
    <2>3. cpc'[cur'] # "idle"
      BY <1>1, <1>2, <1>3, <1>4 DEF QueueInv, clientVars
    <2>4. QED
      BY <1>1, <1>5, <2>1, <2>2, <2>3 DEF QueueInv, InBacklog
  <1>7. ASSUME NEW d \in Clients
        PROVE  Untouched(d)
    <2>1. InBacklog(d) <=> (InBacklog(d)' \/ cur' = d)
      <3>1. InBacklog(d)' => InBacklog(d)
        <4>1. SUFFICES ASSUME NEW k \in 1..Len(backlog'), backlog'[k] = d
                       PROVE  InBacklog(d)
          BY DEF InBacklog
        <4>2. QED
          BY <1>2, <1>4, <4>1 DEF InBacklog
      <3>2. cur' = d => InBacklog(d)
        BY <1>2, <1>4 DEF InBacklog
      <3>3. InBacklog(d) => InBacklog(d)' \/ cur' = d
        <4>1. SUFFICES ASSUME NEW k \in 1..Len(backlog), backlog[k] = d, k # 1
                       PROVE  \E j \in 1..Len(backlog') : backlog'[j] = d
          BY <1>2 DEF InBacklog
        <4>2. k - 1 \in 1..Len(backlog') /\ backlog'[k - 1] = d
          BY <1>2, <1>4, <4>1
        <4>3. QED
          BY <4>2
      <3>4. QED
        BY <3>1, <3>2, <3>3
    <2>2. Unserved(d)' <=> Unserved(d)
      BY <1>1, <2>1 DEF Unserved, clientVars
    <2>3. QED
      BY <1>1, <2>2 DEF Untouched, Receiving, clientVars
  <1>8. QED
    BY <1>6, <1>7, UntouchedKept DEF DeliveryInv

\* What send() does to the connection never reopens it, and it reaches only
\* the connection it is called on.
LEMMA AfterSendAck ==
  ASSUME TypeInv, NEW n \in Nat, SendAck(cur, n)
  PROVE  /\ conn'[cur] = "open" => conn[cur] = "open"
         /\ conn'[cur] # "open" => conn[cur] # "open"
         /\ \A d \in Clients \ {cur} : conn'[d] = conn[d] /\ down'[d] = down[d]
  BY DEF SendAck, TypeInv, TypeOK

LEMMA RecvSynKeeps ==
  ASSUME TypeInv, DeliveryInv, RecvSyn
  PROVE  DeliveryInv'
  <1>1. /\ spc = "syn" /\ spc' = "synack" /\ SendAck(cur, 0) /\ cur' = cur
        /\ UNCHANGED <<cpc, window, frames, start, seqno, backlog, flag, printed>>
        /\ \/ up'[cur] = Tail(up[cur]) /\ up[cur] # <<>>
           \/ up'[cur] = up[cur] /\ AtEof(cur)
        /\ \A d \in Clients \ {cur} : up'[d] = up[d]
    <2>1. /\ spc = "syn" /\ spc' = "synack" /\ SendAck(cur, 0) /\ cur' = cur
          /\ UNCHANGED <<cpc, window, frames, start, seqno, backlog, flag, printed>>
      BY DEF RecvSyn, clientVars
    <2>2. CASE up[cur] # <<>> /\ up' = [up EXCEPT ![cur] = Tail(@)]
      BY <2>1, <2>2 DEF TypeInv, TypeOK
    <2>3. CASE AtEof(cur) /\ UNCHANGED up
      BY <2>1, <2>3
    <2>4. QED
      BY <2>2, <2>3 DEF RecvSyn
  <1>2. /\ conn'[cur] = "open" => conn[cur] = "open"
        /\ conn'[cur] # "open" => conn[cur] # "open"
        /\ \A d \in Clients \ {cur} : conn'[d] = conn[d] /\ down'[d] = down[d]
    BY <1>1, AfterSendAck
  <1>3. OnlyServed
    BY <1>1, <1>2 DEF OnlyServed
  <1>4. cur \in Clients /\ ClientInv(cur) /\ QueueInv
    BY DEF DeliveryInv, TypeInv, TypeOK
  <1>5. QueueInv' /\ ~Unserved(cur)'
    BY <1>1, <1>4 DEF QueueInv, Unserved, InBacklog
  <1>6. Unserved(cur) /\ cpc[cur] # "idle"
    BY <1>1, <1>4 DEF Unserved, QueueInv
  <1>7. /\ seqno[cur] = 1 /\ printed[cur] = <<>> /\ Len(up[cur]) <= 1
        /\ cpc[cur] \in {"input", "wait_reply", "dead"}
        /\ cpc[cur] = "input" => up[cur] = <<>>
    BY <1>4, <1>6 DEF ClientInv, UnservedInv
  <1>8. Emitted(cur) = 0
    BY <1>7 DEF Emitted
  <1>9. up'[cur] = <<>> /\ cpc[cur] \in {"wait_reply", "dead"}
    <2>1. CASE up[cur] # <<>> /\ up'[cur] = Tail(up[cur])
      <3>1. Len(up'[cur]) = Len(up[cur]) - 1 /\ up'[cur] \in Seq(Packet)
        BY <1>4, <2>1, LocalTypes, HeadTailProperties
      <3>2. Len(up'[cur]) \in Nat /\ Len(up[cur]) \in Nat
        BY <1>4, <3>1, LocalTypes, LenProperties
      <3>3. Len(up'[cur]) = 0
        <4>1. \A m, n \in Nat : n <= 1 /\ m = n - 1 => m = 0
          OBVIOUS
        <4>2. Len(up[cur]) <= 1
          BY <1>7
        <4>3. QED
          BY <3>1, <3>2, <4>1, <4>2, Zenon
      <3>4. up'[cur] = <<>>
        BY <3>1, <3>3, EmptySeq
      <3>5. QED
        BY <1>7, <2>1, <3>4
    <2>2. CASE up'[cur] = up[cur] /\ AtEof(cur)
      BY <1>4, <1>7, <2>2 DEF AtEof, ClientInv, SenderInv
    <2>3. QED
      BY <1>1, <2>1, <2>2
  <1>10. SenderInv(cur)'
    BY <1>1, <1>2, <1>4, <1>9 DEF ClientInv, SenderInv, Emitted
  <1>11. UnservedInv(cur)'
    BY <1>1, <1>5 DEF UnservedInv
  <1>12. HandshakeInv(cur)'
    BY <1>1, <1>7, <1>8, <1>9 DEF HandshakeInv, Emitted
  <1>13. ReceivingInv(cur)'
    BY <1>1 DEF ReceivingInv, Receiving
  <1>14. StreamInv(cur)'
    BY <1>1, <1>9 DEF StreamInv
  <1>15. PrintedInv(cur)'
    BY <1>1, <1>2, <1>4, PrintedSame DEF ClientInv
  <1>16. ClientInv(cur)'
    BY <1>10, <1>11, <1>12, <1>13, <1>14, <1>15 DEF ClientInv
  <1>17. \A d \in Clients : ClientInv(d)'
    BY <1>1, <1>3, <1>16, NotServedKept
  <1>18. QED
    BY <1>5, <1>17 DEF DeliveryInv

LEMMA RecvSynAckKeeps ==
  ASSUME TypeInv, DeliveryInv, RecvSynAck
  PROVE  DeliveryInv'
  <1>1. /\ spc = "synack" /\ spc' = ReceiverPc(win) /\ t' = win /\ cur' = cur
        /\ flag' = flag /\ printed' = printed /\ down' = down
        /\ UNCHANGED <<cpc, window, frames, start, seqno, backlog>>
    BY DEF RecvSynAck, clientVars
  <1>2. /\ \/ up[cur] # <<>> /\ up'[cur] = Tail(up[cur]) /\ conn'[cur] = conn[cur]
           \/ AtEof(cur) /\ up'[cur] = up[cur] /\ conn'[cur] # "open"
        /\ \A d \in Clients \ {cur} : up'[d] = up[d] /\ conn'[d] = conn[d]
    <2>1. CASE up[cur] # <<>> /\ up' = [up EXCEPT ![cur] = Tail(@)] /\ UNCHANGED conn
      BY <2>1 DEF TypeInv, TypeOK
    <2>2. CASE /\ AtEof(cur) /\ UNCHANGED up
               /\ conn' = [conn EXCEPT ![cur] = IF @ = "rst" THEN "broken" ELSE @]
      BY <2>2 DEF AtEof, TypeInv, TypeOK
    <2>3. QED
      BY <2>1, <2>2 DEF RecvSynAck
  <1>3. OnlyServed
    BY <1>1, <1>2 DEF OnlyServed
  <1>4. cur \in Clients /\ ClientInv(cur) /\ QueueInv /\ spc \in ServerPc
    BY DEF DeliveryInv, TypeInv, TypeOK
  <1>5. flag
    BY <1>1, <1>4 DEF QueueInv
  <1>6. QueueInv'
    <2>1. spc' = "recv" => t' # 0 /\ flag'
      BY <1>1, <1>5 DEF ReceiverPc
    <2>2. spc' \in {"recv", "ack"}
      BY <1>1 DEF ReceiverPc
    <2>3. QED
      BY <1>1, <1>3, <1>4, <2>1, <2>2, ServedQueueKept
  <1>7. ~Unserved(cur)'
    BY <1>1, <1>4, ServedClient DEF Unserved, InBacklog, ReceiverPc
  <1>8. printed[cur] = <<>> /\ Len(printed[cur]) = 0
    BY <1>1, <1>4 DEF ClientInv, HandshakeInv
  <1>9. /\ Emitted(cur)' = Emitted(cur) /\ Emitted(cur) \in Nat
        /\ Len(up[cur]) \in Nat
    <2>1. seqno[cur] >= 1 /\ seqno[cur] \in Nat
      BY <1>4, LocalTypes DEF ClientInv, SenderInv
    <2>2. QED
      BY <1>1, <1>4, <2>1, LocalTypes DEF Emitted
  <1>10. /\ StreamInv(cur)' /\ Len(up'[cur]) = Emitted(cur)
         /\ cpc[cur] \notin {"idle", "input", "wait_reply"}
    <2>1. CASE up[cur] # <<>> /\ up'[cur] = Tail(up[cur])
      <3>1. Len(up[cur]) = Emitted(cur) + 1 /\ cpc[cur] \notin {"idle", "input", "wait_reply"}
        BY <1>1, <1>4, <2>1 DEF ClientInv, HandshakeInv
      <3>2. StreamInv(cur)' /\ Len(up'[cur]) = Len(up[cur]) - 1
        <4>1. StreamInv(cur) /\ seqno' = seqno /\ frames' = frames /\ window' = window
          BY <1>1, <1>4 DEF ClientInv
        <4>2. QED
          BY <1>1, <1>4, <2>1, <4>1, StreamShortened
      <3>3. Len(up'[cur]) = Emitted(cur)
        BY <1>9, <3>1, <3>2
      <3>4. QED
        BY <3>1, <3>2, <3>3
    <2>2. CASE AtEof(cur) /\ up'[cur] = up[cur]
      <3>1. up[cur] = <<>> /\ conn[cur] # "open"
        BY <2>2 DEF AtEof
      <3>2. cpc[cur] \in {"exited", "dead"}
        BY <1>4, <3>1 DEF ClientInv, SenderInv
      <3>3. Len(up[cur]) = 0 /\ (Len(up[cur]) = Emitted(cur) + 1 \/ Emitted(cur) = 0)
        BY <1>1, <1>4, <3>1 DEF ClientInv, HandshakeInv
      <3>4. Emitted(cur) = 0
        BY <1>9, <3>3
      <3>5. StreamInv(cur)'
        BY <1>1, <1>4, <2>2, StreamSame DEF ClientInv
      <3>6. QED
        BY <2>2, <3>2, <3>3, <3>4, <3>5
    <2>3. QED
      BY <1>2, <2>1, <2>2
  <1>11. conn'[cur] = "open" <=> conn[cur] = "open"
    BY <1>2 DEF AtEof
  <1>12. SenderInv(cur)'
    BY <1>1, <1>4, <1>10, <1>11 DEF ClientInv, SenderInv, Emitted
  <1>13. UnservedInv(cur)' /\ HandshakeInv(cur)'
    BY <1>1, <1>7 DEF UnservedInv, HandshakeInv, ReceiverPc
  <1>14. ReceivingInv(cur)'
    <2>1. \A m, n \in Nat : m = n => m <= n /\ n <= 0 + m /\ 0 + m = n
      OBVIOUS
    <2>2. /\ Len(up'[cur]) <= Emitted(cur)'
          /\ Emitted(cur)' <= Len(printed'[cur]) + Len(up'[cur])
          /\ Len(printed'[cur]) + Len(up'[cur]) = Emitted(cur)'
      BY <1>1, <1>8, <1>9, <1>10, <2>1
    <2>3. QED
      BY <1>1, <1>10, <2>2 DEF ReceivingInv
  <1>15. PrintedInv(cur)'
    BY <1>1, <1>4, <1>11, PrintedSame DEF ClientInv
  <1>16. ClientInv(cur)'
    BY <1>10, <1>12, <1>13, <1>14, <1>15 DEF ClientInv
  <1>17. \A d \in Clients : ClientInv(d)'
    BY <1>1, <1>3, <1>16, NotServedKept
  <1>18. QED
    BY <1>6, <1>17 DEF DeliveryInv

\* The server ends, by exit or by SIGPIPE.
LEMMA DownKeeps ==
  ASSUME TypeInv, DeliveryInv, RecvFailed \/ SigPipe
  PROVE  DeliveryInv'
  <1>1. /\ spc \in {"recv", "ack"} /\ spc' = "down" /\ flag' = flag
        /\ UNCHANGED <<clientVars, netVars, cur, printed>>
    BY DEF RecvFailed, SigPipe
  <1>2. QueueInv'
    BY <1>1 DEF DeliveryInv, QueueInv, clientVars, netVars
  <1>3. ASSUME NEW d \in Clients
        PROVE  Untouched(d)
    BY <1>1 DEF Untouched, Unserved, InBacklog, Receiving, clientVars, netVars
  <1>4. QED
    BY <1>2, <1>3, UntouchedKept DEF DeliveryInv

LEMMA SendWindowAckKeeps ==
  ASSUME TypeInv, DeliveryInv, SendWindowAck
  PROVE  DeliveryInv'
  <1>1. /\ spc = "ack" /\ SendAck(cur, AckNum) /\ cur' = cur
        /\ flag' = flag /\ printed' = printed /\ up' = up
        /\ UNCHANGED <<cpc, window, frames, start, seqno, backlog>>
        /\ \/ flag /\ t' = win /\ spc' = ReceiverPc(win)
           \/ ~flag /\ spc' = "accept"
    BY DEF SendWindowAck, AckNum, clientVars
  <1>2. AckNum \in Nat
    BY DEF AckNum, TypeInv, TypeOK
  <1>3. /\ conn'[cur] = "open" => conn[cur] = "open"
        /\ conn'[cur] # "open" => conn[cur] # "open"
        /\ \A d \in Clients \ {cur} : conn'[d] = conn[d] /\ down'[d] = down[d]
    BY <1>1, <1>2, AfterSendAck
  <1>4. OnlyServed
    BY <1>1, <1>3 DEF OnlyServed
  <1>5. cur \in Clients /\ ClientInv(cur) /\ QueueInv /\ spc \in ServerPc
    BY DEF DeliveryInv, TypeInv, TypeOK
  <1>6. QueueInv' /\ ~Unserved(cur)'
    <2>1. spc' = "recv" => t' # 0 /\ flag'
      BY <1>1 DEF ReceiverPc
    <2>2. spc' \notin {"syn", "synack"}
      BY <1>1 DEF ReceiverPc
    <2>3. QueueInv'
      BY <1>1, <1>4, <1>5, <2>1, <2>2, ServedQueueKept
    <2>4. ~Unserved(cur)
      BY <1>1, <1>5, ServedClient
    <2>5. QED
      BY <1>1, <2>2, <2>3, <2>4 DEF Unserved, InBacklog
  <1>7. SenderInv(cur)'
    BY <1>1, <1>3, <1>5, <1>6 DEF ClientInv, SenderInv, Emitted, Unserved, InBacklog
  <1>8. UnservedInv(cur)' /\ HandshakeInv(cur)'
    BY <1>1, <1>6 DEF UnservedInv, HandshakeInv, ReceiverPc
  <1>9. ReceivingInv(cur)'
    <2>1. Receiving(cur) /\ Emitted(cur)' = Emitted(cur)
      BY <1>1 DEF Receiving, Emitted
    <2>2. QED
      BY <1>1, <1>3, <1>5, <2>1 DEF ClientInv, ReceivingInv
  <1>10. StreamInv(cur)' /\ PrintedInv(cur)'
    BY <1>1, <1>3, <1>5, StreamSame, PrintedSame DEF ClientInv
  <1>11. ClientInv(cur)'
    BY <1>7, <1>8, <1>9, <1>10 DEF ClientInv
  <1>12. \A d \in Clients : ClientInv(d)'
    BY <1>1, <1>4, <1>11, NotServedKept
  <1>13. QED
    BY <1>6, <1>12 DEF DeliveryInv

\* Where the server stands in the stream when recv takes the next packet: it
\* is the one after those printed.
LEMMA NextOfStream ==
  ASSUME TypeInv, DeliveryInv, spc = "recv", up[cur] # <<>>
  PROVE  /\ Received = StreamPacket(cur, Len(printed[cur]) + 1)
         /\ Len(printed[cur]) + Len(up[cur]) = Emitted(cur)
         /\ Len(up[cur]) >= 1
  <1>1. cur \in Clients /\ ClientInv(cur) /\ Receiving(cur) /\ flag
    BY DEF DeliveryInv, QueueInv, Receiving, TypeInv, TypeOK
  <1>2. Len(printed[cur]) + Len(up[cur]) = Emitted(cur)
    BY <1>1 DEF ClientInv, ReceivingInv
  <1>3. Len(up[cur]) \in Nat /\ Len(printed[cur]) \in Nat /\ Len(up[cur]) # 0
    BY <1>1, LocalTypes, EmptySeq
  <1>4. /\ 1 \in 1..Len(up[cur]) /\ Len(up[cur]) - 1 < Emitted(cur)
        /\ Emitted(cur) - (Len(up[cur]) - 1) = Len(printed[cur]) + 1
        /\ Len(up[cur]) >= 1
    <2>1. \A m, n \in Nat : n # 0 =>
            /\ 1 \in 1..n /\ n - 1 < m + n /\ (m + n) - (n - 1) = m + 1 /\ n >= 1
      OBVIOUS
    <2>2. /\ 1 \in 1..Len(up[cur]) /\ Len(up[cur]) >= 1
          /\ Len(up[cur]) - 1 < Len(printed[cur]) + Len(up[cur])
          /\ (Len(printed[cur]) + Len(up[cur])) - (Len(up[cur]) - 1) = Len(printed[cur]) + 1
      BY <1>3, <2>1, Zenon
    <2>3. QED
      BY <1>2, <2>2, Zenon
  <1>5. up[cur][1] = StreamPacket(cur, Len(printed[cur]) + 1)
    BY <1>1, <1>4 DEF ClientInv, StreamInv
  <1>6. Received = up[cur][1]
    BY DEF Received
  <1>7. QED
    BY <1>2, <1>4, <1>5, <1>6, Zenon

\* What the received packet does to the order of what is printed.
LEMMA PrintKeeps ==
  ASSUME TypeInv, DeliveryInv, RecvFrame, Received.data # FIN,
         printed'[cur] = Append(printed[cur], Received),
         start' = start, frames' = frames, conn' = conn, cur' = cur
  PROVE  /\ PrintedInv(cur)'
         /\ Len(printed'[cur]) = Len(printed[cur]) + 1
  <1>1. /\ cur \in Clients /\ ClientInv(cur) /\ Receiving(cur) /\ flag
        /\ spc = "recv" /\ (up[cur] # <<>> \/ conn[cur] # "open")
    BY DEF RecvFrame, StopOnFin, PrintPacket, IsFin, Rest, DeliveryInv, QueueInv, Receiving, TypeInv, TypeOK
  <1>2. Received \in Packet
    BY <1>1, LocalTypes, HeadTailProperties DEF Received, TypeInv, TypeOK
  <1>3. /\ Len(printed'[cur]) = Len(printed[cur]) + 1
        /\ \A k \in 1..Len(printed[cur]) : printed'[cur][k] = printed[cur][k]
        /\ printed'[cur][Len(printed[cur]) + 1] = Received
    BY <1>1, <1>2, LocalTypes, AppendProperties
  <1>4. /\ Len(printed[cur]) \in Nat /\ Len(up[cur]) \in Nat
        /\ start[cur] \in Nat /\ Len(frames[cur]) \in Nat
    BY <1>1, LocalTypes
  <1>5. /\ start[cur] <= Emitted(cur) /\ Emitted(cur) <= start[cur] + 1
        /\ Emitted(cur) = start[cur] + 1 => start[cur] = Len(frames[cur])
        /\ Emitted(cur) \in Int
    BY <1>1, LocalTypes DEF ClientInv, SenderInv, Emitted
  <1>6. Len(printed[cur]) + 1 <= start[cur]
          => Received = DataPacket(Len(printed[cur]) + 1, frames[cur][Len(printed[cur]) + 1])
    <2>1. CASE up[cur] # <<>>
      <3>1. start[cur] <= Len(frames[cur])
        BY <1>1 DEF ClientInv, SenderInv
      <3>2. Received = StreamPacket(cur, Len(printed[cur]) + 1)
        BY <1>1, <2>1, NextOfStream
      <3>3. Len(printed[cur]) + 1 <= start[cur]
              => Len(printed[cur]) + 1 <= Len(frames[cur])
        BY <1>4, <3>1
      <3>4. QED
        BY <3>2, <3>3 DEF StreamPacket
    <2>2. CASE up[cur] = <<>>
      <3>1. Len(up[cur]) = 0 /\ Emitted(cur) <= Len(printed[cur]) + Len(up[cur])
        BY <1>1, <2>2 DEF ClientInv, ReceivingInv
      <3>2. ~(Len(printed[cur]) + 1 <= start[cur])
        BY <1>4, <1>5, <3>1
      <3>3. QED
        BY <3>2
    <2>3. QED
      BY <2>1, <2>2
  <1>7. conn[cur] = "open" => Len(printed[cur]) + 1 <= start[cur]
    <2>1. SUFFICES ASSUME up[cur] # <<>>
                   PROVE  Len(printed[cur]) + 1 <= start[cur]
      BY <1>1
    <2>2. /\ Received = StreamPacket(cur, Len(printed[cur]) + 1)
          /\ Len(printed[cur]) + Len(up[cur]) = Emitted(cur)
          /\ Len(up[cur]) >= 1
      BY <1>1, <2>1, NextOfStream
    <2>3. Len(printed[cur]) + 1 <= Len(frames[cur])
      BY <2>2 DEF StreamPacket, DataPacket
    <2>4. Len(printed[cur]) + 1 <= Emitted(cur)
      <3>1. \A m, n \in Nat : n >= 1 => m + 1 <= m + n
        OBVIOUS
      <3>2. Len(printed[cur]) + 1 <= Len(printed[cur]) + Len(up[cur])
        BY <1>4, <2>2, <3>1
      <3>3. QED
        BY <2>2, <3>2, Zenon
    <2>5. CASE Emitted(cur) = start[cur] + 1
      BY <1>5, <2>3, <2>5
    <2>6. CASE Emitted(cur) # start[cur] + 1
      <3>1. Emitted(cur) = start[cur]
        BY <1>4, <1>5, <2>6
      <3>2. QED
        BY <2>4, <3>1
    <2>7. QED
      BY <2>5, <2>6
  <1>8. \A k \in 1..Len(printed'[cur]) :
          k <= start[cur] => printed'[cur][k] = DataPacket(k, frames[cur][k])
    <2>1. \A k \in 1..Len(printed[cur]) :
            k <= start[cur] => printed'[cur][k] = DataPacket(k, frames[cur][k])
      BY <1>1, <1>3 DEF ClientInv, PrintedInv
    <2>2. \A k \in 1..Len(printed'[cur]) :
            k \in 1..Len(printed[cur]) \/ k = Len(printed[cur]) + 1
      BY <1>3, <1>4
    <2>3. QED
      BY <1>3, <1>6, <2>1, <2>2
  <1>9. conn'[cur] = "open" => Len(printed'[cur]) <= start'[cur]
    BY <1>3, <1>7, Zenon
  <1>10. \A k \in 1..Len(printed'[cur]) :
           k <= start'[cur] => printed'[cur][k] = DataPacket(k, frames'[cur][k])
    BY <1>8, Zenon
  <1>11. QED
    BY <1>3, <1>9, <1>10 DEF PrintedInv

LEMMA RecvFrameKeeps ==
  ASSUME TypeInv, DeliveryInv, RecvFrame
  PROVE  DeliveryInv'
  <1>1. /\ spc = "recv" /\ spc' \in {"recv", "ack"} /\ cur' = cur
        /\ up[cur] # <<>> \/ conn[cur] \in {"fin", "broken"}
        /\ conn' = conn /\ down' = down
        /\ UNCHANGED <<cpc, window, frames, start, seqno, backlog>>
    BY DEF RecvFrame, StopOnFin, PrintPacket, IsFin, Rest, clientVars, ReceiverPc
  <1>2. /\ \/ Received.data = FIN /\ ~flag' /\ spc' = "ack" /\ printed' = printed
           \/ /\ Received.data # FIN /\ flag' = flag
              /\ spc' = ReceiverPc(t - 1) /\ t' = t - 1
              /\ printed'[cur] = Append(printed[cur], Received)
        /\ \A d \in Clients \ {cur} : printed'[d] = printed[d]
    BY DEF RecvFrame, StopOnFin, PrintPacket, IsFin, Rest, TypeInv, TypeOK
  <1>3. /\ \A d \in Clients \ {cur} : up'[d] = up[d]
        /\ up[cur] # <<>> => up'[cur] = Tail(up[cur])
        /\ up[cur] = <<>> => up'[cur] = <<>>
    BY DEF RecvFrame, StopOnFin, PrintPacket, IsFin, Rest, TypeInv, TypeOK
  <1>4. OnlyServed
    BY <1>1, <1>2, <1>3 DEF OnlyServed
  <1>5. /\ cur \in Clients /\ ClientInv(cur) /\ QueueInv /\ spc \in ServerPc
        /\ Receiving(cur) /\ flag
    BY <1>1 DEF DeliveryInv, QueueInv, Receiving, TypeInv, TypeOK
  <1>6. QueueInv'
    <2>1. spc' = "recv" => t' # 0 /\ flag'
      BY <1>2, <1>5 DEF ReceiverPc
    <2>2. QED
      BY <1>1, <1>4, <1>5, <2>1, ServedQueueKept
  <1>7. ~Unserved(cur)'
    BY <1>1, <1>5, ServedClient DEF Unserved, InBacklog
  <1>8. /\ StreamInv(cur)'
        /\ up[cur] # <<>> => Len(up'[cur]) = Len(up[cur]) - 1
    <2>1. CASE up[cur] # <<>>
      <3>1. seqno' = seqno /\ frames' = frames /\ window' = window /\ StreamInv(cur)
        BY <1>1, <1>5 DEF ClientInv
      <3>2. QED
        <4>1. up'[cur] = Tail(up[cur])
          BY <1>3, <2>1
        <4>2. QED
          BY <1>1, <1>5, <2>1, <3>1, <4>1, StreamShortened
    <2>2. CASE up[cur] = <<>>
      BY <1>1, <1>3, <1>5, <2>2, StreamSame DEF ClientInv
    <2>3. QED
      BY <2>1, <2>2
  <1>9. /\ Emitted(cur)' = Emitted(cur) /\ Emitted(cur) \in Nat
        /\ Len(up[cur]) \in Nat /\ Len(printed[cur]) \in Nat
    <2>1. seqno[cur] >= 1 /\ seqno[cur] \in Nat
      BY <1>5, LocalTypes DEF ClientInv, SenderInv
    <2>2. QED
      BY <1>1, <1>5, <2>1, LocalTypes DEF Emitted
  <1>10. SenderInv(cur)'
    BY <1>1, <1>5, <1>7 DEF ClientInv, SenderInv, Emitted, ReceivingInv
  <1>11. UnservedInv(cur)' /\ HandshakeInv(cur)'
    BY <1>1, <1>7 DEF UnservedInv, HandshakeInv
  <1>12. Len(up'[cur]) <= Emitted(cur)' /\ cpc'[cur] \notin {"idle", "input", "wait_reply"}
    <2>1. Len(up[cur]) <= Emitted(cur) /\ cpc[cur] \notin {"idle", "input", "wait_reply"}
      BY <1>5 DEF ClientInv, ReceivingInv
    <2>2. Len(up'[cur]) = Len(up[cur]) \/ Len(up'[cur]) = Len(up[cur]) - 1
      BY <1>3, <1>8
    <2>3. QED
      BY <1>1, <1>9, <2>1, <2>2
  <1>13. PrintedInv(cur)' /\ ReceivingInv(cur)'
    <2>1. CASE Received.data = FIN
      <3>1. ~flag' /\ printed' = printed
        BY <1>2, <2>1
      <3>2. PrintedInv(cur)'
        BY <1>1, <1>5, <3>1, PrintedSame DEF ClientInv
      <3>3. QED
        BY <1>1, <1>12, <3>1, <3>2 DEF ReceivingInv
    <2>2. CASE Received.data # FIN
      <3>1. printed'[cur] = Append(printed[cur], Received)
        BY <1>2, <2>2
      <3>2. PrintedInv(cur)' /\ Len(printed'[cur]) = Len(printed[cur]) + 1
        BY <1>1, <2>2, <3>1, PrintKeeps
      <3>3. up[cur] # <<>> => Len(printed'[cur]) + Len(up'[cur]) = Emitted(cur)'
        <4>1. up[cur] # <<>> =>
                /\ Len(printed[cur]) + Len(up[cur]) = Emitted(cur)
                /\ Len(up[cur]) >= 1 /\ Len(up'[cur]) = Len(up[cur]) - 1
          BY <1>1, <1>8, NextOfStream
        <4>2. \A m, n, e \in Nat : n >= 1 /\ m + n = e => (m + 1) + (n - 1) = e
          OBVIOUS
        <4>3. QED
          BY <1>9, <3>2, <4>1, <4>2
      <3>4. up[cur] = <<>> => Emitted(cur)' <= Len(printed'[cur]) + Len(up'[cur])
        <4>1. Emitted(cur) <= Len(printed[cur]) + Len(up[cur])
          BY <1>5 DEF ClientInv, ReceivingInv
        <4>2. up[cur] = <<>> => Len(up[cur]) = 0 /\ Len(up'[cur]) = 0
          BY <1>3
        <4>3. \A m, e \in Nat : e <= m + 0 => e <= (m + 1) + 0
          OBVIOUS
        <4>4. QED
          BY <1>9, <3>2, <4>1, <4>2, <4>3
      <3>5. up[cur] = <<>> => up'[cur] = <<>> /\ conn'[cur] # "open"
        BY <1>1, <1>3
      <3>6. Emitted(cur)' <= Len(printed'[cur]) + Len(up'[cur])
        <4>1. Emitted(cur)' \in Nat
          BY <1>9
        <4>2. \A e \in Nat : e <= e
          OBVIOUS
        <4>3. QED
          BY <3>3, <3>4, <4>1, <4>2, Zenon
      <3>7. QED
        BY <1>1, <1>12, <3>2, <3>3, <3>5, <3>6 DEF ReceivingInv
    <2>3. QED
      BY <2>1, <2>2
  <1>14. ClientInv(cur)'
    BY <1>8, <1>10, <1>11, <1>13 DEF ClientInv
  <1>15. \A d \in Clients : ClientInv(d)'
    BY <1>1, <1>4, <1>14, NotServedKept
  <1>16. QED
    BY <1>6, <1>15 DEF DeliveryInv

-----------------------------------------------------------------------------
(* The theorems.                                                           *)

LEMMA DeliveryInit == Init => DeliveryInv
  <1> SUFFICES ASSUME Init PROVE DeliveryInv
    OBVIOUS
  <1>1. Len(backlog) = 0 /\ spc = "accept"
    BY DEF Init
  <1>2. QueueInv
    BY <1>1 DEF QueueInv
  <1>3. ASSUME NEW c \in Clients PROVE ClientInv(c)
    <2>1. /\ cpc[c] = "idle" /\ start[c] = 0 /\ seqno[c] = 1 /\ frames[c] = <<>>
          /\ up[c] = <<>> /\ down[c] = <<>> /\ conn[c] = "open" /\ printed[c] = <<>>
      BY DEF Init
    <2>2. Len(frames[c]) = 0 /\ Len(up[c]) = 0 /\ Len(printed[c]) = 0 /\ Emitted(c) = 0
      BY <2>1 DEF Emitted
    <2>3. SenderInv(c) /\ UnservedInv(c)
      BY <2>1, <2>2 DEF SenderInv, UnservedInv
    <2>4. HandshakeInv(c) /\ ReceivingInv(c)
      BY <1>1 DEF HandshakeInv, ReceivingInv, Receiving
    <2>5. StreamInv(c) /\ PrintedInv(c)
      BY <2>1, <2>2 DEF StreamInv, PrintedInv
    <2>6. QED
      BY <2>3, <2>4, <2>5 DEF ClientInv
  <1>4. QED
    BY <1>2, <1>3 DEF DeliveryInv

LEMMA StutterKeeps ==
  ASSUME DeliveryInv, UNCHANGED vars
  PROVE  DeliveryInv'
  <1>1. QueueInv'
    BY DEF DeliveryInv, QueueInv, InBacklog, vars, clientVars, netVars, serverVars
  <1>2. ASSUME NEW d \in Clients PROVE Untouched(d)
    BY DEF Untouched, Unserved, InBacklog, Receiving, vars, clientVars, netVars, serverVars
  <1>3. QED
    BY <1>1, <1>2, UntouchedKept DEF DeliveryInv

LEMMA DeliveryStep == TypeInv /\ DeliveryInv /\ [Next]_vars => DeliveryInv'
  <1> SUFFICES ASSUME TypeInv, DeliveryInv, [Next]_vars PROVE DeliveryInv'
    OBVIOUS
  <1>1. ASSUME NEW c \in Clients, ClientStep(c) \/ ClientKilled(c)
        PROVE  DeliveryInv'
    BY <1>1, ConnectKeeps, SendSynKeeps, RecvReplyKeeps, EmitKeeps, RecvWindowAckKeeps,
       KilledKeeps DEF ClientStep
  <1>2. CASE ServerStep
    BY <1>2, AcceptKeeps, RecvSynKeeps, RecvSynAckKeeps, RecvFrameKeeps, DownKeeps,
       SendWindowAckKeeps DEF ServerStep
  <1>3. CASE UNCHANGED vars
    BY <1>3, StutterKeeps
  <1>4. QED
    BY <1>1, <1>2, <1>3 DEF Next, Quiescent

\* Wherever the two processes are, what was printed and what is under way is
\* the stream the client sent: the inductive invariant of the exercise.
THEOREM Delivery == Spec => []DeliveryInv
  <1>1. Init => TypeInv /\ DeliveryInv
    BY TypeInit, DeliveryInit
  <1>2. TypeInv /\ DeliveryInv /\ [Next]_vars => (TypeInv /\ DeliveryInv)'
    BY TypeStep, DeliveryStep
  <1>3. QED
    BY <1>1, <1>2, PTL DEF Spec

\* The server prints each client's data in order, each datum once, and while
\* the client lives nothing it has not sent.
THEOREM PrintedInOrder == Spec => []InOrder
  <1>1. TypeInv /\ DeliveryInv => InOrder
    <2>1. SUFFICES ASSUME TypeInv, DeliveryInv, NEW c \in Clients
                   PROVE  /\ \A k \in DOMAIN printed[c] :
                               k <= start[c] => printed[c][k] = DataPacket(k, frames[c][k])
                          /\ conn[c] = "open" => Len(printed[c]) <= start[c]
      BY DEF InOrder
    <2>2. DOMAIN printed[c] = 1..Len(printed[c])
      BY <2>1, LocalTypes, LenProperties
    <2>3. PrintedInv(c)
      BY <2>1 DEF DeliveryInv, ClientInv
    <2>4. QED
      BY <2>2, <2>3 DEF PrintedInv
  <1>2. Spec => [](TypeInv /\ DeliveryInv)
    BY TypeInit, DeliveryInit, TypeStep, DeliveryStep, PTL DEF Spec
  <1>3. QED
    BY <1>1, <1>2, PTL

\* Until the server sees FIN every packet a living client sent is printed or
\* under way, and what is under way is the rest of its stream, in order.
THEOREM NothingIsLost == Spec => []NothingLost
  <1>1. TypeInv /\ DeliveryInv => NothingLost
    <2>1. SUFFICES ASSUME TypeInv, DeliveryInv, NEW c \in Clients
                   PROVE  /\ \A k \in DOMAIN up[c] :
                               IF Len(up[c]) - k < Emitted(c)
                                 THEN up[c][k] = StreamPacket(c, Emitted(c) - (Len(up[c]) - k))
                                 ELSE up[c][k] = HandshakePacket(window[c])
                          /\ Receiving(c) /\ flag /\ conn[c] = "open"
                               => Len(printed[c]) + Len(up[c]) = Emitted(c)
      BY DEF NothingLost
    <2>2. DOMAIN up[c] = 1..Len(up[c])
      BY <2>1, LocalTypes, LenProperties
    <2>3. StreamInv(c) /\ ReceivingInv(c)
      BY <2>1 DEF DeliveryInv, ClientInv
    <2>4. Receiving(c) /\ flag /\ conn[c] = "open"
            => Len(printed[c]) + Len(up[c]) = Emitted(c)
      BY <2>3 DEF ReceivingInv
    <2>5. QED
      BY <2>2, <2>3, <2>4 DEF StreamInv
  <1>2. Spec => [](TypeInv /\ DeliveryInv)
    BY TypeInit, DeliveryInit, TypeStep, DeliveryStep, PTL DEF Spec
  <1>3. QED
    BY <1>1, <1>2, PTL

-----------------------------------------------------------------------------
(***************************************************************************)
(* What rests on PaceInv: acknowledgements, the sender's window, what ends *)
(* the server, and that the exercise implements a windowed transfer.       *)
(***************************************************************************)

-----------------------------------------------------------------------------
(* One client's state.                                                     *)

LEMMA PaceTypes ==
  ASSUME TypeInv, NEW c \in Clients
  PROVE  /\ start[c] \in Nat /\ i[c] \in Nat /\ seqno[c] \in Nat /\ acked[c] \in Nat
         /\ window[c] \in Nat /\ win \in Nat /\ t \in Nat /\ last_seq \in Nat
         /\ frames[c] \in Seq(Data) /\ Len(frames[c]) \in Nat
         /\ printed[c] \in Seq(Packet) /\ Len(printed[c]) \in Nat
         /\ down[c] \in Seq(Nat) /\ Len(down[c]) \in Nat
         /\ up[c] \in Seq(Packet) /\ Len(up[c]) \in Nat
         /\ Emitted(c) \in Int
  <1>1. /\ start[c] \in Nat /\ i[c] \in Nat /\ seqno[c] \in Nat /\ acked[c] \in Nat
        /\ t \in Nat /\ last_seq \in Nat
        /\ frames[c] \in Seq(Data) /\ printed[c] \in Seq(Packet)
        /\ down[c] \in Seq(Nat) /\ up[c] \in Seq(Packet)
    BY DEF TypeInv, TypeOK
  <1>2. window[c] \in Nat /\ win \in Nat
    <2>1. Windows \cup {0} \subseteq Nat
      BY ConstantsAssumption
    <2>2. window[c] \in Windows \cup {0} /\ win \in Windows \cup {0}
      BY DEF TypeInv, TypeOK
    <2>3. QED
      BY <2>1, <2>2
  <1>3. QED
    BY <1>1, <1>2, LenProperties DEF Emitted

LEMMA SingleElement ==
  ASSUME NEW S, NEW s \in Seq(S), NEW x \in S
  PROVE  /\ s = <<>> => Len(s) = 0
         /\ s = <<>> => Append(s, x) = <<x>>
         /\ Len(s) = 1 => s # <<>> /\ Tail(s) = <<>>
         /\ s # <<>> => Len(s) >= 1 /\ Head(s) = s[1]
         /\ Len(<<x>>) = 1 /\ <<x>>[1] = x /\ <<x>> # <<>>
  <1>1. Len(s) = 1 => s # <<>> /\ Tail(s) = <<>>
    <2>1. SUFFICES ASSUME Len(s) = 1 PROVE s # <<>> /\ Tail(s) = <<>>
      OBVIOUS
    <2>2. s # <<>>
      BY <2>1, EmptySeq
    <2>3. Tail(s) \in Seq(S) /\ Len(Tail(s)) = 0
      BY <2>1, <2>2, HeadTailProperties
    <2>4. QED
      BY <2>2, <2>3, EmptySeq
  <1>2. s = <<>> => Len(s) = 0 /\ Append(s, x) = <<x>>
    <2>1. Append(<<>>, x) = <<x>>
      OBVIOUS
    <2>2. QED
      BY <2>1
  <1>3. s # <<>> => Len(s) >= 1 /\ Head(s) = s[1]
    <2>1. s # <<>> => Len(s) \in Nat \ {0}
      BY EmptySeq
    <2>2. QED
      BY <2>1
  <1>4. Len(<<x>>) = 1 /\ <<x>>[1] = x /\ <<x>> # <<>>
    OBVIOUS
  <1>5. QED
    BY <1>1, <1>2, <1>3, <1>4

\* A step that leaves alone what ClientPace says of d keeps it.
PaceUntouched(d) ==
  /\ cpc'[d] = cpc[d] /\ window'[d] = window[d] /\ frames'[d] = frames[d]
  /\ start'[d] = start[d] /\ i'[d] = i[d] /\ seqno'[d] = seqno[d] /\ acked'[d] = acked[d]
  /\ down'[d] = down[d] /\ conn'[d] = conn[d] /\ printed'[d] = printed[d]
  /\ Served(d)' <=> Served(d)
  /\ Served(d) => spc' = spc /\ win' = win /\ t' = t /\ last_seq' = last_seq /\ flag' = flag
  /\ spc = "down" => spc' = "down"
  /\ Unserved(d) => Unserved(d)'

LEMMA PaceUntouchedKept ==
  ASSUME NEW d \in Clients, ClientPace(d), PaceUntouched(d)
  PROVE  ClientPace(d)'
  <1> USE DEF ClientPace, PaceUntouched
  <1>1. (Regular(d) <=> Regular(d)') /\ (Transferring(d) <=> Transferring(d)')
        /\ Emitted(d)' = Emitted(d)
    BY DEF Regular, Transferring, Emitted
  <1>2. LifeInv(d)'
    BY <1>1 DEF LifeInv
  <1>3. WindowInv(d)'
    BY <1>1 DEF WindowInv
  <1>4. RoundInv(d)'
    BY <1>1 DEF RoundInv
  <1>5. LeftInv(d)'
    BY <1>1 DEF LeftInv
  <1>6. AckInv(d)'
    <2>1. (cur = d /\ spc = "ack")' <=> (cur = d /\ spc = "ack")
      BY DEF Served
    <2>2. Receiving(d)' <=> Receiving(d)
      BY DEF Served, Receiving
    <2>3. Receiving(d) => last_seq' = last_seq
      BY DEF Served, Receiving
    <2>4. QED
      BY <1>1, <2>1, <2>2, <2>3 DEF AckInv
  <1>7. QED
    BY <1>2, <1>3, <1>4, <1>5, <1>6

-----------------------------------------------------------------------------
(* The client's steps.                                                     *)

\* What the steps of client c leave alone.
PaceOnly(c) ==
  /\ \A d \in Clients \ {c} :
       /\ cpc'[d] = cpc[d] /\ window'[d] = window[d] /\ frames'[d] = frames[d]
       /\ start'[d] = start[d] /\ i'[d] = i[d] /\ seqno'[d] = seqno[d]
       /\ acked'[d] = acked[d] /\ down'[d] = down[d] /\ conn'[d] = conn[d]
       /\ Unserved(d) => Unserved(d)'
  /\ UNCHANGED <<serverVars, printed>>

LEMMA ClientStepIsLocal ==
  ASSUME TypeInv, NEW c \in Clients, ClientStep(c) \/ ClientKilled(c)
  PROVE  PaceOnly(c)
  <1> USE DEF TypeInv, TypeOK, serverVars, netVars
  <1>1. backlog' = backlog \/ (Connect(c) /\ backlog' = Append(backlog, c))
    BY DEF ClientStep, Connect, SendSyn, RecvReply, SendFrame, SendFin, RecvWindowAck,
       ServerGone, ClientKilled
  <1>2. \A d : InBacklog(d) => InBacklog(d)'
    <2>1. CASE backlog' = backlog
      BY <2>1 DEF InBacklog
    <2>2. CASE backlog' = Append(backlog, c)
      <3>1. /\ Len(backlog') = Len(backlog) + 1 /\ Len(backlog) \in Nat
            /\ \A k \in 1..Len(backlog) : backlog'[k] = backlog[k]
        BY <2>2, AppendProperties, LenProperties
      <3>2. \A k \in 1..Len(backlog) : k \in 1..Len(backlog')
        BY <3>1
      <3>3. QED
        BY <3>1, <3>2 DEF InBacklog
    <2>3. QED
      BY <1>1, <2>1, <2>2
  <1>3. /\ \A d \in Clients \ {c} :
             /\ cpc'[d] = cpc[d] /\ window'[d] = window[d] /\ frames'[d] = frames[d]
             /\ start'[d] = start[d] /\ i'[d] = i[d] /\ seqno'[d] = seqno[d]
             /\ acked'[d] = acked[d] /\ down'[d] = down[d] /\ conn'[d] = conn[d]
        /\ UNCHANGED <<serverVars, printed>>
    <2>1. CASE Connect(c)
      BY <2>1 DEF Connect
    <2>2. CASE SendSyn(c)
      BY <2>2 DEF SendSyn
    <2>3. CASE RecvReply(c)
      BY <2>3 DEF RecvReply, WhileTest
    <2>4. CASE SendFrame(c)
      BY <2>4 DEF SendFrame
    <2>5. CASE SendFin(c)
      BY <2>5 DEF SendFin
    <2>6. CASE RecvWindowAck(c)
      BY <2>6 DEF RecvWindowAck, WhileTest
    <2>7. CASE ServerGone(c)
      BY <2>7 DEF ServerGone
    <2>8. CASE ClientKilled(c)
      BY <2>8 DEF ClientKilled
    <2>9. QED
      BY <2>1, <2>2, <2>3, <2>4, <2>5, <2>6, <2>7, <2>8 DEF ClientStep
  <1>4. \A d \in Clients \ {c} : Unserved(d) => Unserved(d)'
    <2>1. \A d \in Clients \ {c} : cpc'[d] = cpc[d]
      BY <1>3
    <2>2. cur' = cur /\ spc' = spc
      BY <1>3
    <2>3. QED
      BY <1>2, <2>1, <2>2 DEF Unserved
  <1>5. QED
    BY <1>3, <1>4 DEF PaceOnly

LEMMA PaceOthersKept ==
  ASSUME PaceInv, NEW c \in Clients, PaceOnly(c), NEW d \in Clients \ {c}
  PROVE  ClientPace(d)'
  <1>1. PaceUntouched(d)
    BY DEF PaceOnly, PaceUntouched, Served, serverVars
  <1>2. QED
    BY <1>1, PaceUntouchedKept DEF PaceInv

\* An idle client, or one at its prompt, is not served.
LEMMA NotYetServed ==
  ASSUME DeliveryInv, NEW c \in Clients, cpc[c] \in {"idle", "input"}
  PROVE  ~Served(c) /\ conn[c] = "open" /\ seqno[c] = 1
         /\ down[c] = <<>> /\ printed[c] = <<>>
  <1>1. SenderInv(c) /\ UnservedInv(c) /\ HandshakeInv(c) /\ ReceivingInv(c) /\ QueueInv
    BY DEF DeliveryInv, ClientInv
  <1>2. conn[c] = "open" /\ seqno[c] = 1
    BY <1>1 DEF SenderInv
  <1>3. Unserved(c)
    BY <1>1 DEF SenderInv, Unserved
  <1>4. ~Served(c)
    BY <1>1, <1>3 DEF HandshakeInv, ReceivingInv, Served, Receiving
  <1>5. QED
    BY <1>1, <1>2, <1>3, <1>4 DEF UnservedInv

LEMMA ConnectPace ==
  ASSUME TypeInv, DeliveryInv, PaceInv, NEW c \in Clients, Connect(c)
  PROVE  ClientPace(c)'
  <1>1. /\ cpc[c] = "idle" /\ cpc'[c] \in {"input", "dead"}
        /\ cpc'[c] = "dead" => spc = "down"
        /\ UNCHANGED <<window, frames, start, i, seqno, acked, down, conn, serverVars, printed>>
    BY DEF Connect, TypeInv, TypeOK
  <1>2. ClientPace(c) /\ ~Served(c) /\ conn[c] = "open"
    BY <1>1, NotYetServed DEF PaceInv
  <1>3. window[c] = 0 /\ start[c] = 0 /\ acked[c] = 1 /\ frames[c] = <<>>
    BY <1>1, <1>2 DEF ClientPace, LifeInv
  <1>4. ~Served(c)' /\ ~Transferring(c)' /\ ~Regular(c)' /\ ~Receiving(c)'
    BY <1>1, <1>2, <1>3 DEF Served, Transferring, Regular, Receiving, serverVars
  <1>5. LifeInv(c)' /\ WindowInv(c)'
    BY <1>1, <1>3, <1>4 DEF LifeInv, WindowInv, serverVars
  <1>6. RoundInv(c)' /\ LeftInv(c)'
    BY <1>4 DEF RoundInv, LeftInv
  <1>7. AckInv(c)'
    BY <1>1, <1>3, <1>4 DEF AckInv
  <1>8. QED
    BY <1>5, <1>6, <1>7 DEF ClientPace

LEMMA SendSynPace ==
  ASSUME TypeInv, DeliveryInv, PaceInv, NEW c \in Clients, SendSyn(c)
  PROVE  ClientPace(c)'
  <1>1. /\ cpc[c] = "input" /\ cpc'[c] = "wait_reply"
        /\ window'[c] \in Windows /\ frames'[c] \in Payloads
        /\ UNCHANGED <<start, i, seqno, acked, down, conn, backlog, serverVars, printed>>
    BY DEF SendSyn, TypeInv, TypeOK
  <1>2. /\ ClientPace(c) /\ ~Served(c) /\ conn[c] = "open"
        /\ down[c] = <<>> /\ printed[c] = <<>>
    BY <1>1, NotYetServed DEF PaceInv
  <1>3. start[c] = 0 /\ acked[c] = 1
    BY <1>1, <1>2 DEF ClientPace, LifeInv
  <1>4. ~Served(c)' /\ ~Transferring(c)' /\ ~Receiving(c)'
    BY <1>1, <1>2 DEF Served, Transferring, Receiving, serverVars
  <1>5. LifeInv(c)' /\ WindowInv(c)'
    <2>1. Unserved(c) /\ (Unserved(c) => Unserved(c)')
      BY <1>1 DEF DeliveryInv, ClientInv, SenderInv, Unserved, InBacklog, serverVars
    <2>2. QED
      BY <1>1, <1>3, <1>4, <2>1 DEF LifeInv, WindowInv
  <1>6. RoundInv(c)' /\ LeftInv(c)'
    BY <1>4 DEF RoundInv, LeftInv
  <1>7. AckInv(c)'
    <2>1. window'[c] \in Nat /\ Len(<<>>) = 0
      BY <1>1, ConstantsAssumption
    <2>2. down'[c] = <<>> /\ printed'[c] = <<>> /\ acked'[c] = 1 /\ start'[c] = 0
      BY <1>1, <1>2, <1>3
    <2>3. ~(cur = c /\ spc = "ack")'
      BY <1>4 DEF Served
    <2>4. QED
      BY <1>1, <1>4, <2>1, <2>2, <2>3 DEF AckInv
  <1>8. QED
    BY <1>5, <1>6, <1>7 DEF ClientPace

\* A client that ends is no longer paced.
LEMMA EndedPace ==
  ASSUME TypeInv, DeliveryInv, PaceInv, NEW c \in Clients, ClientKilled(c) \/ ServerGone(c)
  PROVE  ClientPace(c)'
  <1>1. /\ cpc'[c] = "dead" /\ Running(c)
        /\ conn'[c] = "open" => spc = "down" /\ conn[c] = "open"
        /\ UNCHANGED <<window, frames, start, i, seqno, acked, down, serverVars, printed>>
    BY DEF ClientKilled, ServerGone, CloseState, TypeInv, TypeOK, netVars
  <1>2. ClientPace(c)
    BY DEF PaceInv
  <1>3. ~Transferring(c)' /\ (Regular(c)' <=> Regular(c)) /\ (Receiving(c)' <=> Receiving(c))
    BY <1>1 DEF Transferring, Regular, Receiving, serverVars
  <1>4. LifeInv(c)' /\ WindowInv(c)'
    BY <1>1, <1>2, <1>3 DEF ClientPace, LifeInv, WindowInv, serverVars
  <1>5. RoundInv(c)' /\ LeftInv(c)'
    BY <1>1, <1>3 DEF RoundInv, LeftInv, Served, serverVars
  <1>6. AckInv(c)'
    BY <1>1, <1>2, <1>3 DEF ClientPace, AckInv, serverVars
  <1>7. QED
    BY <1>4, <1>5, <1>6 DEF ClientPace

\* What the client's loop test leaves, one window after another.
LEMMA AfterLoopTest ==
  ASSUME TypeInv, NEW c \in Clients, WhileTest(c)
  PROVE  \/ /\ start[c] < Len(frames[c])
            /\ cpc'[c] = WindowPc(window[c], 0) /\ i'[c] = 0 /\ conn'[c] = conn[c]
         \/ /\ ~(start[c] < Len(frames[c]))
            /\ cpc'[c] = "exited" /\ conn'[c] # "open"
  BY DEF WhileTest, CloseState, TypeInv, TypeOK

LEMMA RecvReplyPace ==
  ASSUME TypeInv, DeliveryInv, PaceInv, NEW c \in Clients, RecvReply(c)
  PROVE  ClientPace(c)'
  <1>1. /\ cpc[c] = "wait_reply" /\ down[c] # <<>> /\ down'[c] = Tail(down[c])
        /\ WhileTest(c)
        /\ UNCHANGED <<window, frames, start, seqno, acked, serverVars, printed>>
    BY DEF RecvReply, TypeInv, TypeOK
  <1>2. ClientPace(c) /\ ClientInv(c)
    BY DEF PaceInv, DeliveryInv
  <1>3. conn[c] = "open" /\ seqno[c] = 1 /\ start[c] = 0 /\ acked[c] = 1
        /\ (window[c] = 0 => start[c] = 0)
    BY <1>1, <1>2 DEF ClientInv, SenderInv, ClientPace, LifeInv
  <1>4. Served(c) /\ spc = "synack" /\ cur = c /\ win = window[c] /\ down[c] = <<0>>
    <2>1. ~Unserved(c)
      BY <1>1, <1>2 DEF ClientInv, UnservedInv
    <2>2. Served(c)
      BY <1>1, <1>2, <2>1 DEF ClientPace, LifeInv
    <2>3. spc = "synack" /\ cur = c
      BY <1>1, <1>2, <2>2 DEF ClientInv, ReceivingInv, Receiving, Served
    <2>4. QED
      BY <1>1, <1>2, <1>3, <2>2, <2>3 DEF ClientPace, RoundInv
  <1>5. down'[c] = <<>>
    BY <1>1, <1>4
  <1>6. /\ window'[c] = window[c] /\ frames'[c] = frames[c] /\ start'[c] = 0 /\ acked'[c] = 1
        /\ Emitted(c)' = 0 /\ spc' = "synack" /\ cur' = c /\ win' = win /\ Served(c)'
        /\ printed'[c] = printed[c] /\ ~Receiving(c)'
    BY <1>1, <1>3, <1>4 DEF Emitted, serverVars, Served, Receiving
  <1>7. window[c] \in Nat /\ Len(frames[c]) \in Nat /\ Len(<<>>) = 0 /\ Len(printed[c]) \in Nat
    BY PaceTypes
  <1>8. CASE /\ start[c] < Len(frames[c])
             /\ cpc'[c] = WindowPc(window[c], 0) /\ i'[c] = 0 /\ conn'[c] = conn[c]
    <2>1. /\ frames[c] # <<>> /\ cpc'[c] \in {"window", "wait_ack"}
          /\ cpc'[c] = "window" <=> window[c] > 0
      BY <1>3, <1>7, <1>8 DEF WindowPc
    <2>2. LifeInv(c)'
      BY <1>6, <2>1 DEF LifeInv, Transferring
    <2>3. WindowInv(c)'
      BY <1>3, <1>6, <1>7, <1>8, <2>1 DEF WindowInv
    <2>4. RoundInv(c)'
      BY <1>4, <1>5, <1>6, <1>8, <2>1 DEF RoundInv
    <2>5. LeftInv(c)'
      BY <1>6 DEF LeftInv
    <2>6. AckInv(c)'
      BY <1>5, <1>6, <1>7, <1>8, <2>1 DEF AckInv, Regular
    <2>7. QED
      BY <2>2, <2>3, <2>4, <2>5, <2>6 DEF ClientPace
  <1>9. CASE ~(start[c] < Len(frames[c])) /\ cpc'[c] = "exited" /\ conn'[c] # "open"
    <2>1. frames[c] = <<>> /\ Len(frames[c]) = 0
      BY <1>3, <1>7, <1>9, PaceTypes, EmptySeq
    <2>2. ~Transferring(c)'
      BY <1>9 DEF Transferring
    <2>3. LifeInv(c)' /\ WindowInv(c)'
      BY <1>6, <1>9, <2>1, <2>2 DEF LifeInv, WindowInv
    <2>4. RoundInv(c)' /\ LeftInv(c)'
      BY <1>9, <2>2 DEF RoundInv, LeftInv
    <2>5. AckInv(c)'
      BY <1>5, <1>6, <1>7, <1>9, <2>1, <2>2 DEF AckInv, Regular
    <2>6. QED
      BY <2>3, <2>4, <2>5 DEF ClientPace
  <1>10. QED
    BY <1>1, <1>8, <1>9, AfterLoopTest

\* A client that is in its window holds its socket.
LEMMA TransferringOpen ==
  ASSUME DeliveryInv, NEW c \in Clients, Transferring(c)
  PROVE  conn[c] = "open"
  BY DEF DeliveryInv, ClientInv, SenderInv, Transferring

LEMMA SendFramePace ==
  ASSUME TypeInv, DeliveryInv, PaceInv, NEW c \in Clients, SendFrame(c)
  PROVE  ClientPace(c)'
  <1>1. /\ cpc[c] = "window" /\ start[c] < Len(frames[c])
        /\ start'[c] = start[c] + 1 /\ i'[c] = i[c] + 1 /\ seqno'[c] = seqno[c] + 1
        /\ cpc'[c] \in {"window", "wait_ack"}
        /\ cpc'[c] = "window" <=> i[c] + 1 < window[c]
        /\ UNCHANGED <<window, frames, acked, down, conn, serverVars, printed>>
    BY DEF SendFrame, TypeInv, TypeOK, WindowPc
  <1>0. start'[c] = start[c] + 1 /\ i'[c] = i[c] + 1
    BY <1>1
  <1>2. ClientPace(c) /\ SenderInv(c)
    BY DEF PaceInv, DeliveryInv, ClientInv
  <1>3. /\ start[c] \in Nat /\ i[c] \in Nat /\ seqno[c] \in Nat /\ acked[c] \in Nat
        /\ window[c] \in Nat /\ Len(frames[c]) \in Nat /\ Len(printed[c]) \in Nat
        /\ win \in Nat /\ t \in Nat
    BY PaceTypes
  <1>4. Transferring(c) /\ Transferring(c)' /\ conn[c] = "open"
    <2>1. Transferring(c) /\ Transferring(c)'
      BY <1>1 DEF Transferring
    <2>2. QED
      BY <2>1, TransferringOpen
  <1>5. Emitted(c) = start[c] /\ Emitted(c)' = start'[c]
    <2>1. start[c] <= seqno[c] - 1 /\ seqno[c] - 1 <= start[c] + 1 /\ seqno[c] - 1 # start[c] + 1
      BY <1>1, <1>2 DEF SenderInv, Emitted
    <2>2. seqno[c] - 1 = start[c]
      BY <1>3, <2>1
    <2>3. seqno'[c] = seqno[c] + 1 /\ start'[c] = start[c] + 1
      BY <1>1
    <2>4. seqno'[c] - 1 = start'[c]
      BY ONLY <1>3, <2>2, <2>3
    <2>5. QED
      BY <2>2, <2>4 DEF Emitted
  <1>6. i[c] < window[c] /\ i[c] <= start[c]
    BY <1>1, <1>2, <1>4 DEF ClientPace, WindowInv
  <1>7. /\ (Served(c)' <=> Served(c)) /\ (Regular(c)' <=> Regular(c))
        /\ (Receiving(c)' <=> Receiving(c))
    BY <1>1 DEF Served, Regular, Receiving, serverVars
  <1>8. ~Served(c) => ~Regular(c)
    BY <1>2, <1>3, <1>4, <1>5 DEF ClientPace, LeftInv
  <1>9. Regular(c) => down[c] = <<>>
    <2>1. SUFFICES ASSUME Regular(c) PROVE down[c] = <<>>
      OBVIOUS
    <2>2. Served(c) /\ win = window[c] /\ win > 0 /\ cpc[c] # "wait_reply" /\ cpc[c] # "wait_ack"
      BY <1>1, <1>2, <1>3, <1>4, <1>6, <1>8, <2>1 DEF ClientPace, RoundInv
    <2>3. QED
      BY <1>2, <1>4, <2>2 DEF ClientPace, RoundInv, Served
  <1>10. LifeInv(c)'
    BY <1>1, <1>2, <1>3, <1>4, <1>6 DEF ClientPace, LifeInv, Transferring
  <1>11. WindowInv(c)'
    BY <1>1, <1>3, <1>5, <1>6 DEF WindowInv
  <1>12. RoundInv(c)'
    <2>1. SUFFICES ASSUME Served(c) PROVE RoundInv(c)'
      BY <1>7 DEF RoundInv
    <2>2. /\ spc' = spc /\ win' = win /\ t' = t /\ flag' = flag /\ window'[c] = window[c]
          /\ printed'[c] = printed[c] /\ down'[c] = down[c] /\ win = window[c]
          /\ cpc'[c] # "wait_reply" /\ win > 0
      BY <1>1, <1>2, <1>3, <1>4, <1>6, <2>1 DEF serverVars, Transferring, ClientPace, RoundInv
    <2>3. spc = "synack" => down[c] = <<>> /\ start'[c] = i'[c]
      BY <1>1, <1>2, <1>4, <2>1 DEF ClientPace, RoundInv
    <2>4. spc = "recv" => down[c] = <<>> /\ Len(printed[c]) + t + i'[c] = start'[c] + win
      <3>1. spc = "recv" => down[c] = <<>>
        BY <1>1, <1>2, <1>4, <2>1 DEF ClientPace, RoundInv
      <3>2. spc = "recv" => Len(printed[c]) + t + i[c] = start[c] + win
        BY <1>2, <1>4, <2>1, <3>1 DEF ClientPace, RoundInv
      <3>3. Len(printed[c]) + t + i[c] = start[c] + win
              => Len(printed[c]) + t + i'[c] = start'[c] + win
        <4>1. t \in Nat /\ i[c] \in Nat /\ start[c] \in Nat /\ win \in Nat
          BY <1>3
        <4>2. PICK p \in Nat : p = Len(printed[c])
          BY <1>3
        <4>3. p + t + i[c] = start[c] + win => p + t + i'[c] = start'[c] + win
          BY <1>0, <4>1
        <4>4. QED
          BY <4>2, <4>3, Zenon
      <3>4. QED
        BY <3>1, <3>2, <3>3
    <2>5. spc = "ack" =>
            /\ down[c] = <<>>
            /\ flag => Len(printed[c]) + i'[c] = start'[c] + win
            /\ ~flag => ~Regular(c)
      <3>1. spc = "ack" => down[c] = <<>>
        BY <1>2, <1>4, <2>1, <2>2 DEF ClientPace, RoundInv
      <3>2. spc = "ack" /\ flag => Len(printed[c]) + i[c] = start[c] + win
        BY <1>2, <1>4, <2>1, <2>2 DEF ClientPace, RoundInv
      <3>3. spc = "ack" /\ ~flag /\ Regular(c) => Emitted(c) = start[c] + 1
        BY <1>2, <1>4, <2>1, <2>2 DEF ClientPace, RoundInv
      <3>4. Len(printed[c]) + i[c] = start[c] + win
              => Len(printed[c]) + i'[c] = start'[c] + win
        <4>1. i[c] \in Nat /\ start[c] \in Nat /\ win \in Nat
          BY <1>3
        <4>2. PICK p \in Nat : p = Len(printed[c])
          BY <1>3
        <4>3. p + i[c] = start[c] + win => p + i'[c] = start'[c] + win
          BY <1>0, <4>1
        <4>4. QED
          BY <4>2, <4>3, Zenon
      <3>5. start[c] # start[c] + 1
        BY <1>3
      <3>6. QED
        BY <1>5, <3>1, <3>2, <3>3, <3>4, <3>5
    <2>6. QED
      BY <1>7, <2>2, <2>3, <2>4, <2>5 DEF RoundInv
  <1>13. LeftInv(c)'
    BY <1>1, <1>3, <1>6, <1>7, <1>8 DEF LeftInv
  <1>14. AckInv(c)'
    <2>1. Regular(c) => start[c] + 1 <= acked[c] + window[c] /\ acked[c] + i[c] = start[c] + 1
      BY <1>2, <1>4 DEF ClientPace, AckInv
    <2>2. Regular(c) => start'[c] + 1 <= acked[c] + window[c] /\ acked[c] + i'[c] = start'[c] + 1
      BY <1>0, <1>3, <1>6, <2>1
    <2>3. Regular(c) => Len(down[c]) = 0
      BY <1>9
    <2>4. cpc'[c] # "exited"
      BY <1>4 DEF Transferring
    <2>5. QED
      BY <1>1, <1>2, <1>7, <2>2, <2>3, <2>4 DEF ClientPace, AckInv, serverVars
  <1>15. QED
    BY <1>10, <1>11, <1>12, <1>13, <1>14 DEF ClientPace

LEMMA SendFinPace ==
  ASSUME TypeInv, DeliveryInv, PaceInv, NEW c \in Clients, SendFin(c)
  PROVE  ClientPace(c)'
  <1>1. /\ cpc[c] = "window" /\ start[c] >= Len(frames[c])
        /\ seqno'[c] = seqno[c] + 1 /\ cpc'[c] = "wait_ack"
        /\ UNCHANGED <<window, frames, start, i, acked, down, conn, serverVars, printed>>
    BY DEF SendFin, TypeInv, TypeOK
  <1>2. ClientPace(c) /\ SenderInv(c)
    BY DEF PaceInv, DeliveryInv, ClientInv
  <1>3. /\ start[c] \in Nat /\ i[c] \in Nat /\ seqno[c] \in Nat /\ acked[c] \in Nat
        /\ window[c] \in Nat /\ Len(frames[c]) \in Nat
    BY PaceTypes
  <1>4. Transferring(c) /\ Transferring(c)' /\ conn[c] = "open"
    BY <1>1, TransferringOpen DEF Transferring
  <1>5. Emitted(c) = start[c] /\ Emitted(c)' = start[c] + 1
    BY <1>1, <1>2, <1>3 DEF SenderInv, Emitted
  <1>6. i[c] < window[c] /\ i[c] <= start[c] /\ i[c] > 0
    BY <1>1, <1>2, <1>3, <1>4 DEF ClientPace, WindowInv
  <1>7. /\ (Served(c)' <=> Served(c)) /\ (Regular(c)' <=> Regular(c))
        /\ (Receiving(c)' <=> Receiving(c))
    BY <1>1 DEF Served, Regular, Receiving, serverVars
  <1>8. ~Served(c) => ~Regular(c)
    BY <1>2, <1>3, <1>4, <1>5 DEF ClientPace, LeftInv
  <1>9. Regular(c) => down[c] = <<>>
    <2>1. SUFFICES ASSUME Regular(c) PROVE down[c] = <<>>
      OBVIOUS
    <2>2. Served(c) /\ win = window[c] /\ win > 0 /\ cpc[c] # "wait_reply" /\ cpc[c] # "wait_ack"
      BY <1>1, <1>2, <1>3, <1>4, <1>6, <1>8, <2>1 DEF ClientPace, RoundInv
    <2>3. QED
      BY <1>2, <1>4, <2>2 DEF ClientPace, RoundInv, Served
  <1>10. LifeInv(c)'
    BY <1>1, <1>2, <1>4 DEF ClientPace, LifeInv, Transferring
  <1>11. WindowInv(c)'
    BY <1>1, <1>3, <1>5, <1>6 DEF WindowInv
  <1>12. RoundInv(c)'
    <2>1. SUFFICES ASSUME Served(c) PROVE RoundInv(c)'
      BY <1>7 DEF RoundInv
    <2>2. spc = "recv" => down[c] = <<>>
      BY <1>1, <1>2, <1>4, <2>1 DEF ClientPace, RoundInv
    <2>3. spc = "ack" /\ win > 0 /\ ~flag => ~Regular(c)
      <3>1. spc = "ack" /\ win > 0 /\ ~flag /\ Regular(c) => Emitted(c) = start[c] + 1
        BY <1>2, <1>4, <2>1 DEF ClientPace, RoundInv
      <3>2. QED
        BY <1>3, <1>5, <3>1
    <2>4. QED
      BY <1>1, <1>2, <1>4, <1>7, <2>1, <2>2, <2>3 DEF ClientPace, RoundInv, serverVars
  <1>13. LeftInv(c)'
    BY <1>1, <1>3, <1>6, <1>7, <1>8 DEF LeftInv
  <1>14. AckInv(c)'
    <2>1. Regular(c) => start[c] + 1 <= acked[c] + window[c] /\ acked[c] + i[c] = start[c] + 1
      BY <1>2, <1>4 DEF ClientPace, AckInv
    <2>2. Regular(c) => Len(down[c]) = 0
      BY <1>9
    <2>3. QED
      BY <1>1, <1>2, <1>7, <2>1, <2>2 DEF ClientPace, AckInv, serverVars
  <1>15. QED
    BY <1>10, <1>11, <1>12, <1>13, <1>14 DEF ClientPace

\* When a client that is waiting finds an acknowledgement, it is the one of
\* its current window, if that window holds something.
LEMMA AckOfThisWindow ==
  ASSUME TypeInv, DeliveryInv, PaceInv, NEW c \in Clients,
         cpc[c] = "wait_ack", down[c] # <<>>, window[c] > 0
  PROVE  /\ Served(c) =>
              /\ spc = "recv" /\ Len(down[c]) = 1 /\ Len(printed[c]) = start[c] /\ t = win
              /\ Emitted(c) = start[c] /\ win = window[c]
         /\ ~Served(c) /\ Regular(c) =>
              /\ Len(down[c]) = 1 /\ Len(printed[c]) = start[c] /\ start[c] = Len(frames[c])
  <1>1. ClientPace(c) /\ SenderInv(c) /\ Transferring(c)
    BY DEF PaceInv, DeliveryInv, ClientInv, Transferring
  <1>2. conn[c] = "open"
    BY <1>1, TransferringOpen
  <1>3. ASSUME Served(c)
        PROVE  /\ spc = "recv" /\ Len(down[c]) = 1 /\ Len(printed[c]) = start[c] /\ t = win
               /\ Emitted(c) = start[c] /\ win = window[c]
    <2>1. spc \in {"synack", "recv", "ack"} /\ win = window[c]
      BY <1>1, <1>2, <1>3 DEF Served, ClientPace, RoundInv
    <2>2. spc # "synack" /\ spc # "ack"
      BY <1>1, <1>2, <1>3, <2>1 DEF ClientPace, RoundInv
    <2>3. QED
      BY <1>1, <1>2, <1>3, <2>1, <2>2 DEF ClientPace, RoundInv
  <1>4. ASSUME ~Served(c), Regular(c)
        PROVE  Len(down[c]) = 1 /\ Len(printed[c]) = start[c] /\ start[c] = Len(frames[c])
    BY <1>1, <1>4 DEF ClientPace, LeftInv, SenderInv
  <1>5. QED
    BY <1>3, <1>4

LEMMA RecvWindowAckPace ==
  ASSUME TypeInv, DeliveryInv, PaceInv, NEW c \in Clients, RecvWindowAck(c)
  PROVE  ClientPace(c)'
  <1>1. /\ cpc[c] = "wait_ack" /\ down[c] # <<>>
        /\ acked'[c] = Head(down[c]) /\ down'[c] = Tail(down[c]) /\ WhileTest(c)
        /\ UNCHANGED <<window, frames, start, seqno, serverVars, printed>>
    BY DEF RecvWindowAck, TypeInv, TypeOK
  <1>2. ClientPace(c) /\ SenderInv(c)
    BY DEF PaceInv, DeliveryInv, ClientInv
  <1>3. /\ start[c] \in Nat /\ i[c] \in Nat /\ acked[c] \in Nat /\ window[c] \in Nat
        /\ Len(frames[c]) \in Nat /\ win \in Nat /\ t \in Nat /\ down[c] \in Seq(Nat)
        /\ frames[c] \in Seq(Data)
    BY PaceTypes
  <1>4. Transferring(c) /\ conn[c] = "open" /\ frames[c] # <<>> /\ start[c] <= Len(frames[c])
    <2>1. Transferring(c)
      BY <1>1 DEF Transferring
    <2>2. QED
      BY <1>2, <2>1, TransferringOpen DEF ClientPace, LifeInv, SenderInv
  <1>5. /\ window'[c] = window[c] /\ frames'[c] = frames[c] /\ start'[c] = start[c]
        /\ printed'[c] = printed[c] /\ Emitted(c)' = Emitted(c)
        /\ spc' = spc /\ cur' = cur /\ win' = win /\ t' = t /\ flag' = flag
        /\ last_seq' = last_seq
        /\ (Served(c)' <=> Served(c)) /\ (Receiving(c)' <=> Receiving(c))
        /\ (Regular(c)' <=> Regular(c))
    BY <1>1 DEF Emitted, Served, Receiving, Regular, serverVars
  <1>6. /\ acked'[c] = down[c][1] /\ 1 \in 1..Len(down[c]) /\ acked'[c] \in Nat
        /\ Len(down'[c]) = Len(down[c]) - 1 /\ Len(down[c]) \in Nat
        /\ \A k \in 1..Len(down'[c]) : k + 1 \in 1..Len(down[c]) /\ down'[c][k] = down[c][k + 1]
    <2>1. Len(down[c]) \in Nat /\ Len(down[c]) # 0
      BY <1>1, <1>3, EmptySeq
    <2>2. Len(down'[c]) = Len(down[c]) - 1
          /\ \A k \in 1..Len(down'[c]) : down'[c][k] = down[c][k + 1]
      BY <1>1, <1>3, HeadTailProperties
    <2>3. acked'[c] = down[c][1] /\ acked'[c] \in Nat
      BY <1>1, <1>3, HeadTailProperties
    <2>4. QED
      BY <2>1, <2>2, <2>3
  <1>7. CASE window[c] = 0
    <2>1. /\ start[c] = 0 /\ start[c] < Len(frames[c]) /\ i[c] = 0
          /\ Served(c)
      <3>1. Len(frames[c]) # 0
        BY <1>3, <1>4, EmptySeq
      <3>2. start[c] = 0 /\ i[c] <= start[c] /\ Served(c)
        BY <1>2, <1>3, <1>4, <1>7 DEF ClientPace, LifeInv, WindowInv, LeftInv
      <3>3. QED
        BY <1>3, <3>1, <3>2
    <2>2. cpc'[c] = "wait_ack" /\ i'[c] = 0 /\ conn'[c] = conn[c]
      BY <1>1, <1>7, <2>1, AfterLoopTest DEF WindowPc
    <2>3. win = 0 /\ spc = "ack" /\ (~flag => win > 0)
      <3>1. win = window[c] /\ spc \in {"synack", "recv", "ack"} /\ spc # "synack"
            /\ (spc = "ack" /\ ~flag => win > 0)
        BY <1>1, <1>2, <1>4, <2>1 DEF ClientPace, RoundInv, Served
      <3>2. spc # "recv"
        <4>1. spc = "recv" => t = win /\ t # 0
          BY <1>1, <1>2, <1>4, <2>1 DEF ClientPace, RoundInv, TypeInv, CountPositive
        <4>2. QED
          BY <1>7, <3>1, <4>1
      <3>3. QED
        BY <1>7, <3>1, <3>2
    <2>4. LifeInv(c)'
      BY <1>4, <1>5, <1>7, <2>1, <2>2 DEF LifeInv, Transferring
    <2>5. WindowInv(c)'
      BY <1>5, <1>7, <2>1, <2>2 DEF WindowInv
    <2>6. RoundInv(c)'
      BY <1>5, <1>7, <2>2, <2>3 DEF RoundInv
    <2>7. LeftInv(c)'
      BY <1>5, <2>1 DEF LeftInv
    <2>8. AckInv(c)'
      <3>1. ~Regular(c) /\ ~(window[c] > 0)
        BY <1>7 DEF Regular
      <3>2. QED
        BY <1>2, <1>5, <2>2, <3>1 DEF ClientPace, AckInv
    <2>9. QED
      BY <2>4, <2>5, <2>6, <2>7, <2>8 DEF ClientPace
  <1>8. CASE window[c] > 0
    <2>1. /\ Served(c) =>
               /\ spc = "recv" /\ Len(down[c]) = 1 /\ Len(printed[c]) = start[c] /\ t = win
               /\ Emitted(c) = start[c] /\ win = window[c]
          /\ ~Served(c) /\ Regular(c) =>
               /\ Len(down[c]) = 1 /\ Len(printed[c]) = start[c] /\ start[c] = Len(frames[c])
      BY <1>1, <1>8, AckOfThisWindow
    <2>2. Served(c) \/ Regular(c) => down'[c] = <<>> /\ Len(down'[c]) = 0
      <3>1. Served(c) \/ Regular(c) => Len(down[c]) = 1
        BY <2>1
      <3>2. QED
        BY <1>1, <1>3, <3>1, SingleElement
    <2>3. Regular(c) => acked'[c] = start[c] + 1 /\ start[c] <= Len(printed[c])
      <3>1. Regular(c) => down[c][1] = start[c] + 1
        BY <1>1, <1>2, <1>6 DEF ClientPace, AckInv
      <3>2. QED
        BY <1>3, <1>6, <2>1, <3>1
    <2>4. frames[c][1] # FIN =>
            /\ acked'[c] <= Len(printed[c]) + 1
            /\ \A k \in 1..Len(down'[c]) : down'[c][k] <= Len(printed[c]) + 1
      BY <1>2, <1>4, <1>6, <1>8 DEF ClientPace, AckInv
    <2>5. spc = "ack" => ~Served(c)
      BY <2>1
    <2>6. Regular(c) => start[c] + 1 <= acked'[c] + window[c]
      BY <1>3, <2>3
    <2>7. CASE start[c] < Len(frames[c]) /\ cpc'[c] = WindowPc(window[c], 0)
               /\ i'[c] = 0 /\ conn'[c] = conn[c]
      <3>1. cpc'[c] = "window"
        BY <1>8, <2>7 DEF WindowPc
      <3>2. ~Served(c) => ~Regular(c)
        BY <1>3, <2>1, <2>7
      <3>3. LifeInv(c)'
        BY <1>2, <1>4, <1>5, <1>8, <2>7, <3>1 DEF ClientPace, LifeInv
      <3>4. WindowInv(c)'
        BY <1>3, <1>5, <1>8, <2>7, <3>1 DEF WindowInv
      <3>5. RoundInv(c)'
        <4>1. SUFFICES ASSUME Served(c) PROVE RoundInv(c)'
          BY <1>5 DEF RoundInv
        <4>2. Len(printed[c]) + t + 0 = start[c] + win
          BY <1>3, <2>1, <4>1
        <4>3. QED
          BY <1>5, <2>1, <2>2, <2>7, <4>1, <4>2 DEF RoundInv
      <3>6. LeftInv(c)'
        BY <1>5, <1>8, <3>2 DEF LeftInv
      <3>7. AckInv(c)'
        <4>1. Regular(c) => acked'[c] + 0 = start[c] + 1
          BY <1>3, <2>3
        <4>2. Receiving(c) /\ conn[c] = "open" /\ printed[c] # <<>> => last_seq = Len(printed[c])
          BY <1>2 DEF ClientPace, AckInv
        <4>3. ~(cur = c /\ spc = "ack")
          BY <2>5 DEF Served
        <4>4. QED
          BY <1>4, <1>5, <2>4, <2>6, <2>7, <3>1, <4>1, <4>2, <4>3 DEF AckInv
      <3>8. QED
        BY <3>3, <3>4, <3>5, <3>6, <3>7 DEF ClientPace
    <2>8. CASE ~(start[c] < Len(frames[c])) /\ cpc'[c] = "exited" /\ conn'[c] # "open"
      <3>1. start[c] = Len(frames[c]) /\ ~Transferring(c)'
        BY <1>3, <1>4, <2>8 DEF Transferring
      <3>2. LifeInv(c)' /\ WindowInv(c)'
        BY <1>2, <1>5, <1>8, <2>1, <2>8, <3>1 DEF LifeInv, WindowInv
      <3>3. RoundInv(c)' /\ LeftInv(c)'
        BY <2>8, <3>1 DEF RoundInv, LeftInv
      <3>4. AckInv(c)'
        BY <1>4, <1>5, <2>3, <2>4, <2>6, <2>8, <3>1 DEF AckInv
      <3>5. QED
        BY <3>2, <3>3, <3>4 DEF ClientPace
    <2>9. QED
      BY <1>1, <2>7, <2>8, AfterLoopTest
  <1>9. QED
    BY <1>3, <1>7, <1>8

LEMMA ClientPaceKept ==
  ASSUME TypeInv, DeliveryInv, PaceInv, NEW c \in Clients, ClientStep(c) \/ ClientKilled(c)
  PROVE  PaceInv'
  <1>1. PaceOnly(c)
    BY ClientStepIsLocal
  <1>2. ClientPace(c)'
    BY ConnectPace, SendSynPace, RecvReplyPace, SendFramePace, SendFinPace,
       RecvWindowAckPace, EndedPace DEF ClientStep
  <1>3. \A d \in Clients : ClientPace(d)'
    BY <1>1, <1>2, PaceOthersKept
  <1>4. DownInv'
    <2>1. SUFFICES ASSUME spc = "down" PROVE DownInv'
      BY <1>1 DEF DownInv, PaceOnly, serverVars
    <2>2. cur \in Clients /\ conn[cur] # "open" /\ (cpc[cur] = "dead" \/ Emitted(cur) = start[cur])
      BY <2>1 DEF PaceInv, DownInv, TypeInv, TypeOK
    <2>3. cpc[cur] \in {"exited", "dead"}
      BY <2>2 DEF DeliveryInv, ClientInv, SenderInv
    <2>4. cpc[c] \notin {"exited", "dead"}
      BY DEF ClientStep, Connect, SendSyn, RecvReply, SendFrame, SendFin, RecvWindowAck,
         ServerGone, ClientKilled, Running
    <2>5. cur \in Clients \ {c}
      BY <2>2, <2>3, <2>4
    <2>6. /\ cpc'[cur] = cpc[cur] /\ conn'[cur] = conn[cur] /\ start'[cur] = start[cur]
          /\ seqno'[cur] = seqno[cur] /\ cur' = cur
      BY <1>1, <2>5 DEF PaceOnly, serverVars
    <2>7. Emitted(cur)' = Emitted(cur)
      BY <2>6 DEF Emitted
    <2>8. QED
      BY <2>2, <2>6, <2>7 DEF DownInv
  <1>5. QED
    BY <1>3, <1>4 DEF PaceInv

-----------------------------------------------------------------------------
(* The server's steps.                                                     *)

\* What the server's steps leave alone while it serves one connection.
PaceServed ==
  /\ UNCHANGED <<cpc, window, frames, start, i, seqno, acked, cur, backlog>>
  /\ \A d \in Clients \ {cur} :
       down'[d] = down[d] /\ conn'[d] = conn[d] /\ printed'[d] = printed[d]
  /\ spc \in {"syn", "synack", "recv", "ack"}

LEMMA PaceNotServedKept ==
  ASSUME PaceInv, PaceServed, NEW d \in Clients \ {cur}
  PROVE  ClientPace(d)'
  <1>1. PaceUntouched(d)
    BY DEF PaceServed, PaceUntouched, Served, Unserved, InBacklog
  <1>2. QED
    BY <1>1, PaceUntouchedKept DEF PaceInv

LEMMA ServedPace ==
  ASSUME PaceInv, PaceServed, cur \in Clients, ClientPace(cur)', DownInv'
  PROVE  PaceInv'
  <1>1. cur' = cur
    BY DEF PaceServed
  <1>2. ASSUME NEW d \in Clients, d = cur PROVE ClientPace(d)'
    <2>1. LifeInv(d)' /\ WindowInv(d)' /\ RoundInv(d)' /\ LeftInv(d)' /\ AckInv(d)'
      BY <1>1, <1>2 DEF ClientPace
    <2>2. QED
      BY <2>1 DEF ClientPace
  <1>3. \A d \in Clients : ClientPace(d)'
    BY <1>2, PaceNotServedKept
  <1>4. QED
    BY <1>3 DEF PaceInv

LEMMA AcceptPace ==
  ASSUME TypeInv, DeliveryInv, PaceInv, Accept
  PROVE  PaceInv'
  <1>1. /\ spc = "accept" /\ spc' = "syn" /\ cur' = Head(backlog)
        /\ backlog # <<>> /\ backlog' = Tail(backlog) /\ backlog \in Seq(Clients)
        /\ UNCHANGED <<clientVars, up, down, conn, printed>>
    BY DEF Accept, TypeInv, TypeOK
  <1>2. /\ Len(backlog) \in Nat /\ Len(backlog') = Len(backlog) - 1
        /\ \A k \in 1..Len(backlog') : backlog'[k] = backlog[k + 1]
        /\ cur' = backlog[1]
    BY <1>1, HeadTailProperties, LenProperties
  <1>3. ASSUME NEW d \in Clients PROVE ClientPace(d)'
    <2>1. Unserved(d) => Unserved(d)'
      <3>1. SUFFICES ASSUME NEW k \in 1..Len(backlog), backlog[k] = d PROVE Unserved(d)'
        BY <1>1 DEF Unserved, InBacklog, clientVars
      <3>2. CASE k = 1
        BY <1>1, <1>2, <3>1, <3>2 DEF Unserved
      <3>3. CASE k # 1
        <4>1. k - 1 \in 1..Len(backlog') /\ (k - 1) + 1 = k
          BY <1>2, <3>3
        <4>2. backlog'[k - 1] = d
          BY <1>2, <3>1, <4>1
        <4>3. QED
          BY <4>1, <4>2 DEF Unserved, InBacklog
      <3>4. QED
        BY <3>2, <3>3
    <2>2. PaceUntouched(d)
      BY <1>1, <2>1 DEF PaceUntouched, Served, clientVars
    <2>3. QED
      BY <2>2, PaceUntouchedKept DEF PaceInv
  <1>4. QED
    BY <1>1, <1>3 DEF PaceInv, DownInv

\* What send() does to the connection being served.
LEMMA AfterSend ==
  ASSUME TypeInv, NEW n \in Nat, SendAck(cur, n)
  PROVE  \/ /\ conn[cur] = "open" /\ conn'[cur] = "open"
            /\ down'[cur] = Append(down[cur], n)
         \/ conn[cur] # "open" /\ conn'[cur] # "open" /\ down'[cur] = down[cur]
  BY DEF SendAck, TypeInv, TypeOK

LEMMA RecvSynPace ==
  ASSUME TypeInv, DeliveryInv, PaceInv, RecvSyn
  PROVE  PaceInv'
  <1>1. /\ spc = "syn" /\ spc' = "synack" /\ SendAck(cur, 0) /\ cur \in Clients
        /\ UNCHANGED <<cpc, window, frames, start, i, seqno, acked, cur, backlog, t, last_seq,
                       flag, printed>>
        /\ \/ up[cur] # <<>> /\ win' = Head(up[cur]).window_size
           \/ AtEof(cur)
    BY DEF RecvSyn, clientVars, TypeInv, TypeOK
  <1>2. \/ /\ conn[cur] = "open" /\ conn'[cur] = "open"
           /\ down'[cur] = Append(down[cur], 0)
        \/ conn[cur] # "open" /\ conn'[cur] # "open" /\ down'[cur] = down[cur]
    BY <1>1, AfterSend
  <1>3. ClientPace(cur) /\ ClientInv(cur) /\ QueueInv
    BY <1>1 DEF PaceInv, DeliveryInv
  <1>4. /\ Unserved(cur) /\ cpc[cur] # "idle" /\ seqno[cur] = 1 /\ printed[cur] = <<>>
        /\ down[cur] = <<>> /\ cpc[cur] \in {"input", "wait_reply", "dead"}
        /\ Len(up[cur]) <= 1 /\ (cpc[cur] = "input" => up[cur] = <<>>)
    BY <1>1, <1>3 DEF ClientInv, UnservedInv, Unserved, QueueInv
  <1>5. cpc[cur] \in {"wait_reply", "dead"} /\ (conn[cur] = "open" => cpc[cur] = "wait_reply")
    BY <1>1, <1>3, <1>4 DEF ClientInv, SenderInv, ClientPace, LifeInv, AtEof
  <1>6. PaceServed
    <2>1. \A d \in Clients \ {cur} : conn'[d] = conn[d] /\ down'[d] = down[d]
      BY <1>1, AfterSendAck
    <2>2. QED
      BY <1>1, <2>1 DEF PaceServed
  <1>7. conn[cur] = "open" => win' = window[cur] /\ down'[cur] = <<0>>
    <2>1. SUFFICES ASSUME conn[cur] = "open" PROVE win' = window[cur] /\ down'[cur] = <<0>>
      OBVIOUS
    <2>2. up[cur] # <<>> /\ win' = Head(up[cur]).window_size
      BY <1>1, <2>1 DEF AtEof
    <2>3. Len(up[cur]) = 1 /\ Head(up[cur]) = up[cur][1] /\ Emitted(cur) = 0
      <3>1. Len(up[cur]) \in Nat /\ Len(up[cur]) # 0 /\ Head(up[cur]) = up[cur][1]
        BY <1>1, <2>2, PaceTypes, EmptySeq
      <3>2. Emitted(cur) = 0
        BY <1>4 DEF Emitted
      <3>3. Len(up[cur]) = 1
        <4>1. \A n \in Nat : n # 0 /\ n <= 1 => n = 1
          OBVIOUS
        <4>2. QED
          BY <1>4, <3>1, <4>1
      <3>4. QED
        BY <3>1, <3>2, <3>3
    <2>4. up[cur][1] = HandshakePacket(window[cur])
      <3>1. 1 \in 1..Len(up[cur]) /\ ~(Len(up[cur]) - 1 < Emitted(cur))
        BY <2>3
      <3>2. QED
        BY <1>3, <3>1 DEF ClientInv, StreamInv
    <2>5. win' = window[cur]
      BY <2>2, <2>3, <2>4 DEF HandshakePacket
    <2>6. down'[cur] = <<0>>
      BY <1>2, <1>4, <2>1
    <2>7. QED
      BY <2>5, <2>6
  <1>8. ClientPace(cur)'
    <2>1. Served(cur)' /\ ~Transferring(cur)' /\ ~Receiving(cur)' /\ Emitted(cur)' = Emitted(cur)
          /\ (Regular(cur)' <=> Regular(cur))
      BY <1>1, <1>5 DEF Served, Transferring, Receiving, Emitted, Regular
    <2>2. LifeInv(cur)'
      <3>1. cpc'[cur] \in {"wait_reply", "dead"} /\ (cpc'[cur] = "dead" => conn'[cur] # "open")
        BY <1>1, <1>2, <1>5
      <3>2. (cpc[cur] = "wait_reply" => start[cur] = 0 /\ acked[cur] = 1)
            /\ (window[cur] = 0 => start[cur] = 0)
        BY <1>3 DEF ClientPace, LifeInv
      <3>3. QED
        BY <1>1, <2>1, <3>1, <3>2 DEF LifeInv
    <2>3. WindowInv(cur)' /\ LeftInv(cur)'
      BY <1>1, <1>5, <2>1 DEF WindowInv, LeftInv
    <2>4. RoundInv(cur)'
      BY <1>1, <1>2, <1>5, <1>7 DEF RoundInv
    <2>5. AckInv(cur)'
      <3>1. (down'[cur] = <<>> \/ down'[cur] = <<0>>) /\ printed'[cur] = <<>> /\ Len(<<>>) = 0
        BY <1>1, <1>2, <1>4, <1>7
      <3>2. \A k \in 1..Len(down'[cur]) : down'[cur][k] <= Len(printed'[cur]) + 1
        BY <3>1
      <3>3. /\ (window[cur] > 0 /\ (frames[cur] # <<>> => frames[cur][1] # FIN) =>
                 acked[cur] <= Len(printed[cur]) + 1)
            /\ (Regular(cur) => start[cur] + 1 <= acked[cur] + window[cur])
        BY <1>3 DEF ClientPace, AckInv
      <3>4. QED
        BY <1>1, <1>5, <2>1, <3>2, <3>3 DEF AckInv
    <2>6. QED
      BY <2>2, <2>3, <2>4, <2>5 DEF ClientPace
  <1>9. QED
    BY <1>1, <1>6, <1>8, ServedPace DEF DownInv

LEMMA RecvSynAckPace ==
  ASSUME TypeInv, DeliveryInv, PaceInv, RecvSynAck
  PROVE  PaceInv'
  <1>1. /\ spc = "synack" /\ cur \in Clients
        /\ t' = win /\ spc' = ReceiverPc(win)
        /\ UNCHANGED <<cpc, window, frames, start, i, seqno, acked, cur, backlog, down, win,
                       last_seq, flag, printed>>
        /\ conn'[cur] = "open" <=> conn[cur] = "open"
        /\ \A d \in Clients \ {cur} : conn'[d] = conn[d]
        /\ up[cur] # <<>> \/ conn[cur] # "open"
    BY DEF RecvSynAck, clientVars, TypeInv, TypeOK, AtEof
  <1>2. ClientPace(cur) /\ ClientInv(cur) /\ QueueInv
    BY <1>1 DEF PaceInv, DeliveryInv
  <1>3. PaceServed
    BY <1>1 DEF PaceServed
  <1>4. /\ spc' \in {"recv", "ack"} /\ (spc' = "ack" => win = 0) /\ flag
        /\ Served(cur) /\ Served(cur)' /\ printed[cur] = <<>>
        /\ (conn[cur] = "open" => cpc[cur] # "wait_reply")
        /\ win \in Nat /\ start[cur] \in Nat
    BY <1>1, <1>2, PaceTypes DEF ReceiverPc, Served, QueueInv, ClientInv, HandshakeInv
  <1>5. /\ (Regular(cur)' <=> Regular(cur)) /\ (Transferring(cur)' <=> Transferring(cur))
        /\ Emitted(cur)' = Emitted(cur)
    BY <1>1 DEF Regular, Transferring, Emitted
  <1>6. LifeInv(cur)'
    <2>1. ~(spc = "down") /\ ~(spc' = "down")
      BY <1>1, <1>4
    <2>2. QED
      BY <1>1, <1>2, <1>4, <1>5, <2>1 DEF ClientPace, LifeInv
  <1>7. WindowInv(cur)' /\ LeftInv(cur)'
    BY <1>1, <1>2, <1>4, <1>5 DEF ClientPace, WindowInv, LeftInv
  <1>8. RoundInv(cur)'
    <2>1. SUFFICES ASSUME conn[cur] = "open" PROVE RoundInv(cur)'
      BY <1>1 DEF RoundInv
    <2>2. win = window[cur] /\ down[cur] = <<>> /\ start[cur] = i[cur]
      BY <1>1, <1>2, <1>4, <2>1 DEF ClientPace, RoundInv
    <2>3. Len(printed[cur]) + win + i[cur] = start[cur] + win
      <3>1. Len(printed[cur]) = 0
        BY <1>4
      <3>2. QED
        BY <1>4, <2>2, <3>1
    <2>4. QED
      BY <1>1, <1>4, <2>2, <2>3 DEF RoundInv
  <1>9. AckInv(cur)'
    <2>1. spc' = "ack" /\ conn'[cur] = "open" => ~(window[cur] > 0)
      BY <1>1, <1>2, <1>4 DEF ClientPace, RoundInv
    <2>2. QED
      BY <1>1, <1>2, <1>4, <1>5, <2>1 DEF ClientPace, AckInv
  <1>10. ClientPace(cur)'
    BY <1>6, <1>7, <1>8, <1>9 DEF ClientPace
  <1>11. QED
    BY <1>1, <1>3, <1>4, <1>10, ServedPace DEF DownInv

\* The server's process ends: the client it was serving had ended before.
LEMMA DownPace ==
  ASSUME TypeInv, DeliveryInv, PaceInv, RecvFailed \/ SigPipe
  PROVE  PaceInv'
  <1>1. /\ spc \in {"recv", "ack"} /\ spc' = "down" /\ cur \in Clients /\ conn[cur] # "open"
        /\ UNCHANGED <<cpc, window, frames, start, i, seqno, acked, cur, backlog, down, win,
                       conn, t, last_seq, flag, printed>>
    BY DEF RecvFailed, SigPipe, clientVars, netVars, TypeInv, TypeOK
  <1>2. ClientPace(cur) /\ ClientInv(cur) /\ Served(cur) /\ ~Served(cur)'
    BY <1>1 DEF PaceInv, DeliveryInv, Served
  <1>3. PaceServed
    BY <1>1 DEF PaceServed
  <1>4. /\ (Regular(cur)' <=> Regular(cur)) /\ (Transferring(cur)' <=> Transferring(cur))
        /\ Emitted(cur)' = Emitted(cur) /\ ~Receiving(cur)' /\ ~(cur = cur /\ spc = "ack")'
        /\ ~Transferring(cur)
    BY <1>1, <1>2 DEF Regular, Transferring, Emitted, Receiving, ClientInv, SenderInv
  <1>5. cpc[cur] \in {"exited", "dead"}
    BY <1>1, <1>2 DEF ClientInv, SenderInv
  <1>6. LifeInv(cur)'
    BY <1>1, <1>2, <1>4, <1>5 DEF ClientPace, LifeInv
  <1>7. WindowInv(cur)' /\ LeftInv(cur)' /\ RoundInv(cur)'
    BY <1>1, <1>2, <1>4, <1>5 DEF WindowInv, LeftInv, RoundInv
  <1>8. AckInv(cur)'
    BY <1>1, <1>2, <1>4, <1>5 DEF ClientPace, AckInv
  <1>9. ClientPace(cur)'
    BY <1>6, <1>7, <1>8 DEF ClientPace
  <1>10. DownInv'
    BY <1>1, <1>2, <1>4, <1>5 DEF DownInv, ClientPace, LifeInv
  <1>11. QED
    BY <1>1, <1>3, <1>9, <1>10, ServedPace

\* Where the two sides are when the server takes a packet of a living client.
LEMMA ReceivingPace ==
  ASSUME TypeInv, DeliveryInv, PaceInv, spc = "recv", conn[cur] = "open", up[cur] # <<>>
  PROVE  /\ Transferring(cur) /\ frames[cur] # <<>> /\ down[cur] = <<>>
         /\ win = window[cur] /\ win > 0
         /\ Len(printed[cur]) + t + i[cur] = start[cur] + win
         /\ Received = StreamPacket(cur, Len(printed[cur]) + 1)
         /\ Len(printed[cur]) <= start[cur] /\ Len(printed[cur]) + 1 <= Emitted(cur)
  <1>1. cur \in Clients /\ cpc[cur] \in ClientPc /\ t # 0
    BY DEF TypeInv, TypeOK, CountPositive
  <1>2. ClientPace(cur) /\ ClientInv(cur) /\ Served(cur) /\ Receiving(cur)
    BY <1>1 DEF PaceInv, DeliveryInv, Served, Receiving
  <1>3. Transferring(cur) /\ frames[cur] # <<>>
    <2>1. cpc[cur] \notin {"idle", "input", "wait_reply"}
      BY <1>2 DEF ClientInv, ReceivingInv
    <2>2. cpc[cur] # "exited" /\ cpc[cur] # "dead"
      BY <1>2 DEF ClientPace, LifeInv
    <2>3. Transferring(cur)
      BY <1>1, <2>1, <2>2 DEF Transferring, ClientPc
    <2>4. QED
      BY <1>2, <2>3 DEF ClientPace, LifeInv
  <1>4. PICK p \in Nat : p = Len(printed[cur])
    BY <1>1, PaceTypes
  <1>5. PICK q \in Nat : q = Len(up[cur])
    BY <1>1, PaceTypes
  <1>6. /\ start[cur] \in Nat /\ i[cur] \in Nat /\ win \in Nat /\ t \in Nat /\ window[cur] \in Nat
    BY <1>1, PaceTypes
  <1>7. /\ Received = StreamPacket(cur, p + 1)
        /\ p + q = Emitted(cur) /\ q >= 1
    BY <1>4, <1>5, NextOfStream
  <1>8. p <= start[cur]
    BY <1>2, <1>4 DEF ClientInv, PrintedInv
  <1>9. win = window[cur]
    BY <1>2 DEF ClientPace, RoundInv
  <1>10. down[cur] = <<>>
    <2>1. SUFFICES ASSUME down[cur] # <<>> PROVE FALSE
      OBVIOUS
    <2>2. p = start[cur] /\ Emitted(cur) = start[cur]
      BY <1>2, <1>4, <2>1 DEF ClientPace, RoundInv
    <2>3. QED
      BY <1>6, <1>7, <2>2
  <1>11. p + t + i[cur] = start[cur] + win
    BY <1>2, <1>4, <1>10 DEF ClientPace, RoundInv
  <1>12. win > 0
    <2>1. window[cur] = 0 => start[cur] = 0 /\ i[cur] <= start[cur]
      BY <1>2, <1>3 DEF ClientPace, LifeInv, WindowInv
    <2>2. QED
      BY <1>1, <1>6, <1>9, <1>11, <2>1
  <1>13. p + 1 <= Emitted(cur)
    BY <1>7
  <1>14. QED
    BY <1>3, <1>4, <1>7, <1>8, <1>9, <1>10, <1>11, <1>12, <1>13

LEMMA RecvFramePace ==
  ASSUME TypeInv, DeliveryInv, PaceInv, RecvFrame
  PROVE  PaceInv'
  <1>1. /\ spc = "recv" /\ spc' \in {"recv", "ack"} /\ cur \in Clients
        /\ up[cur] # <<>> \/ conn[cur] # "open"
        /\ UNCHANGED <<cpc, window, frames, start, i, seqno, acked, cur, backlog, down, conn, win>>
        /\ \A d \in Clients \ {cur} : printed'[d] = printed[d]
        /\ \/ /\ Received.data = FIN /\ ~flag' /\ spc' = "ack" /\ last_seq' = last_seq
              /\ printed'[cur] = printed[cur]
           \/ /\ Received.data # FIN /\ flag' = flag /\ last_seq' = Received.seq_num
              /\ t' = t - 1 /\ spc' = ReceiverPc(t - 1)
              /\ printed'[cur] = Append(printed[cur], Received)
    BY DEF RecvFrame, StopOnFin, PrintPacket, IsFin, Rest, ReceiverPc, clientVars, TypeInv, TypeOK
  <1>2. /\ ClientPace(cur) /\ ClientInv(cur) /\ Served(cur) /\ Receiving(cur) /\ flag
        /\ Served(cur)' /\ Receiving(cur)'
        /\ t # 0 /\ Received \in Packet
    <2>1. flag /\ t # 0
      BY <1>1 DEF DeliveryInv, QueueInv, TypeInv, CountPositive
    <2>2. Received \in Packet
      BY <1>1, PaceTypes, HeadTailProperties DEF Received, TypeInv, TypeOK
    <2>3. QED
      BY <1>1, <2>1, <2>2 DEF PaceInv, DeliveryInv, Served, Receiving
  <1>3. PaceServed
    BY <1>1 DEF PaceServed
  <1>4. /\ (Regular(cur)' <=> Regular(cur)) /\ (Transferring(cur)' <=> Transferring(cur))
        /\ Emitted(cur)' = Emitted(cur)
    BY <1>1 DEF Regular, Transferring, Emitted
  <1>5. LifeInv(cur)'
    <2>1. ~(spc = "down") /\ ~(spc' = "down")
      BY <1>1
    <2>2. QED
      BY <1>1, <1>2, <1>4, <2>1 DEF ClientPace, LifeInv
  <1>6. WindowInv(cur)' /\ LeftInv(cur)'
    BY <1>1, <1>2, <1>4 DEF ClientPace, WindowInv, LeftInv
  <1>7. /\ start[cur] \in Nat /\ i[cur] \in Nat /\ win \in Nat /\ t \in Nat /\ window[cur] \in Nat
        /\ acked[cur] \in Nat
    BY <1>1, PaceTypes
  <1>8. PICK p \in Nat : p = Len(printed[cur])
    BY <1>1, PaceTypes
  <1>9. PICK l \in Nat : l = Len(frames[cur])
    BY <1>1, PaceTypes
  <1>10. conn[cur] = "open" =>
           /\ up[cur] # <<>> /\ Transferring(cur) /\ frames[cur] # <<>> /\ down[cur] = <<>>
           /\ win = window[cur] /\ win > 0
           /\ p + t + i[cur] = start[cur] + win
           /\ Received = StreamPacket(cur, p + 1)
           /\ p <= start[cur] /\ p + 1 <= Emitted(cur)
    BY <1>1, <1>8, ReceivingPace
  <1>11. l # 0 <=> frames[cur] # <<>>
    BY <1>1, <1>9, PaceTypes, EmptySeq
  <1>12. CASE Received.data = FIN
    <2>1. /\ ~flag' /\ spc' = "ack" /\ last_seq' = last_seq /\ printed'[cur] = printed[cur]
      BY <1>1, <1>12
    <2>2. conn[cur] = "open" /\ p + 1 <= l => frames[cur][p + 1] = FIN
      BY <1>9, <1>10, <1>12 DEF StreamPacket, DataPacket
    <2>3. RoundInv(cur)'
      <3>1. SUFFICES ASSUME conn[cur] = "open" PROVE RoundInv(cur)'
        BY <1>1 DEF RoundInv
      <3>2. Regular(cur) => p = start[cur] /\ Emitted(cur) = start[cur] + 1
        <4>1. SUFFICES ASSUME Regular(cur) PROVE p = start[cur] /\ Emitted(cur) = start[cur] + 1
          OBVIOUS
        <4>2. ~(p + 1 <= l)
          <5>1. p + 1 <= l => p + 1 \in 1..Len(frames[cur])
            BY <1>9
          <5>2. QED
            BY <2>2, <3>1, <4>1, <5>1 DEF Regular
        <4>3. /\ start[cur] <= l /\ start[cur] <= Emitted(cur) /\ Emitted(cur) <= start[cur] + 1
          BY <1>2, <1>9 DEF ClientInv, SenderInv
        <4>4. p = start[cur]
          BY <1>7, <1>10, <3>1, <4>2, <4>3
        <4>5. PICK e \in Int : e = Emitted(cur)
          BY <1>1, PaceTypes
        <4>6. e = start[cur] + 1
          BY <1>7, <1>10, <3>1, <4>3, <4>4, <4>5
        <4>7. QED
          BY <4>4, <4>5, <4>6
      <3>3. QED
        BY <1>1, <1>4, <1>8, <1>10, <2>1, <3>1, <3>2 DEF RoundInv
    <2>4. AckInv(cur)'
      <3>1. conn[cur] = "open" /\ (frames[cur] # <<>> => frames[cur][1] # FIN)
              => printed[cur] # <<>>
        <4>1. SUFFICES ASSUME conn[cur] = "open", printed[cur] = <<>> PROVE frames[cur][1] = FIN
          BY <1>10
        <4>2. p = 0
          BY <1>8, <4>1
        <4>3. p + 1 <= l /\ p + 1 = 1
          BY <1>10, <1>11, <4>1, <4>2
        <4>4. QED
          BY <2>2, <4>1, <4>3
      <3>2. QED
        BY <1>1, <1>2, <1>4, <1>10, <2>1, <3>1 DEF ClientPace, AckInv
    <2>5. QED
      BY <1>1, <1>3, <1>5, <1>6, <2>1, <2>3, <2>4, ServedPace DEF ClientPace, DownInv
  <1>13. CASE Received.data # FIN
    <2>1. /\ flag' /\ last_seq' = Received.seq_num /\ t' = t - 1 /\ spc' = ReceiverPc(t - 1)
          /\ printed'[cur] = Append(printed[cur], Received)
      BY <1>1, <1>2, <1>13
    <2>2. Len(printed'[cur]) = p + 1 /\ printed'[cur] # <<>>
      <3>1. Len(printed'[cur]) = p + 1
        BY <1>1, <1>2, <1>8, <2>1, PaceTypes, AppendProperties
      <3>2. QED
        BY <3>1
    <2>3. RoundInv(cur)'
      <3>1. SUFFICES ASSUME conn[cur] = "open" PROVE RoundInv(cur)'
        BY <1>1 DEF RoundInv
      <3>2. (p + 1) + (t - 1) + i[cur] = start[cur] + win
        BY <1>7, <1>10, <3>1
      <3>3. t - 1 = 0 => (p + 1) + i[cur] = start[cur] + win
        BY <1>7, <3>2
      <3>4. spc' = "recv" => Len(printed'[cur]) + t' + i'[cur] = start'[cur] + win'
        BY <1>1, <2>1, <2>2, <3>2, Zenon
      <3>5. spc' = "ack" => Len(printed'[cur]) + i'[cur] = start'[cur] + win'
        <4>1. spc' = "ack" => t - 1 = 0
          BY <2>1 DEF ReceiverPc
        <4>2. QED
          BY <1>1, <2>2, <3>3, <4>1, Zenon
      <3>6. QED
        BY <1>1, <1>10, <2>1, <3>1, <3>4, <3>5 DEF RoundInv
    <2>4. AckInv(cur)'
      <3>1. conn[cur] = "open" => last_seq' = p + 1
        BY <1>10, <2>1 DEF StreamPacket, DataPacket
      <3>2. /\ \A n \in Nat : n <= p + 1 => n <= (p + 1) + 1
            /\ \A n \in Nat : n <= p => n <= p + 1
        OBVIOUS
      <3>3. \A k \in 1..Len(down[cur]) : down[cur][k] \in Nat
        BY <1>1, PaceTypes, ElementOfSeq
      <3>4. window[cur] > 0 /\ (frames[cur] # <<>> => frames[cur][1] # FIN) =>
              /\ acked'[cur] <= Len(printed'[cur]) + 1
              /\ \A k \in 1..Len(down'[cur]) : down'[cur][k] <= Len(printed'[cur]) + 1
        <4>1. SUFFICES ASSUME window[cur] > 0, frames[cur] # <<>> => frames[cur][1] # FIN
                       PROVE  /\ acked[cur] <= (p + 1) + 1
                              /\ \A k \in 1..Len(down[cur]) : down[cur][k] <= (p + 1) + 1
          BY <1>1, <2>2
        <4>2. /\ acked[cur] <= p + 1
              /\ \A k \in 1..Len(down[cur]) : down[cur][k] <= p + 1
          BY <1>2, <1>8, <4>1 DEF ClientPace, AckInv
        <4>3. QED
          BY <1>7, <3>2, <3>3, <4>2
      <3>5. start[cur] <= Len(printed[cur]) => start'[cur] <= Len(printed'[cur])
        BY <1>1, <1>7, <1>8, <2>2, <3>2
      <3>6. Receiving(cur)' /\ conn'[cur] = "open" => last_seq' = Len(printed'[cur])
        BY <1>1, <2>2, <3>1
      <3>7. Regular(cur)' =>
               /\ start'[cur] + 1 <= acked'[cur] + window'[cur]
               /\ Transferring(cur)' => acked'[cur] + i'[cur] = start'[cur] + 1
               /\ cpc'[cur] = "wait_ack" => \A k \in 1..Len(down'[cur]) : down'[cur][k] = start'[cur] + 1
               /\ cpc'[cur] = "exited" /\ frames'[cur] # <<>> =>
                    acked'[cur] = start'[cur] + 1 /\ start'[cur] <= Len(printed'[cur])
        BY <1>1, <1>2, <1>4, <3>5 DEF ClientPace, AckInv
      <3>8. QED
        BY <1>1, <2>2, <3>4, <3>6, <3>7 DEF AckInv
    <2>5. QED
      BY <1>1, <1>3, <1>5, <1>6, <2>3, <2>4, ServedPace DEF ClientPace, DownInv
  <1>14. QED
    BY <1>12, <1>13

\* Where the two sides are when the server acknowledges a living client.
LEMMA AcknowledgingPace ==
  ASSUME TypeInv, DeliveryInv, PaceInv, spc = "ack", conn[cur] = "open"
  PROVE  /\ Transferring(cur) /\ win = window[cur] /\ (~flag => win > 0)
         /\ win > 0 => down[cur] = <<>>
         /\ win > 0 /\ flag =>
              /\ Len(printed[cur]) = start[cur]
              /\ cpc[cur] = "wait_ack" /\ Emitted(cur) = start[cur]
         /\ Regular(cur) => Len(printed[cur]) = start[cur]
         /\ Regular(cur) /\ ~flag => Emitted(cur) = start[cur] + 1
  <1>1. cur \in Clients /\ cpc[cur] \in ClientPc
    BY DEF TypeInv, TypeOK
  <1>2. ClientPace(cur) /\ ClientInv(cur) /\ Served(cur) /\ Receiving(cur)
    BY <1>1 DEF PaceInv, DeliveryInv, Served, Receiving
  <1>3. Transferring(cur)
    <2>1. cpc[cur] \notin {"idle", "input", "wait_reply"}
      BY <1>2 DEF ClientInv, ReceivingInv
    <2>2. cpc[cur] # "exited" /\ cpc[cur] # "dead"
      BY <1>2 DEF ClientPace, LifeInv
    <2>3. QED
      BY <1>1, <2>1, <2>2 DEF Transferring, ClientPc
  <1>4. PICK p \in Nat : p = Len(printed[cur])
    BY <1>1, PaceTypes
  <1>5. /\ start[cur] \in Nat /\ i[cur] \in Nat /\ win \in Nat /\ window[cur] \in Nat
    BY <1>1, PaceTypes
  <1>6. win = window[cur] /\ (~flag => win > 0)
    BY <1>2 DEF ClientPace, RoundInv
  <1>7. p <= start[cur] /\ i[cur] <= window[cur]
    BY <1>2, <1>3, <1>4 DEF ClientInv, PrintedInv, ClientPace, WindowInv
  <1>8. win > 0 =>
          /\ down[cur] = <<>>
          /\ flag => p + i[cur] = start[cur] + win
          /\ ~flag /\ Regular(cur) => p = start[cur] /\ Emitted(cur) = start[cur] + 1
    BY <1>2, <1>4 DEF ClientPace, RoundInv
  <1>9. win > 0 /\ flag => p = start[cur] /\ i[cur] = win
    BY <1>5, <1>6, <1>7, <1>8
  <1>10. win > 0 /\ flag => cpc[cur] = "wait_ack" /\ Emitted(cur) = start[cur]
    BY <1>2, <1>3, <1>5, <1>6, <1>9 DEF ClientPace, WindowInv, Transferring
  <1>11. Regular(cur) => win > 0
    BY <1>6 DEF Regular
  <1>12. QED
    BY <1>3, <1>4, <1>6, <1>8, <1>9, <1>10, <1>11

LEMMA SendWindowAckPace ==
  ASSUME TypeInv, DeliveryInv, PaceInv, SendWindowAck
  PROVE  PaceInv'
  <1>1. /\ spc = "ack" /\ SendAck(cur, AckNum) /\ cur \in Clients
        /\ UNCHANGED <<cpc, window, frames, start, i, seqno, acked, cur, backlog, win,
                       last_seq, flag, printed>>
        /\ \/ flag /\ t' = win /\ spc' = ReceiverPc(win)
           \/ ~flag /\ spc' = "accept"
    BY DEF SendWindowAck, clientVars, TypeInv, TypeOK
  <1>2. AckNum = last_seq + 1 /\ last_seq \in Nat /\ AckNum \in Nat
    BY <1>1, PaceTypes DEF AckNum
  <1>3. \/ /\ conn[cur] = "open" /\ conn'[cur] = "open"
           /\ down'[cur] = Append(down[cur], AckNum)
        \/ conn[cur] # "open" /\ conn'[cur] # "open" /\ down'[cur] = down[cur]
    BY <1>1, <1>2, AfterSend
  <1>4. ClientPace(cur) /\ ClientInv(cur) /\ Served(cur) /\ Receiving(cur)
    BY <1>1 DEF PaceInv, DeliveryInv, Served, Receiving
  <1>5. PaceServed
    <2>1. \A d \in Clients \ {cur} : conn'[d] = conn[d] /\ down'[d] = down[d]
      BY <1>1, <1>2, AfterSendAck
    <2>2. QED
      BY <1>1, <2>1 DEF PaceServed
  <1>6. /\ (Regular(cur)' <=> Regular(cur)) /\ (Transferring(cur)' <=> Transferring(cur))
        /\ Emitted(cur)' = Emitted(cur)
    BY <1>1 DEF Regular, Transferring, Emitted
  <1>7. /\ spc' \in {"recv", "ack", "accept"} /\ (spc' = "accept" <=> ~flag)
        /\ (Served(cur)' <=> flag) /\ (Receiving(cur)' => Receiving(cur))
        /\ (spc' = "ack" => win = 0)
        /\ (spc' = "recv" => t' = win)
    BY <1>1, <1>4 DEF ReceiverPc, Served, Receiving
  <1>8. cpc[cur] # "wait_reply"
    BY <1>4 DEF ClientInv, ReceivingInv
  <1>9. LifeInv(cur)'
    <2>1. ~(spc = "down") /\ ~(spc' = "down")
      BY <1>1, <1>7
    <2>2. cpc[cur] = "dead" => conn[cur] # "open"
      BY <1>4, <2>1 DEF ClientPace, LifeInv
    <2>3. QED
      BY <1>1, <1>3, <1>4, <1>6, <1>8, <2>2 DEF ClientPace, LifeInv
  <1>10. WindowInv(cur)'
    BY <1>1, <1>4, <1>6 DEF ClientPace, WindowInv
  <1>11. /\ start[cur] \in Nat /\ i[cur] \in Nat /\ win \in Nat /\ window[cur] \in Nat
         /\ acked[cur] \in Nat /\ down[cur] \in Seq(Nat)
    BY <1>1, PaceTypes
  <1>12. DownInv'
    BY <1>7 DEF DownInv
  <1>13. CASE conn[cur] # "open"
    <2>1. ~Transferring(cur) /\ conn'[cur] # "open" /\ down'[cur] = down[cur]
      BY <1>1, <1>3, <1>4, <1>13 DEF ClientInv, SenderInv, Transferring
    <2>2. RoundInv(cur)' /\ LeftInv(cur)'
      BY <1>1, <1>6, <2>1 DEF RoundInv, LeftInv
    <2>3. AckInv(cur)'
      BY <1>1, <1>4, <1>6, <2>1 DEF ClientPace, AckInv
    <2>4. QED
      BY <1>1, <1>5, <1>9, <1>10, <1>12, <2>2, <2>3, ServedPace DEF ClientPace
  <1>14. CASE conn[cur] = "open"
    <2>1. /\ Transferring(cur) /\ win = window[cur] /\ (~flag => win > 0)
          /\ win > 0 => down[cur] = <<>>
          /\ win > 0 /\ flag =>
               /\ Len(printed[cur]) = start[cur]
               /\ cpc[cur] = "wait_ack" /\ Emitted(cur) = start[cur]
          /\ Regular(cur) => Len(printed[cur]) = start[cur]
          /\ Regular(cur) /\ ~flag => Emitted(cur) = start[cur] + 1
      BY <1>1, <1>14, AcknowledgingPace
    <2>2. down'[cur] = Append(down[cur], AckNum)
      BY <1>3, <1>14
    <2>3. win > 0 => down'[cur] = <<AckNum>> /\ Len(down'[cur]) = 1 /\ down'[cur] # <<>>
      BY <1>2, <1>11, <2>1, <2>2, SingleElement
    <2>4. window[cur] > 0 /\ (frames[cur] # <<>> => frames[cur][1] # FIN)
            => AckNum = Len(printed[cur]) + 1
      <3>1. window[cur] > 0 /\ (frames[cur] # <<>> => frames[cur][1] # FIN)
              => last_seq = Len(printed[cur])
        BY <1>1, <1>4, <1>14 DEF ClientPace, AckInv
      <3>2. QED
        BY <1>2, <3>1
    <2>5. Regular(cur) => AckNum = start[cur] + 1
      <3>1. Regular(cur) => window[cur] > 0 /\ frames[cur][1] # FIN
        <4>1. frames[cur] # <<>>
          BY <1>4, <2>1 DEF ClientPace, LifeInv
        <4>2. 1 \in 1..Len(frames[cur])
          BY <1>1, <4>1, PaceTypes, EmptySeq
        <4>3. QED
          BY <4>2 DEF Regular
      <3>2. QED
        BY <2>1, <2>4, <3>1
    <2>6. RoundInv(cur)'
      <3>1. SUFFICES ASSUME flag PROVE RoundInv(cur)'
        BY <1>7 DEF RoundInv
      <3>2. spc' = "recv" => win > 0
        BY <1>1, <1>11, <3>1 DEF ReceiverPc
      <3>3. spc' \in {"recv", "ack"}
        BY <1>7, <3>1
      <3>4. QED
        BY <1>1, <1>6, <1>7, <2>1, <2>3, <3>1, <3>2, <3>3 DEF RoundInv
    <2>7. LeftInv(cur)'
      <3>1. SUFFICES ASSUME ~flag PROVE LeftInv(cur)'
        BY <1>7 DEF LeftInv
      <3>2. QED
        BY <1>1, <1>6, <2>1, <2>3, <3>1 DEF LeftInv
    <2>8. AckInv(cur)'
      <3>1. (cur = cur /\ spc = "ack")' => win = 0
        BY <1>7
      <3>2. window[cur] > 0 =>
              (\A k \in 1..Len(down'[cur]) : k = 1 /\ down'[cur][k] = AckNum)
        BY <2>1, <2>3
      <3>3. PICK p \in Nat : p = Len(printed[cur])
        BY <1>1, PaceTypes
      <3>4. p + 1 <= p + 1
        BY <3>3
      <3>5. window[cur] > 0 /\ (frames[cur] # <<>> => frames[cur][1] # FIN) =>
              /\ acked'[cur] <= Len(printed'[cur]) + 1
              /\ \A k \in 1..Len(down'[cur]) : down'[cur][k] <= Len(printed'[cur]) + 1
              /\ ~(cur = cur /\ spc = "ack")'
        <4>1. window[cur] > 0 /\ (frames[cur] # <<>> => frames[cur][1] # FIN) =>
                acked[cur] <= Len(printed[cur]) + 1
          BY <1>4 DEF ClientPace, AckInv
        <4>2. window[cur] > 0 /\ (frames[cur] # <<>> => frames[cur][1] # FIN) =>
                \A k \in 1..Len(down'[cur]) : down'[cur][k] <= Len(printed[cur]) + 1
          BY <2>4, <3>2, <3>3, <3>4
        <4>3. window[cur] > 0 => ~(cur = cur /\ spc = "ack")'
          BY <2>1, <3>1
        <4>4. QED
          BY <1>1, <4>1, <4>2, <4>3
      <3>6. Regular(cur) =>
              (\A k \in 1..Len(down'[cur]) : down'[cur][k] = start[cur] + 1)
        BY <2>5, <3>2 DEF Regular
      <3>7. QED
        BY <1>1, <1>4, <1>6, <1>7, <1>14, <3>5, <3>6 DEF ClientPace, AckInv
    <2>9. QED
      BY <1>1, <1>5, <1>9, <1>10, <1>12, <2>6, <2>7, <2>8, ServedPace DEF ClientPace
  <1>15. QED
    BY <1>13, <1>14

-----------------------------------------------------------------------------
(* PaceInv is inductive.                                                   *)

LEMMA PaceInit == Init => PaceInv
  <1> SUFFICES ASSUME Init PROVE PaceInv
    OBVIOUS
  <1>1. DownInv /\ spc = "accept"
    BY DEF Init, DownInv
  <1>2. ASSUME NEW c \in Clients PROVE ClientPace(c)
    <2>1. /\ cpc[c] = "idle" /\ start[c] = 0 /\ acked[c] = 1 /\ frames[c] = <<>>
          /\ window[c] = 0 /\ conn[c] = "open"
      BY DEF Init
    <2>2. ~Served(c) /\ ~Transferring(c) /\ ~Receiving(c) /\ ~Regular(c)
      BY <1>1, <2>1 DEF Served, Transferring, Receiving, Regular
    <2>3. LifeInv(c) /\ WindowInv(c)
      BY <2>1, <2>2 DEF LifeInv, WindowInv
    <2>4. RoundInv(c) /\ LeftInv(c)
      BY <2>2 DEF RoundInv, LeftInv
    <2>5. AckInv(c)
      BY <2>1, <2>2 DEF AckInv
    <2>6. QED
      BY <2>3, <2>4, <2>5 DEF ClientPace
  <1>3. QED
    BY <1>1, <1>2 DEF PaceInv

LEMMA PaceStutter ==
  ASSUME PaceInv, UNCHANGED vars
  PROVE  PaceInv'
  <1>1. ASSUME NEW d \in Clients PROVE PaceUntouched(d)
    BY DEF PaceUntouched, Served, Unserved, InBacklog, vars, clientVars, netVars, serverVars
  <1>2. DownInv'
    BY DEF PaceInv, DownInv, Emitted, vars, clientVars, netVars, serverVars
  <1>3. QED
    BY <1>1, <1>2, PaceUntouchedKept DEF PaceInv

LEMMA PaceStep == TypeInv /\ DeliveryInv /\ PaceInv /\ [Next]_vars => PaceInv'
  <1> SUFFICES ASSUME TypeInv, DeliveryInv, PaceInv, [Next]_vars PROVE PaceInv'
    OBVIOUS
  <1>1. ASSUME NEW c \in Clients, ClientStep(c) \/ ClientKilled(c)
        PROVE  PaceInv'
    BY <1>1, ClientPaceKept
  <1>2. CASE ServerStep
    BY <1>2, AcceptPace, RecvSynPace, RecvSynAckPace, RecvFramePace, DownPace,
       SendWindowAckPace DEF ServerStep
  <1>3. CASE UNCHANGED vars
    BY <1>3, PaceStutter
  <1>4. QED
    BY <1>1, <1>2, <1>3 DEF Next, Quiescent

\* Wherever the two processes are, the acknowledgements they exchanged, the
\* windows they count and the place in the stream agree.
THEOREM Pace == Spec => [](TypeInv /\ DeliveryInv /\ PaceInv)
  <1>1. Init => TypeInv /\ DeliveryInv /\ PaceInv
    BY TypeInit, DeliveryInit, PaceInit
  <1>2. TypeInv /\ DeliveryInv /\ PaceInv /\ [Next]_vars => (TypeInv /\ DeliveryInv /\ PaceInv)'
    BY TypeStep, DeliveryStep, PaceStep
  <1>3. QED
    BY <1>1, <1>2, PTL DEF Spec

-----------------------------------------------------------------------------
(* What follows for acknowledgements and for the end of the server.        *)

\* An acknowledgement, received or under way, covers only packets the server
\* has printed, unless the window is 0 or the first packet carries FIN.
THEOREM AcknowledgementsHonest == Spec => []AckHonest
  <1>1. TypeInv /\ PaceInv => AckHonest
    <2>1. SUFFICES ASSUME TypeInv, PaceInv, NEW c \in Clients, window[c] > 0,
                          frames[c] # <<>> => frames[c][1] # FIN
                   PROVE  /\ acked[c] <= Len(printed[c]) + 1
                          /\ \A k \in DOMAIN down[c] : down[c][k] <= Len(printed[c]) + 1
      BY DEF AckHonest
    <2>2. DOMAIN down[c] = 1..Len(down[c])
      BY <2>1, PaceTypes, LenProperties
    <2>3. AckInv(c)
      BY <2>1 DEF PaceInv, ClientPace
    <2>4. QED
      BY <2>1, <2>2, <2>3 DEF AckInv
  <1>2. QED
    BY <1>1, Pace, PTL

\* The server's process ends only on account of a client that ended without
\* having sent FIN.
THEOREM ServerEndsOnlyWithoutFin == Spec => []ServerDownOnlyWithoutFin
  <1>1. TypeInv /\ DeliveryInv /\ PaceInv => ServerDownOnlyWithoutFin
    <2>1. SUFFICES ASSUME TypeInv, DeliveryInv, PaceInv, spc = "down"
                   PROVE  cpc[cur] = "dead" \/ (cpc[cur] = "exited" /\ Emitted(cur) = start[cur])
      BY DEF ServerDownOnlyWithoutFin
    <2>2. cur \in Clients /\ conn[cur] # "open"
          /\ (cpc[cur] = "dead" \/ Emitted(cur) = start[cur])
      BY <2>1 DEF PaceInv, DownInv, TypeInv, TypeOK
    <2>3. cpc[cur] \in {"exited", "dead"}
      BY <2>1, <2>2 DEF DeliveryInv, ClientInv, SenderInv
    <2>4. QED
      BY <2>2, <2>3
  <1>2. QED
    BY <1>1, Pace, PTL

\* The server leaves a connection whose client still waits for an
\* acknowledgement only if that client's data contains the value FIN.
THEOREM AbandonedOnlyByData == Spec => []AbandonedOnlyByInBandFin
  <1>1. TypeInv /\ PaceInv => AbandonedOnlyByInBandFin
    <2>1. SUFFICES ASSUME TypeInv, PaceInv, NEW c \in Clients,
                          cpc[c] = "wait_ack", down[c] = <<>>, cur # c \/ spc = "accept"
                   PROVE  \E k \in DOMAIN frames[c] : frames[c][k] = FIN
      BY DEF AbandonedOnlyByInBandFin
    <2>2. Transferring(c) /\ ~Served(c) /\ LeftInv(c)
      BY <2>1 DEF PaceInv, ClientPace, Transferring, Served
    <2>3. Len(down[c]) # 1
      BY <2>1
    <2>4. window[c] > 0 /\ ~Regular(c)
      BY <2>2, <2>3 DEF LeftInv
    <2>5. DOMAIN frames[c] = 1..Len(frames[c])
      BY <2>1, PaceTypes, LenProperties
    <2>6. QED
      BY <2>4, <2>5 DEF Regular
  <1>2. QED
    BY <1>1, Pace, PTL

-----------------------------------------------------------------------------
(* What follows when no datum is FIN.                                      *)

\* Only the reply to the handshake carries 0.
Positive(c) ==
  /\ acked[c] >= 1
  /\ \A k \in 1..Len(down[c]) : down[c][k] = 0 => cpc[c] \in {"wait_reply", "dead"}

PositiveInv == \A c \in Clients : Positive(c)

LEMMA PositiveClient ==
  ASSUME TypeInv, DeliveryInv, PaceInv, PositiveInv,
         NEW c \in Clients, ClientStep(c) \/ ClientKilled(c)
  PROVE  PositiveInv'
  <1>1. PaceOnly(c)
    BY ClientStepIsLocal
  <1>2. \A d \in Clients \ {c} : Positive(d)'
    BY <1>1 DEF PositiveInv, Positive, PaceOnly
  <1>3. Positive(c)
    BY DEF PositiveInv
  <1>4. ASSUME Connect(c) \/ SendSyn(c) PROVE Positive(c)'
    <2>1. cpc[c] \in {"idle", "input"} /\ down'[c] = down[c] /\ acked'[c] = acked[c]
      BY <1>4 DEF Connect, SendSyn
    <2>2. down[c] = <<>>
      BY <2>1, NotYetServed
    <2>3. QED
      BY <1>3, <2>1, <2>2 DEF Positive
  <1>5. ASSUME ClientKilled(c) \/ ServerGone(c) PROVE Positive(c)'
    <2>1. cpc'[c] = "dead" /\ acked'[c] = acked[c]
      BY <1>5 DEF ClientKilled, ServerGone, TypeInv, TypeOK
    <2>2. QED
      BY <1>3, <2>1 DEF Positive
  <1>6. ASSUME SendFrame(c) \/ SendFin(c) PROVE Positive(c)'
    <2>1. cpc[c] = "window" /\ down'[c] = down[c] /\ acked'[c] = acked[c]
      BY <1>6 DEF SendFrame, SendFin
    <2>2. QED
      BY <1>3, <2>1 DEF Positive
  <1>7. ASSUME RecvReply(c) PROVE Positive(c)'
    <2>1. cpc[c] = "wait_reply" /\ down[c] # <<>> /\ down'[c] = Tail(down[c]) /\ acked'[c] = acked[c]
      BY <1>7 DEF RecvReply, TypeInv, TypeOK
    <2>2. ClientPace(c) /\ ClientInv(c)
      BY DEF PaceInv, DeliveryInv
    <2>3. Served(c) /\ conn[c] = "open" /\ spc = "synack"
      BY <2>1, <2>2 DEF ClientPace, LifeInv, ClientInv, UnservedInv, SenderInv, ReceivingInv,
                        Receiving, Served
    <2>4. down[c] = <<0>>
      BY <2>1, <2>2, <2>3 DEF ClientPace, RoundInv
    <2>5. Len(down'[c]) = 0
      BY <2>1, <2>4
    <2>6. acked'[c] >= 1
      BY <1>3, <2>1 DEF Positive
    <2>7. 1..Len(down'[c]) = {}
      BY <2>5
    <2>8. QED
      BY ONLY <2>6, <2>7 DEF Positive
  <1>8. ASSUME RecvWindowAck(c) PROVE Positive(c)'
    <2>1. /\ cpc[c] = "wait_ack" /\ down[c] # <<>> /\ down[c] \in Seq(Nat)
          /\ down'[c] = Tail(down[c]) /\ acked'[c] = Head(down[c])
      BY <1>8 DEF RecvWindowAck, TypeInv, TypeOK
    <2>2. /\ Len(down[c]) \in Nat \ {0} /\ acked'[c] = down[c][1] /\ acked'[c] \in Nat
          /\ Len(down'[c]) = Len(down[c]) - 1
          /\ \A k \in 1..Len(down'[c]) : down'[c][k] = down[c][k + 1]
      BY <2>1, HeadTailProperties, EmptySeq
    <2>3. \A k \in 1..Len(down[c]) : down[c][k] # 0
      BY <1>3, <2>1 DEF Positive
    <2>4. 1 \in 1..Len(down[c]) /\ \A k \in 1..Len(down'[c]) : k + 1 \in 1..Len(down[c])
      BY <2>2
    <2>5. acked'[c] >= 1
      BY <2>2, <2>3, <2>4
    <2>6. QED
      BY <2>2, <2>3, <2>4, <2>5 DEF Positive
  <1>9. Positive(c)'
    BY <1>4, <1>5, <1>6, <1>7, <1>8 DEF ClientStep
  <1>10. QED
    BY <1>2, <1>9 DEF PositiveInv

LEMMA PositiveServer ==
  ASSUME TypeInv, DeliveryInv, PaceInv, PositiveInv, ServerStep
  PROVE  PositiveInv'
  <1>1. acked' = acked /\ cpc' = cpc /\ cur \in Clients
    BY DEF ServerStep, Accept, RecvSyn, RecvSynAck, RecvFrame, RecvFailed, SendWindowAck,
           SigPipe, clientVars, TypeInv, TypeOK
  <1>2. CASE down' = down
    BY <1>1, <1>2 DEF PositiveInv, Positive
  <1>3. ASSUME NEW n \in Nat, SendAck(cur, n),
               n = 0 => cpc[cur] \in {"wait_reply", "dead"}
        PROVE  PositiveInv'
    <2>1. \A d \in Clients \ {cur} : Positive(d)'
      <3>1. \A d \in Clients \ {cur} : down'[d] = down[d]
        BY <1>3, AfterSendAck
      <3>2. QED
        BY <1>1, <3>1 DEF PositiveInv, Positive
    <2>2. CASE down'[cur] = down[cur]
      BY <1>1, <2>1, <2>2 DEF PositiveInv, Positive
    <2>3. CASE down'[cur] = Append(down[cur], n)
      <3>1. /\ Len(down[cur]) \in Nat /\ Len(down'[cur]) = Len(down[cur]) + 1
            /\ \A k \in 1..Len(down[cur]) : down'[cur][k] = down[cur][k]
            /\ down'[cur][Len(down[cur]) + 1] = n
        BY <1>1, <2>3, PaceTypes, AppendProperties
      <3>2. \A k \in 1..Len(down'[cur]) : k \in 1..Len(down[cur]) \/ k = Len(down[cur]) + 1
        BY <3>1
      <3>3. \A k \in 1..Len(down'[cur]) : down'[cur][k] = 0 => cpc'[cur] \in {"wait_reply", "dead"}
        BY <1>1, <1>3, <3>1, <3>2 DEF PositiveInv, Positive
      <3>4. \A d \in Clients : Positive(d)'
        BY <1>1, <2>1, <3>3 DEF PositiveInv, Positive
      <3>5. QED
        BY <3>4 DEF PositiveInv
    <2>4. QED
      BY <1>3, <2>2, <2>3, AfterSend
  <1>4. CASE RecvSyn
    <2>1. spc = "syn" /\ SendAck(cur, 0) /\ (up[cur] # <<>> \/ AtEof(cur))
      BY <1>4 DEF RecvSyn
    <2>2. ClientInv(cur) /\ QueueInv /\ Unserved(cur)
      BY <1>1, <2>1 DEF DeliveryInv, Unserved
    <2>3. cpc[cur] \in {"wait_reply", "dead"}
      BY <2>1, <2>2 DEF ClientInv, SenderInv, UnservedInv, QueueInv, AtEof
    <2>4. QED
      BY <1>3, <2>1, <2>3
  <1>5. CASE SendWindowAck
    <2>1. SendAck(cur, AckNum) /\ AckNum \in Nat /\ AckNum # 0
      BY <1>1, <1>5, PaceTypes DEF SendWindowAck, AckNum
    <2>2. QED
      BY <1>3, <2>1
  <1>6. CASE Accept \/ RecvSynAck \/ RecvFrame \/ RecvFailed \/ SigPipe
    <2>1. down' = down
      BY <1>6 DEF Accept, RecvSynAck, RecvFrame, RecvFailed, SigPipe, netVars
    <2>2. QED
      BY <1>2, <2>1
  <1>7. QED
    BY <1>4, <1>5, <1>6 DEF ServerStep

LEMMA PositiveAlways == Spec => []PositiveInv
  <1>1. Init => PositiveInv
    <2>1. SUFFICES ASSUME Init, NEW c \in Clients PROVE Positive(c)
      BY DEF PositiveInv
    <2>2. acked[c] = 1 /\ Len(down[c]) = 0
      BY <2>1 DEF Init
    <2>3. QED
      BY <2>2 DEF Positive
  <1>2. TypeInv /\ DeliveryInv /\ PaceInv /\ PositiveInv /\ [Next]_vars => PositiveInv'
    <2>1. SUFFICES ASSUME TypeInv, DeliveryInv, PaceInv, PositiveInv, [Next]_vars
                   PROVE  PositiveInv'
      OBVIOUS
    <2>2. CASE UNCHANGED vars
      BY <2>1, <2>2 DEF PositiveInv, Positive, vars, clientVars, netVars
    <2>3. QED
      BY <2>1, <2>2, PositiveClient, PositiveServer DEF Next, Quiescent
  <1>3. QED
    BY <1>1, <1>2, Pace, PTL DEF Spec

\* When no datum is FIN the client is never more than one window ahead of the
\* acknowledgement it last received.
THEOREM WindowRespected ==
  ASSUME FIN \notin Data
  PROVE  Spec => []FlowControl
  <1>1. TypeInv /\ PaceInv /\ PositiveInv => FlowControl
    <2>1. SUFFICES ASSUME TypeInv, PaceInv, PositiveInv, NEW c \in Clients
                   PROVE  start[c] + 1 <= acked[c] + window[c]
      BY DEF FlowControl
    <2>2. start[c] \in Nat /\ acked[c] \in Nat /\ window[c] \in Nat /\ frames[c] \in Seq(Data)
      BY <2>1, PaceTypes
    <2>3. AckInv(c) /\ LifeInv(c) /\ acked[c] >= 1
      BY <2>1 DEF PaceInv, ClientPace, PositiveInv, Positive
    <2>4. CASE window[c] = 0
      <3>1. start[c] = 0
        BY <2>3, <2>4 DEF LifeInv
      <3>2. QED
        BY <2>2, <2>3, <2>4, <3>1
    <2>5. CASE window[c] > 0
      <3>1. Regular(c)
        BY <2>2, <2>5, ElementOfSeq DEF Regular
      <3>2. QED
        BY <2>3, <3>1 DEF AckInv
    <2>6. QED
      BY <2>2, <2>4, <2>5
  <1>2. QED
    BY <1>1, Pace, PositiveAlways, PTL

\* When no datum is FIN, a client that returns from slidingwindow_algo has had
\* all its data printed and acknowledged.
THEOREM CompletionDelivers ==
  ASSUME FIN \notin Data
  PROVE  Spec => []CompletionMeansDelivered
  <1>1. TypeInv /\ PaceInv => CompletionMeansDelivered
    <2>1. SUFFICES ASSUME TypeInv, PaceInv, NEW c \in Clients,
                          cpc[c] = "exited", frames[c] # <<>>
                   PROVE  /\ Len(printed[c]) >= Len(frames[c])
                          /\ acked[c] = Len(frames[c]) + 1
      BY DEF CompletionMeansDelivered
    <2>2. start[c] \in Nat /\ window[c] \in Nat /\ frames[c] \in Seq(Data)
      BY <2>1, PaceTypes
    <2>3. AckInv(c) /\ start[c] = Len(frames[c]) /\ (window[c] = 0 => start[c] = 0)
      BY <2>1 DEF PaceInv, ClientPace, LifeInv
    <2>4. Len(frames[c]) # 0
      BY <2>1, <2>2, EmptySeq
    <2>5. window[c] > 0
      BY <2>2, <2>3, <2>4
    <2>6. Regular(c)
      BY <2>2, <2>5, ElementOfSeq DEF Regular
    <2>7. acked[c] = start[c] + 1 /\ start[c] <= Len(printed[c])
      BY <2>1, <2>3, <2>6 DEF AckInv
    <2>8. PICK p \in Nat : p = Len(printed[c])
      BY <2>1, PaceTypes
    <2>9. p >= start[c]
      BY <2>2, <2>7, <2>8
    <2>10. QED
      BY <2>3, <2>7, <2>8, <2>9
  <1>2. QED
    BY <1>1, Pace, PTL

-----------------------------------------------------------------------------
(* The exercise implements a windowed transfer.                            *)

\* How many packets of c's stream the receiver has obtained.
ObtainedCount(c) == IF Len(printed[c]) < start[c] THEN Len(printed[c]) ELSE start[c]

LEMMA ObtainedLength ==
  ASSUME TypeInv, NEW c \in Clients
  PROVE  /\ ObtainedCount(c) \in Nat
         /\ Obtained(c) = [k \in 1..ObtainedCount(c) |-> printed[c][k].data]
         /\ Len(Obtained(c)) = ObtainedCount(c)
  <1>1. ObtainedCount(c) \in Nat
    BY PaceTypes DEF ObtainedCount
  <1>2. Obtained(c) = [k \in 1..ObtainedCount(c) |-> printed[c][k].data]
    BY DEF Obtained, ObtainedCount
  <1>3. Len(Obtained(c)) = ObtainedCount(c)
    BY <1>1, <1>2
  <1>4. QED
    BY <1>1, <1>2, <1>3

\* What WindowTransfer sees of a step that neither sends a packet nor prints
\* one nor takes an acknowledgement is nothing.
LEMMA NothingSeen ==
  ASSUME UNCHANGED <<window, frames, start, acked>>,
         \A c \in Clients : Obtained(c)' = Obtained(c)
  PROVE  UNCHANGED Transfer!vars
  BY DEF Transfer!vars

LEMMA ObtainedSame ==
  ASSUME NEW c \in Clients, printed'[c] = printed[c], start'[c] = start[c]
  PROVE  Obtained(c)' = Obtained(c)
  BY DEF Obtained

LEMMA SendSynChooses ==
  ASSUME TypeInv, DeliveryInv, PaceInv, NEW c \in Clients, SendSyn(c)
  PROVE  Transfer!Choose(c)
  <1>1. /\ cpc[c] = "input" /\ UNCHANGED <<start, acked, printed>>
        /\ \E w \in Windows : window' = [window EXCEPT ![c] = w]
        /\ \E f \in Payloads : frames' = [frames EXCEPT ![c] = f]
    BY DEF SendSyn
  <1>2. window[c] = 0
    BY <1>1 DEF PaceInv, ClientPace, LifeInv
  <1>3. \A d \in Clients : Obtained(d)' = Obtained(d)
    BY <1>1, ObtainedSame
  <1>4. QED
    BY <1>1, <1>2, <1>3 DEF Transfer!Choose

LEMMA SendFrameSends ==
  ASSUME FIN \notin Data, TypeInv, DeliveryInv, PaceInv, NEW c \in Clients, SendFrame(c)
  PROVE  Transfer!SendItem(c)
  <1>1. /\ cpc[c] = "window" /\ start[c] < Len(frames[c])
        /\ start' = [start EXCEPT ![c] = @ + 1]
        /\ UNCHANGED <<window, frames, acked, conn, printed>>
    BY DEF SendFrame
  <1>2. /\ start[c] \in Nat /\ i[c] \in Nat /\ acked[c] \in Nat /\ window[c] \in Nat
        /\ frames[c] \in Seq(Data)
    BY PaceTypes
  <1>3. i[c] < window[c] /\ conn[c] = "open" /\ Transferring(c)
    <2>1. Transferring(c)
      BY <1>1 DEF Transferring
    <2>2. QED
      BY <1>1, <2>1, TransferringOpen DEF PaceInv, ClientPace, WindowInv
  <1>4. start[c] < (acked[c] - 1) + window[c]
    <2>1. window[c] > 0
      BY <1>2, <1>3
    <2>2. Regular(c)
      BY <1>2, <2>1, ElementOfSeq DEF Regular
    <2>3. acked[c] + i[c] = start[c] + 1
      BY <1>3, <2>2 DEF PaceInv, ClientPace, AckInv
    <2>4. QED
      BY <1>2, <1>3, <2>3
  <1>5. Obtained(c)' = Obtained(c)
    <2>1. PICK p \in Nat : p = Len(printed[c])
      BY PaceTypes
    <2>2. p <= start[c]
      BY <1>3, <2>1 DEF DeliveryInv, ClientInv, PrintedInv
    <2>3. ~(p < start[c]) => p = start[c]
      BY <1>2, <2>1, <2>2
    <2>4. start'[c] = start[c] + 1 /\ p < start[c] + 1
      BY <1>1, <1>2, <2>1, <2>2 DEF TypeInv, TypeOK
    <2>5. ObtainedCount(c) = p /\ ObtainedCount(c)' = p
      BY <1>1, <2>1, <2>3, <2>4 DEF ObtainedCount
    <2>6. Obtained(c) = [k \in 1..p |-> printed[c][k].data]
      BY <2>5, ObtainedLength
    <2>7. Obtained(c)' = [k \in 1..p |-> printed'[c][k].data]
      BY <2>5 DEF Obtained, ObtainedCount
    <2>8. QED
      BY <1>1, <2>6, <2>7
  <1>6. \A d \in Clients : Obtained(d)' = Obtained(d)
    <2>1. \A d \in Clients \ {c} : start'[d] = start[d] /\ printed'[d] = printed[d]
      BY <1>1 DEF TypeInv, TypeOK
    <2>2. QED
      BY <1>5, <2>1, ObtainedSame
  <1>7. QED
    BY <1>1, <1>4, <1>6 DEF Transfer!SendItem

LEMMA AckConfirms ==
  ASSUME FIN \notin Data, TypeInv, DeliveryInv, PaceInv, NEW c \in Clients,
         window[c] # 0, RecvWindowAck(c)
  PROVE  Transfer!Confirm(c)
  <1>1. /\ cpc[c] = "wait_ack" /\ down[c] # <<>>
        /\ acked' = [acked EXCEPT ![c] = Head(down[c])]
        /\ UNCHANGED <<window, frames, start, printed>>
    BY DEF RecvWindowAck
  <1>2. /\ start[c] \in Nat /\ i[c] \in Nat /\ acked[c] \in Nat /\ window[c] \in Nat
        /\ frames[c] \in Seq(Data) /\ down[c] \in Seq(Nat)
    BY PaceTypes
  <1>3. window[c] > 0 /\ Regular(c) /\ Transferring(c)
    <2>1. window[c] > 0
      BY <1>2
    <2>2. QED
      BY <1>1, <1>2, <2>1, ElementOfSeq DEF Regular, Transferring
  <1>4. Head(down[c]) = start[c] + 1
    <2>1. 1 \in 1..Len(down[c]) /\ Head(down[c]) = down[c][1]
      BY <1>1, <1>2, EmptySeq
    <2>2. QED
      BY <1>1, <1>3, <2>1 DEF PaceInv, ClientPace, AckInv
  <1>5. acked[c] - 1 < start[c]
    <2>1. acked[c] + i[c] = start[c] + 1 /\ i[c] > 0
      BY <1>1, <1>3 DEF PaceInv, ClientPace, AckInv, WindowInv
    <2>2. QED
      BY <1>2, <2>1
  <1>6. ObtainedCount(c) = start[c]
    <2>1. Len(printed[c]) = start[c]
      BY <1>1, <1>3, AckOfThisWindow
    <2>2. QED
      BY <1>2, <2>1 DEF ObtainedCount
  <1>7. Len(Obtained(c)) = start[c]
    BY <1>6, ObtainedLength
  <1>8. \A d \in Clients : Obtained(d)' = Obtained(d)
    BY <1>1, ObtainedSame
  <1>9. [d \in Clients |-> acked'[d] - 1]
          = [[d \in Clients |-> acked[d] - 1] EXCEPT ![c] = start[c]]
    <2>1. acked'[c] = start[c] + 1 /\ \A d \in Clients \ {c} : acked'[d] = acked[d]
      BY <1>1, <1>4 DEF TypeInv, TypeOK
    <2>2. (start[c] + 1) - 1 = start[c]
      BY <1>2
    <2>3. acked'[c] - 1 = start[c]
      BY <2>1, <2>2, Zenon
    <2>4. QED
      BY <2>1, <2>3
  <1>10. QED
    BY <1>1, <1>5, <1>7, <1>8, <1>9 DEF Transfer!Confirm

LEMMA RecvFrameObtains ==
  ASSUME TypeInv, DeliveryInv, RecvFrame
  PROVE  Transfer!ObtainItem(cur) \/ UNCHANGED Transfer!vars
  <1>1. /\ cur \in Clients /\ UNCHANGED <<window, frames, start, acked>>
        /\ \A d \in Clients \ {cur} : printed'[d] = printed[d]
        /\ \/ printed' = printed
           \/ Received.data # FIN /\ printed'[cur] = Append(printed[cur], Received)
    BY DEF RecvFrame, StopOnFin, PrintPacket, IsFin, Rest, clientVars, TypeInv, TypeOK
  <1>2. CASE printed' = printed
    <2>1. \A d \in Clients : Obtained(d)' = Obtained(d)
      BY <1>1, <1>2, ObtainedSame
    <2>2. QED
      BY <1>1, <2>1, NothingSeen
  <1>3. CASE Received.data # FIN /\ printed'[cur] = Append(printed[cur], Received)
    <2>1. PICK p \in Nat : p = Len(printed[cur])
      BY <1>1, PaceTypes
    <2>2. start[cur] \in Nat
      BY <1>1, PaceTypes
    <2>3. /\ Len(printed'[cur]) = p + 1
          /\ \A k \in 1..p : printed'[cur][k] = printed[cur][k]
      <3>1. Received \in Packet
        BY <1>1, PaceTypes, HeadTailProperties DEF Received, TypeInv, TypeOK
      <3>2. QED
        BY <1>1, <1>3, <2>1, <3>1, PaceTypes, AppendProperties
    <2>4. \A d \in Clients \ {cur} : Obtained(d)' = Obtained(d)
      BY <1>1, ObtainedSame
    <2>5. cur' = cur
      BY DEF RecvFrame
    <2>6. CASE p < start[cur]
      <3>1. printed'[cur][p + 1].data = frames[cur][p + 1]
        <4>1. PrintedInv(cur)'
          BY <1>1, <1>3, <2>5, PrintKeeps DEF RecvFrame
        <4>2. p + 1 \in 1..Len(printed'[cur]) /\ p + 1 <= start'[cur]
          BY <1>1, <2>2, <2>3, <2>6
        <4>3. printed'[cur][p + 1] = DataPacket(p + 1, frames[cur][p + 1])
          BY <1>1, <2>5, <4>1, <4>2 DEF PrintedInv
        <4>4. QED
          BY <4>3 DEF DataPacket
      <3>2. ObtainedCount(cur) = p /\ Len(Obtained(cur)) = p
            /\ Obtained(cur) = [k \in 1..p |-> printed[cur][k].data]
        <4>1. ObtainedCount(cur) = p
          BY <2>1, <2>6 DEF ObtainedCount
        <4>2. QED
          BY <1>1, <4>1, ObtainedLength
      <3>3. Obtained(cur)' = [k \in 1..p + 1 |-> printed'[cur][k].data]
        <4>1. (IF p + 1 < start[cur] THEN p + 1 ELSE start[cur]) = p + 1
          BY <2>2, <2>6
        <4>2. (IF Len(printed'[cur]) < start'[cur] THEN Len(printed'[cur]) ELSE start'[cur]) = p + 1
          BY <1>1, <2>3, <4>1
        <4>3. QED
          BY <2>5, <4>2 DEF Obtained
      <3>4. Obtained(cur)' = Append(Obtained(cur), frames[cur][p + 1])
        <4>1. \A k \in 1..p + 1 : k \in 1..p \/ k = p + 1
          OBVIOUS
        <4>2. Append(Obtained(cur), frames[cur][p + 1])
                = [k \in 1..p + 1 |-> IF k \in 1..p THEN printed[cur][k].data
                                                    ELSE frames[cur][p + 1]]
          BY <3>2
        <4>3. p + 1 \notin 1..p
          OBVIOUS
        <4>4. QED
          BY <2>3, <3>1, <3>3, <4>1, <4>2, <4>3
      <3>5. [d \in Clients |-> Obtained(d)']
              = [[d \in Clients |-> Obtained(d)] EXCEPT
                   ![cur] = Append(@, frames[cur][Len(@) + 1])]
        BY <1>1, <2>4, <3>2, <3>4, <2>5
      <3>6. Len([d \in Clients |-> Obtained(d)][cur]) < start[cur]
        BY <1>1, <2>6, <3>2
      <3>7. QED
        BY <1>1, <3>5, <3>6 DEF Transfer!ObtainItem
    <2>7. CASE ~(p < start[cur])
      <3>1. ObtainedCount(cur) = start[cur]
            /\ Obtained(cur) = [k \in 1..start[cur] |-> printed[cur][k].data]
        <4>1. ObtainedCount(cur) = start[cur]
          BY <2>1, <2>7 DEF ObtainedCount
        <4>2. QED
          BY <1>1, <4>1, ObtainedLength
      <3>2. Obtained(cur)' = [k \in 1..start[cur] |-> printed'[cur][k].data]
        <4>1. ~(p + 1 < start[cur])
          BY <2>2, <2>7
        <4>2. QED
          BY <1>1, <2>3, <2>5, <4>1 DEF Obtained
      <3>3. \A k \in 1..start[cur] : k \in 1..p
        BY <2>2, <2>7
      <3>4. Obtained(cur)' = Obtained(cur)
        BY <2>3, <3>1, <3>2, <3>3
      <3>5. \A d \in Clients : Obtained(d)' = Obtained(d)
        BY <2>4, <2>5, <3>4
      <3>6. QED
        BY <1>1, <3>5, NothingSeen
    <2>8. QED
      BY <2>6, <2>7
  <1>4. QED
    BY <1>1, <1>2, <1>3

\* A client that has passed its prompt has a window of the size it chose.
ChosenInv ==
  \A c \in Clients : window[c] = 0 => cpc[c] \in {"idle", "input", "dead"}

LEMMA ChosenAlways ==
  ASSUME 0 \notin Windows
  PROVE  Spec => []ChosenInv
  <1>1. Init => ChosenInv
    BY DEF Init, ChosenInv
  <1>2. TypeInv /\ ChosenInv /\ [Next]_vars => ChosenInv'
    <2>1. SUFFICES ASSUME TypeInv, ChosenInv, [Next]_vars PROVE ChosenInv'
      OBVIOUS
    <2>2. ASSUME NEW c \in Clients, ClientStep(c) \/ ClientKilled(c) PROVE ChosenInv'
      <3>1. \A d \in Clients \ {c} : cpc'[d] = cpc[d] /\ window'[d] = window[d]
        BY <2>1, <2>2, ClientStepIsLocal DEF PaceOnly
      <3>2. CASE Connect(c) \/ ClientKilled(c) \/ ServerGone(c)
        <4>1. cpc'[c] \in {"input", "dead"}
          BY <2>1, <3>2 DEF Connect, ClientKilled, ServerGone, TypeInv, TypeOK
        <4>2. QED
          BY <2>1, <3>1, <4>1 DEF ChosenInv
      <3>3. CASE SendSyn(c)
        <4>1. window'[c] \in Windows
          BY <2>1, <3>3 DEF SendSyn, TypeInv, TypeOK
        <4>2. QED
          BY <2>1, <3>1, <4>1 DEF ChosenInv
      <3>4. CASE RecvReply(c) \/ SendFrame(c) \/ SendFin(c) \/ RecvWindowAck(c)
        <4>1. cpc[c] \in {"wait_reply", "window", "wait_ack"} /\ window' = window
          BY <3>4 DEF RecvReply, SendFrame, SendFin, RecvWindowAck
        <4>2. window[c] # 0
          BY <2>1, <4>1 DEF ChosenInv
        <4>3. QED
          BY <2>1, <3>1, <4>1, <4>2 DEF ChosenInv
      <3>5. QED
        BY <2>2, <3>2, <3>3, <3>4 DEF ClientStep
    <2>3. CASE cpc' = cpc /\ window' = window
      BY <2>1, <2>3 DEF ChosenInv
    <2>4. QED
      BY <2>1, <2>2, <2>3 DEF Next, ServerStep, Accept, RecvSyn, RecvSynAck, RecvFrame, RecvFailed,
         SendWindowAck, SigPipe, Quiescent, vars, clientVars
  <1>3. QED
    BY <1>1, <1>2, TypeInit, TypeStep, PTL DEF Spec

LEMMA TransferInit == Init => Transfer!Init
  <1> SUFFICES ASSUME Init PROVE Transfer!Init
    OBVIOUS
  <1>1. ASSUME NEW c \in Clients PROVE Obtained(c) = <<>> /\ acked[c] - 1 = 0
    <2>1. printed[c] = <<>> /\ Len(printed[c]) = 0 /\ start[c] = 0 /\ acked[c] = 1
      BY DEF Init
    <2>2. Obtained(c) = [k \in 1..0 |-> printed[c][k].data]
      BY <2>1 DEF Obtained
    <2>3. 1..0 = {}
      OBVIOUS
    <2>4. Obtained(c) = <<>>
      BY <2>2, <2>3
    <2>5. QED
      BY <2>1, <2>4
  <1>2. /\ [c \in Clients |-> Obtained(c)] = [c \in Clients |-> <<>>]
        /\ [c \in Clients |-> acked[c] - 1] = [c \in Clients |-> 0]
    BY <1>1
  <1>3. QED
    BY <1>2 DEF Init, Transfer!Init

LEMMA TransferStep ==
  ASSUME 0 \notin Windows, FIN \notin Data,
         TypeInv, DeliveryInv, PaceInv, ChosenInv, [Next]_vars
  PROVE  Transfer!Next \/ UNCHANGED Transfer!vars
  <1>1. CASE UNCHANGED <<window, frames, start, acked, printed>>
    <2>1. \A c \in Clients : Obtained(c)' = Obtained(c)
      BY <1>1, ObtainedSame
    <2>2. QED
      BY <1>1, <2>1, NothingSeen
  <1>2. ASSUME NEW c \in Clients, ClientStep(c) \/ ClientKilled(c)
        PROVE  Transfer!Next \/ UNCHANGED Transfer!vars
    <2>1. CASE Connect(c) \/ RecvReply(c) \/ SendFin(c) \/ ServerGone(c) \/ ClientKilled(c)
      BY <1>1, <2>1 DEF Connect, RecvReply, SendFin, ServerGone, ClientKilled
    <2>2. CASE SendSyn(c)
      BY <2>2, SendSynChooses DEF Transfer!Next
    <2>3. CASE SendFrame(c)
      BY <2>3, SendFrameSends DEF Transfer!Next
    <2>4. CASE RecvWindowAck(c)
      <3>1. window[c] # 0
        BY <2>4 DEF ChosenInv, RecvWindowAck
      <3>2. QED
        BY <2>4, <3>1, AckConfirms DEF Transfer!Next
    <2>5. QED
      BY <1>2, <2>1, <2>2, <2>3, <2>4 DEF ClientStep
  <1>3. CASE ServerStep
    <2>1. CASE RecvFrame
      <3>1. cur \in Clients
        BY DEF TypeInv, TypeOK
      <3>2. QED
        BY <2>1, <3>1, RecvFrameObtains DEF Transfer!Next
    <2>2. CASE Accept \/ RecvSyn \/ RecvSynAck \/ RecvFailed \/ SendWindowAck \/ SigPipe
      BY <1>1, <2>2 DEF Accept, RecvSyn, RecvSynAck, RecvFailed, SendWindowAck, SigPipe, clientVars
    <2>3. QED
      BY <1>3, <2>1, <2>2 DEF ServerStep
  <1>4. CASE UNCHANGED vars
    BY <1>1, <1>4 DEF vars, clientVars
  <1>5. QED
    BY <1>2, <1>3, <1>4 DEF Next, Quiescent

\* With window sizes above 0 and data without FIN, every behaviour of the two
\* processes and the network is one of WindowTransfer: nothing is obtained out
\* of order, the window is kept, and a confirmation covers what was obtained.
THEOREM Refinement ==
  ASSUME 0 \notin Windows, FIN \notin Data
  PROVE  Spec => ImplementsTransfer
  <1>1. TypeInv /\ DeliveryInv /\ PaceInv /\ ChosenInv /\ [Next]_vars
          => [Transfer!Next]_Transfer!vars
    BY TransferStep
  <1>2. QED
    BY <1>1, TransferInit, Pace, ChosenAlways, PTL DEF Spec, ImplementsTransfer, Transfer!Spec

=============================================================================
