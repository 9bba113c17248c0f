-------------------------------- MODULE Nagle --------------------------------
(***************************************************************************)
(* Nagle's algorithm as lab9 implements it: the client's main thread sends *)
(* what the user types at once if no packet is unacknowledged, and else    *)
(* buffers it until MSS characters have come together; a second thread     *)
(* receives the acknowledgements.  Both threads update unacked_packets     *)
(* without a lock, as a load and a store.  The server prints what a recv   *)
(* returns and acknowledges it RTT seconds later.                          *)
(*                                                                         *)
(* TCP keeps no boundaries: one recv may return several messages.  A       *)
(* message itself is a few bytes over loopback and arrives whole.          *)
(***************************************************************************)
EXTENDS Integers, Sequences, FiniteSets, SequencesExt

CONSTANTS
  MSS,        \* segment size in characters
  MaxTyped,   \* bound: characters the user types
  MaxBelow,   \* bound: how far unacked_packets is followed below zero
  MayStop     \* those of "client", "server" that their user may stop

ASSUME ConstantsAssumption ==
  /\ MSS \in Nat \ {0}
  /\ MaxTyped \in Nat
  /\ MaxBelow \in Nat
  /\ MayStop \subseteq {"client", "server"}

VARIABLES
  mpc,       \* main thread: where it is in nagle_algo
  mreg,      \* the value of unacked_packets it loaded to increment
  tpc,       \* receiver thread: where it is in myThreadFun
  treg,      \* the value it loaded to decrement
  stale,     \* its buffer begins with "ack" from an earlier recv
  unacked,   \* unacked_packets, shared by the two threads
  typed,     \* characters typed; the n-th character typed is the number n
  buf,       \* buffer[0..available_data)
  sent,      \* history: the data segments sent
  up,        \* messages to the server that it has not received
  reply,     \* the server's handshake reply is on its way
  acks,      \* "ack" messages on their way
  spc,       \* server: where it is in nagle_algo_receiver
  rst,       \* the client's side has reset the connection
  printed,   \* history: characters printed, in order
  swallowed  \* history: the characters received and not printed

mainVars   == <<mpc, mreg, typed, buf, sent>>
threadVars == <<tpc, treg, stale>>
serverVars == <<spc, rst, printed, swallowed>>
vars == <<mainVars, threadVars, unacked, up, reply, acks, serverVars>>

\* A message to the server: the characters of a segment, or none for the two
\* packets of the handshake.
Handshake == <<>>

\* The characters of the segments of s whose index is in K.
CharsIn(s, K) == UNION {ToSet(s[k]) : k \in K}

Characters == 1..MaxTyped

TypeOK ==
  /\ mpc \in {"syn", "reply", "prompt", "test", "load", "store", "dead"}
  /\ mreg \in Int
  /\ tpc \in {"none", "recv", "load", "store"}
  /\ treg \in Int
  /\ stale \in BOOLEAN
  /\ unacked \in Int
  /\ typed \in 0..MaxTyped
  /\ buf \in Seq(Characters)
  /\ sent \in Seq(Seq(Characters))
  /\ up \in Seq(Seq(Characters))
  /\ reply \in BOOLEAN
  /\ acks \in Nat
  /\ spc \in {"syn", "synack", "recv", "sleep", "down"}
  /\ rst \in BOOLEAN
  /\ printed \in Seq(Characters)
  /\ swallowed \subseteq Characters

Init ==
  /\ mpc = "syn" /\ mreg = 0
  /\ tpc = "none" /\ treg = 0 /\ stale = FALSE
  /\ unacked = 0
  /\ typed = 0 /\ buf = <<>> /\ sent = <<>>
  /\ up = <<>> /\ reply = FALSE /\ acks = 0
  /\ spc = "syn" /\ rst = FALSE /\ printed = <<>> /\ swallowed = {}

-----------------------------------------------------------------------------
(* The client's main thread.                                               *)

SendSyn ==
  /\ mpc = "syn"
  /\ up' = Append(up, Handshake)
  /\ mpc' = "reply"
  /\ UNCHANGED <<mreg, typed, buf, sent, threadVars, unacked, reply, acks, serverVars>>

\* The reply, the SYN-ACK, and the start of the receiver thread.
RecvReply ==
  /\ mpc = "reply"
  /\ reply
  /\ reply' = FALSE
  /\ up' = Append(up, Handshake)
  /\ mpc' = "prompt"
  /\ tpc' = "recv"
  /\ UNCHANGED <<mreg, typed, buf, sent, treg, stale, unacked, acks, serverVars>>

\* Seeded fault: the buffer is sent and not cleared.
SendBufferKeepsIt(b) ==
  /\ IF spc = "down" THEN mpc' = "dead" ELSE mpc' = "load"
  /\ up' = Append(up, b)
  /\ sent' = Append(sent, b)
  /\ buf' = b

\* send(), then available_data = 0 and memset.  The peer being gone, the
\* client is ended by SIGPIPE, now or at its next send.
SendBuffer(b) ==
  /\ \/ mpc' = "load"
     \/ spc = "down" /\ mpc' = "dead"
  /\ up' = Append(up, b)
  /\ sent' = Append(sent, b)
  /\ buf' = <<>>

\* Seeded fault: available_data > MSS.
FullOneMore(b) == Len(b) > MSS

\* available_data >= MSS; receiver_window is the server's WINDOW_SIZE, 20.
Full(b) == Len(b) >= MSS

\* The user enters a character; a full buffer is sent at once.
Type ==
  /\ mpc = "prompt"
  /\ typed < MaxTyped
  /\ typed' = typed + 1
  /\ LET b == Append(buf, typed + 1)
     IN  IF Full(b)
           THEN SendBuffer(b)
           ELSE /\ buf' = b
                /\ mpc' = "test"
                /\ UNCHANGED <<up, sent>>
  /\ UNCHANGED <<mreg, threadVars, unacked, reply, acks, serverVars>>

\* if(unacked_packets): keep the data in the buffer, or send it.
Test ==
  /\ mpc = "test"
  /\ IF unacked # 0
       THEN /\ mpc' = "prompt"
            /\ UNCHANGED <<up, sent, buf>>
       ELSE SendBuffer(buf)
  /\ UNCHANGED <<mreg, typed, threadVars, unacked, reply, acks, serverVars>>

\* unacked_packets++ in two steps.
LoadForIncrement ==
  /\ mpc = "load"
  /\ mreg' = unacked
  /\ mpc' = "store"
  /\ UNCHANGED <<typed, buf, sent, threadVars, unacked, up, reply, acks, serverVars>>

StoreIncrement ==
  /\ mpc = "store"
  /\ unacked' = mreg + 1
  /\ mpc' = "prompt"
  /\ UNCHANGED <<mreg, typed, buf, sent, threadVars, up, reply, acks, serverVars>>

-----------------------------------------------------------------------------
(* The client's receiver thread.                                           *)

\* Seeded fault: recv does not wait for an acknowledgement.
RecvAckNoWait ==
  /\ tpc = "recv" /\ mpc # "dead"
  /\ acks' = acks - 1
  /\ stale' = TRUE
  /\ tpc' = "load"
  /\ UNCHANGED <<mainVars, treg, unacked, up, reply, serverVars>>

\* recv returns one or more of the acknowledgements that have come; strncmp
\* sees the first.
RecvAck ==
  /\ tpc = "recv" /\ mpc # "dead"
  /\ \E k \in 1..acks : acks' = acks - k
  /\ stale' = TRUE
  /\ tpc' = "load"
  /\ UNCHANGED <<mainVars, treg, unacked, up, reply, serverVars>>

\* The server is gone: recv returns 0 and the buffer still holds "ack".
RecvEof ==
  /\ tpc = "recv" /\ mpc # "dead"
  /\ spc = "down" /\ acks = 0
  /\ stale
  /\ unacked > -MaxBelow
  /\ tpc' = "load"
  /\ UNCHANGED <<mainVars, treg, stale, unacked, up, reply, acks, serverVars>>

\* unacked_packets-- in two steps.
LoadForDecrement ==
  /\ tpc = "load" /\ mpc # "dead"
  /\ treg' = unacked
  /\ tpc' = "store"
  /\ UNCHANGED <<mainVars, stale, unacked, up, reply, acks, serverVars>>

\* Seeded fault: the thread returns after its first acknowledgement.
StoreDecrementReturns ==
  /\ tpc = "store" /\ mpc # "dead"
  /\ unacked' = treg - 1
  /\ tpc' = "none"
  /\ UNCHANGED <<mainVars, treg, stale, up, reply, acks, serverVars>>

StoreDecrement ==
  /\ tpc = "store" /\ mpc # "dead"
  /\ unacked' = treg - 1
  /\ tpc' = "recv"
  /\ UNCHANGED <<mainVars, treg, stale, up, reply, acks, serverVars>>

-----------------------------------------------------------------------------
(* The server.                                                             *)

RecvSyn ==
  /\ spc = "syn"
  /\ up # <<>>
  /\ up' = Tail(up)
  /\ reply' = TRUE
  /\ spc' = "synack"
  /\ UNCHANGED <<mainVars, threadVars, unacked, acks, rst, printed, swallowed>>

\* The second recv asks for 99 bytes: data sent right after the SYN-ACK may
\* come with it, and is never looked at.
RecvSynAck ==
  /\ spc = "synack"
  /\ \E k \in 1..Len(up) :
       /\ up' = SubSeq(up, k + 1, Len(up))
       /\ swallowed' = swallowed \cup CharsIn(up, 1..k)
  /\ spc' = "recv"
  /\ UNCHANGED <<mainVars, threadVars, unacked, reply, acks, rst, printed>>

\* Seeded fault: the batch is printed from its end.
RecvDataPrintsLast ==
  /\ spc = "recv"
  /\ \E k \in 1..Len(up) :
       /\ up' = SubSeq(up, k + 1, Len(up))
       /\ printed' = Reverse(up[k]) \o printed
       /\ swallowed' = swallowed \cup CharsIn(up, 1..(k - 1))
  /\ spc' = "sleep"
  /\ UNCHANGED <<mainVars, threadVars, unacked, reply, acks, rst>>

\* recv returns one or more segments; printf stops at the first one's NUL and
\* memset erases the rest.
RecvData ==
  /\ spc = "recv"
  /\ \E k \in 1..Len(up) :
       /\ up' = SubSeq(up, k + 1, Len(up))
       /\ printed' = printed \o up[1]
       /\ swallowed' = swallowed \cup CharsIn(up, 2..k)
  /\ spc' = "sleep"
  /\ UNCHANGED <<mainVars, threadVars, unacked, reply, acks, rst>>

\* The client is gone: recv returns 0 or fails, which is not tested, and an
\* empty text is printed.
RecvNothing ==
  /\ spc = "recv"
  /\ mpc = "dead" /\ up = <<>>
  /\ spc' = "sleep"
  /\ UNCHANGED <<mainVars, threadVars, unacked, up, reply, acks, rst, printed, swallowed>>

\* Seeded fault: send is told not to raise SIGPIPE, and its result ignored.
SendAckNoSignal ==
  /\ spc = "sleep"
  /\ spc' = "recv"
  /\ IF rst
       THEN UNCHANGED <<acks, rst>>
       ELSE /\ acks' = acks + 1
            /\ rst' = (mpc = "dead")
  /\ UNCHANGED <<mainVars, threadVars, unacked, up, reply, printed, swallowed>>

\* After sleep(RTT).  A first acknowledgement to a client that is gone makes
\* its side reset the connection; the send after that raises SIGPIPE.
SendAck ==
  /\ spc = "sleep"
  /\ IF rst
       THEN /\ spc' = "down"
            /\ UNCHANGED <<acks, rst>>
       ELSE /\ spc' = "recv"
            /\ acks' = acks + 1
            /\ rst' = (mpc = "dead")
  /\ UNCHANGED <<mainVars, threadVars, unacked, up, reply, printed, swallowed>>

\* The user stops the server.
ServerStopped ==
  /\ "server" \in MayStop
  /\ spc \in {"recv", "sleep"}
  /\ spc' = "down"
  /\ UNCHANGED <<mainVars, threadVars, unacked, up, reply, acks, rst, printed, swallowed>>

\* The user stops the client at its prompt: acknowledgements it has not
\* received make the kernel reset the connection.
ClientStopped ==
  /\ "client" \in MayStop
  /\ mpc = "prompt"
  /\ mpc' = "dead"
  /\ rst' = (acks > 0)
  /\ UNCHANGED <<mreg, typed, buf, sent, threadVars, unacked, up, reply, acks, spc, printed, swallowed>>

-----------------------------------------------------------------------------
MainStep == SendSyn \/ RecvReply \/ Test \/ LoadForIncrement \/ StoreIncrement
ThreadStep == RecvAck \/ RecvEof \/ LoadForDecrement \/ StoreDecrement
ServerStep == RecvSyn \/ RecvSynAck \/ RecvData \/ RecvNothing \/ SendAck

\* The user types no more and everything under way has been taken, or the
\* client is gone.
Quiescent ==
  /\ \/ mpc = "dead"
     \/ mpc = "prompt" /\ typed = MaxTyped
  /\ UNCHANGED vars

Next == MainStep \/ Type \/ ThreadStep \/ ServerStep \/ ServerStopped \/ ClientStopped
        \/ Quiescent

Spec == Init /\ [][Next]_vars

\* The threads and the server run when they are not blocked; nobody has to
\* type.
FairSpec ==
  /\ Spec
  /\ WF_vars(MainStep) /\ WF_vars(ThreadStep) /\ WF_vars(ServerStep)

-----------------------------------------------------------------------------
(* Properties.                                                             *)

\* The last character of the segments sent before the k-th, 0 if there is none.
Before(k) == IF k = 1 THEN 0 ELSE Last(sent[k - 1])

\* Every character typed is in a segment sent or in the buffer, once and in
\* the order of typing: each segment goes on where the one before it ended, and
\* so does the buffer, up to the last character typed.
KeystrokesKept ==
  /\ \A k \in DOMAIN sent :
       /\ sent[k] # <<>>
       /\ \A j \in DOMAIN sent[k] : sent[k][j] = Before(k) + j
  /\ \A j \in DOMAIN buf : buf[j] = Before(Len(sent) + 1) + j
  /\ typed = Before(Len(sent) + 1) + Len(buf)

\* Whatever the race has done to unacked_packets, a character waits for fewer
\* than MSS others: at the prompt the buffer is never full, so the 100-byte
\* buffer cannot overflow either.
BoundedWait ==
  /\ mpc = "prompt" => Len(buf) < MSS
  /\ \A k \in DOMAIN sent : Len(sent[k]) \in 1..MSS

Chars(s) == CharsIn(s, DOMAIN s)

\* The segments of s, and the characters in them, go up in the order of typing.
InTypingOrder(s) ==
  \A j, k \in DOMAIN s : j < k => \A x \in ToSet(s[j]), y \in ToSet(s[k]) : x < y

\* Every character sent is under way, printed, or swallowed, never two of
\* these, and what is printed appears in the order of typing, although one
\* recv may return several segments and print only the first.
EachCharacterOnce ==
  /\ Chars(sent) = Chars(up) \cup ToSet(printed) \cup swallowed
  /\ Chars(up) \cap (ToSet(printed) \cup swallowed) = {}
  /\ ToSet(printed) \cap swallowed = {}
  /\ InTypingOrder(up)
  /\ \A j, k \in DOMAIN printed : j < k => printed[j] < printed[k]

\* A segment is under way: not yet received, received and not yet
\* acknowledged, or its acknowledgement not yet received.
Outstanding == Chars(up) # {} \/ spc = "sleep" \/ acks > 0

\* client.c:97-98, if(unacked_packets){ //buffer the data: a segment smaller
\* than MSS is sent only when no packet is unacknowledged.
SmallOnlyWhenAcknowledged ==
  [][sent' # sent /\ Len(sent'[Len(sent')]) < MSS => ~Outstanding]_vars

\* The loop has no way out: a client that ends takes the server with it, by
\* the SIGPIPE of the acknowledgement after the last.
ServerEndsWithClient == (mpc = "dead") ~> (spc = "down")

\* If nobody stops a process, the server answers everything: in the end nothing
\* is under way and the receiver thread has taken every acknowledgement.
Settled == spc = "recv" /\ up = <<>> /\ acks = 0 /\ tpc = "recv"

AllAnswered == <>[](mpc = "dead" \/ spc = "down" \/ Settled)

-----------------------------------------------------------------------------
(* The strengthening of the invariants above that is inductive.            *)

\* What the buffer holds at each point of the main thread, and the length of
\* what it has sent.
BufferInv ==
  /\ mpc \in {"syn", "reply"} => typed = 0 /\ sent = <<>>
  /\ mpc \in {"syn", "reply", "load", "store"} => buf = <<>>
  /\ mpc \in {"prompt", "test"} => Len(buf) < MSS
  /\ mpc = "test" => buf # <<>>
  /\ \A k \in DOMAIN sent : Len(sent[k]) \in 1..MSS

\* Segments are in the order of typing, and before what the buffer holds.
OrderInv ==
  /\ InTypingOrder(sent)
  /\ \A x \in Chars(sent) : x <= Before(Len(sent) + 1)

\* The number of segments the server has received; while the second packet of
\* the handshake is under way, one less than none.
Received == Len(sent) - Len(up)

\* The messages under way are the segments not yet received, behind the packet
\* of the handshake.
UnderWay ==
  /\ mpc = "syn" => spc = "syn" /\ up = <<>>
  /\ mpc = "reply" => \/ spc = "syn" /\ up = <<Handshake>>
                      \/ spc = "synack" /\ up = <<>>
  /\ mpc \notin {"syn", "reply"} => spc # "syn"
  /\ spc = "syn" => ~reply
  /\ spc = "synack" /\ mpc # "reply" => Received = -1 /\ up[1] = Handshake
  /\ spc \notin {"syn", "synack"} => Received >= 0
  /\ \A i \in DOMAIN up : Received + i >= 1 => up[i] = sent[Received + i]

\* What the server has received, it has printed or swallowed.
TakenInv ==
  /\ ToSet(printed) \cup swallowed = CharsIn(sent, 1..Received)
  /\ ToSet(printed) \cap swallowed = {}
  /\ \A j, k \in DOMAIN printed : j < k => printed[j] < printed[k]

SegmentInv == KeystrokesKept /\ BufferInv /\ OrderInv /\ UnderWay /\ TakenInv

=============================================================================
