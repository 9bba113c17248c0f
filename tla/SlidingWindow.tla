---------------------------- MODULE SlidingWindow ----------------------------
(***************************************************************************)
(* The sliding-window exercise of lab10: lab10/client.c sends an array of  *)
(* integers over TCP in windows of sliding_window_size packets and waits   *)
(* for one cumulative acknowledgement after each window; lab10/server.c    *)
(* serves one connection at a time, prints what it receives and            *)
(* acknowledges the last sequence number of the window.                    *)
(*                                                                         *)
(* Every packet is one struct Packtets and every recv asks for exactly the *)
(* size every send writes (22 bytes), so a channel is a FIFO of packets.   *)
(* The connections themselves (accept queue, end of file, reset, SIGPIPE)  *)
(* behave as Linux TCP over the loopback address the code is bound to.     *)
(***************************************************************************)
EXTENDS Naturals, Sequences

CONSTANTS
  Clients,   \* the client processes that connect during the server's life
  Data,      \* the integers a user may enter as packet data
  FIN,       \* the value -9999 that marks the end of the stream in band
  Windows,   \* the window sizes a user may enter
  Payloads,  \* the data arrays a user may enter: sequences over Data
  Junk,      \* what an uninitialised seq_num or last_seq may hold
  SockBuf,   \* bound: packets one direction of a socket can hold
  MayKill    \* TRUE if a client process may be killed by its user

ASSUME ConstantsAssumption ==
  /\ Windows \subseteq Nat
  /\ Payloads \subseteq Seq(Data)
  /\ Junk \subseteq Nat
  /\ SockBuf \in Nat \ {0}
  /\ MayKill \in BOOLEAN

VARIABLES
  cpc,       \* where each client is in slidingwindow_algo
  window,    \* sliding_window_size, as read from the user
  frames,    \* frames[], as read from the user; count is its length
  start,     \* packets of frames[] sent so far
  i,         \* index in the current window
  seqno,     \* squence_number: the next sequence number to use
  acked,     \* ack_num of the last window acknowledgement received
  up,        \* packets from each client, not yet received by the server
  down,      \* ack_num of the acknowledgements not yet received
  conn,      \* each connection as the server's kernel sees it
  backlog,   \* connections completed and not yet accepted
  spc,       \* where the server is in main / nagle_algo_receiver
  cur,       \* the client being served (clientfd)
  win,       \* the server's window_size
  t,         \* packets left to receive in this window
  df,        \* the packet slot recv writes into
  last_seq,  \* sequence number of the last packet printed
  flag,      \* FALSE once FIN was received
  printed    \* history: the packets the server printed, per client

clientVars == <<cpc, window, frames, start, i, seqno, acked>>
netVars    == <<up, down, conn, backlog>>
serverVars == <<spc, cur, win, t, df, last_seq, flag>>
vars       == <<clientVars, netVars, serverVars, printed>>

(***************************************************************************)
(* A packet.  The fields a sender leaves uninitialised and no receiver     *)
(* reads are 0 and FIN.  An acknowledgement is its ack_num alone, 0 for    *)
(* the reply to the handshake, whose ack_num is never read.                *)
(***************************************************************************)
Packet == [window_size : Windows \cup {0}, seq_num : Nat, data : Data \cup {FIN}]

HandshakePacket(w) == [window_size |-> w, seq_num |-> 0, data |-> FIN]
DataPacket(n, d)   == [window_size |-> 0, seq_num |-> n, data |-> d]

ClientPc == {"idle", "input", "wait_reply", "window", "wait_ack", "exited", "dead"}
ServerPc == {"accept", "syn", "synack", "recv", "ack", "down"}

(***************************************************************************)
(* A connection is "open" while the client holds its socket.  When the     *)
(* client's process ends, its kernel sends FIN, or RST if data was left    *)
(* unread.  The first send after that succeeds or fails quietly and leaves *)
(* the connection "broken": the next send raises SIGPIPE.                  *)
(***************************************************************************)
ConnState == {"open", "fin", "rst", "broken"}

TypeOK ==
  /\ cpc \in [Clients -> ClientPc]
  /\ window \in [Clients -> Windows \cup {0}]
  /\ frames \in [Clients -> Seq(Data)]
  /\ start \in [Clients -> Nat]
  /\ i \in [Clients -> Nat]
  /\ seqno \in [Clients -> Nat]
  /\ acked \in [Clients -> Nat]
  /\ up \in [Clients -> Seq(Packet)]
  /\ down \in [Clients -> Seq(Nat)]
  /\ conn \in [Clients -> ConnState]
  /\ backlog \in Seq(Clients)
  /\ spc \in ServerPc
  /\ cur \in Clients
  /\ win \in Windows \cup {0}
  /\ t \in Nat
  /\ df \in Packet
  /\ last_seq \in Nat
  /\ flag \in BOOLEAN
  /\ printed \in [Clients -> Seq(Packet)]

Init ==
  /\ cpc = [c \in Clients |-> "idle"]
  /\ window = [c \in Clients |-> 0]
  /\ frames = [c \in Clients |-> <<>>]
  /\ start = [c \in Clients |-> 0]
  /\ i = [c \in Clients |-> 0]
  /\ seqno = [c \in Clients |-> 1]
  /\ acked = [c \in Clients |-> 1]
  /\ up = [c \in Clients |-> <<>>]
  /\ down = [c \in Clients |-> <<>>]
  /\ conn = [c \in Clients |-> "open"]
  /\ backlog = <<>>
  /\ spc = "accept"
  /\ cur \in Clients
  /\ win = 0
  /\ t = 0
  /\ df = HandshakePacket(0)
  /\ last_seq = 0
  /\ flag = TRUE
  /\ printed = [c \in Clients |-> <<>>]

-----------------------------------------------------------------------------
(* The client.                                                             *)

\* init_client: connect() completes in the kernel, before the server accepts;
\* it is refused once the server process is gone.
Connect(c) ==
  /\ cpc[c] = "idle"
  /\ IF spc = "down"
       THEN /\ cpc' = [cpc EXCEPT ![c] = "dead"]
            /\ UNCHANGED backlog
       ELSE /\ cpc' = [cpc EXCEPT ![c] = "input"]
            /\ backlog' = Append(backlog, c)
  /\ UNCHANGED <<window, frames, start, i, seqno, acked, up, down, conn,
                 serverVars, printed>>

\* The user enters window size and data; the client sends the SYN packet.
SendSyn(c) ==
  /\ cpc[c] = "input"
  /\ \E w \in Windows, f \in Payloads :
       /\ window' = [window EXCEPT ![c] = w]
       /\ frames' = [frames EXCEPT ![c] = f]
       /\ up' = [up EXCEPT ![c] = Append(@, HandshakePacket(w))]
  /\ cpc' = [cpc EXCEPT ![c] = "wait_reply"]
  /\ UNCHANGED <<start, i, seqno, acked, down, conn, backlog, serverVars, printed>>

\* Seeded fault: the loop test i <= sliding_window_size.
WindowPcOneMore(w, k) == IF k <= w THEN "window" ELSE "wait_ack"

\* Where the for loop over the window stands after k of its w iterations.
WindowPc(w, k) == IF k < w THEN "window" ELSE "wait_ack"

\* How the kernel closes c's socket when all but n of its acks were read.
CloseState(c, n) == IF Len(down[c]) > n THEN "rst" ELSE "fin"

\* Seeded fault: while(start < count - 1).
WhileTestOneLess(c) ==
  IF start[c] + 1 < Len(frames[c])
    THEN /\ cpc' = [cpc EXCEPT ![c] = WindowPc(window[c], 0)]
         /\ i' = [i EXCEPT ![c] = 0]
         /\ UNCHANGED conn
    ELSE /\ cpc' = [cpc EXCEPT ![c] = "exited"]
         /\ conn' = [conn EXCEPT ![c] = CloseState(c, 1)]
         /\ UNCHANGED i

\* The test of while(start < count) after an acknowledgement was taken from
\* the socket: a new window, or the end of the process and of its socket.
WhileTest(c) ==
  IF start[c] < Len(frames[c])
    THEN /\ cpc' = [cpc EXCEPT ![c] = WindowPc(window[c], 0)]
         /\ i' = [i EXCEPT ![c] = 0]
         /\ UNCHANGED conn
    ELSE /\ cpc' = [cpc EXCEPT ![c] = "exited"]
         /\ conn' = [conn EXCEPT ![c] = CloseState(c, 1)]
         /\ UNCHANGED i

\* The client receives the handshake reply and sends its SYN-ACK packet.
RecvReply(c) ==
  /\ cpc[c] = "wait_reply"
  /\ down[c] # <<>>
  /\ down' = [down EXCEPT ![c] = Tail(@)]
  /\ up' = [up EXCEPT ![c] = Append(@, HandshakePacket(window[c]))]
  /\ WhileTest(c)
  /\ UNCHANGED <<window, frames, start, seqno, acked, backlog, serverVars, printed>>

\* Seeded fault: squence_number is used without ++.
SendFrameSameSeq(c) ==
  /\ cpc[c] = "window"
  /\ start[c] < Len(frames[c])
  /\ Len(up[c]) < SockBuf
  /\ up' = [up EXCEPT ![c] = Append(@, DataPacket(seqno[c], frames[c][start[c] + 1]))]
  /\ start' = [start EXCEPT ![c] = @ + 1]
  /\ i' = [i EXCEPT ![c] = @ + 1]
  /\ cpc' = [cpc EXCEPT ![c] = WindowPc(window[c], i[c] + 1)]
  /\ UNCHANGED <<window, frames, seqno, acked, down, conn, backlog, serverVars, printed>>

\* One iteration of the window loop that still has data to send.
SendFrame(c) ==
  /\ cpc[c] = "window"
  /\ start[c] < Len(frames[c])
  /\ Len(up[c]) < SockBuf
  /\ up' = [up EXCEPT ![c] = Append(@, DataPacket(seqno[c], frames[c][start[c] + 1]))]
  /\ seqno' = [seqno EXCEPT ![c] = @ + 1]
  /\ start' = [start EXCEPT ![c] = @ + 1]
  /\ i' = [i EXCEPT ![c] = @ + 1]
  /\ cpc' = [cpc EXCEPT ![c] = WindowPc(window[c], i[c] + 1)]
  /\ UNCHANGED <<window, frames, acked, down, conn, backlog, serverVars, printed>>

\* The iteration that finds the data exhausted inside a window: send FIN.
SendFin(c) ==
  /\ cpc[c] = "window"
  /\ start[c] >= Len(frames[c])
  /\ Len(up[c]) < SockBuf
  /\ up' = [up EXCEPT ![c] = Append(@, DataPacket(seqno[c], FIN))]
  /\ seqno' = [seqno EXCEPT ![c] = @ + 1]
  /\ cpc' = [cpc EXCEPT ![c] = "wait_ack"]
  /\ UNCHANGED <<window, frames, start, i, acked, down, conn, backlog,
                 serverVars, printed>>

\* The client takes the window's acknowledgement; it prints ack_num and does
\* not compare it with what it sent.
RecvWindowAck(c) ==
  /\ cpc[c] = "wait_ack"
  /\ down[c] # <<>>
  /\ acked' = [acked EXCEPT ![c] = Head(down[c])]
  /\ down' = [down EXCEPT ![c] = Tail(@)]
  /\ WhileTest(c)
  /\ UNCHANGED <<window, frames, start, seqno, up, backlog, serverVars, printed>>

Running(c) == cpc[c] \in {"input", "wait_reply", "window", "wait_ack"}

\* The user kills the client: its kernel closes the socket.
ClientKilled(c) ==
  /\ MayKill
  /\ Running(c)
  /\ cpc' = [cpc EXCEPT ![c] = "dead"]
  /\ conn' = [conn EXCEPT ![c] = CloseState(c, 0)]
  /\ UNCHANGED <<window, frames, start, i, seqno, acked, up, down, backlog,
                 serverVars, printed>>

\* The server process is gone: a client that waits for it reads end of file
\* or an error, its sends raise SIGPIPE, and its run is over.
ServerGone(c) ==
  /\ spc = "down"
  /\ Running(c)
  /\ cpc[c] \in {"wait_reply", "wait_ack"} => down[c] = <<>>
  /\ cpc' = [cpc EXCEPT ![c] = "dead"]
  /\ UNCHANGED <<window, frames, start, i, seqno, acked, netVars, serverVars, printed>>

-----------------------------------------------------------------------------
(* The server.                                                             *)

\* accept() returns the oldest connection; the locals of the new call of
\* nagle_algo_receiver hold whatever the stack holds.
Accept ==
  /\ spc = "accept"
  /\ backlog # <<>>
  /\ cur' = Head(backlog)
  /\ backlog' = Tail(backlog)
  /\ \E n \in Junk, d \in Data \cup {FIN} : df' = DataPacket(n, d)
  /\ last_seq' \in Junk
  /\ flag' = TRUE
  /\ spc' = "syn"
  /\ UNCHANGED <<clientVars, up, down, conn, win, t, printed>>

AtEof(c) == up[c] = <<>> /\ conn[c] # "open"

\* send(): blocks while the socket buffer is full; what it writes to a
\* connection the client has closed is dropped and breaks the connection.
SendAck(c, n) ==
  \/ /\ conn[c] = "open"
     /\ Len(down[c]) < SockBuf
     /\ down' = [down EXCEPT ![c] = Append(@, n)]
     /\ UNCHANGED conn
  \/ /\ conn[c] \in {"fin", "rst"}
     /\ conn' = [conn EXCEPT ![c] = "broken"]
     /\ UNCHANGED down

\* Receive SYN and reply.  The result of recv is not checked: at end of file
\* window_size is whatever synpacket holds.
RecvSyn ==
  /\ spc = "syn"
  /\ \/ /\ up[cur] # <<>>
        /\ win' = Head(up[cur]).window_size
        /\ up' = [up EXCEPT ![cur] = Tail(@)]
     \/ /\ AtEof(cur)
        /\ win' \in Windows
        /\ UNCHANGED up
  /\ SendAck(cur, 0)
  /\ spc' = "synack"
  /\ UNCHANGED <<clientVars, backlog, cur, t, df, last_seq, flag, printed>>

\* Seeded fault: the receive loop is while(1).
ReceiverPcForever(n) == "recv"

\* Where while(t--) goes when n packets are left in the window.
ReceiverPc(n) == IF n = 0 THEN "ack" ELSE "recv"

\* Receive SYN-ACK, again unchecked: a pending error is consumed by it.
RecvSynAck ==
  /\ spc = "synack"
  /\ \/ /\ up[cur] # <<>>
        /\ up' = [up EXCEPT ![cur] = Tail(@)]
        /\ UNCHANGED conn
     \/ /\ AtEof(cur)
        /\ conn' = [conn EXCEPT ![cur] = IF @ = "rst" THEN "broken" ELSE @]
        /\ UNCHANGED up
  /\ t' = win
  /\ spc' = ReceiverPc(win)
  /\ UNCHANGED <<clientVars, down, backlog, cur, win, df, last_seq, flag, printed>>

\* What df holds after recv: the next packet, or at end of file (recv returns
\* 0, which is not checked) what it held before.
Received == IF up[cur] # <<>> THEN Head(up[cur]) ELSE df

\* Seeded fault: the test df.data == FIN is missing.
IsFinNever(p) == FALSE

\* Seeded change: recv returning 0 is taken for FIN.
IsFinOrEof(p) == p.data = FIN \/ up[cur] = <<>>

\* The packet ends the transfer.
IsFin(p) == p.data = FIN

\* Seeded fault: FIN leaves the inner loop only; flag is not cleared.
StopOnFinInnerOnly ==
  /\ spc' = "ack"
  /\ UNCHANGED <<flag, t, last_seq, printed>>

\* Seeded fault: FIN ends the process instead of the two loops.
StopOnFinExits ==
  /\ spc' = "down"
  /\ UNCHANGED <<flag, t, last_seq, printed>>

\* FIN: leave the inner loop, and the outer one after its acknowledgement.
StopOnFin ==
  /\ flag' = FALSE
  /\ spc' = "ack"
  /\ UNCHANGED <<t, last_seq, printed>>

\* Any other packet is printed and counted.
PrintPacket ==
  /\ printed' = [printed EXCEPT ![cur] = Append(@, Received)]
  /\ last_seq' = Received.seq_num
  /\ t' = t - 1
  /\ spc' = ReceiverPc(t - 1)
  /\ UNCHANGED flag

\* Seeded fault: recv takes all that is queued, and df keeps the first packet.
RestAll(q) == <<>>

\* What recv leaves in the channel.
Rest(q) == IF q = <<>> THEN q ELSE Tail(q)

\* One iteration of while(t--): receive a packet, stop the loops on FIN, else
\* print it.
RecvFrame ==
  /\ spc = "recv"
  /\ up[cur] # <<>> \/ conn[cur] \in {"fin", "broken"}
  /\ up' = [up EXCEPT ![cur] = Rest(@)]
  /\ df' = Received
  /\ IF IsFin(Received) THEN StopOnFin ELSE PrintPacket
  /\ UNCHANGED <<clientVars, down, conn, backlog, cur, win>>

\* recv returns -1 on a reset connection: the server exits.
RecvFailed ==
  /\ spc = "recv"
  /\ up[cur] = <<>>
  /\ conn[cur] = "rst"
  /\ spc' = "down"
  /\ UNCHANGED <<clientVars, netVars, cur, win, t, df, last_seq, flag, printed>>

\* Seeded fault: the acknowledgement claims one packet too many.
AckNumTooFar == last_seq + 2

\* The ack_num of a window's acknowledgement: the next packet expected.
AckNum == last_seq + 1

\* Seeded fault: the acknowledgement is sent only while flag is still set.
SendWindowAckNotLast ==
  /\ spc = "ack"
  /\ IF flag
       THEN /\ SendAck(cur, AckNum)
            /\ t' = win
            /\ spc' = ReceiverPc(win)
       ELSE /\ spc' = "accept"
            /\ UNCHANGED <<t, down, conn>>
  /\ UNCHANGED <<clientVars, up, backlog, cur, win, df, last_seq, flag, printed>>

\* End of a window: acknowledge, then the next window, or back to accept
\* (the connection's descriptor is not closed).
SendWindowAck ==
  /\ spc = "ack"
  /\ SendAck(cur, AckNum)
  /\ IF flag
       THEN /\ t' = win
            /\ spc' = ReceiverPc(win)
       ELSE /\ spc' = "accept"
            /\ UNCHANGED t
  /\ UNCHANGED <<clientVars, up, backlog, cur, win, df, last_seq, flag, printed>>

\* send() on a broken connection: SIGPIPE ends the server.
SigPipe ==
  /\ spc = "ack"
  /\ conn[cur] = "broken"
  /\ spc' = "down"
  /\ UNCHANGED <<clientVars, netVars, cur, win, t, df, last_seq, flag, printed>>

-----------------------------------------------------------------------------
ClientStep(c) ==
  \/ Connect(c) \/ SendSyn(c) \/ RecvReply(c) \/ SendFrame(c) \/ SendFin(c)
  \/ RecvWindowAck(c) \/ ServerGone(c)

ServerStep ==
  \/ Accept \/ RecvSyn \/ RecvSynAck \/ RecvFrame \/ RecvFailed
  \/ SendWindowAck \/ SigPipe

\* Every client has ended and the server waits for the next one, or is gone.
Quiescent ==
  /\ \A c \in Clients : cpc[c] \in {"exited", "dead"}
  /\ spc = "down" \/ (spc = "accept" /\ backlog = <<>>)
  /\ UNCHANGED vars

Next ==
  \/ \E c \in Clients : ClientStep(c) \/ ClientKilled(c)
  \/ ServerStep
  \/ Quiescent

Spec == Init /\ [][Next]_vars

\* The operating system runs every process that is not blocked, and the user
\* answers the prompts; nobody is obliged to start or to kill a client.
Fairness ==
  /\ WF_vars(ServerStep)
  /\ \A c \in Clients :
       WF_vars(SendSyn(c) \/ RecvReply(c) \/ SendFrame(c) \/ SendFin(c)
               \/ RecvWindowAck(c) \/ ServerGone(c))

FairSpec == Spec /\ Fairness

-----------------------------------------------------------------------------
(* Properties.                                                             *)

\* The n-th packet c sends after the handshake: its n-th datum, then FIN.
StreamPacket(c, n) ==
  DataPacket(n, IF n <= Len(frames[c]) THEN frames[c][n] ELSE FIN)

\* Packets c has sent after the handshake.
Emitted(c) == seqno[c] - 1

Receiving(c) == cur = c /\ spc \in {"recv", "ack"}

\* The server prints every client's data in order, under its own sequence
\* numbers, each once; while the client lives it prints nothing the client has
\* not sent, although server.c never looks at seq_num and takes whatever df
\* holds when recv returns nothing.
InOrder ==
  \A c \in Clients :
    /\ \A k \in DOMAIN printed[c] :
         k <= start[c] => printed[c][k] = DataPacket(k, frames[c][k])
    /\ conn[c] = "open" => Len(printed[c]) <= start[c]

\* What is under way is the tail of the client's stream, in order, and until
\* the server has seen FIN every packet is either printed or under way: no
\* recv swallows or skips one, and the handshake packets are all consumed
\* before the first window is received.
NothingLost ==
  \A c \in Clients :
    /\ \A k \in DOMAIN up[c] :
         LET n == Emitted(c) - (Len(up[c]) - k)
         IN  IF Len(up[c]) - k < Emitted(c)
               THEN up[c][k] = StreamPacket(c, n)
               ELSE up[c][k] = HandshakePacket(window[c])
    /\ Receiving(c) /\ flag /\ conn[c] = "open"
         => Len(printed[c]) + Len(up[c]) = Emitted(c)

\* The client is never more than one window ahead of the acknowledgement it
\* last received, though it never reads the ack_num it is given (client.c:98).
FlowControl ==
  \A c \in Clients : start[c] + 1 <= acked[c] + window[c]

\* An acknowledgement, received or under way, covers only packets the server
\* has printed, though last_seq is uninitialised when the server starts a
\* connection (server.c:38,59).  A window of size 0 does acknowledge junk, and
\* so does one whose first packet carries the value FIN.
AckHonest ==
  \A c \in Clients :
    window[c] > 0 /\ (frames[c] # <<>> => frames[c][1] # FIN) =>
      /\ acked[c] <= Len(printed[c]) + 1
      /\ \A k \in DOMAIN down[c] : down[c][k] <= Len(printed[c]) + 1

\* A client that returns from slidingwindow_algo has had all its data printed
\* and acknowledged, also when the last window was cut short by FIN.
CompletionMeansDelivered ==
  \A c \in Clients :
    cpc[c] = "exited" /\ frames[c] # <<>> =>
      /\ Len(printed[c]) >= Len(frames[c])
      /\ acked[c] = Len(frames[c]) + 1

\* The server process ends only on account of a client that ended without
\* having sent FIN: one that was killed, or one whose last window was full, so
\* that the loop of client.c:83 never reached the iteration that sends it.
ServerDownOnlyWithoutFin ==
  spc = "down" =>
    \/ cpc[cur] = "dead"
    \/ cpc[cur] = "exited" /\ Emitted(cur) = start[cur]

\* The server leaves a connection while its client still waits for an
\* acknowledgement only if the client's own data contains the value FIN.
AbandonedOnlyByInBandFin ==
  \A c \in Clients :
    /\ cpc[c] = "wait_ack" /\ down[c] = <<>>
    /\ spc # "down"
    /\ cur # c \/ spc = "accept"
    => \E k \in DOMAIN frames[c] : frames[c][k] = FIN

\* A transfer the server has accepted completes, for window sizes above 0 and
\* data without FIN, if nobody is killed.
AcceptedCompletes ==
  \A c \in Clients : cur = c /\ spc = "syn" ~> cpc[c] = "exited"

\* When every client's last window is cut short, so that FIN is sent, every
\* client that connects is served to the end, one after the other.
LastWindowsCutShort ==
  \A c \in Clients :
    window[c] > 0 => Len(frames[c]) % window[c] # 0

EveryClientServed ==
  []LastWindowsCutShort =>
    \A c \in Clients : cpc[c] = "input" ~> cpc[c] = "exited"

\* A client whose data exactly fills its windows ends the server: recv returns
\* 0 for ever, server.c prints the stale packet for two more windows, and its
\* second acknowledgement to the closed connection raises SIGPIPE.
FullLastWindowEndsServer ==
  \A c \in Clients :
    cpc[c] = "exited" /\ frames[c] # <<>> /\ Emitted(c) = start[c]
      ~> spc = "down"

\* The exercise implements a windowed transfer, for window sizes above 0 and
\* data without FIN: what the server printed of what was sent is what the
\* receiver has obtained.
Obtained(c) ==
  [k \in 1..(IF Len(printed[c]) < start[c] THEN Len(printed[c]) ELSE start[c])
     |-> printed[c][k].data]

Transfer == INSTANCE WindowTransfer WITH
  Senders   <- Clients,
  Files     <- Payloads,
  Sizes     <- Windows,
  file      <- frames,
  size      <- window,
  sent      <- start,
  obtained  <- [c \in Clients |-> Obtained(c)],
  confirmed <- [c \in Clients |-> acked[c] - 1]

\* Every step of the client, of the server and of the network is a step of the
\* windowed transfer or changes nothing it can see.
ImplementsTransfer == Transfer!Spec

-----------------------------------------------------------------------------
(***************************************************************************)
(* The inductive strengthening of InOrder and NothingLost: how far the     *)
(* server is in a client's stream, for every place both can be in.         *)
(***************************************************************************)
InBacklog(c) == \E k \in 1..Len(backlog) : backlog[k] = c

\* c has not been served: the server has received nothing from it.
Unserved(c) ==
  cpc[c] = "idle" \/ InBacklog(c) \/ (cur = c /\ spc = "syn")

\* A client is queued once, and is not queued while it is served.
QueueInv ==
  /\ \A j, k \in 1..Len(backlog) : backlog[j] = backlog[k] => j = k
  /\ \A k \in 1..Len(backlog) : cpc[backlog[k]] # "idle"
  /\ spc \in {"syn", "synack", "recv", "ack"} =>
       cpc[cur] # "idle" /\ ~InBacklog(cur)
  /\ spc = "recv" => t # 0 /\ flag
  /\ spc \in {"syn", "synack"} => flag

\* What the client has sent, by its own account.
SenderInv(c) ==
  /\ conn[c] # "open" => cpc[c] \in {"exited", "dead"}
  /\ start[c] <= Len(frames[c])
  /\ seqno[c] >= 1
  /\ start[c] <= Emitted(c)
  /\ Emitted(c) <= start[c] + 1
  /\ Emitted(c) = start[c] + 1 =>
       cpc[c] \in {"wait_ack", "exited", "dead"} /\ start[c] = Len(frames[c])
  /\ cpc[c] \in {"idle", "input", "wait_reply"} => seqno[c] = 1
  /\ cpc[c] = "input" => Unserved(c)

UnservedInv(c) ==
  Unserved(c) =>
    /\ seqno[c] = 1
    /\ printed[c] = <<>>
    /\ down[c] = <<>>
    /\ cpc[c] \in {"idle", "input", "wait_reply", "dead"}
    /\ Len(up[c]) <= 1
    /\ cpc[c] \in {"idle", "input"} => up[c] = <<>>
    /\ cpc[c] = "wait_reply" => up[c] # <<>>

\* One handshake packet is still to be received, unless the client ended
\* before it sent it.
HandshakeInv(c) ==
  cur = c /\ spc = "synack" =>
    /\ printed[c] = <<>>
    /\ cpc[c] \notin {"idle", "input"}
    /\ \/ Len(up[c]) = Emitted(c) + 1 /\ cpc[c] # "wait_reply"
       \/ up[c] = <<>> /\ Emitted(c) = 0 /\ cpc[c] \in {"wait_reply", "dead"}

\* While the server receives, what it printed and what is under way make up
\* the stream; at end of file it may have printed stale packets besides.
ReceivingInv(c) ==
  Receiving(c) =>
    /\ cpc[c] \notin {"idle", "input", "wait_reply"}
    /\ Len(up[c]) <= Emitted(c)
    /\ flag => Emitted(c) <= Len(printed[c]) + Len(up[c])
    /\ flag /\ (up[c] # <<>> \/ conn[c] = "open") =>
         Len(printed[c]) + Len(up[c]) = Emitted(c)

StreamInv(c) ==
  \A k \in 1..Len(up[c]) :
    IF Len(up[c]) - k < Emitted(c)
      THEN up[c][k] = StreamPacket(c, Emitted(c) - (Len(up[c]) - k))
      ELSE up[c][k] = HandshakePacket(window[c])

PrintedInv(c) ==
  /\ \A k \in 1..Len(printed[c]) :
       k <= start[c] => printed[c][k] = DataPacket(k, frames[c][k])
  /\ conn[c] = "open" => Len(printed[c]) <= start[c]

ClientInv(c) ==
  /\ SenderInv(c)
  /\ UnservedInv(c)
  /\ HandshakeInv(c)
  /\ ReceivingInv(c)
  /\ StreamInv(c)
  /\ PrintedInv(c)

\* How the server's position in each stream follows from where both processes
\* are: inductive, and stronger than InOrder and NothingLost together.
DeliveryInv == QueueInv /\ \A c \in Clients : ClientInv(c)

-----------------------------------------------------------------------------
(***************************************************************************)
(* The inductive strengthening of the remaining invariants: how far the    *)
(* two sides are in the current window, and what acknowledgements hold.    *)
(***************************************************************************)
Served(c) == cur = c /\ spc \in {"synack", "recv", "ack"}

\* The client has sent data and not all its data is acknowledged.
Transferring(c) == cpc[c] \in {"window", "wait_ack"}

\* A client whose window holds something and whose data does not contain the
\* value that ends the stream.
Regular(c) == window[c] > 0 /\ \A k \in 1..Len(frames[c]) : frames[c][k] # FIN

\* How the client's process stands.
LifeInv(c) ==
  /\ cpc[c] = "dead" /\ conn[c] = "open" => spc = "down"
  /\ cpc[c] = "exited" => conn[c] # "open"
  /\ cpc[c] \in {"idle", "input"} => window[c] = 0 /\ frames[c] = <<>>
  /\ cpc[c] = "wait_reply" => Unserved(c) \/ Served(c)
  /\ cpc[c] \in {"idle", "input", "wait_reply"} => start[c] = 0 /\ acked[c] = 1
  /\ Transferring(c) => frames[c] # <<>>
  /\ window[c] = 0 => start[c] = 0
  /\ cpc[c] = "exited" => start[c] = Len(frames[c])
  /\ cpc[c] = "exited" /\ Served(c) => Emitted(c) = start[c]

\* Where the client is in its window.
WindowInv(c) ==
  /\ Transferring(c) => i[c] <= start[c] /\ i[c] <= window[c]
  /\ cpc[c] = "window" =>
       i[c] < window[c] /\ (i[c] = 0 => start[c] < Len(frames[c]))
  /\ cpc[c] = "wait_ack" /\ window[c] > 0 =>
       /\ i[c] > 0
       /\ \/ i[c] = window[c] /\ Emitted(c) = start[c]
          \/ i[c] < window[c] /\ Emitted(c) = start[c] + 1

\* Where the server is in the window of a client that lives.
RoundInv(c) ==
  Served(c) /\ conn[c] = "open" =>
    /\ win = window[c]
    /\ spc = "synack" =>
         /\ cpc[c] = "wait_reply" => down[c] = <<0>>
         /\ cpc[c] # "wait_reply" => down[c] = <<>> /\ start[c] = i[c]
    /\ spc = "recv" /\ down[c] = <<>> => Len(printed[c]) + t + i[c] = start[c] + win
    /\ spc = "recv" /\ down[c] # <<>> =>
         /\ Len(down[c]) = 1 /\ Len(printed[c]) = start[c] /\ t = win
         /\ cpc[c] = "wait_ack" /\ Emitted(c) = start[c]
    /\ spc = "ack" /\ ~flag => win > 0
    /\ spc = "ack" /\ win > 0 =>
         /\ down[c] = <<>>
         /\ flag => Len(printed[c]) + i[c] = start[c] + win
         /\ ~flag /\ Regular(c) => Len(printed[c]) = start[c] /\ Emitted(c) = start[c] + 1

\* What the server leaves behind.
LeftInv(c) ==
  Transferring(c) /\ ~Served(c) =>
    /\ window[c] > 0
    /\ Regular(c) =>
         Len(down[c]) = 1 /\ Len(printed[c]) = start[c] /\ Emitted(c) = start[c] + 1

\* What acknowledgements say.
AckInv(c) ==
  /\ Receiving(c) /\ conn[c] = "open" /\ printed[c] # <<>> => last_seq = Len(printed[c])
  /\ window[c] > 0 /\ (frames[c] # <<>> => frames[c][1] # FIN) =>
       /\ acked[c] <= Len(printed[c]) + 1
       /\ \A k \in 1..Len(down[c]) : down[c][k] <= Len(printed[c]) + 1
       /\ cur = c /\ spc = "ack" /\ conn[c] = "open" => printed[c] # <<>>
  /\ Regular(c) =>
       /\ start[c] + 1 <= acked[c] + window[c]
       /\ Transferring(c) => acked[c] + i[c] = start[c] + 1
       /\ cpc[c] = "wait_ack" => \A k \in 1..Len(down[c]) : down[c][k] = start[c] + 1
       /\ cpc[c] = "exited" /\ frames[c] # <<>> =>
            acked[c] = start[c] + 1 /\ start[c] <= Len(printed[c])

ClientPace(c) ==
  /\ LifeInv(c)
  /\ WindowInv(c)
  /\ RoundInv(c)
  /\ LeftInv(c)
  /\ AckInv(c)

\* What the server's end says of the client it was serving.
DownInv ==
  spc = "down" =>
    conn[cur] # "open" /\ (cpc[cur] = "dead" \/ Emitted(cur) = start[cur])

PaceInv == DownInv /\ \A c \in Clients : ClientPace(c)

=============================================================================
