------------------------- MODULE FileTransfer_proof -------------------------
(***************************************************************************)
(* Theorems about FileTransfer, for any runs of the client, any of them    *)
(* with a good password, killed or not, and any number of descriptors.     *)
(***************************************************************************)
EXTENDS FileTransfer, SequenceTheorems, TLAPS

-----------------------------------------------------------------------------
(* Type correctness, given the invariant of the sessions: send on a closed *)
(* data connection would have no meaning here.                             *)

LEMMA TypeInit == Init => TypeOK
  <1> SUFFICES ASSUME Init PROVE TypeOK
    OBVIOUS
  <1>1. <<>> \in Seq(Client) /\ <<>> \in Seq(Commands)
    BY EmptySeq
  <1>2. cur \in Seq(Client) /\ waiting \in Seq(Client) /\ line \in [Client -> Seq(Commands)]
    BY <1>1 DEF Init
  <1>3. /\ spc = "accept" /\ lost \in 0..(Descriptors - 1) /\ command \in Commands
        /\ listening \in BOOLEAN /\ lingers \in BOOLEAN /\ conn = "none" /\ replies \in Nat
    BY DEF Init, Commands
  <1>4. /\ cpc \in [Client -> {"start"}]
        /\ told \in [Client -> {None}]
        /\ typed \in [Client -> 0..MaxTyped]
    BY ConstantsAssumption DEF Init
  <1>5. QED
    BY <1>2, <1>3, <1>4 DEF TypeOK

LEMMA ClientTypes ==
  ASSUME TypeOK, NEW c \in Client, User(c) \/ Runs(c) \/ Exit(c)
  PROVE  TypeOK'
  <1>1. UNCHANGED serverVars
    BY DEF User, Runs, Connect, RecvReply, Dial, Help, RecvHelp, Exit, Leave, Kill
  <1> USE DEF Becomes, portVars
  <1>2. CASE Connect(c)
    <2>1. waiting' \in Seq(Client)
      BY <1>2, AppendProperties DEF Connect, TypeOK
    <2>2. QED
      BY <1>1, <1>2, <2>1 DEF Connect, TypeOK, serverVars
  <1>3. CASE RecvReply(c)
    BY <1>1, <1>3 DEF RecvReply, TypeOK, serverVars
  <1>4. CASE Dial(c)
    BY <1>1, <1>4 DEF Dial, TypeOK, serverVars
  <1>5. CASE Help(c)
    <2>1. Append(line[c], "help") \in Seq(Commands)
      BY AppendProperties DEF TypeOK, Commands
    <2>2. typed[c] + 1 \in 0..MaxTyped
      BY <1>5, ConstantsAssumption DEF Help, TypeOK
    <2>3. typed' \in [Client -> 0..MaxTyped]
      BY <1>5, <2>2 DEF Help, TypeOK
    <2>4. CASE cpc[c] = "prompt"
      <3>1. line' = [line EXCEPT ![c] = Append(@, "help")] /\ cpc' = [cpc EXCEPT ![c] = "help"]
        BY <1>5, <2>4 DEF Help
      <3>2. QED
        BY <1>1, <1>5, <2>1, <2>3, <3>1 DEF Help, TypeOK, serverVars
    <2>5. CASE cpc[c] = "cut"
      <3>1. line' = line /\ (cpc' = cpc \/ cpc' = [cpc EXCEPT ![c] = "gone"])
        BY <1>5, <2>5 DEF Help
      <3>2. QED
        BY <1>1, <1>5, <2>3, <3>1 DEF Help, TypeOK, serverVars
    <2>6. QED
      BY <1>5, <2>4, <2>5 DEF Help
  <1>6. CASE RecvHelp(c)
    BY <1>1, <1>6 DEF RecvHelp, TypeOK, serverVars
  <1>7. CASE Exit(c)
    <2>1. Append(line[c], "exit") \in Seq(Commands)
      BY AppendProperties DEF TypeOK, Commands
    <2>2. CASE cpc[c] = "prompt"
      <3>1. line' = [line EXCEPT ![c] = Append(@, "exit")] /\ cpc' = [cpc EXCEPT ![c] = "leave"]
        BY <1>7, <2>2 DEF Exit
      <3>2. QED
        BY <1>1, <1>7, <2>1, <3>1 DEF Exit, TypeOK, serverVars
    <2>3. CASE cpc[c] = "cut"
      BY <1>1, <1>7, <2>3 DEF Exit, TypeOK, serverVars
    <2>4. QED
      BY <1>7, <2>2, <2>3 DEF Exit
  <1>8. CASE Leave(c)
    BY <1>1, <1>8 DEF Leave, TypeOK, serverVars
  <1>9. CASE Kill(c)
    BY <1>1, <1>9 DEF Kill, TypeOK, serverVars
  <1>10. QED
    BY <1>2, <1>3, <1>4, <1>5, <1>6, <1>7, <1>8, <1>9 DEF User, Runs

\* The three cases of a send.
LEMMA SendTextEffect ==
  ASSUME SendText
  PROVE  /\ conn = "reset" => spc' = "down" /\ UNCHANGED <<conn, replies>>
         /\ conn = "left" => spc' = "recv" /\ conn' = "reset" /\ UNCHANGED replies
         /\ conn = "open" => spc' = "recv" /\ replies' = replies + 1 /\ UNCHANGED conn
  <1>1. CASE conn = "reset"
    BY <1>1 DEF SendText
  <1>2. CASE conn = "left"
    BY <1>2 DEF SendText
  <1>3. CASE conn = "open"
    BY <1>3 DEF SendText
  <1>4. QED
    BY <1>1, <1>2, <1>3

\* While a client is served, its control connection is one of the descriptors.
LEMMA HeldWithClient ==
  ASSUME TypeOK, cur # <<>>
  PROVE  /\ Held \in Nat /\ Held >= lost + 1
         /\ ~listening /\ spc \notin {"recv", "obey"} => Held = lost + 1
         /\ listening /\ spc \notin {"recv", "obey"} => Held = lost + 2
  BY ConstantsAssumption DEF Held, TypeOK

LEMMA ServerTypes ==
  ASSUME TypeOK, SessionInv, Server \/ LingerEnds
  PROVE  TypeOK'
  <1> USE DEF portVars, TypeOK
  <1>1. CASE Accept
    <2>1. Head(waiting) \in Client /\ waiting' \in Seq(Client)
      BY <1>1, HeadTailProperties DEF Accept
    <2>2. cur' \in Seq(Client)
      BY <1>1, <2>1 DEF Accept
    <2>3. QED
      BY <1>1, <2>1, <2>2 DEF Accept
  <1>2. CASE Authorize
    <2>1. lost' \in 0..(Descriptors - 1)
      <3>1. cur # <<>>
        <4>1. \E c \in Client : cur = <<c>>
          BY <1>2 DEF Authorize, SessionInv, CurrentInv
        <4>2. QED
          BY <4>1
      <3>2. Held \in Nat /\ Held >= lost + 1
        BY <3>1, HeldWithClient
      <3>3. lost' = lost \/ (Held < Descriptors /\ lost' = lost + 1)
        BY <1>2, <3>2, ConstantsAssumption DEF Authorize, Full
      <3>4. QED
        BY <3>2, <3>3, ConstantsAssumption
    <2>2. told' \in [Client -> {None, "port", "INVALID_CRED", "closed"}]
      BY <1>2 DEF Authorize, Tell
    <2>3. spc' \in {"down", "listen", "hangup"}
      BY <1>2 DEF Authorize
    <2>4. QED
      BY <1>2, <2>1, <2>2, <2>3 DEF Authorize
  <1>3. CASE Listen
    <2>1. told' \in [Client -> {None, "port", "INVALID_CRED", "closed"}]
      BY <1>3 DEF Listen, Tell
    <2>2. spc' \in {"dial", "hangup"} /\ listening' \in BOOLEAN
      BY <1>3 DEF Listen
    <2>3. lost' \in 0..(Descriptors - 1)
      <3>1. cur # <<>>
        <4>1. \E c \in Client : cur = <<c>>
          BY <1>3 DEF Listen, SessionInv, CurrentInv
        <4>2. QED
          BY <4>1
      <3>2. Held \in Nat /\ Held >= lost + 1
        BY <3>1, HeldWithClient
      <3>3. lost' = lost \/ (Held < Descriptors /\ lost' = lost + 1)
        BY <1>3, <3>2, ConstantsAssumption DEF Listen, Full
      <3>4. QED
        BY <3>2, <3>3, ConstantsAssumption
    <2>4. QED
      BY <1>3, <2>1, <2>2, <2>3 DEF Listen
  <1>4. CASE AcceptData
    BY <1>4 DEF AcceptData
  <1>5. CASE RecvCommand
    <2>1. PICK c \in Client : cur = <<c>>
      BY <1>5 DEF RecvCommand, SessionInv, CurrentInv
    <2>2. cur[1] = c /\ line[c] \in Seq(Commands)
      BY <2>1
    <2>3. command' \in Commands /\ line' \in [Client -> Seq(Commands)]
      <3>1. CASE line[c] # <<>> /\ command' = Head(line[c]) /\ line' = [line EXCEPT ![c] = Tail(@)]
        <4>1. Head(line[c]) \in Commands /\ Tail(line[c]) \in Seq(Commands)
          BY <2>2, <3>1, HeadTailProperties
        <4>2. QED
          BY <3>1, <4>1
      <3>2. CASE UNCHANGED <<command, line>>
        BY <3>2
      <3>3. QED
        BY <1>5, <2>2, <3>1, <3>2 DEF RecvCommand
    <2>4. QED
      BY <1>5, <2>3 DEF RecvCommand
  <1>6. CASE SendText
    <2>1. conn \in {"open", "left", "reset"}
      BY <1>6 DEF SendText, SessionInv, PortInv
    <2>2. spc' \in {"down", "recv"} /\ conn' \in {"none", "open", "left", "reset"} /\ replies' \in Nat
      BY <1>6, <2>1, SendTextEffect
    <2>3. QED
      BY <1>6, <2>2 DEF SendText
  <1>7. CASE CloseData
    BY <1>7 DEF CloseData
  <1>8. CASE CloseListening
    BY <1>8 DEF CloseListening
  <1>9. CASE HangUp
    <2>1. cur' \in Seq(Client)
      BY <1>9, EmptySeq DEF HangUp
    <2>2. told' \in [Client -> {None, "port", "INVALID_CRED", "closed"}]
      BY <1>9 DEF HangUp, Tell
    <2>3. QED
      BY <1>9, <2>1, <2>2 DEF HangUp
  <1>10. CASE LingerEnds
    BY <1>10 DEF LingerEnds, serverVars
  <1>11. CASE AcceptDataFails
    <2>1. cpc' = cpc \/ cpc' = [cpc EXCEPT ![cur[1]] = "cut"]
      BY <1>11 DEF AcceptDataFails, Becomes
    <2>2. QED
      BY <1>11, <2>1 DEF AcceptDataFails
  <1>12. QED
    BY <1>1, <1>2, <1>3, <1>4, <1>5, <1>6, <1>7, <1>8, <1>9, <1>10, <1>11 DEF Server

LEMMA TypeStep == TypeOK /\ SessionInv /\ [Next]_vars => TypeOK'
  <1> SUFFICES ASSUME TypeOK, SessionInv, [Next]_vars PROVE TypeOK'
    OBVIOUS
  <1>1. CASE \E c \in Client : User(c) \/ Runs(c) \/ Exit(c)
    BY <1>1, ClientTypes
  <1>2. CASE Server \/ LingerEnds
    BY <1>2, ServerTypes
  <1>3. CASE UNCHANGED vars
    BY <1>3 DEF vars, serverVars, portVars, TypeOK
  <1>4. QED
    BY <1>1, <1>2, <1>3 DEF Next, Done

-----------------------------------------------------------------------------
(* Clients that a step is not about.                                       *)

\* The server and the data connection stay as they are, and so does client d.
LEMMA SameKept ==
  ASSUME NEW d \in Client, ClientInv(d),
         UNCHANGED <<spc, cur, lost, command, listening, lingers, conn, replies>>,
         cpc'[d] = cpc[d], told'[d] = told[d], line'[d] = line[d],
         d \in ToSet(waiting') => d \in ToSet(waiting)
  PROVE  ClientInv(d)'
  BY DEF ClientInv, Serving, Unserved, InSession, HelpUnderWay, ExitUnderWay, UsedUp

\* The server has another client than d, or none.
LEMMA AsideKept ==
  ASSUME NEW d \in Client, ClientInv(d),
         cur # <<d>>, cur' # <<d>>, lingers => lingers', UsedUp => UsedUp',
         cpc'[d] = cpc[d], told'[d] = told[d], line'[d] = line[d],
         d \in ToSet(waiting') => d \in ToSet(waiting)
  PROVE  ClientInv(d)'
  <1>1. ~Serving(d) /\ ~Serving(d)'
    BY DEF Serving
  <1>2. QED
    BY <1>1 DEF ClientInv, Unserved, InSession

\* As long as these stay as they are, the descriptors are as used up as before.
LEMMA FullSame ==
  ASSUME UNCHANGED <<spc, cur, lost, listening>>
  PROVE  (Full => Full') /\ (UsedUp => UsedUp')
  BY DEF Full, Held, UsedUp

\* A step of client c keeps SessionInv if it keeps what that says of c and of the
\* data port; it touches the data connection only while c is served.
LEMMA ClientKeeps ==
  ASSUME TypeOK, SessionInv, NEW c \in Client, cpc[c] # "killed",
         UNCHANGED <<spc, cur, lost, command, listening, lingers>>,
         cur = <<c>> \/ UNCHANGED <<conn, replies>>,
         \A d \in Client \ {c} :
            /\ cpc'[d] = cpc[d] /\ told'[d] = told[d] /\ line'[d] = line[d]
            /\ d \in ToSet(waiting') => d \in ToSet(waiting),
         spc # "down" => PortInv' /\ QueueInv' /\ ClientInv(c)'
  PROVE  SessionInv'
  <1>1. CurrentInv'
    BY DEF SessionInv, CurrentInv
  <1>2. EndInv'
    <2>1. ASSUME cur # <<>>, cpc[cur[1]] = "killed"
          PROVE  cpc'[cur[1]] = "killed"
      <3>1. cur[1] \in Client
        <4>1. 1 \in 1..Len(cur)
          BY <2>1, EmptySeq DEF TypeOK
        <4>2. QED
          BY <4>1, ElementOfSeq DEF TypeOK
      <3>2. QED
        BY <2>1, <3>1
    <2>2. QED
      BY <2>1, FullSame DEF SessionInv, EndInv
  <1>3. ASSUME spc' # "down", NEW d \in Client
        PROVE  ClientInv(d)'
    <2>1. spc # "down" /\ ClientInv(d)
      BY <1>3 DEF SessionInv
    <2>2. CASE d = c
      BY <2>1, <2>2
    <2>3. CASE d # c /\ cur = <<c>>
      <3>1. cur # <<d>> /\ cur' # <<d>>
        BY <2>3
      <3>2. QED
        BY <2>1, <2>3, <3>1, AsideKept, FullSame
    <2>4. CASE d # c /\ UNCHANGED <<conn, replies>>
      BY <2>1, <2>4, SameKept
    <2>5. QED
      BY <2>2, <2>3, <2>4
  <1>4. QED
    BY <1>1, <1>2, <1>3 DEF SessionInv

\* The backlog stays as it is if its clients stay unserved.
LEMMA QueueSame ==
  ASSUME TypeOK, QueueInv, UNCHANGED <<waiting, cur>>,
         \A d \in Client : Unserved(d) => Unserved(d)'
  PROVE  QueueInv'
  <1>1. \A k \in DOMAIN waiting : waiting[k] \in Client
    BY LenProperties, ElementOfSeq DEF TypeOK
  <1>2. \A k \in DOMAIN waiting : Unserved(waiting[k])'
    BY <1>1 DEF QueueInv
  <1>3. QED
    BY <1>2 DEF QueueInv
-----------------------------------------------------------------------------
(* Steps of the client.                                                    *)

LEMMA AppendSet ==
  ASSUME NEW T, NEW s \in Seq(T), NEW e \in T
  PROVE  /\ DOMAIN Append(s, e) = 1..(Len(s) + 1) /\ Len(s) \in Nat /\ DOMAIN s = 1..Len(s)
         /\ \A k \in 1..(Len(s) + 1) : Append(s, e)[k] = IF k = Len(s) + 1 THEN e ELSE s[k]
         /\ ToSet(Append(s, e)) = ToSet(s) \cup {e}
  <1>1. PICK n \in Nat : n = Len(s) /\ DOMAIN s = 1..n
    BY LenProperties
  <1>2. DOMAIN Append(s, e) = 1..(n + 1)
    BY <1>1, AppendProperties, LenProperties
  <1>3. \A k \in 1..(n + 1) : Append(s, e)[k] = IF k = n + 1 THEN e ELSE s[k]
    <2>1. \A k \in 1..(n + 1) : k = n + 1 \/ k \in 1..n
      OBVIOUS
    <2>2. QED
      BY <1>1, <2>1, AppendProperties
  <1>4. \A x : x \in ToSet(Append(s, e)) <=> x \in ToSet(s) \/ x = e
    <2>1. ASSUME NEW k \in 1..(n + 1)
          PROVE  Append(s, e)[k] \in ToSet(s) \/ Append(s, e)[k] = e
      <3>1. k = n + 1 \/ (k \in 1..n /\ k # n + 1)
        OBVIOUS
      <3>2. QED
        BY <1>1, <1>3, <3>1 DEF ToSet
    <2>2. ASSUME NEW k \in 1..n
          PROVE  s[k] \in ToSet(Append(s, e))
      <3>1. k \in 1..(n + 1) /\ k # n + 1
        OBVIOUS
      <3>2. QED
        BY <1>2, <1>3, <3>1 DEF ToSet
    <2>3. e \in ToSet(Append(s, e))
      <3>1. n + 1 \in 1..(n + 1)
        OBVIOUS
      <3>2. QED
        BY <1>2, <1>3, <3>1 DEF ToSet
    <2>4. QED
      BY <1>1, <1>2, <2>1, <2>2, <2>3 DEF ToSet
  <1>5. QED
    BY <1>1, <1>2, <1>3, <1>4

LEMMA ConnectKeeps ==
  ASSUME TypeOK, SessionInv, NEW c \in Client, Connect(c)
  PROVE  SessionInv'
  <1>1. /\ cpc[c] = "start" /\ spc # "down" /\ waiting' = Append(waiting, c)
        /\ cpc' = [cpc EXCEPT ![c] = "login"]
        /\ UNCHANGED <<spc, cur, lost, command, listening, lingers, conn, told, line, replies>>
    BY DEF Connect, Becomes, serverVars, portVars
  <1>2. PortInv /\ QueueInv /\ ClientInv(c)
    BY <1>1 DEF SessionInv
  <1>3. told[c] = None /\ line[c] = <<>> /\ cur # <<c>> /\ c \notin ToSet(waiting)
    BY <1>1, <1>2 DEF ClientInv
  <1>4. cpc'[c] = "login" /\ \A d \in Client \ {c} : cpc'[d] = cpc[d]
    BY <1>1 DEF TypeOK
  <1>5. PICK n \in Nat :
          /\ DOMAIN waiting = 1..n /\ DOMAIN waiting' = 1..(n + 1)
          /\ \A k \in 1..(n + 1) : waiting'[k] = IF k = n + 1 THEN c ELSE waiting[k]
          /\ ToSet(waiting') = ToSet(waiting) \cup {c}
    <2>1. waiting \in Seq(Client)
      BY DEF TypeOK
    <2>2. PICK n \in Nat : n = Len(waiting)
      BY <2>1, LenProperties
    <2>3. /\ DOMAIN Append(waiting, c) = 1..(n + 1) /\ DOMAIN waiting = 1..n
          /\ \A k \in 1..(n + 1) : Append(waiting, c)[k] = IF k = n + 1 THEN c ELSE waiting[k]
          /\ ToSet(Append(waiting, c)) = ToSet(waiting) \cup {c}
      BY <2>1, <2>2, AppendSet
    <2>4. QED
      BY <1>1, <2>3
  <1>6. PortInv'
    BY <1>1, <1>2 DEF PortInv
  <1>7. QueueInv'
    <2>1. \A k \in 1..n : waiting'[k] = waiting[k] /\ waiting[k] # c
      BY <1>3, <1>5 DEF ToSet
    <2>2. waiting'[n + 1] = c
      BY <1>5
    <2>3. \A k \in 1..(n + 1) : k \in 1..n \/ k = n + 1
      OBVIOUS
    <2>4. \A j, k \in DOMAIN waiting' : waiting'[j] = waiting'[k] => j = k
      BY <1>2, <1>5, <2>1, <2>2, <2>3 DEF QueueInv
    <2>5. \A k \in DOMAIN waiting : waiting[k] \in Client
      BY LenProperties, ElementOfSeq DEF TypeOK
    <2>6. \A k \in 1..n : Unserved(waiting[k])' /\ cur' # <<waiting[k]>>
      BY <1>1, <1>2, <1>4, <1>5, <2>1, <2>5 DEF QueueInv, Unserved
    <2>7. Unserved(c)' /\ cur' # <<c>>
      BY <1>1, <1>3, <1>4 DEF Unserved
    <2>8. QED
      BY <1>5, <2>1, <2>2, <2>3, <2>4, <2>6, <2>7 DEF QueueInv, Unserved
  <1>8. ClientInv(c)'
    BY <1>1, <1>3, <1>4 DEF ClientInv, Serving, InSession, None
  <1>9. QED
    BY <1>1, <1>4, <1>5, <1>6, <1>7, <1>8, ClientKeeps

\* A client that the server has answered is not in the backlog.
LEMMA AnsweredNotWaiting ==
  ASSUME TypeOK, QueueInv, NEW c \in Client, ~Unserved(c) \/ cur = <<c>>
  PROVE  c \notin ToSet(waiting)
  BY DEF QueueInv, ToSet

LEMMA RecvReplyKeeps ==
  ASSUME TypeOK, SessionInv, NEW c \in Client, RecvReply(c)
  PROVE  SessionInv'
  <1>1. /\ cpc[c] = "login"
        /\ UNCHANGED <<spc, cur, lost, command, waiting, listening, lingers, conn, told, line, replies>>
    BY DEF RecvReply, serverVars, portVars
  <1>2. \A d \in Client \ {c} : cpc'[d] = cpc[d]
    BY DEF RecvReply, Becomes, TypeOK
  <1>3. \/ told[c] = "port" /\ cpc'[c] = "dial"
        \/ told[c] = "INVALID_CRED" /\ cpc'[c] = "denied"
        \/ (told[c] = "closed" \/ spc = "down") /\ cpc'[c] = "refused"
    BY DEF RecvReply, Becomes, TypeOK
  <1>4. ASSUME spc # "down"
        PROVE  PortInv' /\ QueueInv' /\ ClientInv(c)'
    <2>1. PortInv /\ QueueInv /\ ClientInv(c)
      BY <1>4 DEF SessionInv
    <2>2. PortInv'
      BY <1>1, <2>1 DEF PortInv
    <2>3. QueueInv'
      <3>1. ~Unserved(c)
        BY <1>3, <1>4 DEF Unserved, None
      <3>2. \A d \in Client : Unserved(d) => Unserved(d)'
        BY <1>1, <1>2, <3>1 DEF Unserved
      <3>3. QED
        BY <1>1, <2>1, <3>2, QueueSame
    <2>4. ClientInv(c)'
      BY <1>1, <1>3, <1>4, <2>1, FullSame DEF ClientInv, Serving, Unserved, InSession, None
    <2>5. QED
      BY <2>2, <2>3, <2>4
  <1>5. QED
    BY <1>1, <1>2, <1>4, ClientKeeps

LEMMA DialKeeps ==
  ASSUME TypeOK, SessionInv, NEW c \in Client, Dial(c)
  PROVE  SessionInv'
  <1>1. /\ cpc[c] = "dial"
        /\ UNCHANGED <<spc, cur, lost, command, waiting, listening, lingers, told, line, replies>>
    BY DEF Dial, serverVars
  <1>2. \A d \in Client \ {c} : cpc'[d] = cpc[d]
    BY DEF Dial, Becomes, TypeOK
  <1>3. IF listening THEN conn' = "open" /\ cpc'[c] = "prompt" ELSE conn' = conn /\ cpc'[c] = "refused"
    BY DEF Dial, Becomes, TypeOK
  <1>4. CASE spc = "down"
    <2>1. EndInv' /\ CurrentInv'
      <3>1. cur # <<>> /\ cpc[cur[1]] = "killed" => cpc'[cur[1]] = "killed"
        BY DEF Dial, Becomes, TypeOK
      <3>2. QED
        BY <1>1, <3>1, FullSame DEF SessionInv, EndInv, CurrentInv
    <2>2. QED
      BY <1>1, <1>4, <2>1 DEF SessionInv
  <1>5. CASE spc # "down"
    <2>1. PortInv /\ QueueInv /\ ClientInv(c)
      BY <1>5 DEF SessionInv
    <2>2. line[c] = <<>> /\ told[c] = "port" /\ ~Unserved(c)
      BY <1>1, <2>1 DEF ClientInv, Unserved, None
    <2>3. QueueInv'
      <3>1. \A d \in Client : Unserved(d) => Unserved(d)'
        BY <1>1, <1>2, <2>2 DEF Unserved
      <3>2. QED
        BY <1>1, <2>1, <3>1, QueueSame
    <2>4. CASE UsedUp
      <3>1. conn' = conn /\ cpc'[c] = "refused" /\ ~listening
        BY <1>3, <2>4 DEF UsedUp
      <3>2. PortInv' /\ ~Serving(c)
        BY <1>1, <2>1, <3>1 DEF PortInv, Serving
      <3>3. ClientInv(c)'
        BY <1>1, <2>1, <2>2, <3>1, <3>2 DEF ClientInv, Serving, InSession, Unserved, None
      <3>4. QED
        BY <1>1, <1>2, <2>3, <3>1, <3>2, <3>3, ClientKeeps
    <2>5. CASE ~UsedUp
      <3>1. cur = <<c>> /\ spc = "dial" /\ conn = "none"
        BY <1>1, <2>1, <2>2, <2>5 DEF ClientInv, Serving
      <3>2. listening /\ replies = 0 /\ ~lingers
        BY <2>1, <3>1 DEF PortInv
      <3>3. conn' = "open" /\ cpc'[c] = "prompt"
        BY <1>3, <3>2
      <3>4. PortInv'
        BY <1>1, <2>1, <3>1, <3>3 DEF PortInv
      <3>5. ClientInv(c)'
        BY <1>1, <2>2, <3>1, <3>2, <3>3 DEF ClientInv, Serving, InSession
      <3>6. QED
        BY <1>1, <1>2, <2>3, <3>1, <3>4, <3>5, ClientKeeps
    <2>6. QED
      BY <2>4, <2>5
  <1>6. QED
    BY <1>4, <1>5

\* The steps of a client with a data connection: the server, not ended, is
\* in its session.
LEMMA InSessionServed ==
  ASSUME TypeOK, SessionInv, NEW c \in Client, InSession(c), spc # "down"
  PROVE  /\ PortInv /\ QueueInv /\ ClientInv(c)
         /\ Serving(c) /\ cur = <<c>> /\ conn = "open" /\ told[c] = "port" /\ ~lingers
         /\ c \notin ToSet(waiting) /\ ~Unserved(c)
  <1>1. PortInv /\ QueueInv /\ ClientInv(c)
    BY DEF SessionInv
  <1>2. Serving(c) /\ conn = "open" /\ cur = <<c>>
    BY <1>1 DEF ClientInv, Serving
  <1>3. told[c] = "port" /\ ~lingers
    BY <1>1, <1>2 DEF ClientInv, PortInv, Serving
  <1>4. ~Unserved(c)
    BY <1>3 DEF Unserved, None
  <1>5. QED
    BY <1>1, <1>2, <1>3, <1>4, AnsweredNotWaiting

\* After the server has ended, only EndInv is left to keep.
LEMMA DownKeeps ==
  ASSUME TypeOK, SessionInv, NEW c \in Client, cpc[c] # "killed", spc = "down",
         UNCHANGED <<spc, cur, lost, listening>>,
         \A d \in Client \ {c} : cpc'[d] = cpc[d]
  PROVE  SessionInv'
  <1>1. ASSUME cur # <<>>, cpc[cur[1]] = "killed"
        PROVE  cpc'[cur[1]] = "killed"
    <2>1. cur[1] \in Client
      <3>1. 1 \in 1..Len(cur)
        BY <1>1, EmptySeq DEF TypeOK
      <3>2. QED
        BY <3>1, ElementOfSeq DEF TypeOK
    <2>2. QED
      BY <1>1, <2>1
  <1>2. QED
    BY <1>1, FullSame DEF SessionInv, EndInv, CurrentInv

\* What a client does whose data connection was cut is of no account.
LEMMA CutKeeps ==
  ASSUME TypeOK, SessionInv, NEW c \in Client, cpc[c] = "cut", cpc'[c] \in {"cut", "gone"},
         UNCHANGED <<spc, cur, lost, command, waiting, listening, lingers, conn, told, line, replies>>,
         \A d \in Client \ {c} : cpc'[d] = cpc[d]
  PROVE  SessionInv'
  <1>1. CASE spc = "down"
    BY <1>1, DownKeeps
  <1>2. CASE spc # "down"
    <2>1. PortInv /\ QueueInv /\ ClientInv(c)
      BY <1>2 DEF SessionInv
    <2>2. ~Serving(c) /\ ~Serving(c)'
      BY <2>1 DEF ClientInv, Serving
    <2>3. PortInv'
      BY <2>1 DEF PortInv
    <2>4. QueueInv'
      <3>1. \A d \in Client : Unserved(d) => Unserved(d)'
        BY DEF Unserved
      <3>2. QED
        BY <2>1, <3>1, QueueSame
    <2>5. ClientInv(c)'
      BY <2>1, <2>2 DEF ClientInv, InSession, Unserved
    <2>6. QED
      BY <2>3, <2>4, <2>5, ClientKeeps
  <1>3. QED
    BY <1>1, <1>2

LEMMA HelpKeeps ==
  ASSUME TypeOK, SessionInv, NEW c \in Client, Help(c)
  PROVE  SessionInv'
  <1> USE DEF Becomes
  <1>1. UNCHANGED <<spc, cur, lost, command, waiting, listening, lingers, conn, told, replies>>
    BY DEF Help, serverVars, portVars
  <1>2. CASE cpc[c] = "cut"
    BY <1>1, <1>2, CutKeeps DEF Help, TypeOK
  <1>3. CASE cpc[c] # "cut"
    <2>1. cpc[c] = "prompt"
      BY <1>3 DEF Help
    <2>2. /\ cpc'[c] = "help" /\ line'[c] = Append(line[c], "help")
          /\ \A d \in Client \ {c} : cpc'[d] = cpc[d] /\ line'[d] = line[d]
      BY <2>1 DEF Help, TypeOK
    <2>3. CASE spc = "down"
      BY <1>1, <2>1, <2>2, <2>3, DownKeeps
    <2>4. CASE spc # "down"
      <3>1. /\ PortInv /\ QueueInv /\ ClientInv(c)
            /\ Serving(c) /\ cur = <<c>> /\ conn = "open" /\ told[c] = "port" /\ ~Unserved(c)
        BY <2>1, <2>4, InSessionServed DEF InSession
      <3>2. line[c] = <<>> /\ replies = 0 /\ spc # "obey"
        BY <2>1, <3>1 DEF ClientInv
      <3>3. line'[c] = <<"help">>
        <4>1. Append(<<>>, "help") = <<"help">>
          OBVIOUS
        <4>2. QED
          BY <2>2, <3>2, <4>1
      <3>4. PortInv'
        BY <1>1, <3>1 DEF PortInv
      <3>5. QueueInv'
        <4>1. \A d \in Client : Unserved(d) => Unserved(d)'
          BY <1>1, <2>2, <3>1 DEF Unserved
        <4>2. QED
          BY <1>1, <3>1, <4>1, QueueSame
      <3>6. ClientInv(c)'
        BY <1>1, <2>2, <3>1, <3>2, <3>3 DEF ClientInv, Serving, InSession, HelpUnderWay
      <3>7. QED
        BY <1>1, <2>1, <2>2, <3>1, <3>4, <3>5, <3>6, ClientKeeps
    <2>5. QED
      BY <2>3, <2>4
  <1>4. QED
    BY <1>2, <1>3

LEMMA RecvHelpKeeps ==
  ASSUME TypeOK, SessionInv, NEW c \in Client, RecvHelp(c)
  PROVE  SessionInv'
  <1>1. /\ cpc[c] = "help" /\ (replies > 0 \/ spc = "down") /\ replies' = 0
        /\ UNCHANGED <<spc, cur, lost, command, waiting, listening, lingers, conn, told, line>>
    BY DEF RecvHelp, serverVars, portVars
  <1>2. cpc'[c] = "prompt" /\ \A d \in Client \ {c} : cpc'[d] = cpc[d]
    BY DEF RecvHelp, Becomes, TypeOK
  <1>3. CASE spc = "down"
    BY <1>1, <1>2, <1>3, DownKeeps
  <1>4. CASE spc # "down"
    <2>1. /\ PortInv /\ QueueInv /\ ClientInv(c)
          /\ Serving(c) /\ cur = <<c>> /\ conn = "open" /\ told[c] = "port" /\ ~Unserved(c)
      BY <1>1, <1>4, InSessionServed DEF InSession
    <2>2. line[c] = <<>> /\ spc = "recv"
      BY <1>1, <1>4, <2>1 DEF ClientInv, HelpUnderWay
    <2>3. PortInv'
      BY <1>1, <2>1 DEF PortInv
    <2>4. QueueInv'
      <3>1. \A d \in Client : Unserved(d) => Unserved(d)'
        BY <1>1, <1>2, <2>1 DEF Unserved
      <3>2. QED
        BY <1>1, <2>1, <3>1, QueueSame
    <2>5. ClientInv(c)'
      BY <1>1, <1>2, <2>1, <2>2 DEF ClientInv, Serving, InSession
    <2>6. QED
      BY <1>1, <1>2, <2>1, <2>3, <2>4, <2>5, ClientKeeps
  <1>5. QED
    BY <1>3, <1>4

LEMMA ExitKeeps ==
  ASSUME TypeOK, SessionInv, NEW c \in Client, Exit(c)
  PROVE  SessionInv'
  <1> USE DEF Becomes
  <1>1. UNCHANGED <<spc, cur, lost, command, waiting, listening, lingers, conn, told, replies>>
    BY DEF Exit, serverVars, portVars
  <1>2. CASE cpc[c] = "cut"
    BY <1>1, <1>2, CutKeeps DEF Exit, TypeOK
  <1>3. CASE cpc[c] # "cut"
    <2>1. cpc[c] = "prompt"
      BY <1>3 DEF Exit
    <2>2. /\ cpc'[c] = "leave" /\ line'[c] = Append(line[c], "exit")
          /\ \A d \in Client \ {c} : cpc'[d] = cpc[d] /\ line'[d] = line[d]
      BY <2>1 DEF Exit, TypeOK
    <2>3. CASE spc = "down"
      BY <1>1, <2>1, <2>2, <2>3, DownKeeps
    <2>4. CASE spc # "down"
      <3>1. /\ PortInv /\ QueueInv /\ ClientInv(c)
            /\ Serving(c) /\ cur = <<c>> /\ conn = "open" /\ told[c] = "port" /\ ~Unserved(c)
        BY <2>1, <2>4, InSessionServed DEF InSession
      <3>2. line[c] = <<>> /\ replies = 0 /\ spc # "obey"
        BY <2>1, <3>1 DEF ClientInv
      <3>3. line'[c] = <<"exit">>
        <4>1. Append(<<>>, "exit") = <<"exit">>
          OBVIOUS
        <4>2. QED
          BY <2>2, <3>2, <4>1
      <3>4. PortInv'
        BY <1>1, <3>1 DEF PortInv
      <3>5. QueueInv'
        <4>1. \A d \in Client : Unserved(d) => Unserved(d)'
          BY <1>1, <2>2, <3>1 DEF Unserved
        <4>2. QED
          BY <1>1, <3>1, <4>1, QueueSame
      <3>6. ClientInv(c)'
        BY <1>1, <2>2, <3>1, <3>2, <3>3 DEF ClientInv, Serving, InSession, ExitUnderWay
      <3>7. QED
        BY <1>1, <2>1, <2>2, <3>1, <3>4, <3>5, <3>6, ClientKeeps
    <2>5. QED
      BY <2>3, <2>4
  <1>4. QED
    BY <1>2, <1>3

LEMMA LeaveKeeps ==
  ASSUME TypeOK, SessionInv, NEW c \in Client, Leave(c)
  PROVE  SessionInv'
  <1>1. /\ cpc[c] = "leave" /\ conn' = IF conn = "open" THEN "left" ELSE conn
        /\ UNCHANGED <<spc, cur, lost, command, waiting, listening, lingers, told, line, replies>>
    BY DEF Leave, serverVars
  <1>2. cpc'[c] = "gone" /\ \A d \in Client \ {c} : cpc'[d] = cpc[d]
    BY DEF Leave, Becomes, TypeOK
  <1>3. CASE spc = "down"
    BY <1>1, <1>2, <1>3, DownKeeps
  <1>4. CASE spc # "down"
    <2>1. PortInv /\ QueueInv /\ ClientInv(c)
      BY <1>4 DEF SessionInv
    <2>2. Serving(c) \/ conn' = conn
      BY <1>1, <2>1 DEF ClientInv, PortInv
    <2>3. PortInv'
      BY <1>1, <2>1 DEF PortInv
    <2>4. QueueInv'
      <3>1. \A d \in Client : Unserved(d) => Unserved(d)'
        BY <1>1, <1>2 DEF Unserved
      <3>2. QED
        BY <1>1, <2>1, <3>1, QueueSame
    <2>5. ClientInv(c)'
      BY <1>1, <1>2, <2>1 DEF ClientInv, Serving, InSession, ExitUnderWay, Unserved
    <2>6. cur = <<c>> \/ UNCHANGED <<conn, replies>>
      BY <1>1, <2>2 DEF Serving
    <2>7. QED
      BY <1>1, <1>2, <2>3, <2>4, <2>5, <2>6, ClientKeeps
  <1>5. QED
    BY <1>3, <1>4

LEMMA KillKeeps ==
  ASSUME TypeOK, SessionInv, NEW c \in Client, Kill(c)
  PROVE  SessionInv'
  <1>1. /\ cpc[c] \in {"login", "dial", "prompt", "help", "cut"}
        /\ IF cpc[c] \in {"prompt", "help"} /\ conn = "open"
             THEN conn' \in {"reset", "left"}
             ELSE conn' = conn
        /\ UNCHANGED <<spc, cur, lost, command, waiting, listening, lingers, told, line, replies>>
    BY DEF Kill, serverVars
  <1>2. cpc'[c] = "killed" /\ \A d \in Client \ {c} : cpc'[d] = cpc[d]
    BY DEF Kill, Becomes, TypeOK
  <1>3. CASE spc = "down"
    BY <1>1, <1>2, <1>3, DownKeeps
  <1>4. CASE spc # "down"
    <2>1. PortInv /\ QueueInv /\ ClientInv(c)
      BY <1>4 DEF SessionInv
    <2>2. cur = <<c>> \/ UNCHANGED <<conn, replies>>
      BY <1>1, <2>1 DEF ClientInv, InSession, Serving
    <2>3. PortInv'
      BY <1>1, <2>1 DEF PortInv
    <2>4. QueueInv'
      <3>1. \A d \in Client : Unserved(d) => Unserved(d)'
        BY <1>1, <1>2 DEF Unserved
      <3>2. QED
        BY <1>1, <2>1, <3>1, QueueSame
    <2>5. Serving(c) => conn' # "open"
      BY <1>1, <2>1 DEF ClientInv, InSession
    <2>6. ClientInv(c)'
      BY <1>1, <1>2, <2>1, <2>5 DEF ClientInv, Serving, InSession, Unserved
    <2>7. QED
      BY <1>1, <1>2, <2>2, <2>3, <2>4, <2>6, ClientKeeps
  <1>5. QED
    BY <1>3, <1>4
-----------------------------------------------------------------------------
(* Steps of the server.                                                    *)

\* A step of the server for client c keeps SessionInv if it keeps what that says
\* of c and of the data port.
LEMMA ServerKeeps ==
  ASSUME TypeOK, SessionInv, NEW c \in Client, cur = <<c>>, spc # "down",
         cur' = <<c>> \/ cur' = <<>>, lingers => lingers', UsedUp => UsedUp', waiting' = waiting,
         \A d \in Client \ {c} : cpc'[d] = cpc[d] /\ told'[d] = told[d] /\ line'[d] = line[d],
         CurrentInv', EndInv',
         spc' # "down" => PortInv' /\ ClientInv(c)'
  PROVE  SessionInv'
  <1>1. QueueInv'
    <2>1. QueueInv
      BY DEF SessionInv
    <2>2. ASSUME NEW k \in DOMAIN waiting
          PROVE  Unserved(waiting[k])' /\ cur' # <<waiting[k]>>
      <3>1. waiting[k] \in Client
        BY LenProperties, ElementOfSeq DEF TypeOK
      <3>2. waiting[k] # c /\ Unserved(waiting[k])
        BY <2>1 DEF QueueInv
      <3>3. QED
        BY <3>1, <3>2 DEF Unserved
    <2>3. QED
      BY <2>1, <2>2 DEF QueueInv, Unserved
  <1>2. ASSUME spc' # "down", NEW d \in Client
        PROVE  ClientInv(d)'
    <2>1. CASE d = c
      BY <1>2, <2>1
    <2>2. CASE d # c
      <3>1. ClientInv(d) /\ cur # <<d>> /\ cur' # <<d>>
        BY <2>2 DEF SessionInv
      <3>2. QED
        BY <2>2, <3>1, AsideKept
    <2>3. QED
      BY <2>1, <2>2
  <1>3. QED
    BY <1>1, <1>2 DEF SessionInv

LEMMA AcceptKeeps ==
  ASSUME TypeOK, SessionInv, Accept
  PROVE  SessionInv'
  <1>1. /\ spc = "accept" /\ waiting # <<>> /\ cur = <<>>
        /\ cur' = <<Head(waiting)>> /\ waiting' = Tail(waiting) /\ spc' = "auth"
        /\ UNCHANGED <<lost, command, listening, lingers, conn, cpc, told, line, replies>>
    BY DEF Accept, SessionInv, CurrentInv, portVars
  <1>2. PICK n \in Nat : n = Len(waiting) /\ DOMAIN waiting = 1..n /\ n >= 1
    BY <1>1, EmptySeq, LenProperties DEF TypeOK
  <1>3. PICK c \in Client : c = Head(waiting) /\ c = waiting[1]
    <2>1. Head(waiting) \in Client /\ Head(waiting) = waiting[1]
      BY <1>1, HeadTailProperties DEF TypeOK
    <2>2. QED
      BY <2>1
  <1>4. /\ DOMAIN waiting' = 1..(n - 1)
        /\ \A k \in 1..(n - 1) : waiting'[k] = waiting[k + 1]
    BY <1>1, <1>2, HeadTailProperties, LenProperties DEF TypeOK
  <1>5. PortInv /\ QueueInv
    BY <1>1 DEF SessionInv
  <1>6. \A k \in 1..(n - 1) : k + 1 \in 1..n /\ k + 1 # 1
    BY <1>2
  <1>7. \A k \in 1..(n - 1) : waiting[k + 1] # c
    <2>1. \A j, k \in 1..n : waiting[j] = waiting[k] => j = k
      BY <1>2, <1>5 DEF QueueInv
    <2>2. 1 \in 1..n
      BY <1>2
    <2>3. QED
      BY <1>3, <1>6, <2>1, <2>2
  <1>8. PortInv'
    BY <1>1, <1>5 DEF PortInv
  <1>9. QueueInv'
    <2>1. \A j, k \in DOMAIN waiting' : waiting'[j] = waiting'[k] => j = k
      <3>1. SUFFICES ASSUME NEW j \in 1..(n - 1), NEW k \in 1..(n - 1), waiting[j + 1] = waiting[k + 1]
                     PROVE  j = k
        BY <1>4
      <3>2. j + 1 = k + 1
        BY <1>2, <1>5, <1>6, <3>1 DEF QueueInv
      <3>3. QED
        BY <3>2
    <2>2. ASSUME NEW k \in 1..(n - 1)
          PROVE  Unserved(waiting[k])' /\ cur' # <<waiting'[k]>>
      <3>1. PICK x \in Client : x = waiting[k + 1] /\ x = waiting'[k]
        <4>1. waiting[k + 1] \in Client
          BY <1>2, <1>6, ElementOfSeq DEF TypeOK
        <4>2. QED
          BY <1>4, <4>1
      <3>2. Unserved(x) /\ x # c
        BY <1>2, <1>5, <1>6, <1>7, <3>1 DEF QueueInv
      <3>3. QED
        BY <1>1, <1>3, <3>1, <3>2 DEF Unserved
    <2>3. QED
      BY <1>4, <2>1, <2>2 DEF QueueInv
  <1>10. ASSUME NEW d \in Client
         PROVE  ClientInv(d)'
    <2>1. ClientInv(d)
      BY <1>1 DEF SessionInv
    <2>2. d \in ToSet(waiting') => d \in ToSet(waiting)
      BY <1>2, <1>4, <1>6 DEF ToSet
    <2>3. CASE d = c
      <3>1. 1 \in DOMAIN waiting
        BY <1>2
      <3>2. Unserved(d)
        BY <1>3, <1>5, <2>3, <3>1 DEF QueueInv
      <3>3. QED
        BY <1>1, <2>1, <3>2 DEF ClientInv, Serving, Unserved, InSession, None
    <2>4. CASE d # c
      <3>1. cur # <<d>> /\ cur' # <<d>>
        BY <1>1, <1>3, <2>4
      <3>2. QED
        BY <1>1, <2>1, <2>2, <3>1, AsideKept DEF UsedUp
    <2>5. QED
      BY <2>3, <2>4
  <1>11. CurrentInv' /\ EndInv'
    BY <1>1, <1>3 DEF CurrentInv, EndInv
  <1>12. QED
    BY <1>8, <1>9, <1>10, <1>11 DEF SessionInv

\* Before a step of the server for the client that it has.
LEMMA CurrentClient ==
  ASSUME TypeOK, SessionInv, spc \notin {"accept", "down"}
  PROVE  \E c \in Client : /\ cur = <<c>> /\ cur[1] = c
                           /\ PortInv /\ QueueInv /\ ClientInv(c) /\ c \notin ToSet(waiting)
  <1>1. PICK c \in Client : cur = <<c>>
    BY DEF SessionInv, CurrentInv
  <1>2. PortInv /\ QueueInv /\ ClientInv(c)
    BY DEF SessionInv
  <1>3. QED
    BY <1>1, <1>2, AnsweredNotWaiting

LEMMA AuthorizeKeeps ==
  ASSUME TypeOK, SessionInv, Authorize
  PROVE  SessionInv'
  <1>1. /\ spc = "auth"
        /\ UNCHANGED <<cur, command, waiting, listening, lingers, conn, cpc, line, replies>>
    BY DEF Authorize, portVars
  <1>2. PICK c \in Client : /\ cur = <<c>> /\ cur[1] = c
                            /\ PortInv /\ QueueInv /\ ClientInv(c) /\ c \notin ToSet(waiting)
    BY <1>1, CurrentClient
  <1>3. Unserved(c)
    BY <1>1, <1>2 DEF ClientInv
  <1>4. \A d \in Client \ {c} : told'[d] = told[d]
    BY <1>2 DEF Authorize, Tell, TypeOK
  <1>5. \/ spc' = "down" /\ Full /\ lost' = lost
        \/ spc' = "listen" /\ told' = told /\ lost' = lost + 1
        \/ spc' = "hangup" /\ told'[c] = "INVALID_CRED" /\ lost' = lost + 1
    BY <1>2 DEF Authorize, Tell, TypeOK
  <1>6. CurrentInv' /\ EndInv' /\ (UsedUp => UsedUp')
    <2>1. spc' = "down" => Full'
      BY <1>1, <1>5 DEF Full, Held
    <2>2. UsedUp => UsedUp'
      BY <1>1, <1>5, ConstantsAssumption DEF UsedUp, TypeOK
    <2>3. QED
      BY <1>1, <1>2, <1>5, <2>1, <2>2 DEF CurrentInv, EndInv
  <1>7. ASSUME spc' # "down"
        PROVE  PortInv' /\ ClientInv(c)'
    <2>1. PortInv'
      BY <1>1, <1>2, <1>5, <1>7 DEF PortInv
    <2>2. ClientInv(c)'
      BY <1>1, <1>2, <1>3, <1>5, <1>7 DEF ClientInv, Serving, Unserved, InSession, None
    <2>3. QED
      BY <2>1, <2>2
  <1>8. QED
    BY <1>1, <1>2, <1>4, <1>6, <1>7, ServerKeeps

LEMMA ListenKeeps ==
  ASSUME TypeOK, SessionInv, Listen
  PROVE  SessionInv'
  <1>1. /\ spc = "listen"
        /\ UNCHANGED <<cur, command, waiting, lingers, conn, cpc, line, replies>>
    BY DEF Listen
  <1>2. PICK c \in Client : /\ cur = <<c>> /\ cur[1] = c
                            /\ PortInv /\ QueueInv /\ ClientInv(c) /\ c \notin ToSet(waiting)
    BY <1>1, CurrentClient
  <1>3. Unserved(c)
    BY <1>1, <1>2 DEF ClientInv
  <1>4. \A d \in Client \ {c} : told'[d] = told[d]
    BY <1>2 DEF Listen, Tell, TypeOK
  <1>5. \/ /\ spc' = "hangup" /\ told' = told /\ listening' = listening
           /\ lost' = lost \/ lost' = lost + 1
        \/ /\ spc' = "dial" /\ told'[c] = "port" /\ listening' = TRUE
           /\ ~lingers /\ ~Full /\ lost' = lost
    BY <1>2 DEF Listen, Tell, TypeOK
  <1>6. conn = "none" /\ replies = 0 /\ ~listening
    BY <1>1, <1>2 DEF PortInv
  <1>7. CurrentInv' /\ EndInv' /\ (UsedUp => UsedUp')
    <2>1. Held = lost + 1
      BY <1>1, <1>2, <1>6, HeldWithClient
    <2>2. UsedUp => Full
      BY <1>1, <2>1 DEF UsedUp, Full
    <2>3. UsedUp => UsedUp'
      BY <1>1, <1>5, <2>2, ConstantsAssumption DEF UsedUp, TypeOK
    <2>4. QED
      BY <1>1, <1>2, <1>5, <2>3 DEF CurrentInv, EndInv
  <1>8. PortInv'
    BY <1>1, <1>5, <1>6 DEF PortInv
  <1>9. ClientInv(c)'
    BY <1>1, <1>2, <1>3, <1>5, <1>6 DEF ClientInv, Serving, Unserved, InSession, None
  <1>10. QED
    BY <1>1, <1>2, <1>4, <1>7, <1>8, <1>9, ServerKeeps

LEMMA AcceptDataKeeps ==
  ASSUME TypeOK, SessionInv, AcceptData
  PROVE  SessionInv'
  <1>1. /\ spc = "dial" /\ conn # "none" /\ spc' = "recv"
        /\ UNCHANGED <<cur, lost, waiting, listening, lingers, conn, cpc, told, line, replies>>
    BY DEF AcceptData, portVars
  <1>2. PICK c \in Client : /\ cur = <<c>> /\ cur[1] = c
                            /\ PortInv /\ QueueInv /\ ClientInv(c) /\ c \notin ToSet(waiting)
    BY <1>1, CurrentClient
  <1>3. CurrentInv' /\ EndInv' /\ (UsedUp => UsedUp')
    BY <1>1, <1>2 DEF CurrentInv, EndInv, UsedUp
  <1>4. PortInv'
    BY <1>1, <1>2 DEF PortInv
  <1>5. ClientInv(c)'
    BY <1>1, <1>2 DEF ClientInv, Serving, Unserved, InSession, HelpUnderWay, ExitUnderWay
  <1>6. QED
    BY <1>1, <1>2, <1>3, <1>4, <1>5, ServerKeeps

LEMMA AcceptDataFailsKeeps ==
  ASSUME TypeOK, SessionInv, AcceptDataFails
  PROVE  SessionInv'
  <1>1. /\ spc = "dial" /\ Full /\ spc' = "hangup" /\ listening' = FALSE /\ conn' = "none"
        /\ UNCHANGED <<cur, lost, command, waiting, lingers, told, line, replies>>
    BY DEF AcceptDataFails
  <1>2. PICK c \in Client : /\ cur = <<c>> /\ cur[1] = c
                            /\ PortInv /\ QueueInv /\ ClientInv(c) /\ c \notin ToSet(waiting)
    BY <1>1, CurrentClient
  <1>3. /\ cpc'[c] = IF cpc[c] \in {"prompt", "help", "leave"} THEN "cut" ELSE cpc[c]
        /\ \A d \in Client \ {c} : cpc'[d] = cpc[d]
    BY <1>2 DEF AcceptDataFails, Becomes, TypeOK
  <1>4. listening /\ replies = 0
    BY <1>1, <1>2 DEF PortInv
  <1>5. lost + 2 >= Descriptors
    BY <1>1, <1>2, <1>4, HeldWithClient DEF Full
  <1>6. CurrentInv' /\ EndInv' /\ (UsedUp => UsedUp') /\ UsedUp'
    BY <1>1, <1>2, <1>5 DEF CurrentInv, EndInv, UsedUp
  <1>7. PortInv'
    BY <1>1, <1>2, <1>4 DEF PortInv
  <1>8. Serving(c) /\ ~Serving(c)' /\ told[c] = "port"
    BY <1>1, <1>2 DEF ClientInv, Serving
  <1>9. ClientInv(c)'
    BY <1>1, <1>2, <1>3, <1>6, <1>8 DEF ClientInv, InSession, Unserved
  <1>10. QED
    BY <1>1, <1>2, <1>3, <1>6, <1>7, <1>9, ServerKeeps

LEMMA RecvCommandKeeps ==
  ASSUME TypeOK, SessionInv, RecvCommand
  PROVE  SessionInv'
  <1>1. /\ spc = "recv" /\ spc' = "obey"
        /\ UNCHANGED <<cur, lost, waiting, listening, lingers, conn, cpc, told, replies>>
    BY DEF RecvCommand, portVars
  <1>2. PICK c \in Client : /\ cur = <<c>> /\ cur[1] = c
                            /\ PortInv /\ QueueInv /\ ClientInv(c) /\ c \notin ToSet(waiting)
    BY <1>1, CurrentClient
  <1>3. \/ line[c] # <<>> /\ command' = Head(line[c]) /\ line'[c] = Tail(line[c])
        \/ line[c] = <<>> /\ line'[c] = line[c] /\ command' = command /\ cpc[c] \in {"gone", "killed"}
    BY <1>2 DEF RecvCommand, TypeOK
  <1>4. \A d \in Client \ {c} : line'[d] = line[d]
    BY <1>2 DEF RecvCommand, TypeOK
  <1>5. CurrentInv' /\ EndInv' /\ (UsedUp => UsedUp')
    BY <1>1, <1>2 DEF CurrentInv, EndInv, UsedUp
  <1>6. PortInv'
    BY <1>1, <1>2 DEF PortInv
  <1>7. Serving(c) /\ Serving(c)' /\ told[c] = "port"
    BY <1>1, <1>2 DEF ClientInv, Serving
  <1>8. cpc[c] = "help" => HelpUnderWay(c)'
    <2>1. ASSUME cpc[c] = "help"
          PROVE  HelpUnderWay(c)'
      <3>1. line[c] = <<"help">> /\ replies = 0
        BY <1>1, <1>2, <1>3, <2>1 DEF ClientInv, HelpUnderWay
      <3>2. Head(<<"help">>) = "help" /\ Tail(<<"help">>) = <<>> /\ <<"help">> # <<>>
        OBVIOUS
      <3>3. command' = "help" /\ line'[c] = <<>>
        BY <1>3, <3>1, <3>2
      <3>4. QED
        BY <1>1, <3>1, <3>3 DEF HelpUnderWay
    <2>2. QED
      BY <2>1
  <1>9. cpc[c] \in {"leave", "gone"} => ExitUnderWay(c)'
    <2>1. ASSUME cpc[c] \in {"leave", "gone"}
          PROVE  ExitUnderWay(c)'
      <3>1. ExitUnderWay(c) /\ line[c] = <<"exit">>
        BY <1>1, <1>2, <1>7, <2>1 DEF ClientInv, ExitUnderWay
      <3>2. Head(<<"exit">>) = "exit" /\ Tail(<<"exit">>) = <<>> /\ <<"exit">> # <<>>
        OBVIOUS
      <3>3. command' = "exit" /\ line'[c] = <<>>
        BY <1>3, <3>1, <3>2
      <3>4. QED
        BY <1>1, <3>1, <3>3 DEF ExitUnderWay
    <2>2. QED
      BY <2>1
  <1>10. cpc[c] \notin {"login", "dial", "prompt", "start"}
    <2>1. cpc[c] # "prompt"
      BY <1>2, <1>3 DEF ClientInv
    <2>2. cpc[c] \notin {"login", "dial", "start"}
      BY <1>1, <1>2, <1>7 DEF ClientInv
    <2>3. QED
      BY <2>1, <2>2
  <1>11. ClientInv(c)'
    BY <1>1, <1>2, <1>7, <1>8, <1>9, <1>10 DEF ClientInv, InSession
  <1>12. QED
    BY <1>1, <1>2, <1>4, <1>5, <1>6, <1>11, ServerKeeps
LEMMA SendTextKeeps ==
  ASSUME TypeOK, SessionInv, SendText
  PROVE  SessionInv'
  <1>1. /\ spc = "obey" /\ command # "exit"
        /\ UNCHANGED <<cur, lost, command, waiting, listening, lingers, cpc, told, line>>
    BY DEF SendText
  <1>2. PICK c \in Client : /\ cur = <<c>> /\ cur[1] = c
                            /\ PortInv /\ QueueInv /\ ClientInv(c) /\ c \notin ToSet(waiting)
    BY <1>1, CurrentClient
  <1>3. Serving(c) /\ told[c] = "port"
    BY <1>1, <1>2 DEF ClientInv, Serving
  <1>4. cpc[c] \in {"help", "killed"}
    <2>1. cpc[c] \notin {"start", "cut", "denied", "refused", "prompt"}
      BY <1>1, <1>2, <1>3 DEF ClientInv
    <2>2. cpc[c] \notin {"login", "dial"}
      BY <1>1, <1>2, <1>3 DEF ClientInv
    <2>3. cpc[c] \notin {"leave", "gone"}
      BY <1>1, <1>2, <1>3 DEF ClientInv, ExitUnderWay
    <2>4. QED
      BY <2>1, <2>2, <2>3 DEF TypeOK
  <1>5. CASE conn = "reset"
    <2>1. spc' = "down" /\ cpc[c] = "killed"
      BY <1>2, <1>4, <1>5, SendTextEffect DEF ClientInv, InSession
    <2>2. CurrentInv' /\ EndInv' /\ (UsedUp => UsedUp')
      BY <1>1, <1>2, <2>1 DEF CurrentInv, EndInv, UsedUp
    <2>3. QED
      BY <1>1, <1>2, <2>1, <2>2, ServerKeeps
  <1>6. CASE conn = "left"
    <2>1. spc' = "recv" /\ conn' = "reset" /\ replies' = replies /\ cpc[c] = "killed"
      BY <1>2, <1>4, <1>6, SendTextEffect DEF ClientInv, InSession
    <2>2. CurrentInv' /\ EndInv' /\ (UsedUp => UsedUp')
      BY <1>1, <1>2, <2>1 DEF CurrentInv, EndInv, UsedUp
    <2>3. PortInv'
      BY <1>1, <1>2, <2>1 DEF PortInv
    <2>4. ClientInv(c)'
      BY <1>1, <1>2, <1>3, <2>1 DEF ClientInv, Serving, InSession
    <2>5. QED
      BY <1>1, <1>2, <2>2, <2>3, <2>4, ServerKeeps
  <1>7. CASE conn = "open"
    <2>1. spc' = "recv" /\ conn' = "open" /\ replies' = replies + 1 /\ cpc[c] = "help"
      BY <1>2, <1>3, <1>4, <1>7, SendTextEffect DEF ClientInv
    <2>2. CurrentInv' /\ EndInv' /\ (UsedUp => UsedUp')
      BY <1>1, <1>2, <2>1 DEF CurrentInv, EndInv, UsedUp
    <2>3. PortInv'
      BY <1>1, <1>2, <2>1 DEF PortInv
    <2>4. line[c] = <<>> /\ replies' = 1
      BY <1>1, <1>2, <2>1 DEF ClientInv, HelpUnderWay
    <2>5. ClientInv(c)'
      BY <1>1, <1>2, <1>3, <2>1, <2>4 DEF ClientInv, Serving, InSession, HelpUnderWay
    <2>6. QED
      BY <1>1, <1>2, <2>2, <2>3, <2>5, ServerKeeps
  <1>8. QED
    BY <1>1, <1>2, <1>5, <1>6, <1>7 DEF PortInv, TypeOK

LEMMA CloseDataKeeps ==
  ASSUME TypeOK, SessionInv, CloseData
  PROVE  SessionInv'
  <1>1. /\ spc = "obey" /\ command = "exit" /\ spc' = "unlisten"
        /\ lingers' = (lingers \/ conn = "open") /\ conn' = "none" /\ replies' = 0
        /\ UNCHANGED <<cur, lost, command, waiting, listening, cpc, told, line>>
    BY DEF CloseData
  <1>2. PICK c \in Client : /\ cur = <<c>> /\ cur[1] = c
                            /\ PortInv /\ QueueInv /\ ClientInv(c) /\ c \notin ToSet(waiting)
    BY <1>1, CurrentClient
  <1>3. Serving(c) /\ ~Serving(c)' /\ told[c] = "port"
    BY <1>1, <1>2 DEF ClientInv, Serving
  <1>4. cpc[c] \notin {"start", "login", "dial", "prompt", "help"}
    <2>1. cpc[c] \notin {"start", "login", "dial", "prompt"}
      BY <1>1, <1>2, <1>3 DEF ClientInv
    <2>2. cpc[c] # "help"
      BY <1>1, <1>2 DEF ClientInv, HelpUnderWay
    <2>3. QED
      BY <2>1, <2>2
  <1>5. CurrentInv' /\ EndInv' /\ (UsedUp => UsedUp')
    BY <1>1, <1>2 DEF CurrentInv, EndInv, UsedUp
  <1>6. PortInv'
    BY <1>1, <1>2 DEF PortInv
  <1>7. cpc[c] = "leave" => lingers'
    BY <1>1, <1>2, <1>3 DEF ClientInv, ExitUnderWay
  <1>8. ClientInv(c)'
    BY <1>1, <1>2, <1>3, <1>4, <1>7 DEF ClientInv, InSession
  <1>9. QED
    BY <1>1, <1>2, <1>5, <1>6, <1>8, ServerKeeps

LEMMA CloseListeningKeeps ==
  ASSUME TypeOK, SessionInv, CloseListening
  PROVE  SessionInv'
  <1>1. /\ spc = "unlisten" /\ spc' = "hangup" /\ listening' = FALSE
        /\ UNCHANGED <<cur, lost, command, waiting, lingers, conn, cpc, told, line, replies>>
    BY DEF CloseListening
  <1>2. PICK c \in Client : /\ cur = <<c>> /\ cur[1] = c
                            /\ PortInv /\ QueueInv /\ ClientInv(c) /\ c \notin ToSet(waiting)
    BY <1>1, CurrentClient
  <1>3. CurrentInv' /\ EndInv' /\ (UsedUp => UsedUp')
    BY <1>1, <1>2 DEF CurrentInv, EndInv, UsedUp
  <1>4. PortInv'
    BY <1>1, <1>2 DEF PortInv
  <1>5. ClientInv(c)'
    BY <1>1, <1>2, <1>3 DEF ClientInv, Serving, InSession
  <1>6. QED
    BY <1>1, <1>2, <1>3, <1>4, <1>5, ServerKeeps

LEMMA HangUpKeeps ==
  ASSUME TypeOK, SessionInv, HangUp
  PROVE  SessionInv'
  <1>1. /\ spc = "hangup" /\ spc' = "accept" /\ cur' = <<>>
        /\ UNCHANGED <<lost, command, waiting, listening, lingers, conn, cpc, line, replies>>
    BY DEF HangUp, portVars
  <1>2. PICK c \in Client : /\ cur = <<c>> /\ cur[1] = c
                            /\ PortInv /\ QueueInv /\ ClientInv(c) /\ c \notin ToSet(waiting)
    BY <1>1, CurrentClient
  <1>3. /\ told'[c] = IF told[c] = None THEN "closed" ELSE told[c]
        /\ \A d \in Client \ {c} : told'[d] = told[d]
    BY <1>2 DEF HangUp, Tell, TypeOK
  <1>4. CurrentInv' /\ EndInv' /\ (UsedUp => UsedUp')
    BY <1>1, <1>2 DEF CurrentInv, EndInv, UsedUp
  <1>5. PortInv'
    BY <1>1, <1>2 DEF PortInv
  <1>6. cpc[c] # "start" /\ ~Serving(c) /\ ~Serving(c)' /\ cur' # <<c>>
    BY <1>1, <1>2 DEF ClientInv, Serving
  <1>7. ClientInv(c)'
    BY <1>1, <1>2, <1>3, <1>4, <1>6 DEF ClientInv, InSession, None
  <1>8. QED
    BY <1>1, <1>2, <1>3, <1>4, <1>5, <1>7, ServerKeeps

LEMMA LingerEndsKeeps ==
  ASSUME TypeOK, SessionInv, LingerEnds
  PROVE  SessionInv'
  <1>1. /\ lingers' = FALSE /\ \A c \in Client : cpc[c] # "leave"
        /\ UNCHANGED <<spc, cur, lost, command, waiting, listening, conn, cpc, told, line, replies>>
    BY DEF LingerEnds, serverVars
  <1>2. CurrentInv' /\ EndInv' /\ (UsedUp => UsedUp')
    BY <1>1, FullSame DEF SessionInv, CurrentInv, EndInv
  <1>3. ASSUME spc # "down"
        PROVE  PortInv' /\ QueueInv' /\ \A c \in Client : ClientInv(c)'
    <2>1. PortInv /\ QueueInv /\ \A c \in Client : ClientInv(c)
      BY <1>3 DEF SessionInv
    <2>2. PortInv'
      BY <1>1, <2>1 DEF PortInv
    <2>3. QueueInv'
      BY <1>1, <2>1 DEF QueueInv, Unserved
    <2>4. ASSUME NEW c \in Client
          PROVE  ClientInv(c)'
      <3>1. ClientInv(c) /\ cpc[c] # "leave"
        BY <1>1, <2>1
      <3>2. QED
        BY <1>1, <1>2, <3>1 DEF ClientInv, Serving, Unserved, InSession, HelpUnderWay, ExitUnderWay
    <2>5. QED
      BY <2>2, <2>3, <2>4
  <1>4. QED
    BY <1>1, <1>2, <1>3 DEF SessionInv

-----------------------------------------------------------------------------
(* The invariant, and what follows from it.                                *)

LEMMA SessionInit == Init => SessionInv
  <1> SUFFICES ASSUME Init PROVE SessionInv
    OBVIOUS
  <1>1. DOMAIN waiting = {}
    BY EmptySeq DEF Init
  <1>2. CurrentInv /\ EndInv /\ PortInv
    BY DEF Init, CurrentInv, EndInv, PortInv
  <1>3. QueueInv
    BY <1>1 DEF QueueInv
  <1>4. ASSUME NEW c \in Client
        PROVE  ClientInv(c)
    <2>1. /\ spc = "accept" /\ cur # <<c>> /\ cpc[c] = "start"
          /\ told[c] = None /\ line[c] = <<>>
      BY DEF Init
    <2>2. c \notin ToSet(waiting)
      BY <1>1 DEF ToSet
    <2>3. QED
      BY <2>1, <2>2 DEF ClientInv, Serving, InSession, None
  <1>5. QED
    BY <1>2, <1>3, <1>4 DEF SessionInv

LEMMA SessionStep == TypeOK /\ SessionInv /\ [Next]_vars => SessionInv'
  <1> SUFFICES ASSUME TypeOK, SessionInv, [Next]_vars PROVE SessionInv'
    OBVIOUS
  <1>1. ASSUME NEW c \in Client, User(c) \/ Runs(c) \/ Exit(c)
        PROVE  SessionInv'
    BY <1>1, ConnectKeeps, HelpKeeps, KillKeeps, RecvReplyKeeps, DialKeeps, RecvHelpKeeps,
       LeaveKeeps, ExitKeeps DEF User, Runs
  <1>2. CASE Server
    BY <1>2, AcceptKeeps, AuthorizeKeeps, ListenKeeps, AcceptDataKeeps, RecvCommandKeeps,
       SendTextKeeps, CloseDataKeeps, CloseListeningKeeps, HangUpKeeps, AcceptDataFailsKeeps
       DEF Server
  <1>3. CASE LingerEnds
    BY <1>3, LingerEndsKeeps
  <1>4. CASE UNCHANGED vars
    <2>1. UNCHANGED <<spc, cur, lost, command, waiting, listening, lingers, conn, cpc, told,
                      line, replies>>
      BY <1>4 DEF vars, serverVars, portVars
    <2>2. CurrentInv' /\ EndInv' /\ (PortInv => PortInv') /\ (QueueInv => QueueInv')
      BY <2>1, FullSame DEF SessionInv, CurrentInv, EndInv, PortInv, QueueInv, Unserved
    <2>3. \A c \in Client : ClientInv(c) => ClientInv(c)'
      BY <2>1, SameKept
    <2>4. QED
      BY <2>1, <2>2, <2>3 DEF SessionInv
  <1>5. QED
    BY <1>1, <1>2, <1>3, <1>4 DEF Next, Done

\* The state of the server and of each client fit each other, in every state: who
\* is served, what has been said to whom, what is on the connections, and who may
\* hold the data port (file_transfer against handle_server_files).
THEOREM Sessions == Spec => [](TypeOK /\ SessionInv)
  <1>1. Init => TypeOK /\ SessionInv
    BY TypeInit, SessionInit
  <1>2. TypeOK /\ SessionInv /\ [Next]_vars => TypeOK' /\ SessionInv'
    BY TypeStep, SessionStep
  <1>3. QED
    BY <1>1, <1>2, PTL DEF Spec

\* Every variable has its type: in particular the server sends texts only on a
\* data connection that it has.
THEOREM TransferTypes == Spec => []TypeOK
  BY Sessions, PTL

\* A client with a data connection is the one whose commands the server receives,
\* although the server takes whoever connects to the data port.
THEOREM SessionsDoNotMix == Spec => []OneSession
  <1>1. SessionInv => OneSession
    BY DEF SessionInv, ClientInv, InSession, Serving, OneSession
  <1>2. QED
    BY <1>1, Sessions, PTL

\* While a client waits for a help text, its command or the text is under way,
\* exactly once.
THEOREM HelpInLockStep == Spec => []LockStep
  <1>1. ASSUME TypeOK, SessionInv, NEW c \in Client, cpc[c] = "help", spc # "down"
        PROVE  Len(line[c]) + replies + (IF spc = "obey" THEN 1 ELSE 0) = 1
    <2>1. HelpUnderWay(c)
      BY <1>1 DEF SessionInv, ClientInv
    <2>2. Len(<<"help">>) = 1 /\ Len(<<>>) = 0
      OBVIOUS
    <2>3. CASE line[c] = <<"help">> /\ replies = 0 /\ spc # "obey"
      BY <2>2, <2>3
    <2>4. CASE line[c] = <<>> /\ replies = 0 /\ spc = "obey"
      BY <2>2, <2>4
    <2>5. CASE line[c] = <<>> /\ replies = 1 /\ spc = "recv"
      BY <2>2, <2>5
    <2>6. QED
      BY <2>1, <2>3, <2>4, <2>5 DEF HelpUnderWay
  <1>2. TypeOK /\ SessionInv => LockStep
    BY <1>1 DEF LockStep
  <1>3. QED
    BY <1>2, Sessions, PTL

\* The server ends only on account of a killed client or of a stream that it could
\* not open; it turns an authorised client away only if a closed data connection
\* still occupies the port or the descriptors are used up, and a client that was
\* told the port is refused or cut off only if they are used up for good.
THEOREM TroubleIsCaused == Spec => TroubleHasCause
  <1> DEFINE Ended  == spc = "down" => Full \/ (cur # <<>> /\ cpc[cur[1]] = "killed")
             Caused == \A c \in Client :
               /\ cur = <<c>> /\ spc = "listen" /\ spc' = "hangup" =>
                    Full \/ (lingers /\ conn = "none")
               /\ told[c] = "port" /\ cpc[c] # cpc'[c] /\ cpc'[c] \in {"refused", "cut"} =>
                    spc = "down" \/ lost + 2 >= Descriptors
  <1>1. SessionInv => Ended
    BY DEF SessionInv, EndInv
  <1>2. ASSUME TypeOK, SessionInv, [Next]_vars, spc = "listen", spc' = "hangup"
        PROVE  Full \/ (lingers /\ conn = "none")
    <2>1. Listen
      <3>1. ~(\E d \in Client : User(d) \/ Runs(d) \/ Exit(d)) /\ ~LingerEnds /\ ~UNCHANGED vars
        BY <1>2 DEF User, Runs, Connect, RecvReply, Dial, Help, RecvHelp, Exit, Leave, Kill,
               LingerEnds, vars, serverVars
      <3>2. ~Accept /\ ~Authorize /\ ~AcceptData /\ ~AcceptDataFails /\ ~RecvCommand
        BY <1>2 DEF Accept, Authorize, AcceptData, AcceptDataFails, RecvCommand
      <3>3. ~SendText /\ ~CloseData /\ ~CloseListening /\ ~HangUp
        BY <1>2 DEF SendText, CloseData, CloseListening, HangUp
      <3>4. QED
        BY <1>2, <3>1, <3>2, <3>3 DEF Next, Server, Done
    <2>2. PortInv
      BY <1>2 DEF SessionInv
    <2>3. QED
      BY <1>2, <2>1, <2>2 DEF Listen, PortInv
  <1>3. ASSUME TypeOK, SessionInv, [Next]_vars, NEW c \in Client, spc # "down",
               told[c] = "port", cpc[c] # cpc'[c], cpc'[c] \in {"refused", "cut"}
        PROVE  lost + 2 >= Descriptors
    <2>1. Dial(c) \/ AcceptDataFails
      <3>1. ~UNCHANGED vars /\ ~LingerEnds
        BY <1>3 DEF vars, LingerEnds
      <3>2. ~(Server /\ ~AcceptDataFails)
        BY <1>3 DEF Server, Accept, Authorize, Listen, AcceptData, RecvCommand, SendText, CloseData,
               CloseListening, HangUp
      <3>3. ASSUME NEW d \in Client, User(d) \/ Runs(d) \/ Exit(d), d # c
            PROVE  FALSE
        BY <1>3, <3>3 DEF User, Runs, Connect, RecvReply, Dial, Help, RecvHelp, Exit, Leave, Kill,
               Becomes, TypeOK
      <3>4. ~User(c) /\ ~Exit(c) /\ ~RecvHelp(c) /\ ~Leave(c)
        BY <1>3 DEF User, Connect, Help, RecvHelp, Exit, Leave, Kill, Becomes, TypeOK
      <3>5. ~RecvReply(c)
        BY <1>3 DEF RecvReply, Becomes, TypeOK, None
      <3>6. QED
        BY <1>3, <3>1, <3>2, <3>3, <3>4, <3>5 DEF Next, Runs, Done
    <2>2. PortInv /\ ClientInv(c)
      BY <1>3 DEF SessionInv
    <2>3. CASE Dial(c)
      <3>1. ~listening /\ cpc[c] = "dial"
        BY <1>3, <2>3 DEF Dial, Becomes, TypeOK
      <3>2. UsedUp
        BY <1>3, <2>2, <3>1 DEF ClientInv, PortInv
      <3>3. QED
        BY <3>2 DEF UsedUp
    <2>4. CASE AcceptDataFails
      <3>1. (\E d \in Client : cur = <<d>>) /\ listening
        BY <1>3, <2>2, <2>4 DEF AcceptDataFails, SessionInv, CurrentInv, PortInv
      <3>2. QED
        BY <1>3, <2>4, <3>1, HeldWithClient DEF AcceptDataFails, Full
    <2>5. QED
      BY <2>1, <2>3, <2>4
  <1>4. TypeOK /\ SessionInv /\ [Next]_vars => [Caused]_vars
    BY <1>2, <1>3
  <1>5. Spec => []Ended /\ [][Caused]_vars
    <2> HIDE DEF Ended, Caused
    <2>1. QED
      BY <1>1, <1>4, Sessions, PTL DEF Spec
  <1>6. QED
    BY <1>5 DEF TroubleHasCause

=============================================================================
