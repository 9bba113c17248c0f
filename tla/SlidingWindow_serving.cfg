\* Two clients, nobody is killed, no datum equals FIN, windows of 1 to 3.
SPECIFICATION FairSpec
CONSTANTS
  c1 = c1
  c2 = c2
  Clients = {c1, c2}
  Data = {1, 2}
  FIN = FIN
  Windows = {1, 2, 3}
  Payloads <- MCPayloads
  Junk = {0, 7}
  SockBuf = 2
  MayKill = FALSE
INVARIANTS
  TypeOK
  FlowControl
  CompletionMeansDelivered
PROPERTIES
  AcceptedCompletes
  EveryClientServed
  FullLastWindowEndsServer
  ImplementsTransfer
