\* Clients may be killed at any point, a window may be 0, and the end marker
\* may occur among the data: the client that leaves waiting stops the system.
SPECIFICATION Spec
CONSTANTS
  c1 = c1
  c2 = c2
  Clients = {c1, c2}
  Data = {1, 2, FIN}
  FIN = FIN
  Windows = {0, 1, 2}
  Payloads <- MCInBandPayloads
  Junk = {0, 7}
  SockBuf = 2
  MayKill = TRUE
INVARIANTS
  InOrder
  NothingLost
  AckHonest
  ServerDownOnlyWithoutFin
  AbandonedOnlyByInBandFin
CHECK_DEADLOCK FALSE
