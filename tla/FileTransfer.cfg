\* Three runs of the client, one with a wrong password, against a server that
\* has any number of descriptors left.
SPECIFICATION FairSpec
CONSTANTS
  alice = alice
  bob = bob
  eve = eve
  Client = {alice, bob, eve}
  Valid = {alice, bob}
  MaxTyped = 2
  MayKill = TRUE
  Descriptors = 7
INVARIANTS
  TypeOK
  OneSession
  LockStep
PROPERTIES
  TroubleHasCause
  EveryClientEnds
