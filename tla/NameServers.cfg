\* Two clients with four or three queries between them, both sets of programs,
\* record files with and without a newline at their end, lines that fit linebuff
\* or not; or a query each, the servers started in any order and one process
\* stopped.
SPECIFICATION FairSpec
CONSTANTS
  alice = alice
  bob = bob
  Client = {alice, bob}
  Hosts <- MCHosts
  Domain <- MCDomain
  Scenarios <- MCScenarios
  Addresses <- MCAddresses
  Table <- MCTable
INVARIANTS
  TypeOK
  KnownStaysKnown
  RoundRobin
  AnswerIsMine
PROPERTIES
  EveryQueryAnswered
