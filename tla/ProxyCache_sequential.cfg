SPECIFICATION FairSpec
CONSTANTS
  a = a
  b = b
  c1 = c1
  Files = {a, b}
  Offered = {a, b}
  Children = {c1}
  Scenarios <- MCSequential
INVARIANTS
  TypeOK
  Fresh
  LogCoversCache
PROPERTIES
  EveryRequestEnds
