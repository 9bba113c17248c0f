\* Six characters in segments of two; client and server may be stopped.
SPECIFICATION FairSpec
CONSTANTS
  MSS = 2
  MaxTyped = 6
  MaxBelow = 3
  MayStop = {"client", "server"}
INVARIANTS
  TypeOK
  KeystrokesKept
  BoundedWait
  EachCharacterOnce
PROPERTIES
  ServerEndsWithClient
  AllAnswered
