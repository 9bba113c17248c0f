SPECIFICATION Spec
CONSTANTS
  MSS = 2
  MaxTyped = 6
  MaxBelow = 0
  MayStop = {}
PROPERTIES
  SmallOnlyWhenAcknowledged
