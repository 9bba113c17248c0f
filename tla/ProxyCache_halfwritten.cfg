SPECIFICATION Spec
SYMMETRY Symmetry
CONSTANTS
  a = a
  c1 = c1
  c2 = c2
  Files = {a}
  Offered = {a}
  Children = {c1, c2}
  Scenarios <- MCOneChange
INVARIANTS
  NotModifiedServesWhole
