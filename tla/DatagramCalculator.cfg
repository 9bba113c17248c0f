SPECIFICATION Spec
CONSTANTS
    Clients = {c1, c2, c3, c4}
    Wishes <- MCWishes
    INT_MAX = 7
SYMMETRY ClientSymmetry
INVARIANTS
    TypeOK
    OneInThree
    AloneIsRight
