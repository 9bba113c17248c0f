SPECIFICATION Spec
CONSTANTS
    Clients = {c1, c2}
    Servers = {s1, s2}
    c1 = c1
    c2 = c2
    s1 = s1
    s2 = s2
    Nobody = Nobody
    Junk <- MCJunk
    Wishes <- MCWishes
    Messages <- MCMessages
    INT_MAX = 7
    Scenarios <- MCScenarios
INVARIANTS
    TypeOK
    AnswerIsMine
    StuckOnlyBy
PROPERTIES
    ServiceEnds
