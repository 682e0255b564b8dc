SPECIFICATION FairSpec
CONSTANTS
    s1 = s1
    s2 = s2
    Sub = {s1, s2}
    Cap = 2
    Buf = 1
    MaxChunks = 4
INVARIANTS
    InOrder
    NoGap
    NoneLostAtEof
PROPERTIES
    EndReachesAll
CHECK_DEADLOCK FALSE
