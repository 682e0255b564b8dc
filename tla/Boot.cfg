SPECIFICATION FairSpec
CONSTANTS
    m1 = m1
    m2 = m2
    Id = {m1, m2}
INVARIANTS
    NothingLeft
    NicAsAllowed
    RestartClean
PROPERTIES
    BootsEnd
CHECK_DEADLOCK FALSE
