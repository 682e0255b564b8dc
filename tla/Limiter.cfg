SPECIFICATION Spec
CONSTANTS
    c1 = c1
    c2 = c2
    q1 = q1
    q2 = q2
    Client = {c1, c2}
    Request = {q1, q2}
    NoClient = NoClient
    ConfigMax = 1
    ConfigRate = 2
    Minute = 2
    SweepEvery = 2
    IdleAfter = 4
    Delay = 1
    MaxWatch = 3
SYMMETRY Symmetry
INVARIANTS
    RateBound
PROPERTIES
    ImplementsBucket
CHECK_DEADLOCK FALSE
