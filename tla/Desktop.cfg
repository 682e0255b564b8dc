SPECIFICATION DesktopSpec
CONSTANTS
    a1 = a1
    a2 = a2
    s1 = s1
    v1 = v1
    None = None
    Agent = {a1, a2}
    Shooter = {s1}
    Viewer = {v1}
    Keysyms <- Names
    Texts <- Said
    Casts <- Parties
INVARIANTS
    FreshShot
    KeysReleased
PROPERTIES
    SessionsEnd
CHECK_DEADLOCK FALSE
