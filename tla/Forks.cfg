SPECIFICATION Spec
CONSTANTS
    i1 = i1
    i2 = i2
    i3 = i3
    i4 = i4
    t1 = t1
    t2 = t2
    NoId = NoId
    NoIP = NoIP
    Id = {i1, i2, i3, i4}
    IP = {ip1}
    Thread = {t1, t2}
    MaxMachines = 2
    PerIPMax = 4
    DesktopPool = 0
    MaxForks = 2
    MaxTTL = 1
    DefaultTTL = 1
    Window = 1
    NetEnable = FALSE
    AllowPersistent = FALSE
    BootMayFail = TRUE
    Ops = {"create", "branch"}
SYMMETRY Symmetry
INVARIANTS
    SlotsBacked
    OvershootBounded
PROPERTIES
    OrphanOnlyByLateAttach
CHECK_DEADLOCK FALSE
