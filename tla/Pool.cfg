SPECIFICATION Spec
CONSTANTS
    i1 = i1
    i2 = i2
    i3 = i3
    i4 = i4
    t1 = t1
    t2 = t2
    NoId = NoId
    NoIP = NoIP
    Id = {i1, i2}
    IP = {ip1}
    Thread = {t1}
    MaxMachines = 2
    PerIPMax = 1
    DesktopPool = 1
    MaxForks = 1
    MaxTTL = 2
    DefaultTTL = 1
    Window = 2
    NetEnable = FALSE
    AllowPersistent = TRUE
    BootMayFail = TRUE
    Ops = {"create", "destroy", "extend", "keepalive", "shutdown", "exit"}
SYMMETRY Symmetry
INVARIANTS
    PoolSound
    PoolTarget
    TimersMatchExpiry
CHECK_DEADLOCK FALSE
