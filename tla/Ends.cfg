SPECIFICATION FairSpec
CONSTANTS
    i1 = i1
    i2 = i2
    i3 = i3
    i4 = i4
    t1 = t1
    t2 = t2
    NoId = NoId
    NoIP = NoIP
    Id = {i1, i2}
    IP = {ip1}
    Thread = {t1}
    MaxMachines = 2
    PerIPMax = 2
    DesktopPool = 1
    MaxForks = 1
    MaxTTL = 1
    DefaultTTL = 1
    Window = 1
    NetEnable = TRUE
    AllowPersistent = FALSE
    BootMayFail = TRUE
    Ops = {"create", "branch", "destroy"}
PROPERTIES
    TemporaryMachinesEnd
    SlotsReturn
    ImplementsLifecycle
CHECK_DEADLOCK FALSE
