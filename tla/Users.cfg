SPECIFICATION FairSpec
CONSTANTS
    u1 = u1
    u2 = u2
    NoUser = NoUser
    User = {u1, u2}
    MaxAgents = 1
    MaxSteps = 2
    DailyMax = 1
    MaxCommands = 3
    MaxBehind = 1
    PipeMax = 2
    Kinds = {"exec", "shell", "desktop"}
INVARIANTS
    AgentsBounded
    RunsExact
    OneWriter
    ShellFree
PROPERTIES
    HandlersEnd
CHECK_DEADLOCK FALSE
