SPECIFICATION FairSpec
CONSTANTS
    Vol = {v1}
    Name = {a, b, c}
    Machine = {m1, m2}
    Thread = {t1, t2}
    Client = {c1}
    Gc = Gc
    Snapshot = Snapshot
    Meta = Meta
    Quota = 1
    FileCap = 1
    MaxTar = 2
    Workers = {m1}
    OpSets = {{"put", "save", "drop"},
              {"save", "drop", "delete", "fail", "expire"},
              {"save", "work", "fail"},
              {"save", "work", "expire"}}
    None = None
INVARIANTS
    
    OrphanCause
PROPERTIES
    
    ExpiredGo
CHECK_DEADLOCK FALSE
