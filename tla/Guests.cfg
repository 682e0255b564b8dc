SPECIFICATION Spec
CONSTANTS
    Source = {s}
    Fork = {f1, f2, f3}
    Request = {q1, q2}
    Transfer = {x1, x2}
    Port = {p1, p2}
    LastAddr = 2
    MaxForks = 2
    OpSets = {{"second", "third", "branch", "create", "overlap", "fail"},
              {"second", "third", "branch", "create", "fail"},
              {"second", "branch", "transfer", "fail"},
              {"second", "branch", "create", "preview", "fail"},
              {"second", "branch", "create", "overlap", "destroy", "fail"},
              {"transfer", "busy", "pair", "destroy"},
              {"second", "branch", "busy", "preview"},
              {"second", "branch", "transfer", "destroy"},
              {"branch", "transfer", "busy", "destroy"},
              {"branch", "transfer", "pair", "fail"},
              {"second", "branch", "create", "overlap", "preview"},
              {"branch", "destroy", "preview", "busy", "fail"}}
    None = None
SYMMETRY Symmetry
INVARIANTS
    Apart
    OwnAddress
PROPERTIES
    ReachesOwn
CHECK_DEADLOCK FALSE
