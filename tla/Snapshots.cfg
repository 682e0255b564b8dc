SPECIFICATION Spec
CONSTANTS
    t1 = t1
    t2 = t2
    m1 = m1
    m2 = m2
    n1 = n1
    n2 = n2
    None = None
    Thread = {t1, t2}
    Src = {m1, m2}
    Name = {n1, n2}
    MaxTemplates = 1
    MaxMoment = 1
    MaxRequests = 3
SYMMETRY Symmetry
INVARIANTS
    SourceRunsOn
    ForkIsOwn
    TemplateOfOneSource
    TemplatesBounded
    NoDirLeft
CHECK_DEADLOCK FALSE
