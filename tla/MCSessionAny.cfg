SPECIFICATION Spec
CONSTANTS
    Conn = {c1, c2}
    Stmt = {s1, s2, s3}
    Obj = {o1, o2}
    Name = {n1, n2}
    None = None
    MaxDups = 1
    MaxDepth = 2
SYMMETRY Symmetry
INVARIANTS
    TypeOK
    EnvCounted
    OneCommandPerSession
    RefsCounted
    HandlesAreLive
    OpenHandlesHaveSessions
    OnlyInternalOrDuplicatedLeak
    FaultsNeedAnOutlivedStatement
PROPERTIES
    HandlesEndForAReason
    OnlyReleasedParamsLeak
CHECK_DEADLOCK FALSE
