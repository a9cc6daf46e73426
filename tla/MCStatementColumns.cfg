SPECIFICATION QuietSpec
CONSTANTS
    Stmt = {p, q}
    Prepared = {p}
    p = p
    q = q
    NCols = 2
    NOut = 2
    MaxRuns = 2
    MaxRows = 2
    MaxDepth = 2
INVARIANTS ColumnsBeforeExecute
CHECK_DEADLOCK FALSE
