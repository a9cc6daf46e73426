SPECIFICATION Spec
CONSTANTS
    Stmt = {p, q}
    Prepared = {p}
    p = p
    q = q
    NCols = 2
    NOut = 2
    MaxRuns = 2
    MaxRows = 1
    MaxDepth = 2
VIEW AllButReply
INVARIANTS TypeOK ResultIsOpen QueriesHaveResults ColumnsOfResult
CHECK_DEADLOCK FALSE
