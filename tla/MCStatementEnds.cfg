SPECIFICATION FairSpec
CONSTANTS
    Stmt = {p}
    Prepared = {p}
    p = p
    NCols = 2
    NOut = 2
    MaxRuns = 3
    MaxRows = 1
    MaxDepth = 2
PROPERTIES CommandsEnd
CHECK_DEADLOCK FALSE
