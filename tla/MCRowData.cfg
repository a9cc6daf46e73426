SPECIFICATION Spec
CONSTANTS
    x = x
    y = y
    Var = {x, y}
    NoVar = NoVar
    NCols = 2
    MaxCalls = 2
    MaxKept = 1
SYMMETRY Sym
INVARIANTS
    TypeOK
    ProperFetchesAreSafe
    OnlyListsAreLost
    FetchedIsStored
CHECK_DEADLOCK FALSE
