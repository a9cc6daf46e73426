SPECIFICATION Spec
CONSTANTS
    empty = empty
    one = one
    word = word
    a = a
    b = b
    Obj = {empty, one, word}
    Content <- MCContent
    Name = {a, b}
    None = None
    Hosts = {"number", "bytes"}
    MaxParams = 2
    MaxRuns = 2
INVARIANTS
    TypeOK
    NamesAreThere
    ProperCallsAreSafe
    ProperCallsAreComplete
    PositionalIsOfThisRun
CHECK_DEADLOCK FALSE
