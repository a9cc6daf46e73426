SPECIFICATION Spec
CONSTANTS
    SessionWords <- MCSessionWords
    StatementWords <- MCStatementWords
    Number <- MCNumber
    Truth <- MCTruth
    Dashed <- MCDashed
    Stmt = {"s", "p"}
    Prepared = {"p"}
    None = None
    MaxWords = 7
INVARIANTS
    TypeOK
    SettingsAreAsked
    WellFormedCallsAreTaken
PROPERTIES
    OnlyNamedSettingsChange
CHECK_DEADLOCK FALSE
