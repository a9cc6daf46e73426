SPECIFICATION Spec
CONSTANTS
    clob = clob
    blob = blob
    Lob = {clob, blob}
    Value = {v1, v2}
    None = None
    Offset <- MCOffset
    Binary = {blob}
    Sizes <- MCSizes
    MaxFrom = 2
    MaxDups = 1
INVARIANTS
    TypeOK
    DroppedAreClosed
    DestructorsAreSafe
    LoopDelivers
PROPERTY
    LoopEnds
CHECK_DEADLOCK FALSE
