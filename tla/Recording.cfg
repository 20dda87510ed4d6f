SPECIFICATION Spec
CONSTANTS
    c1 = c1
    c2 = c2
    s1 = s1
    e1 = e1
    None = None
    Callers <- TwoCallers
    Sources <- OneSource
    Emitters <- OneEmitter
    Kinds <- OneKind
    MaxSessions = 2
    MaxRows = 2
    StoreMayFail = TRUE
SYMMETRY Symmetric
INVARIANTS RowsOnce FailureDetachesItsOwn
PROPERTIES ImplementsLog
CHECK_DEADLOCK FALSE
