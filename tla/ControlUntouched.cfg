SPECIFICATION FairSpec
CONSTANTS
    c1 = c1
    c2 = c2
    s1 = s1
    e1 = e1
    None = None
    Callers = {c1}
    Sources <- OneSource
    Emitters = {}
    Kinds <- OneKind
    MaxSessions = 2
    MaxRows = 2
    StoreMayFail = TRUE
PROPERTY ControlUntouched
CHECK_DEADLOCK FALSE
