SPECIFICATION LiveSpec
CONSTANTS
    MaxUsers = 2
    MaxSubs = 3
    MaxAttempt = 2
    Initial = 2
    Cap = 3
    MaxHistory = 2
    Widths = {0, 2, 3}
    Gaps = {0, 2}
    WindowS = 3
    Times = {0, 1, 2, 3, 4, 5, 6}
    Values = {1, 2}
    Subs = {1, 2, 3}
    Keys = {"x", "y"}
    StreamOf <- TwoAndStatus
    Wants <- OneOrTwoKeys
    EventCap = 2
    Recent = 2
    MaxEvents = 3
    MaxConnects = 2
    MaxChanges = 3
    MaxOthers = 2
    MaxFailures = 1
    Edits = {1, 2, 3}
    Limit = 3
    Levels = {0, 1, 2}
    Precise <- Halves
    Empty = Empty
    MaxMoves = 2
INVARIANTS HeldWhileUsed ReadIsHonest   SignInStands
PROPERTIES RingIsTimeline WayBackAndForth ComesBack TypedStays
CHECK_DEADLOCK FALSE
