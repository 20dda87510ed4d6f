SPECIFICATION RetentionFair
CONSTANTS
    u1 = u1
    sweeper = sweeper
    main = main
    s1 = s1
    None = None
    Users <- OneUser
    Callers <- OfOne
    Sweeper = sweeper
    Main = main
    Sources <- OneSource
    Emitters <- Nothing
    Kinds <- BothKinds
    MaxSessions = 2
    MaxRows = 1
    StoreMayFail = FALSE
INVARIANTS NoDeliveryMissing
PROPERTIES  OneScratch RowsReachDisk
CHECK_DEADLOCK FALSE
