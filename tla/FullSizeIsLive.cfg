SPECIFICATION PanelsSpec
CONSTANTS
    a = a
    b = b
    Signals = {a, b}
    Opened = 3
    MaxNow = 5
    SeedWindowS = 3
    Recordings <- SomeRecordings
    Traces = {"t"}
    TickTracks = {"c"}
    Sessions = {1, 2}
    StartOf <- TwoStarts
    WindowLen = 1
    StepS = 1
    LastS = 2
    MaxData = 1
    Ranges = {"r1"}
    Loops = {"x"}
    NoObject = NoObject
    MaxObjects = 3
    MaxAttached = 2
    Drivers = {"A"}
    Targets = {"t1"}
    Sources = {"s1", "s2"}
    UnitOf <- TwoUnits
    Unset = Unset
    MaxRigs = 2
    Blank = Blank
    MaxSteps = 2
    Rig = {"d"}
    Steps <- SomeSteps
    Boards = {"a", "b"}
    NoName = ""
    NoDoc = NoDoc
    MaxRev = 1
    MaxJobs = 1
    MaxLoads = 2
INVARIANT FullSizeIsLive
CHECK_DEADLOCK FALSE
