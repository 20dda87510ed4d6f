SPECIFICATION PagesSpec
CONSTANTS
    Docs = {"d0", "d1"}
    Empty = "d0"
    Formats = {"yaml", "toml"}
    NotInToml = {"d1"}
    MaxSaves = 2
    None = None
    Programs = {"p"}
    NoProgram = "none"
    MaxUploads = 1
    MaxFetches = 2
    MaxId = 3
    Minutes = 2
    MaxLists = 2
    MaxTurns = 1
    Ids = {1, 2}
    Buffers = {2}
    Charts = {"c1", "c2"}
    Titles = {"n"}
    MaxPoints = 1
    Untitled = "none"
    Clock = {0, 4, 21, 22, 24, 48}
    Periods = {0, 12}
    Aims = {1, 3}
    Gain = 2
    Lo = 3
    Hi = 4
    MaxStarts = 2
    Null = Null
INVARIANTS VerdictIsOfTheTree  
PROPERTIES KeptBeforeForgotten 
CHECK_DEADLOCK FALSE
