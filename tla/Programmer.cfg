SPECIFICATION FairSpec
CONSTANTS
    c1 = c1
    c2 = c2
    None = None
    Callers <- TwoCallers
    Scripts <- Short
    MaxPrograms = 2
    MaxSteps = 2
PROPERTIES ImplementsRun 
