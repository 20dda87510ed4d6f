SPECIFICATION RegistryFairSpec
CONSTANTS
    None = None
    Callers = {c1}
    Names = {dryer}
    Policies = {"on-failure", "never"}
    MaxRunners = 2
    MaxProcesses = 2
INVARIANTS OneProcess
PROPERTIES NoneAfterStop StopsEnd
CHECK_DEADLOCK FALSE
