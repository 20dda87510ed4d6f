SPECIFICATION FairSpec
CONSTANTS
    s1 = s1
    c1 = c1
    w1 = w1
    w2 = w2
    None = None
    Signals <- OneSignal
    Clients <- OneClient
    Writers <- TwoWriters
    MaxDemands = 3
INVARIANTS NoLostWakeup
PROPERTIES ReportedIsOnBus NewestWins 
