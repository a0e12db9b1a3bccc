SPECIFICATION FairSpec
CONSTANTS
    ConnectAttempts = 1
    DelayFloor = 1
    DelayMax = 1
    MaxSignals = 1
    MaxFaults = 2
    MaxKills = 1
    N = 4
    Body <- ObservedBodies
    Cap = 2
INVARIANTS
    TypeOK
    FreshestWait
PROPERTIES
    KeepsPromise
    EveryMessageLeaves
CHECK_DEADLOCK FALSE
