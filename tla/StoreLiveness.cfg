\* One refused by storage for ever, a good one, and one parse() fails on.
SPECIFICATION FairSpec
CONSTANTS
    ConnectAttempts = 1
    DelayFloor = 1
    DelayMax = 1
    MaxSignals = 1
    MaxFaults = 1
    MaxKills = 1
    MaxOutages = 1
    N = 3
    Body <- LivenessBodies
    Prefetch = 2
    WriteAttempts = 2
    RequeuePoison = FALSE
PROPERTIES
    AbandonedReturn
    EveryMessageSettles
CHECK_DEADLOCK FALSE
