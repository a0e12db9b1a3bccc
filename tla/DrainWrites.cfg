SPECIFICATION Spec
CONSTANTS
    ConnectAttempts = 1
    DelayFloor = 1
    DelayMax = 1
    MaxSignals = 1
    MaxFaults = 0
    MaxKills = 0
    MaxOutages = 1
    N = 2
    Body <- DrainBodies
    Prefetch = 2
    WriteAttempts = 2
    RequeuePoison = FALSE
INVARIANTS
    DrainAttemptsNoWrite
CHECK_DEADLOCK FALSE
