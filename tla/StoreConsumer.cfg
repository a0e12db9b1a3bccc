SPECIFICATION Spec
CONSTANTS
    ConnectAttempts = 1
    DelayFloor = 1
    DelayMax = 1
    MaxSignals = 1
    MaxFaults = 1
    MaxKills = 1
    MaxOutages = 1
    N = 3
    Body <- SafetyBodies
    Prefetch = 2
    WriteAttempts = 2
    RequeuePoison = FALSE
INVARIANTS
    TypeOK
    NothingLost
    AckedIsStored
    PoisonIsApart
    SettlesOnlyItsOwn
    HealthyDrainSettles
PROPERTIES
    OverwriteIsExplained
    KeepsPromise
CHECK_DEADLOCK FALSE
