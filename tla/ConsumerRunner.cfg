\* Every fault, two signals, one kill: safety, and what a stop guarantees.
\* A Deaf process whose faults are used up stops for good: no deadlock check.
SPECIFICATION FairSpec
CONSTANTS
    ConnectAttempts = 2
    DelayFloor = 1
    DelayMax = 3
    MaxSignals = 2
    MaxFaults = 3
    MaxKills = 1
INVARIANTS
    TypeOK
    OkOnlyWhenStopping
    StopBelongsToSession
PROPERTIES
    StopsUnlessDeaf
    Reattaches
CHECK_DEADLOCK FALSE
