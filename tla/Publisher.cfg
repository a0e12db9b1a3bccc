SPECIFICATION Spec
CONSTANTS
    Burst = 3
    MaxSeq = 2
    MaxFaults = 2
INVARIANTS
    TypeOK
    OnlyWhenAccepted
    BurstTellsTheTruth
PROPERTIES
    RejectedIsFresh
    StopsInTime
    OnlyTheNewestIsUnnamed
CHECK_DEADLOCK FALSE
