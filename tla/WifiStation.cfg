\* Three outages, one failing call, over a whole boot.
SPECIFICATION FairSpec
CONSTANTS
    DelayMin = 1
    DelayMax = 3
    MaxOutages = 3
    MaxErrors = 2
INVARIANTS
    TypeOK
    OneWayBack
    BackoffRestarts
PROPERTIES
    Rejoins
CHECK_DEADLOCK FALSE
