\* One signal and no fault at all: the signal arrives while connecting.
SPECIFICATION FairSpec
CONSTANTS
    ConnectAttempts = 2
    DelayFloor = 1
    DelayMax = 3
    MaxSignals = 1
    MaxFaults = 0
    MaxKills = 0
PROPERTIES
    StopsWhenTold
CHECK_DEADLOCK FALSE
