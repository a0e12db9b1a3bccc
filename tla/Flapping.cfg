\* The outbox takes nearly twice what one outage can put there.
SPECIFICATION Spec
CONSTANTS
    Gate = 2
    Limit = 5
    InFlight = 8
    Fuse = 20
    Lag = 1
    MapSize = 4
    Ids = 7
    Oversized = {}
    MaxRefusals = 0
    MaxSeq = 10
    MaxDeaths = 2
INVARIANTS
    OneBoundDecides
CHECK_DEADLOCK FALSE
