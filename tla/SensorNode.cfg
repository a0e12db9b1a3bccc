\* Two outages within six readings: admitted, gated, refused and expired.
SPECIFICATION Spec
CONSTANTS
    Gate = 1
    Limit = 4
    InFlight = 1
    Fuse = 4
    Lag = 1
    MapSize = 3
    Ids = 5
    Oversized = {4}
    MaxRefusals = 1
    MaxSeq = 6
    MaxDeaths = 2
INVARIANTS
    TypeOK
    HolesAreLosses
    KeepsTheFirstMinute
    NamesItsOwn
PROPERTIES
    GateIsPatient
CHECK_DEADLOCK FALSE
