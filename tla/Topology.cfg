\* Two runs, in sequence or overlapping, over three editions and one reading.
SPECIFICATION Spec
CONSTANTS
    Runs = {r1, r2}
    Specs <- AllEditions
    MaxReadings = 1
INVARIANTS
    TypeOK
    NothingFallsThrough
    GateMeansRouted
    RecreateClearsDataQueues
PROPERTIES
    EvidenceIsKept
    OkMeansComplete
