SPECIFICATION FairSpec
CONSTANTS
    w1 = w1
    w2 = w2
    Workers = {w1, w2}
    Anchor = 1
    Lookback = 1
    Cutoff = 1
    ChunkDays = {1, 2}
    LastDay = 4
    MaxFaults = 1
INVARIANTS
    TypeOK
    WatermarkTruth
    NoSilentHole
    SingleWriterPerDay
    OneFailurePerWorker
    ReplannedDaysRefetched
PROPERTIES
    ImplementsCoverageLog
    EventuallyCovered
    ObservationReachesWatermark
