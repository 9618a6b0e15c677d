SPECIFICATION FairSpec
CONSTANTS
    d1 = d1
    d2 = d2
    Dates = {d1, d2}
    ResultsLimit = 2
    MaxVersions = 3
    MaxInterrupts = 2
    MaxPowerLosses = 1
    MaxId = 3
    Ticks = {0, 2, 5}
    LongRecords = {1}
    Span = 4
    PageSize = 2
    BatchSize = 2
    MaxOwner = 3
    DropDuplicates = TRUE
    MaxRuns = 1
    MaxEdits = 1
    MaxFaults = 1
INVARIANTS
    TypeOK
    TokenBackedByOneKindOfFault
    OnePageAhead
    UneditedLandOnce
    CheckedListingComplete
    RecordsTrailRows
PROPERTIES
    AppendOnly
    EmittedIsCommitted
    EveryRunEnds
CHECK_DEADLOCK FALSE
