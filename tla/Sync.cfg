SPECIFICATION FairSpec
CONSTANTS
    Documents <- SmallDocuments
    Environments <- SmallEnvironments
    Files <- SmallFiles
    HeadVersion = 3
    MaxInvocations = 2
INVARIANTS
    ResourcesOutliveTheirUse
    ReportExact
PROPERTIES
    WholeMigrations
    NothingStartsAfterABug
    EveryInvocationReturns
CHECK_DEADLOCK FALSE
