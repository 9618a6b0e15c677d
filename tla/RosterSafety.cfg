SPECIFICATION FairSpec
CONSTANTS
    c1 = c1
    c2 = c2
    Consumers = {c1, c2}
    Feeder = feeder
    Nobody = nobody
    m1 = m1
    m2 = m2
    Members = {m1, m2}
    Threshold = 1
    MaxAge = 0
    LastTime = 1
    MaxListings = 3
    MaxFaults = 1
INVARIANTS
    CountsFollowListings
    NoRedundantHarvest
    HarvestStoredBeforeLedgered
PROPERTIES
    EveryRefreshReturns
