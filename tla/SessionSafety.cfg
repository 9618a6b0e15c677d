SPECIFICATION FairSpec
CONSTANTS
    t1 = t1
    t2 = t2
    Nobody = Nobody
    Providers = {"geotab", "motive", "samsara"}
    Threads = {t1, t2}
    TransientMax = 1
    RateMax = 1
    MaxPages = 4
    MaxLosses = 3
INVARIANTS
    LoginOnlyWhenNeeded
    TwoSessionsRejected
PROPERTIES
    EveryPageEnds
