SPECIFICATION Spec
CONSTANTS
    t1 = t1
    t2 = t2
    Nobody = Nobody
    Providers = {"geotab"}
    Threads = {t1, t2}
    TransientMax = 1
    RateMax = 1
    MaxPages = 2
    MaxLosses = 1
INVARIANTS
    OnlyOperationalErrors
