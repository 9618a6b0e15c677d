SPECIFICATION Spec
CONSTANTS
    c1 = c1
    Consumers = {c1}
    Feeder = feeder
    Nobody = nobody
    m1 = m1
    Members = {m1}
    Threshold = 1
    MaxAge = 1
    LastTime = 1
    MaxListings = 2
    MaxFaults = 1
INVARIANT
    FeederReconciledWhenLedgered
