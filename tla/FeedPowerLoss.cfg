SPECIFICATION FeedSpec
CONSTANTS
    d1 = d1
    d2 = d2
    Dates = {d1, d2}
    ResultsLimit = 2
    MaxVersions = 3
    MaxInterrupts = 1
    MaxPowerLosses = 1
SYMMETRY Symmetry
INVARIANT
    TokenBacked
