SPECIFICATION SpecWithPowerLoss
CONSTANTS
    Workers = {w1}
    Anchor = 1
    Lookback = 1
    Cutoff = 0
    ChunkDays = {1}
    LastDay = 4
    MaxFaults = 1
INVARIANT
    LostWritesRefetched
