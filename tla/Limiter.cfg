SPECIFICATION Spec
CONSTANTS
    t1 = t1
    t2 = t2
    t3 = t3
    Threads = {t1, t2, t3}
    MaxConcurrency = 2
    Burst = 2
    Rate = 2
    Cost = 3
    RetryAfters = {0, 1}
    Fallback = 2
    LastTime = 5
SYMMETRY Symmetry
INVARIANTS
    WithinBudget
    SlotsConserved
PROPERTIES
    StartsRespectPenalties
\* The clock stops at LastTime, where every thread may be waiting.
CHECK_DEADLOCK FALSE
