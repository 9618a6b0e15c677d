SPECIFICATION Spec
CONSTANTS
    w1 = w1
    w2 = w2
    Writers = {w1, w2}
    LastDate = 2
    p1 = p1
    p2 = p2
    Pieces = {p1, p2}
    MaxEdits = 2
    MaxFaults = 1
SYMMETRY Symmetry
INVARIANTS
    ReplacedWholesale
    NoSupersededRow
PROPERTIES
    ChangedOnlyWhenCovered
