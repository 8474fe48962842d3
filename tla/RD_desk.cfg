SPECIFICATION Spec
CONSTANTS
    None = None
    Slot = {s1, s2}
    Job = {j1}
    Instant = {1, 2, 3}
    Reference = {f1}
    Amount = {2}
    Desk = {"breaks", "shifts", "earnings", "support", "profile"}
    RowLimit = 3
CHECK_DEADLOCK FALSE
SYMMETRY Symmetry
INVARIANTS
    TypeOK
    BookedOnce
    SettledMeansHeard
    
