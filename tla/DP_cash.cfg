SPECIFICATION Spec
CONSTANTS
    None = None
    Rider = {r1, r2}
    Key = {k1, k2, k3, k4}
    Price = 2
    Units = 1
    OTP_MAX_ATTEMPTS = 2
    PICKUP_MAX_ATTEMPTS = 2
    IssueLimit = 2
    RestoreLimit = 2
SYMMETRY Symmetry
CHECK_DEADLOCK FALSE
INVARIANTS
    TypeOK
    CashIsKept
    
    AttemptsAreCounted
    PanelsMatchServer

    
