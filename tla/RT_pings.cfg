SPECIFICATION FairSpec
CONSTANTS
    o1 = o1  o2 = o2
    None = None
    Order = {o1, o2}
    Phones <- MCPhones
    PingLimit = 2
    CrashLimit = 1
    LateLimit = 1
CHECK_DEADLOCK FALSE
INVARIANTS
    TypeOK
    
PROPERTIES
    NativeQueueDrains
