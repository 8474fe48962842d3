SPECIFICATION Spec
CONSTANTS
    e1 = e1  u1 = u1  u2 = u2  h1 = h1
    None = None
    Event = {e1}
    User = {u1}
    Token = {t1}
    Worker = {w1, w2}
    Role <- MCRole
    EventType <- MCEventType
    Party <- MCParty
    Audience <- AllUsers
    History = {h1}
    Concerned <- MCConcerned
    Ticket = {}
    MaxAttempts = 2
    LateLimit = 1
    CrashLimit = 0
    Endpoints = {"subscriptions", "read", "opened", "preferences"}
    PreferenceInputs <- OneOff
    Outcomes = {"sent", "invalid"}
SYMMETRY Workers
CHECK_DEADLOCK FALSE
PROPERTIES
    KeepsPromise
    
