SPECIFICATION FairSpec
CONSTANTS
    e1 = e1  u1 = u1  u2 = u2  h1 = h1
    None = None
    Event = {e1}
    User = {u1, u2}
    Token = {t1}
    Worker = {w1, w2}
    Role <- MCRole
    EventType <- Broadcast
    Party <- MCParty
    Audience <- AllUsers
    History = {}
    Concerned <- MCConcerned
    Ticket = {}
    MaxAttempts = 2
    LateLimit = 1
    CrashLimit = 1
    Endpoints = {"subscriptions"}
    PreferenceInputs <- AllOff
    Outcomes = {"sent", "failed"}
CHECK_DEADLOCK FALSE
INVARIANTS
    TypeOK
    ClaimsAreCounted
PROPERTIES
    EventIsSettled
