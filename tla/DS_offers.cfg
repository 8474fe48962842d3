SPECIFICATION FairSpec
CONSTANTS
    None = None
    Order = {o1}
    Rider = {r1}
    Assignment = {a1, a2}
    Worker = {w1, w2}
    Endpoints = {}
    FailureRoles = {"RIDER"}
CHECK_DEADLOCK FALSE
INVARIANTS
    OneOpenOffer
    ExpiryEventsAreTrue
PROPERTIES
    AnswerIsFinal
    OffersEnd
