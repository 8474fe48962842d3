SPECIFICATION Spec
CONSTANTS
    None = None
    Order = {o1, o2}
    Rider = {r1}
    Assignment = {a1}
    Worker = {}
    Endpoints = {"cancel", "forceCancel", "reassign", "status", "setStatus", "meStatus", "ping"}
    FailureRoles = {"ADMIN", "RIDER"}
CHECK_DEADLOCK FALSE
SYMMETRY Symmetry
INVARIANTS
    TypeOK
    RidersMatchJobs
