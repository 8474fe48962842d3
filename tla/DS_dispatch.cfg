SPECIFICATION Spec
CONSTANTS
    None = None
    Order = {o1, o2}
    Rider = {r1, r2}
    Assignment = {a1, a2, a3, a4}
    Worker = {}
    Endpoints = {}
    FailureRoles = {"RIDER"}
CHECK_DEADLOCK FALSE
SYMMETRY Symmetry
INVARIANTS
    AllFollowJob
    ScreensMatchServer
PROPERTIES
    KeepsBook
