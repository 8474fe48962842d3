SPECIFICATION Spec
CONSTANTS
    o1 = o1  o2 = o2  o3 = o3  s1 = s1  s2 = s2  p1 = p1  p2 = p2  l1 = l1  k1 = k1
    None = None
    Order = {o1, o2}
    Slot = {s1}
    Line = {l1}
    Product = {p1, p2}
    Key = {k1}
    Price <- MCPrice
    InitialStock <- MCStockSerial
    Carts <- OneLine
    GrandTotal <- MCGrandTotal
    CouponLimit = 1
    Endpoints = {"capture", "fail", "cancel", "forceCancel", "reassign"}
    Substitutable = {o2}
    StatusTargets <- AllButCancelled
    StatusRoles = {"ADMIN", "STORE_OWNER"}
    StockCap = 2
    TotalCap = 2
CHECK_DEADLOCK FALSE
INVARIANTS
    
    CancelledIsRefunded
    OrderScreensMatchServer
PROPERTY
    OrdersGoForward
