SPECIFICATION Spec
CONSTANTS
    p1 = p1  p2 = p2  s1 = s1  s2 = s2  s3 = s3
    c1 = c1  c2 = c2  k1 = k1
    None = None
    Coupon = {c1, c2}
    Campaign = {k1}
    Customer = {u1}
    Order = {o1, o2}
    Product = {p1, p2}
    Store = {s1, s2, s3}
    Admin = {a1, a2}
    Category <- MCCategory
    Price <- MCPrice
    Distance <- MCDistance
    Shelf <- MCShelf
    Carts <- MCCarts
    Creations <- MCCreations
    Edits <- MCEdits
    Codes = {None, c1}
    TimeLimit = 1
    AUTO_LIMIT = 1
SYMMETRY Symmetry
CHECK_DEADLOCK FALSE
INVARIANTS
    TypeOK
    
PROPERTIES
    ChargedAsOffered
    ArchivedCouponStays
