---------------------------- MODULE MCPromotions ----------------------------
(* Small instances of Promotions: constants for its configurations. *)
EXTENDS PromotionScreens, TLC

CONSTANTS p1, p2, s1, s2, s3, c1, c2, k1

MCCategory == (p1 :> "fruit") @@ (p2 :> "dairy")
MCPrice == (p1 :> 1001) @@ (p2 :> 500)

\* The near store has no dairy, the far one has everything, the third is too
\* far to deliver and has no row for dairy.
MCDistance == (s1 :> 2) @@ (s2 :> 7) @@ (s3 :> 9)
MCShelf == (s1 :> (p1 :> 5 @@ p2 :> None)) @@ (s2 :> (p1 :> 5 @@ p2 :> 5))
              @@ (s3 :> (p1 :> 5 @@ p2 :> None))
MCCarts == {(p1 :> 1 @@ p2 :> 2), (p1 :> 0 @@ p2 :> 9)}

\* A coupon entered by code, an automatic one, and a campaign for the first.
MCCreations ==
    (c1 :> {[type |-> "PERCENTAGE", bps |-> 3333, status |-> "ACTIVE",
             limit |-> 1, scope |-> "PRODUCTS", products |-> {p1}]})
    @@ (c2 :> {[type |-> "FREE_DELIVERY", status |-> "SCHEDULED",
                mode |-> "AUTO", firstOnly |-> TRUE, ends |-> 1]})
    @@ (k1 :> {[type |-> "PRODUCT", product |-> p1, coupon |-> c1,
                status |-> "ACTIVE", placements |-> {"HOME_HERO"}]})
MCEdits ==
    (c1 :> {[type |-> "FIXED_AMOUNT", amount |-> 9000, scope |-> "ALL"],
             [type |-> "PERCENTAGE"]})
    @@ (c2 :> {})
    @@ (k1 :> {[type |-> "PRODUCT"]})

Symmetry == Permutations(Order) \cup Permutations(Admin)
=============================================================================
