-------------------------- MODULE MCOrderLifecycle --------------------------
(* Small instances of OrderLifecycle: constants for its configurations. *)
EXTENDS OrderScreens, TLC

CONSTANTS o1, o2, o3, s1, s2, p1, p2, l1, k1

\* One line of p1; substitution may turn it into p2.
OneLine == {[l \in Line |-> p1]}

MCPrice == (p1 :> 2) @@ (p2 :> 1)
MCPriceOne == (p1 :> 2)
\* The coupon takes one off.
MCGrandTotal == [q \in Carts \X BOOLEAN |-> IF q[2] THEN 1 ELSE 2]

MCStockOne == (p1 :> 1)
MCStockPair == (p1 :> 2)
MCStockSerial == (p1 :> 2) @@ (p2 :> 1)

AllButCancelled == OrderStatus \ {"CANCELLED"}
NoStatuses == {}

Symmetry == Permutations(Order) \cup Permutations(Slot)
=============================================================================
