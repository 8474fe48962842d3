--------------------------- MODULE MCDeliveryProof ---------------------------
(* Small instances of DeliveryProof: its symmetry. *)
EXTENDS DeliveryScreens, TLC

Symmetry == Permutations(Rider) \cup Permutations(Key)
=============================================================================
