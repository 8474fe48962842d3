---------------------------- MODULE MCRiderDesk ----------------------------
(* A small instance of RiderDesk. *)
EXTENDS RiderDeskScreens, TLC

Symmetry == Permutations(Slot)
=============================================================================
