----------------------------- MODULE MCDispatch -----------------------------
(* Small instances of Dispatch: symmetry for its configurations. *)
EXTENDS DispatchScreens, TLC

Symmetry == Permutations(Order) \cup Permutations(Rider)
                \cup Permutations(Assignment)
=============================================================================
