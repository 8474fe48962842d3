--------------------------- MODULE MCRiderTracking ---------------------------
(* Small instances of RiderTracking: both kinds of phone. *)
EXTENDS RiderTracking

CONSTANTS o1, o2

MCPhones == {[platform |-> "js", limit |-> 2], [platform |-> "native", limit |-> 1],
             [platform |-> "native", limit |-> 2]}
=============================================================================
