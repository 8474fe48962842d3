------------------------------ MODULE MCOutbox ------------------------------
(* Small instances of Outbox: constants for its configurations. *)
EXTENDS NotificationScreens, TLC

CONSTANTS e1, u1, u2, h1

\* A customer and, where there is a second user, an administrator.
MCRole == [u \in User |-> IF u = u2 THEN "ADMIN" ELSE "CUSTOMER"]
MCEventType == [e \in Event |-> "PICKUP_VERIFIED"]
Broadcast == [e \in Event |-> "ADMIN_BROADCAST"]
AllUsers == [e \in Event |-> {"CUSTOMER", "STORE_OWNER", "RIDER", "ADMIN"}]
MCParty == [e \in Event |-> {u1}]
MCConcerned == [h \in History |-> {u1}]
InAppOnly == {[push |-> FALSE, inApp |-> TRUE]}
OneOff == InAppOnly \cup {[push |-> TRUE, inApp |-> FALSE]}
AllOff == {[push |-> FALSE, inApp |-> FALSE]}
Workers == Permutations(Worker)
=============================================================================
