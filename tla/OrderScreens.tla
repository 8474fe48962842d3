---------------------------- MODULE OrderScreens ----------------------------
(***************************************************************************)
(* The screens orders are followed and handled on: the customer's order    *)
(* list and order page, the store owner's queue and the admin's order      *)
(* management.  Each definition is what a page loaded now offers for order *)
(* o.  A page loaded earlier offers the calls of an earlier state, which   *)
(* the Read actions of OrderLifecycle judge by their own guards.           *)
(***************************************************************************)
EXTENDS OrderLifecycle

Placed == {o \in Order : order[o] # None}

-----------------------------------------------------------------------------
(* The customer's list and order page *)

activeStatuses == OrderStatus \ {"PAYMENT_FAILED", "DELIVERED", "CANCELLED"}

\* The list's four filters; a failed payment is found under "All" only.
filteredOrders(statusFilter) ==
    {o \in Placed : \/ statusFilter = "All"
                    \/ /\ statusFilter = "Active"
                       /\ order[o].status \in activeStatuses
                    \/ order[o].status = statusFilter}

CancelButton(o) == order[o].status \in {"PENDING", "PAYMENT_PENDING", "CONFIRMED"}

\* How far along the order page and its timeline show an order.
statusRank(status) ==
    CASE status \in {"PENDING", "PAYMENT_PENDING"} -> 0
      [] status = "CONFIRMED" -> 1
      [] status = "PICKING" -> 2
      [] status = "PACKED" -> 3
      [] status = "RIDER_ASSIGNED" -> 4
      [] status = "OUT_FOR_DELIVERY" -> 5
      [] status = "DELIVERED" -> 6
      [] OTHER -> -1

\* The progress steps that are lit.
StepsDone(o) == {step \in 1..6 : statusRank(order[o].status) >= step}

\* The timeline replaces its steps by a notice for a cancelled order, and puts
\* any status it does not know at the start.
currentStep(o) == IF order[o].status = "PAYMENT_FAILED" THEN 0
                  ELSE statusRank(order[o].status)

-----------------------------------------------------------------------------
(* The store owner's queue *)

STORE_ACTIONS ==
    [st \in OrderStatus |->
        CASE st \in {"PENDING", "PAYMENT_PENDING"} -> {"CONFIRMED", "CANCELLED"}
          [] st = "CONFIRMED" -> {"PICKING", "PACKED", "CANCELLED"}
          [] st = "PICKING" -> {"PACKED", "CANCELLED"}
          [] OTHER -> {}]

\* Each is a call of the status endpoint, except PACKED: it goes to the ready
\* endpoint, which asks the status service for PACKED as the store owner.
StoreActions(o) == STORE_ACTIONS[order[o].status]

editableItemStates == {"PENDING", "PAYMENT_PENDING", "CONFIRMED", "PICKING"}

\* The lines with an Unavailable and a Substitutes button.
EditableItems(o) ==
    IF order[o].status \in editableItemStates
    THEN {l \in Line : order[o].lines[l] # None} ELSE {}

\* A status the page does not know, PAYMENT_FAILED, counts as a new order.
lane(o) ==
    LET st == order[o].status
    IN CASE st \in {"DELIVERED", "CANCELLED"} -> "Done"
         [] st \in {"RIDER_ASSIGNED", "OUT_FOR_DELIVERY"} -> "Rider"
         [] st = "PACKED" -> "Ready"
         [] st = "PICKING" -> "Preparing"
         [] st = "CONFIRMED" -> "Accepted"
         [] OTHER -> "New"

-----------------------------------------------------------------------------
(* The admin's order management *)

statusOptions == {"PENDING", "CONFIRMED", "PICKING", "PACKED", "RIDER_ASSIGNED",
                  "OUT_FOR_DELIVERY", "DELIVERED", "CANCELLED"}

\* The status dialog offers every option but the current one.
StatusDialog(o) == statusOptions \ {order[o].status}

\* The bulk update asks for one status of every selected order, and reports
\* how many the server refused.
BulkRefused(selected, next) ==
    {o \in selected : ~StatusAllowed("ADMIN", order[o].status, next)}

ForceCancelButton(o) == order[o].status \notin {"CANCELLED", "DELIVERED"}

-----------------------------------------------------------------------------
(* What the server accepts of it *)

\* The statuses a role can give order o now.
Accepts(role, o) == {next \in OrderStatus :
                        StatusAllowed(role, order[o].status, next)}

\* The customer is offered the cancellations cancelOwnOrder accepts; an order
\* listed as active can still move, one listed as closed cannot; and the steps
\* of the order page say what its timeline says.
CustomerPageFits(o) ==
    /\ CancelButton(o) <=> MayCancel(o)
    /\ o \in filteredOrders("Active") => Accepts("ADMIN", o) # {}
    /\ o \in filteredOrders("DELIVERED") \cup filteredOrders("CANCELLED")
          => Accepts("ADMIN", o) = {} /\ currentStep(o) \in {-1, 6}
    /\ order[o].status # "CANCELLED" => currentStep(o) = Cardinality(StepsDone(o))

\* Every button of the queue is accepted, and the one change the queue does not
\* offer is the cancellation of a packed order.  A line can be substituted
\* exactly where its buttons are shown and some product is in stock.
StorePageFits(o) ==
    /\ StoreActions(o) \subseteq Accepts("STORE_OWNER", o)
    /\ Accepts("STORE_OWNER", o) \ StoreActions(o)
           \subseteq IF lane(o) = "Ready" THEN {"CANCELLED"} ELSE {}
    /\ EditableItems(o) # {} <=> order[o].status \in Editable

\* The status dialog offers every change the server accepts of an admin except
\* those of a payment; a forced cancellation is offered as it is accepted.  A
\* closed order cannot be changed in any way, although the dialog and the
\* reassignment are still offered for it.
AdminPageFits(o) ==
    /\ Accepts("ADMIN", o) \ StatusDialog(o)
           \subseteq {"PAYMENT_PENDING", "PAYMENT_FAILED"}
    /\ ForceCancelButton(o) <=> MayForceCancel(o)
    /\ ~ForceCancelButton(o) =>
          /\ BulkRefused({o}, order[o].status) = {o}
          /\ \A next \in StatusDialog(o) : BulkRefused({o}, next) = {o}
          /\ ~MayReassign(o)

\* Three pages each keep a table of their own of what can be done with an order
\* in which status, and the server has two more (ORDER_TRANSITIONS and
\* STORE_OWNER_TRANSITIONS, with the guards of the cancellations and of the
\* store's item changes).  In every state the endpoints can bring an order to,
\* the five agree: nothing is offered that will be refused, except on the
\* admin's pages, and nobody misses a change they may make, except the ones
\* named above.
OrderScreensMatchServer ==
    \A o \in Placed :
        /\ CustomerPageFits(o)
        /\ StorePageFits(o)
        /\ AdminPageFits(o)

\* The customer sees an order move forwards, and a closed one stay closed: no
\* lit step goes out again unless the order is cancelled, its payment fails, or
\* an admin gives a parcel on its way to another rider.
OrdersGoForward ==
    [][\A o \in Placed :
          /\ order'[o].status # order[o].status
                => order[o].status \notin {"DELIVERED", "CANCELLED"}
          /\ \/ statusRank(order[o].status) <= statusRank(order'[o].status)
             \/ order'[o].status \in {"CANCELLED", "PAYMENT_FAILED"}
             \/ /\ order[o].status = "OUT_FOR_DELIVERY"
                /\ order'[o].status = "RIDER_ASSIGNED"]_vars
=============================================================================
