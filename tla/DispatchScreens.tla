--------------------------- MODULE DispatchScreens ---------------------------
(***************************************************************************)
(* The screens dispatchers and riders work with before and during a        *)
(* delivery: the admin's dispatch board, the rider's web portal (home and  *)
(* job offers) and the dashboard of the partner app.  Each definition is   *)
(* what a screen loaded now offers.  A screen loaded earlier offers the    *)
(* calls of an earlier state, which the actions of Dispatch judge by their *)
(* own guards.                                                             *)
(***************************************************************************)
EXTENDS Dispatch

-----------------------------------------------------------------------------
(* The dispatch board *)

\* Orders the board creates a job for before it answers: one that cannot have
\* its job makes the whole request fail.
backfill ==
    {o \in Order :
        /\ job[o] = None
        /\ order[o].status \in {"PACKED", "RIDER_ASSIGNED", "OUT_FOR_DELIVERY"}}

ActiveJobs(r) ==
    {o \in Order : HasStatus(o, ACTIVE_JOB_STATUSES) /\ job[o].rider = r}

available(r) == riderStatus[r] = "ONLINE" /\ ActiveJobs(r) = {}

getBoard ==
    [waitingJobs |-> {o \in Order : HasStatus(o, {"WAITING_FOR_DISPATCH"})},
     activeJobs |-> {o \in Order : HasStatus(o, ACTIVE_JOB_STATUSES)},
     riders |-> {r \in Rider : riderStatus[r] # "OFFLINE"}]

\* An offer counts as open until somebody marks it expired.
openOffer(o) == Offers(o, {"OFFERED"}) # {}

availableRiders == {r \in getBoard.riders : available(r)}

\* The riders a waiting job can be offered to.
OfferForm(o) ==
    IF backfill = {} /\ o \in getBoard.waitingJobs /\ ~openOffer(o)
    THEN availableRiders ELSE {}

\* The queue "unassigned" of the admin's order list (the statuses before PACKED
\* are one here).
unassignedQueue ==
    {o \in Order : /\ order[o].rider = None
                   /\ order[o].status \in {"CONFIRMED", "PACKED"}}

-----------------------------------------------------------------------------
(* The rider's screens *)

\* What is left of a rider's offers once a read has expired the overdue ones.
PendingOffers(r) ==
    {a \in Assignment : /\ assignment[a] # None
                        /\ assignment[a].rider = r
                        /\ assignment[a].status = "OFFERED"
                        /\ ~assignment[a].overdue}

getRiderWorkspace(r) ==
    [pendingOffers |-> PendingOffers(r), activeJob |-> ActiveJobs(r)]

\* The web portal's job offers, each with both buttons.
OffersPage(r) == PendingOffers(r)

\* The web portal's switch does nothing for a BUSY rider.
HomeSwitch(r) == IF riderStatus[r] = "BUSY" THEN {} ELSE {"ONLINE", "OFFLINE"}

isOnline(r) == riderStatus[r] # "OFFLINE"

\* A mutant: the cards stay live during a delivery.
OfferCardsWhileBusy(r) == getRiderWorkspace(r).pendingOffers

\* The partner app disables the cards during a delivery.
OfferCards(r) ==
    IF getRiderWorkspace(r).activeJob # {} THEN {}
    ELSE getRiderWorkspace(r).pendingOffers

goOffline(r) == isOnline(r) /\ getRiderWorkspace(r).activeJob = {}

NextActions == {"RIDER_ASSIGNED", "RIDER_EN_ROUTE_TO_STORE", "PICKUP_VERIFIED",
            "OUT_FOR_DELIVERY"}

\* The deliveries the dashboard has a next step for.
CurrentDelivery(r) == {o \in getRiderWorkspace(r).activeJob :
                          job[o].status \in NextActions}

TRACKABLE_STATUSES ==
    {"RIDER_ASSIGNED", "RIDER_EN_ROUTE_TO_STORE", "RIDER_AT_STORE",
     "PICKUP_VERIFIED", "OUT_FOR_DELIVERY", "RIDER_AT_CUSTOMER",
     "DELIVERY_FAILED", "RETURNING_TO_STORE"}

\* The deliveries the app's tracking follows.
Tracked(r) == {o \in getRiderWorkspace(r).activeJob :
                  isOnline(r) /\ job[o].status \in TRACKABLE_STATUSES}

-----------------------------------------------------------------------------
(* What the portals keep count of *)

\* The counters on top of the dispatch board.
BoardCounters ==
    [waiting |-> Cardinality(getBoard.waitingJobs),
     offered |-> Cardinality({o \in getBoard.waitingJobs : openOffer(o)}),
     available |-> Cardinality(availableRiders),
     active |-> Cardinality(getBoard.activeJobs)]

TERMINAL_STATUSES ==
    {"DELIVERED", "DELIVERY_FAILED", "RETURNED_TO_STORE", "CANCELLED"}

\* The rider's deliveries that ended in `status`; the portal's dates are open.
history(r, status) ==
    {o \in Order : /\ job[o] # None /\ job[o].rider = r
                   /\ job[o].status \in IF status = "ALL" THEN TERMINAL_STATUSES
                                        ELSE {status}}

\* The outcomes the history page can be asked for.
Outcomes == {"ALL", "DELIVERED", "DELIVERY_FAILED", "CANCELLED",
             "RETURNED_TO_STORE"}

\* The counts of the performance page.  An offer that was accepted and given
\* back counts as accepted too, by its event, which is not kept here.
performance(r) ==
    LET made == {a \in Assignment : assignment[a] # None
                                     /\ assignment[a].rider = r}
    IN [offersReceived |-> Cardinality(made),
        rejected |-> Cardinality({a \in made : assignment[a].status = "REJECTED"}),
        expired |-> Cardinality(made \cap expiryEvent),
        completed |-> Cardinality(history(r, "DELIVERED")),
        failed |-> Cardinality(history(r, "DELIVERY_FAILED")),
        returned |-> Cardinality(history(r, "RETURNED_TO_STORE"))]

\* What the cards of the rider's home page say.
HomeCards(r) ==
    [pendingOffers |-> Cardinality(PendingOffers(r)),
     activeJob |-> ActiveJobs(r) # {},
     completed |-> Cardinality(history(r, "DELIVERED"))]

-----------------------------------------------------------------------------
(* The customer's order page, on the web and in the app *)

\* Whether the order has a ping, and whether its last one is older than the six
\* minutes after which computeEta calls it stale: without one it is.
Positions == {p \in [located : BOOLEAN, stale : BOOLEAN] : p.located \/ p.stale}

computeTrackingState(o, position) ==
    LET status == order[o].status
        assigned == order[o].rider # None
        live == status \in {"RIDER_ASSIGNED", "OUT_FOR_DELIVERY"}
    IN CASE status \in {"DELIVERED", "CANCELLED"} -> status
         [] status \notin {"DELIVERED", "CANCELLED"} /\ ~assigned -> "NOT_ASSIGNED"
         [] live /\ assigned -> IF ~position.located THEN "ASSIGNED_NO_LOCATION"
                                ELSE IF position.stale THEN "STALE" ELSE "LIVE"
         [] OTHER -> "STOPPED"

\* Everybody who may see the order reads the same answer.
getTracking(o, position) ==
    [isLive |-> order[o].status \in {"RIDER_ASSIGNED", "OUT_FOR_DELIVERY"},
     rider |-> order[o].rider,
     trackingState |-> computeTrackingState(o, position)]

\* The web page draws a map with the rider on it in all other states.
showTrackingMap(state) ==
    state \notin {"NOT_ASSIGNED", "DELIVERED", "CANCELLED", "STOPPED"}

\* The app draws it in three states, and says "Order delivered!" in two.
LiveTrackingCard(state) == state \in {"LIVE", "STALE", "ASSIGNED_NO_LOCATION"}

TrackingStateBanner(state) ==
    CASE state \in {"DELIVERED", "STOPPED"} -> "delivered"
      [] state = "CANCELLED" -> "cancelled"
      [] state = "NOT_ASSIGNED" -> "waiting"
      [] OTHER -> "on the way"

-----------------------------------------------------------------------------
(* Properties.  A call is taken when its handler lets it through and the job *)
(* may make the move it asks for.                                            *)

AcceptTaken(a) ==
    /\ MayAccept(a)
    /\ MayMove(assignment[a].job, "RIDER_ASSIGNED", assignment[a].rider)

RejectTaken(a) ==
    /\ Rejectable(a)
    /\ GivesBackJob(a) => MayMove(assignment[a].job, "WAITING_FOR_DISPATCH", None)

StepTaken(o) == \E next \in StepsOf(o) : MayMove(o, next, None)

\* The board offers a job to exactly the riders the server would offer it to,
\* but for a job whose overdue offer nobody has marked expired yet; and what
\* waits on the board is in the order list's queue.
BoardMatchesServer ==
    backfill = {} =>
        /\ getBoard.waitingJobs \subseteq unassignedQueue
        /\ unassignedQueue \cap getBoard.activeJobs = {}
        /\ \A o \in Order, r \in Rider :
              /\ r \in OfferForm(o) => MayOffer(o, r)
              /\ MayOffer(o, r) => r \in OfferForm(o) \/ openOffer(o)

\* The partner app offers exactly the answers and steps the server takes; the
\* web portal also offers the ones of a rider who has a delivery already, and
\* both their switches are dead exactly during a delivery, as the server asks.
RiderScreensMatchServer ==
    \A r \in Rider :
        /\ OfferCards(r) =
              {a \in Assignment : /\ assignment[a] # None
                                  /\ assignment[a].rider = r
                                  /\ AcceptTaken(a)}
        /\ \A a \in OffersPage(r) :
              /\ RejectTaken(a)
              /\ AcceptTaken(a) \/ HasActiveJob(r, {})
        /\ CurrentDelivery(r) = {o \in ActiveJobs(r) : StepTaken(o)}
        /\ "OFFLINE" \in HomeSwitch(r) <=> ~HasActiveJob(r, {})
        /\ goOffline(r) <=> ~HasActiveJob(r, {})

\* The position of a rider is followed from his acceptance to the end of the
\* delivery, through failures, retries and the return.
RidersAreTracked ==
    \A o \in Order : HasStatus(o, ACTIVE_JOB_STATUSES) =>
        job[o].rider # None /\ Tracked(job[o].rider) = {o}

\* A customer sees a rider while one works on the order, wherever the last ping
\* is from, and no other time but one: after the parcel is back in the store the
\* pages still show it on its way.  The app says an order was delivered of
\* delivered orders only.
CustomersSeeTheRider ==
    \A o \in Order, position \in Positions :
        LET tracking == getTracking(o, position)
            state == tracking.trackingState
        IN /\ showTrackingMap(state) <=>
                 HasStatus(o, ACTIVE_JOB_STATUSES \cup {"RETURNED_TO_STORE"})
           /\ showTrackingMap(state) <=> tracking.isLive /\ tracking.rider # None
           /\ LiveTrackingCard(state) <=> showTrackingMap(state)
           /\ TrackingStateBanner(state) = "delivered" =>
                 HasStatus(o, {"DELIVERED"})

\* Every rider on the board is either available or counted by one active
\* delivery, and no two deliveries hide behind one rider.
BoardAddsUp ==
    /\ BoardCounters.available + BoardCounters.active =
          Cardinality(getBoard.riders)
    /\ BoardCounters.offered <= BoardCounters.waiting

\* A delivery a rider is responsible for never drops out of his portal: it is
\* his current one or in his history, a failed one both, and he once accepted
\* it.  His offers cover his refusals and every delivery he is credited with.
RidersSeeTheirWork ==
    \A r \in Rider :
        LET past == UNION {history(r, status) : status \in Outcomes \ {"ALL"}}
            work == ActiveJobs(r) \cup past
            counts == performance(r)
        IN /\ work = {o \in Order : job[o] # None /\ job[o].rider = r}
           /\ past = history(r, "ALL")
           /\ ActiveJobs(r) \cap past = history(r, "DELIVERY_FAILED")
           /\ \A o \in work : \E a \in Offers(o, {"ACCEPTED"}) :
                 assignment[a].rider = r
           /\ Cardinality(work) + counts.rejected + HomeCards(r).pendingOffers
                 <= counts.offersReceived
           /\ counts.completed + counts.failed + counts.returned
                 <= Cardinality(work)
           /\ HomeCards(r).activeJob => HomeSwitch(r) = {}

\* A screen just loaded agrees with the server (dispatch.service.ts, pages of
\* the portals, RiderDashboard.tsx, the order page of the customer).
ScreensMatchServer ==
    /\ BoardMatchesServer /\ RiderScreensMatchServer
    /\ RidersAreTracked /\ CustomersSeeTheRider
    /\ BoardAddsUp /\ RidersSeeTheirWork
=============================================================================
