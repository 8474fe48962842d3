--------------------------- MODULE DeliveryScreens ---------------------------
(***************************************************************************)
(* The screens through which riders, stores and administrators work on a   *)
(* delivery: the web portals of the three and the partner app of riders    *)
(* and stores.  A panel is the set of calls it offers on the rows as they  *)
(* are now, the form filled in as the screen demands; Taken says whether   *)
(* the server would take a call.  A screen that shows older rows offers    *)
(* the calls of an earlier state: the server's actions in DeliveryProof    *)
(* are enabled by their own guards alone.                                  *)
(***************************************************************************)
EXTENDS DeliveryProof

Call == {"move", "pickup", "verifyPickup", "reportPickupProblem",
         "issuePickupChallenge", "verifyPickupChallenge", "confirmStorePickup",
         "issueOtp", "collectCod", "completeDelivery", "recordFailure",
         "resolveFailure", "startReturn", "confirmReturn", "inspectReturn",
         "settleCod"}

\* calls, when the condition holds.
When(condition, calls) == IF condition THEN calls ELSE {}

-----------------------------------------------------------------------------
(* What the server tells the screens *)

ACTIVE_STATUSES == {"RIDER_ASSIGNED", "RIDER_EN_ROUTE_TO_STORE",
                    "RIDER_AT_STORE", "PICKUP_VERIFIED", "OUT_FOR_DELIVERY",
                    "RIDER_AT_CUSTOMER", "DELIVERY_FAILED",
                    "RETURNING_TO_STORE"}

\* The rider's current delivery.
activeJob == job.rider # None /\ At(ACTIVE_STATUSES)

IsCod == payment.method = "COD"

CodCollected == ledger # None

CodSettled == \E k \in Key : operation[k] = "COD_SETTLED"

\* The queue of stores and administrators shows the delivery.
getQueue ==
    \/ At({"RIDER_AT_STORE", "DELIVERY_FAILED", "RETURNING_TO_STORE",
           "RETURNED_TO_STORE"})
    \/ IsCod /\ payment.status \in {"PENDING_COD", "CAPTURED"}

\* The code the customer can read out.
getCustomerOtp == otp # None /\ ~otp.expired

-----------------------------------------------------------------------------
(* The rider's web portal *)

TravelPanel ==
    When(At({"RIDER_ASSIGNED", "RIDER_EN_ROUTE_TO_STORE", "PICKUP_VERIFIED",
             "OUT_FOR_DELIVERY"}), {"move"})
    \cup When(At({"RIDER_AT_STORE"}), {"pickup"})

CustomerPanel ==
    When(At({"RIDER_AT_CUSTOMER"}),
         {"issueOtp", "completeDelivery"} \cup When(IsCod, {"collectCod"}))

FailurePanel ==
    When(At({"OUT_FOR_DELIVERY", "RIDER_AT_CUSTOMER"}), {"recordFailure"})

\* A mutant: the return is offered whatever was decided.
ReturnPanelUndecided == When(At({"DELIVERY_FAILED"}), {"startReturn"})

ReturnPanel ==
    When(At({"DELIVERY_FAILED"}) /\ decision = "RETURN_TO_STORE",
         {"startReturn"})

ChecklistPanel ==
    When(At({"RIDER_AT_STORE", "PICKUP_VERIFIED"}), {"verifyPickup"})

ProblemPanel ==
    When(At({"RIDER_AT_STORE", "PICKUP_VERIFIED"}), {"reportPickupProblem"})

HandoffPanel ==
    When(task = "VERIFIED" /\ At({"RIDER_AT_STORE"}),
         {"verifyPickupChallenge"})

RiderPortal ==
    When(activeJob,
         UNION {TravelPanel, CustomerPanel, FailurePanel, ReturnPanel,
                ChecklistPanel, ProblemPanel, HandoffPanel})

-----------------------------------------------------------------------------
(* The web portals of the store and of the administrator *)

StorePortal ==
    When(getQueue /\ At({"RIDER_AT_STORE"}),
         {"issuePickupChallenge", "confirmStorePickup"})

ResolutionPanel ==
    When(At({"DELIVERY_FAILED"}) /\ decision # None, {"resolveFailure"})

ReturnedPanel == When(At({"RETURNING_TO_STORE"}), {"confirmReturn"})

\* A mutant: the inspection is offered again.
InspectionPanelAgain == When(At({"RETURNED_TO_STORE"}), {"inspectReturn"})

\* Its lines account for every unit.
InspectionPanel ==
    When(At({"RETURNED_TO_STORE"}) /\ ~inspected, {"inspectReturn"})

\* The amount defaults to what the rider holds and is always final.
SettlementPanel ==
    When(IsCod /\ CodCollected /\ HoldsCash /\ ~Final, {"settleCod"})

AdminPortal ==
    When(getQueue, UNION {ResolutionPanel, ReturnedPanel, InspectionPanel,
                          SettlementPanel})

-----------------------------------------------------------------------------
(* What the pages count: the administrator's queue, the rider's cash *)

\* The buttons above the administrator's queue, and what each leaves of it.
Filters == {"ALL", "EXCEPTIONS", "RETURNS", "COD"}

visibleJobs(filter) ==
    /\ getQueue
    /\ CASE filter = "EXCEPTIONS" -> At({"DELIVERY_FAILED"})
         [] filter = "RETURNS" -> At({"RETURNING_TO_STORE", "RETURNED_TO_STORE"})
         [] filter = "COD" -> IsCod
         [] filter = "ALL" -> TRUE

\* A mutant: a ledger under review counts as open.
SettlementOpenInReview == IsCod /\ CodCollected /\ ledger.status # "SETTLED"

SettlementOpen == IsCod /\ CodCollected /\ ~Final

\* The four counters on top of the page, of this delivery.
stats ==
    [exceptions |-> getQueue /\ At({"DELIVERY_FAILED"}),
     returning |-> getQueue /\ At({"RETURNING_TO_STORE"}),
     inspections |-> getQueue /\ At({"RETURNED_TO_STORE"}) /\ ~inspected,
     settlements |-> getQueue /\ SettlementOpen]

\* The quantities the inspection form lets through.
submitInspection ==
    {q \in [sellable : 0 .. Units, damaged : 0 .. Units, missing : 0 .. Units] :
        q.sellable + q.damaged + q.missing = Units}

\* What the ledgers of rider r add up to.
cod(r) ==
    IF ledger = None \/ ledger.rider # r
    THEN [cashHeld |-> 0, collected |-> 0, deposited |-> 0,
          variance |-> 0, pendingHandovers |-> FALSE, audit |-> {}]
    ELSE [cashHeld |-> ledger.holding, collected |-> ledger.collected,
          deposited |-> ledger.deposited, variance |-> ledger.variance,
          pendingHandovers |->
              ledger.holding > 0 \/ ledger.status = "VARIANCE_REVIEW",
          audit |-> {k \in Key : deposit[k] > 0}]

\* The page says that every collection is settled, or none was made.
NoPendingCash(r) == ~cod(r).pendingHandovers

-----------------------------------------------------------------------------
(* The partner app *)

AppCashCard ==
    When(IsCod /\ ~CodCollected /\ At({"OUT_FOR_DELIVERY", "RIDER_AT_CUSTOMER"}),
         {"collectCod"})

AppCodeCard == When(At({"RIDER_AT_CUSTOMER"}), {"issueOtp"})

\* riderOperationPolicy, without the calls that go wrong: AppGoesWrong has them.
RiderApp == When(activeJob, AppCashCard \cup AppCodeCard)

\* The reasons on the app's failure card, and the ones the server knows.
DELIVERY_FAILURE_OPTIONS ==
    {"CUSTOMER_UNAVAILABLE", "INVALID_ADDRESS", "CUSTOMER_REFUSED",
     "PAYMENT_ISSUE", "UNSAFE_LOCATION", "OTHER"}

DeliveryFailureReason ==
    {"CUSTOMER_UNREACHABLE", "CUSTOMER_REFUSED", "ADDRESS_NOT_FOUND",
     "WRONG_ADDRESS", "PAYMENT_NOT_AVAILABLE", "VEHICLE_BREAKDOWN",
     "PACKAGE_DAMAGED", "SAFETY_CONCERN", "OTHER"}

\* Also on the way to the store, where the server refuses a rider.
AppFailureCard == IF activeJob /\ At(FAILURE_STATUSES)
                  THEN DELIVERY_FAILURE_OPTIONS ELSE {}

AppCompleteButton ==
    activeJob /\ At({"RIDER_AT_CUSTOMER"}) /\ (IsCod => CodCollected)

\* What the app sends says nothing of the rider's confirmation.
AppCompletion == [riderConfirmed |-> FALSE]
PortalCompletion == [riderConfirmed |-> TRUE]

\* Offered whatever was decided.
AppReturnButton == activeJob /\ At({"DELIVERY_FAILED"})

AppReturnCard == When(At({"RETURNING_TO_STORE"}), {"confirmReturn"})

AppInspectionCard ==
    When(At({"RETURNED_TO_STORE"}) /\ ~inspected, {"inspectReturn"})

\* The whole amount of the payment, once.
AppSettlementCard == When(IsCod /\ CodCollected /\ ~CodSettled, {"settleCod"})

StoreApp ==
    When(getQueue, UNION {AppReturnCard, AppInspectionCard, AppSettlementCard})

-----------------------------------------------------------------------------
(* What the server takes *)

\* Of the statuses a failure is recorded from, the rider's own.
RIDER_TRANSITIONS == {"OUT_FOR_DELIVERY", "RIDER_AT_CUSTOMER"}

\* collectCod answers with the collection there is.
CollectedBefore == IsCod /\ CodCollected

\* Keys are new with every tap, and a code can be issued.
RoomLeft == issued < IssueLimit /\ \E k \in Key : Unused(k)

Taken(call) ==
    \/ call = "move" /\ NextStops # {}
    \/ call = "pickup" /\ At({"RIDER_AT_STORE", "PICKUP_VERIFIED"})
    \/ call = "verifyPickup" /\ At({"RIDER_AT_STORE"})
    \/ call = "reportPickupProblem" /\ At({"RIDER_AT_STORE"})
    \/ call = "issuePickupChallenge" /\ MayIssueChallenge
    \/ call = "verifyPickupChallenge" /\ MayVerifyChallenge
    \/ call = "confirmStorePickup" /\ MayConfirmPickup
    \/ call = "issueOtp" /\ MayIssueOtp
    \/ call = "collectCod" /\ (CollectedBefore \/ MayCollect)
    \/ call = "completeDelivery" /\ MayComplete
    \/ call = "recordFailure" /\ At(RIDER_TRANSITIONS)
    \/ call = "resolveFailure"
       /\ \E k \in Key, action \in Resolution : MayResolve(k, action)
    \/ call = "startReturn" /\ MayReturn
    \/ call = "confirmReturn" /\ MayConfirmReturn
    \/ call = "inspectReturn" /\ Inspectable
    \/ call = "settleCod"
       /\ HoldsCash
       /\ \E k \in Key : MaySettle(k, ledger.holding)

TakesCompletion(form) == form.riderConfirmed /\ MayComplete

TakesFailure(reason) == reason \in DeliveryFailureReason /\ Taken("recordFailure")

-----------------------------------------------------------------------------
(* Properties *)

\* Calls whose panels ask for what the server will ask for.  The others are
\* offered where the server may still refuse: the checklist after the
\* hand-over, the hand-over before the checklist or after a proof, a code
\* nobody issued, a delivery that is not paid.
Matched == {"move", "pickup", "issueOtp", "collectCod", "recordFailure",
            "resolveFailure", "startReturn", "confirmReturn", "inspectReturn",
            "settleCod"}

\* A screen that has just been loaded offers nothing the server refuses, by the
\* calls that are matched to it, but cash whose order an administrator cancelled
\* (page.tsx of the portals, screens of the partner app, delivery-operations).
FreshOffersAreTaken ==
    RoomLeft =>
        \A call \in Matched \cap UNION {RiderPortal, StorePortal, AdminPortal,
                                        RiderApp, StoreApp} :
            \/ Taken(call)
            \/ call = "settleCod" /\ payment.status = "REFUND_PENDING"

Finished ==
    \/ At({"DELIVERED", "CANCELLED"})
    \/ At({"RETURNED_TO_STORE"}) /\ inspected

\* A second rider comes for a parcel that was handed over before: the store
\* cannot issue a code, its confirmation answers with the old proof and moves
\* nothing, and no screen fails the delivery from there.
Stranded == At({"RIDER_AT_STORE"}) /\ pickupProof # None

\* A portal offers a call that takes the delivery further: a checklist that is
\* not saved yet, a hand-over that is not proved yet, or one that moves the job.
OnItsWay ==
    LET offered == UNION {RiderPortal, StorePortal, AdminPortal}
        moves == {"move", "recordFailure", "completeDelivery", "resolveFailure",
                  "startReturn", "confirmReturn", "inspectReturn"}
    IN \/ \E call \in moves \cap offered : Taken(call)
       \/ "verifyPickup" \in offered /\ Taken("verifyPickup")
          /\ ~assertPickupChecklist
       \/ "confirmStorePickup" \in offered /\ Taken("confirmStorePickup")
          /\ pickupProof = None

\* Calls of the app the server never takes as they are: its completion, most of
\* its failure reasons, a return that was not decided.  The same rider gets the
\* call through from the web portal, with the same rows, or an administrator
\* has the decision on his list.
AppGoesWrong ==
    /\ AppCompleteButton /\ getCustomerOtp /\ payment.status = "CAPTURED" =>
          /\ ~TakesCompletion(AppCompletion)
          /\ "completeDelivery" \in RiderPortal
          /\ TakesCompletion(PortalCompletion)
    /\ \A reason \in AppFailureCard :
          \/ TakesFailure(reason)
          \/ ~At(RIDER_TRANSITIONS)
          \/ "recordFailure" \in RiderPortal
             /\ \E known \in DeliveryFailureReason : TakesFailure(known)
    /\ AppReturnButton =>
          \/ Taken("startReturn") /\ "startReturn" \in RiderPortal
          \/ "resolveFailure" \in AdminPortal /\ Taken("resolveFailure")

\* No assigned delivery is out of everybody's reach: some portal offers a call
\* that takes it on, in any state that failures, retries, returns and a
\* cancelled order leave it in; cash a rider holds has a screen that takes it; and
\* what the app gets wrong has a way round it.
\* Left out is the parcel whose second rider is at the store (Stranded).
NobodyIsStuck ==
    RoomLeft =>
        /\ job.rider # None /\ ~Finished /\ ~Stranded => OnItsWay
        /\ HoldsCash /\ ~Final /\ payment.status = "CAPTURED" =>
              "settleCod" \in AdminPortal /\ Taken("settleCod")
        /\ AppGoesWrong

\* The work the administrator's page counts is the work it offers, each kind
\* under its filter, and the inspection form lets through what the server takes.
QueueCountsWork ==
    LET offered == AdminPortal
    IN /\ stats.exceptions <=> "resolveFailure" \in offered
       /\ stats.returning <=> "confirmReturn" \in offered
       /\ stats.inspections <=> "inspectReturn" \in offered
       /\ stats.settlements <=> "settleCod" \in offered
       /\ UNION {When(stats.exceptions, {"EXCEPTIONS"}),
                 When(stats.returning \/ stats.inspections, {"RETURNS"}),
                 When(stats.settlements, {"COD"}), When(getQueue, {"ALL"})}
             \subseteq {filter \in Filters : visibleJobs(filter)}
       /\ stats.inspections =>
             Inspectable /\ {q.sellable : q \in submitInspection} = Sellable

\* The rider's cash page shows every coin he collected, held or handed in by one
\* of the listed deposits, and calls a handover pending exactly as long as the
\* administrator has the settlement on his list or reviews its variance; but
\* for the cash of an order an administrator cancelled, which nobody is asked
\* to take (cod, delivery-exceptions/page.tsx).
WorkIsCounted ==
    /\ QueueCountsWork
    /\ \A r \in Rider :
          /\ cod(r).collected = cod(r).cashHeld + cod(r).deposited
          /\ cod(r).deposited = MapThenSumSet(LAMBDA k : deposit[k], cod(r).audit)
          /\ cod(r).variance # 0 => ~NoPendingCash(r)
    /\ CodCollected =>
          (~NoPendingCash(ledger.rider) <=>
              \/ stats.settlements
              \/ ledger.status = "VARIANCE_REVIEW"
              \/ SettlementOpen /\ payment.status = "REFUND_PENDING")

\* The three together: what the screens offer is taken, what waits is counted,
\* and every delivery is within somebody's reach (delivery-exceptions/page.tsx,
\* the rider's pages and app, delivery-operations.service.ts).
PanelsMatchServer == FreshOffersAreTaken /\ WorkIsCounted /\ NobodyIsStuck
=============================================================================
