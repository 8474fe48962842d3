------------------------------ MODULE Dispatch ------------------------------
(***************************************************************************)
(* From a packed order to a delivered or returned parcel: delivery jobs,   *)
(* offers to riders, the job's state machine, failed deliveries and the    *)
(* worker that expires offers.                                             *)
(*                                                                         *)
(* The handlers of dispatch-assignment, delivery-workflow and              *)
(* delivery-operations run whole in SERIALIZABLE transactions: one action  *)
(* each.  The handlers of order.service, rider-portal and tracking check   *)
(* first and write later: Read* leaves a request in flight, Commit* writes *)
(* what the request decided, whatever the rows hold by then.  At most one  *)
(* such request is in flight (two of them racing is OrderLifecycle's       *)
(* subject).  The worker's batch is a loop of separate statements.         *)
(*                                                                         *)
(* Abstractions: CONFIRMED stands for CONFIRMED and PICKING; OTP, pickup   *)
(* codes, COD cash and the checklist only decide whether a call succeeds,  *)
(* so the actions that need them may happen or not; breaks, shifts and     *)
(* the retention of events other than ASSIGNMENT_EXPIRED are left out.     *)
(***************************************************************************)
EXTENDS Naturals, FiniteSets

CONSTANTS
    Order,         \* order ids
    Rider,         \* rider profile ids
    Assignment,    \* ids of DispatchAssignment rows: bounds the offers made
    Worker,        \* notification workers, one per API process
    None,          \* no row, no rider, no request
    Endpoints,     \* the check-then-write endpoints called in this instance
    FailureRoles   \* who reports failed deliveries

OrderStatus == {"CONFIRMED", "PACKED", "RIDER_ASSIGNED", "OUT_FOR_DELIVERY",
                "DELIVERED", "CANCELLED"}
JobStatus == {"WAITING_FOR_DISPATCH", "RIDER_ASSIGNED",
              "RIDER_EN_ROUTE_TO_STORE", "RIDER_AT_STORE", "PICKUP_VERIFIED",
              "OUT_FOR_DELIVERY", "RIDER_AT_CUSTOMER", "DELIVERED",
              "DELIVERY_FAILED", "RETURNING_TO_STORE", "RETURNED_TO_STORE",
              "CANCELLED"}
RiderStatus == {"ONLINE", "OFFLINE", "BUSY"}
AssignmentStatus == {"OFFERED", "ACCEPTED", "REJECTED", "EXPIRED", "REASSIGNED"}
Policy == {"RETRY_DELIVERY", "RETURN_TO_STORE", "REASSIGN_RIDER",
           "ESCALATE_TO_ADMIN"}
Action == Policy \cup {"CANCEL_AND_REFUND"}
CheckThenWrite == {"cancel", "forceCancel", "reassign", "status", "setStatus",
                   "meStatus", "ping"}

OrderRow == [status : OrderStatus, rider : Rider \cup {None}]
\* proof: PickupProof.riderId; decision: decidedAction of the active decision.
JobRow == [status : JobStatus, rider : Rider \cup {None},
           proof : Rider \cup {None}, decision : Action \cup {None}]
AssignmentRow == [job : Order, rider : Rider, status : AssignmentStatus,
                  overdue : BOOLEAN]
Batch == [phase : {"idle", "expire", "record", "backfill"},
          todo : SUBSET Assignment, hand : Assignment \cup {None}]
Request == [op : CheckThenWrite \cup {"release"}, order : Order \cup {None},
            rider : Rider \cup {None},
            next : OrderStatus \cup RiderStatus \cup {None}]

ASSUME DispatchAssumption ==
    /\ None \notin Order \cup Rider \cup Assignment \cup JobRow
                   \cup AssignmentRow \cup Request
    /\ Endpoints \subseteq CheckThenWrite
    /\ FailureRoles \subseteq {"RIDER", "ADMIN"}

VARIABLES
    order,        \* order[o]: status and riderId of the Order row
    job,          \* job[o]: the DeliveryJob of order o, None before it exists
    assignment,   \* assignment[a]: the DispatchAssignment row
    riderStatus,  \* riderStatus[r]: RiderProfile.status
    expiryEvent,  \* assignments with an ASSIGNMENT_EXPIRED event
    worker,       \* worker[w]: its batch of expired offers
    request       \* a check-then-write handler between its two halves

vars == <<order, job, assignment, riderStatus, expiryEvent, worker, request>>

TypeOK ==
    /\ order \in [Order -> OrderRow]
    /\ job \in [Order -> JobRow \cup {None}]
    /\ assignment \in [Assignment -> AssignmentRow \cup {None}]
    /\ riderStatus \in [Rider -> RiderStatus]
    /\ expiryEvent \in SUBSET Assignment
    /\ worker \in [Worker -> Batch]
    /\ request \in Request \cup {None}

Idle == [phase |-> "idle", todo |-> {}, hand |-> None]

Init ==
    /\ order = [o \in Order |-> [status |-> "CONFIRMED", rider |-> None]]
    /\ job = [o \in Order |-> None]
    /\ assignment = [a \in Assignment |-> None]
    /\ riderStatus = [r \in Rider |-> "ONLINE"]
    /\ expiryEvent = {}
    /\ worker = [w \in Worker |-> Idle]
    /\ request = None

-----------------------------------------------------------------------------
(* The job's state machine *)

TRANSITIONS ==
    [WAITING_FOR_DISPATCH |-> {"RIDER_ASSIGNED", "CANCELLED"},
     RIDER_ASSIGNED |-> {"RIDER_EN_ROUTE_TO_STORE", "WAITING_FOR_DISPATCH",
                         "CANCELLED"},
     RIDER_EN_ROUTE_TO_STORE |-> {"RIDER_AT_STORE", "DELIVERY_FAILED",
                                  "CANCELLED"},
     RIDER_AT_STORE |-> {"PICKUP_VERIFIED", "DELIVERY_FAILED", "CANCELLED"},
     PICKUP_VERIFIED |-> {"OUT_FOR_DELIVERY", "CANCELLED"},
     OUT_FOR_DELIVERY |-> {"RIDER_AT_CUSTOMER", "DELIVERED", "DELIVERY_FAILED",
                           "RETURNING_TO_STORE", "CANCELLED"},
     RIDER_AT_CUSTOMER |-> {"DELIVERED", "DELIVERY_FAILED",
                            "RETURNING_TO_STORE", "CANCELLED"},
     DELIVERED |-> {},
     DELIVERY_FAILED |-> {"WAITING_FOR_DISPATCH", "OUT_FOR_DELIVERY",
                          "RETURNING_TO_STORE", "CANCELLED"},
     RETURNING_TO_STORE |-> {"RETURNED_TO_STORE", "CANCELLED"},
     RETURNED_TO_STORE |-> {"WAITING_FOR_DISPATCH", "CANCELLED"},
     CANCELLED |-> {}]

Finished == {"DELIVERED", "RETURNED_TO_STORE", "CANCELLED"}
ACTIVE_JOB_STATUSES == JobStatus \ (Finished \cup {"WAITING_FOR_DISPATCH"})

legacyOrderStatus(status) ==
    CASE status = "WAITING_FOR_DISPATCH" -> "PACKED"
      [] status \in {"RIDER_ASSIGNED", "RIDER_EN_ROUTE_TO_STORE",
                     "RIDER_AT_STORE", "PICKUP_VERIFIED"} -> "RIDER_ASSIGNED"
      [] status \in {"OUT_FOR_DELIVERY", "RIDER_AT_CUSTOMER",
                     "DELIVERY_FAILED", "RETURNING_TO_STORE",
                     "RETURNED_TO_STORE"} -> "OUT_FOR_DELIVERY"
      [] status = "DELIVERED" -> "DELIVERED"
      [] OTHER -> "CANCELLED"

\* DeliveryJob_one_active_job_per_rider lets job o be in `status` under r.
RiderMayHold(o, status, r) ==
    r = None \/ status \in Finished
    \/ \A p \in Order \ {o} :
          job[p] # None /\ job[p].rider = r => job[p].status \in Finished

\* currentRiderId after a transition
JobRider(o, next, assigned) ==
    IF next = "WAITING_FOR_DISPATCH" THEN None
    ELSE IF assigned # None THEN assigned ELSE job[o].rider

\* What transitionWithinTransaction asks before it writes.
MayMove(o, next, assigned) ==
    /\ next \in TRANSITIONS[job[o].status]
    /\ RiderMayHold(o, next, JobRider(o, next, assigned))

\* transitionWithinTransaction on the job and its order: `row` is the job row
\* with what the caller changed in it, `assigned` the rider it assigns.
Move(o, row, next, assigned) ==
    /\ MayMove(o, next, assigned)
    /\ job' = [job EXCEPT ![o] =
                  [row EXCEPT !.status = next,
                              !.rider = JobRider(o, next, assigned)]]
    /\ LET status == legacyOrderStatus(next)
           effective == IF assigned # None THEN assigned ELSE job[o].rider
       IN order' = [order EXCEPT ![o] =
                       [status |-> status,
                        rider |-> IF status = "PACKED" THEN None
                                  ELSE IF effective # None THEN effective
                                  ELSE @.rider]]

\* A mutant: a returned parcel does not free its rider.
FreedExceptReturned(o, next) ==
    [r \in Rider |->
        IF /\ next \in {"WAITING_FOR_DISPATCH", "DELIVERED", "CANCELLED"}
           /\ r = job[o].rider
        THEN "ONLINE" ELSE riderStatus[r]]

\* ... and on the rider it had, who is free again when the job leaves him.
Freed(o, next) ==
    [r \in Rider |->
        IF /\ next \in Finished \cup {"WAITING_FOR_DISPATCH"}
           /\ r = job[o].rider
        THEN "ONLINE" ELSE riderStatus[r]]

Transition(o, row, next) ==
    /\ Move(o, row, next, None)
    /\ riderStatus' = Freed(o, next)

HasStatus(o, statuses) == job[o] # None /\ job[o].status \in statuses

\* A mutant: the order's status is taken over as it is.
initialStatusOfOrder(status) == status

initialStatus(status) ==
    IF status \in {"CONFIRMED", "PACKED"} THEN "WAITING_FOR_DISPATCH" ELSE status

\* ensureForPackedOrder, from the second half of readyForPickup, from an
\* assignment by order id or from the board's backfill.
CreateJob(o) ==
    /\ job[o] = None
    /\ order[o].status # "CONFIRMED"
    /\ LET status == initialStatus(order[o].status)
       IN /\ RiderMayHold(o, status, order[o].rider)
          /\ job' = [job EXCEPT ![o] =
                        [status |-> status, rider |-> order[o].rider,
                         proof |-> None, decision |-> None]]
    /\ UNCHANGED <<order, assignment, riderStatus, expiryEvent, worker, request>>

-----------------------------------------------------------------------------
(* Offers *)

Answered == {"REJECTED", "EXPIRED", "REASSIGNED"}

Offers(o, statuses) ==
    {a \in Assignment : /\ assignment[a] # None
                        /\ assignment[a].job = o
                        /\ assignment[a].status \in statuses}

Overdue(a) == assignment[a].status = "OFFERED" /\ assignment[a].overdue

\* updateMany where OFFERED and past expiresAt, over the offers in `as`
Expired(as) ==
    [a \in Assignment |->
        IF a \in as /\ assignment[a] # None /\ Overdue(a)
        THEN [assignment[a] EXCEPT !.status = "EXPIRED"]
        ELSE assignment[a]]

HasActiveJob(r, except) ==
    \E o \in Order \ except :
        HasStatus(o, ACTIVE_JOB_STATUSES) /\ job[o].rider = r

\* A mutant: only an offer already accepted blocks the next one.
OpenOfferAccepted(o) == Offers(o, {"ACCEPTED"}) # {}

\* DispatchAssignment_one_open_offer_per_job, once the overdue offers of the
\* job have been expired
OpenOffer(o) ==
    \E a \in Offers(o, {"OFFERED", "ACCEPTED"}) : ~Overdue(a)

\* What an offer asks of job and rider.
MayOffer(o, r) ==
    /\ HasStatus(o, {"WAITING_FOR_DISPATCH"}) /\ job[o].rider = None
    /\ riderStatus[r] = "ONLINE"
    /\ ~HasActiveJob(r, {})
    /\ ~OpenOffer(o)

\* The overdue offers of the job expire here without an ASSIGNMENT_EXPIRED event.
Offer(o, r, a) ==
    /\ assignment[a] = None
    /\ MayOffer(o, r)
    /\ assignment' = [Expired(Offers(o, {"OFFERED"})) EXCEPT ![a] =
                         [job |-> o, rider |-> r, status |-> "OFFERED",
                          overdue |-> FALSE]]
    /\ UNCHANGED <<order, job, riderStatus, expiryEvent, worker, request>>

\* A mutant: the answer's time is not looked at.
InTimeUnchecked(a) == assignment[a].status = "OFFERED"

\* A late answer throws, which undoes the EXPIRED it wrote: nothing changes.
InTime(a) == assignment[a].status = "OFFERED" /\ ~assignment[a].overdue

\* What an acceptance asks of offer, rider and job.
MayAccept(a) ==
    /\ assignment[a] # None
    /\ InTime(a)
    /\ ~HasActiveJob(assignment[a].rider, {assignment[a].job})
    /\ HasStatus(assignment[a].job, {"WAITING_FOR_DISPATCH"})

Accept(a) ==
    /\ MayAccept(a)
    /\ LET o == assignment[a].job
           r == assignment[a].rider
       IN /\ Move(o, job[o], "RIDER_ASSIGNED", r)
          /\ riderStatus' = [riderStatus EXCEPT ![r] = "BUSY"]
    /\ assignment' = [assignment EXCEPT ![a].status = "ACCEPTED"]
    /\ UNCHANGED <<expiryEvent, worker, request>>

\* A mutant: rejecting an accepted offer leaves the job with the rider.
GivesBackJobNever(a) == assignment[a].status = "REASSIGNED"

\* Rejecting an accepted offer returns its job to the queue.
GivesBackJob(a) == assignment[a].status = "ACCEPTED"

\* An offer can be rejected even late, an accepted one before travel begins.
Rejectable(a) ==
    \/ assignment[a].status = "OFFERED"
    \/ /\ assignment[a].status = "ACCEPTED"
       /\ HasStatus(assignment[a].job, {"RIDER_ASSIGNED"})

Reject(a) ==
    /\ assignment[a] # None
    /\ Rejectable(a)
    /\ assignment' = [assignment EXCEPT ![a].status = "REJECTED"]
    /\ IF ~GivesBackJob(a)
       THEN UNCHANGED <<order, job, riderStatus>>
       ELSE LET o == assignment[a].job
            IN /\ Move(o, job[o], "WAITING_FOR_DISPATCH", None)
               /\ riderStatus' = [Freed(o, "WAITING_FOR_DISPATCH") EXCEPT
                                     ![assignment[a].rider] = "ONLINE"]
    /\ UNCHANGED <<expiryEvent, worker, request>>

\* The offer's expiresAt passes.
Tick(a) ==
    /\ assignment[a] # None
    /\ assignment[a].status = "OFFERED" /\ ~assignment[a].overdue
    /\ assignment' = [assignment EXCEPT ![a].overdue = TRUE]
    /\ UNCHANGED <<order, job, riderStatus, expiryEvent, worker, request>>

\* The rider opens the workspace, the home screen or the list of offers: his
\* overdue offers expire, again without an event.
ExpireByRead(r) ==
    /\ \E a \in Assignment :
          assignment[a] # None /\ assignment[a].rider = r /\ Overdue(a)
    /\ assignment' = Expired({a \in Assignment : assignment[a] # None
                                  /\ assignment[a].rider = r})
    /\ UNCHANGED <<order, job, riderStatus, expiryEvent, worker, request>>

-----------------------------------------------------------------------------
(* The worker: reconcileExpiredAssignments, one statement at a time *)

Rows == <<order, job, riderStatus, request>>

Phase(w, phase) == worker[w].phase = phase

SetBatch(w, phase, todo, hand) ==
    worker' = [worker EXCEPT ![w] = [phase |-> phase, todo |-> todo,
                                     hand |-> hand]]

WorkerFind(w) ==
    /\ Phase(w, "idle")
    /\ SetBatch(w, "expire",
                {a \in Assignment : assignment[a] # None /\ Overdue(a)}, None)
    /\ UNCHANGED <<Rows, assignment, expiryEvent>>

\* A mutant: the update does not look at the status again.
StillOverdueUnchecked(a) == assignment[a].overdue

\* A mutant: the comparison with now is the wrong way round.
StillOverdueReversed(a) ==
    assignment[a].status = "OFFERED" /\ ~assignment[a].overdue

\* `where: { id, status: 'OFFERED', expiresAt: { lt: now } }`
StillOverdue(a) == Overdue(a)

\* One offer of the batch.  One that was answered since it was found is
\* skipped: the conditional update counts no row.
WorkerExpire(w) ==
    /\ Phase(w, "expire")
    /\ \E a \in worker[w].todo :
          IF StillOverdue(a)
          THEN /\ assignment' = [assignment EXCEPT ![a].status = "EXPIRED"]
               /\ SetBatch(w, "record", worker[w].todo \ {a}, a)
          ELSE /\ SetBatch(w, "expire", worker[w].todo \ {a}, None)
               /\ UNCHANGED assignment
    /\ UNCHANGED <<Rows, expiryEvent>>

\* createExpiryEvent: another worker's event makes the unique index refuse
\* this one, and the P2002 is swallowed.
WorkerRecord(w) ==
    /\ Phase(w, "record")
    /\ expiryEvent' = expiryEvent \cup {worker[w].hand}
    /\ SetBatch(w, "expire", worker[w].todo, None)
    /\ UNCHANGED <<Rows, assignment>>

\* A mutant: the answered offers are taken for expired ones.
MissingEventsOfAnswered ==
    {a \in Assignment : /\ assignment[a] # None
                        /\ assignment[a].status \in {"EXPIRED", "REJECTED"}
                        /\ a \notin expiryEvent}

\* A mutant: the events are not looked for again.
MissingEventsNotSought == {}

\* Offers that expired without an event
MissingEvents ==
    {a \in Assignment : /\ assignment[a] # None
                        /\ assignment[a].status = "EXPIRED"
                        /\ a \notin expiryEvent}

WorkerFindMissing(w) ==
    /\ Phase(w, "expire") /\ worker[w].todo = {}
    /\ SetBatch(w, "backfill", MissingEvents, None)
    /\ UNCHANGED <<Rows, assignment, expiryEvent>>

WorkerBackfill(w) ==
    /\ Phase(w, "backfill")
    /\ \E a \in worker[w].todo :
          /\ expiryEvent' = expiryEvent \cup {a}
          /\ SetBatch(w, "backfill", worker[w].todo \ {a}, None)
    /\ UNCHANGED <<Rows, assignment>>

WorkerDone(w) ==
    /\ Phase(w, "backfill") /\ worker[w].todo = {}
    /\ worker' = [worker EXCEPT ![w] = Idle]
    /\ UNCHANGED <<Rows, assignment, expiryEvent>>

\* A statement throws or the process restarts: the rest of the batch is lost.
WorkerCrash(w) ==
    /\ ~Phase(w, "idle")
    /\ worker' = [worker EXCEPT ![w] = Idle]
    /\ UNCHANGED <<Rows, assignment, expiryEvent>>

-----------------------------------------------------------------------------
(* Travel, hand-over and failed deliveries *)

\* The transitions a rider has an endpoint for.
RiderSteps == {<<"RIDER_ASSIGNED", "RIDER_EN_ROUTE_TO_STORE">>,
               <<"RIDER_EN_ROUTE_TO_STORE", "RIDER_AT_STORE">>,
               <<"PICKUP_VERIFIED", "OUT_FOR_DELIVERY">>,
               <<"OUT_FOR_DELIVERY", "RIDER_AT_CUSTOMER">>}

\* The steps the rider of job o has an endpoint for.
StepsOf(o) ==
    {next \in JobStatus : /\ job[o] # None /\ job[o].rider # None
                          /\ <<job[o].status, next>> \in RiderSteps}

RiderStep(o) ==
    /\ \E next \in StepsOf(o) : Transition(o, job[o], next)
    /\ UNCHANGED <<assignment, expiryEvent, worker, request>>

\* A mutant: an earlier proof is taken for this hand-over.
HandoverAgain(o) == job[o].proof \in Rider \cup {None}

\* recordPickupProof returns an existing proof and leaves the job where it is.
FirstHandover(o) == job[o].proof = None

VerifyPickup(o) ==
    /\ HasStatus(o, {"RIDER_AT_STORE"}) /\ job[o].rider # None
    /\ FirstHandover(o)
    /\ LET proof == IF job[o].proof = None THEN job[o].rider ELSE job[o].proof
       IN Transition(o, [job[o] EXCEPT !.proof = proof], "PICKUP_VERIFIED")
    /\ UNCHANGED <<assignment, expiryEvent, worker, request>>

CompleteDelivery(o) ==
    /\ HasStatus(o, {"RIDER_AT_CUSTOMER"}) /\ job[o].rider # None
    /\ Transition(o, job[o], "DELIVERED")
    /\ UNCHANGED <<assignment, expiryEvent, worker, request>>

\* FAILURE_STATUSES, of which a rider's role allows only the last two
FailsFrom(role) ==
    {"OUT_FOR_DELIVERY", "RIDER_AT_CUSTOMER"} \cup
    IF role = "ADMIN" THEN {"RIDER_EN_ROUTE_TO_STORE", "RIDER_AT_STORE"} ELSE {}

\* The reason given decides the recommended action.
RecordFailure(o) ==
    /\ \E role \in FailureRoles, action \in Policy :
          /\ HasStatus(o, FailsFrom(role))
          /\ role = "RIDER" => job[o].rider # None
          /\ Transition(o, [job[o] EXCEPT !.decision = action],
                        "DELIVERY_FAILED")
    /\ UNCHANGED <<assignment, expiryEvent, worker, request>>

Resolved(o) == [job[o] EXCEPT !.decision = None]

\* A mutant: the rider who failed keeps his accepted assignment.
ReassignedNone(o) == Expired(Offers(o, {"OFFERED"}))

\* The accepted assignment of a job that goes back to the queue
Reassigned(o) ==
    [a \in Assignment |->
        IF a \in Offers(o, {"ACCEPTED"})
        THEN [assignment[a] EXCEPT !.status = "REASSIGNED"]
        ELSE assignment[a]]

\* resolveFailure: an admin applies the decided action or another one.
ResolveFailure(o, action) ==
    /\ HasStatus(o, {"DELIVERY_FAILED"}) /\ job[o].decision # None
    /\ CASE action = "RETRY_DELIVERY" ->
              Transition(o, Resolved(o), "OUT_FOR_DELIVERY")
         [] action = "REASSIGN_RIDER" ->
              Transition(o, Resolved(o), "WAITING_FOR_DISPATCH")
         [] action = "RETURN_TO_STORE" ->
              Transition(o, Resolved(o), "RETURNING_TO_STORE")
         [] action = "CANCEL_AND_REFUND" ->
              Transition(o, Resolved(o), "CANCELLED")
         [] action = "ESCALATE_TO_ADMIN" ->
              /\ job' = [job EXCEPT ![o].decision = action]
              /\ UNCHANGED <<order, riderStatus>>
    /\ assignment' = IF action = "REASSIGN_RIDER" THEN Reassigned(o)
                                                  ELSE assignment
    /\ UNCHANGED <<expiryEvent, worker, request>>

StartReturn(o) ==
    /\ HasStatus(o, {"DELIVERY_FAILED"})
    /\ job[o].decision = "RETURN_TO_STORE"
    /\ Transition(o, Resolved(o), "RETURNING_TO_STORE")
    /\ UNCHANGED <<assignment, expiryEvent, worker, request>>

ConfirmReturn(o) ==
    /\ HasStatus(o, {"RETURNING_TO_STORE"})
    /\ Transition(o, job[o], "RETURNED_TO_STORE")
    /\ UNCHANGED <<assignment, expiryEvent, worker, request>>

-----------------------------------------------------------------------------
(* Handlers that check first and write later *)

Untouched == <<assignment, expiryEvent, worker>>

Closed == {"DELIVERED", "CANCELLED"}

\* ORDER_TRANSITIONS on the statuses of this module; a store owner's table is
\* contained in it.
NextStatuses ==
    [CONFIRMED |-> {"PACKED", "RIDER_ASSIGNED", "CANCELLED"},
     PACKED |-> {"RIDER_ASSIGNED", "CANCELLED"},
     RIDER_ASSIGNED |-> {"OUT_FOR_DELIVERY", "CANCELLED"},
     OUT_FOR_DELIVERY |-> {"DELIVERED", "CANCELLED"},
     DELIVERED |-> {},
     CANCELLED |-> {}]

Begin(op, o, r, next) ==
    /\ request = None
    /\ request' = [op |-> op, order |-> o, rider |-> r, next |-> next]
    /\ UNCHANGED <<order, job, riderStatus, Untouched>>

\* readyForPickup asks for PACKED (its job is created by CreateJob); the status
\* endpoint asks for any next status and may name a rider.
ReadStatus(o) ==
    \E next \in NextStatuses[order[o].status], r \in Rider \cup {None} :
        /\ (next = "PACKED" /\ r = None) \/ "status" \in Endpoints
        /\ Begin("status", o, r, next)

\* cancelMyOrder: PENDING and PAYMENT_PENDING come before this module.
ReadCancel(o) ==
    /\ "cancel" \in Endpoints
    /\ order[o].status = "CONFIRMED"
    /\ Begin("cancel", o, None, "CANCELLED")

ReadForceCancel(o) ==
    /\ "forceCancel" \in Endpoints
    /\ order[o].status \notin Closed
    /\ Begin("forceCancel", o, None, "CANCELLED")

\* The checks on the new rider, before the transaction.
ReadReassign(o, r) ==
    /\ "reassign" \in Endpoints
    /\ riderStatus[r] # "OFFLINE"
    /\ \A p \in Order \ {o} :
          order[p].rider = r
              => order[p].status \notin {"RIDER_ASSIGNED", "OUT_FOR_DELIVERY"}
    /\ Begin("reassign", o, r, "RIDER_ASSIGNED")

\* The rider's switch: going offline needs no active delivery.
ReadSetStatus(r) ==
    /\ "setStatus" \in Endpoints
    /\ \/ Begin("setStatus", None, r, "ONLINE")
       \/ ~HasActiveJob(r, {}) /\ Begin("setStatus", None, r, "OFFLINE")

\* A location ping is accepted for the rider of a live delivery; an order with
\* no job yet is judged by its own status and rider.
ReadPing(o, r) ==
    /\ "ping" \in Endpoints
    /\ IF job[o] # None
       THEN job[o].rider = r /\ job[o].status \in ACTIVE_JOB_STATUSES
       ELSE /\ order[o].rider = r
            /\ initialStatus(order[o].status) \in ACTIVE_JOB_STATUSES
    /\ Begin("ping", o, r, "BUSY")

Asked(op) == request # None /\ request.op = op

SetRider(r, status) == riderStatus' = [riderStatus EXCEPT ![r] = status]

\* A delivered order frees its rider in one more statement, after the commit.
CommitStatus ==
    /\ Asked("status")
    /\ LET row == [order[request.order] EXCEPT
                      !.status = request.next,
                      !.rider = IF request.rider # None THEN request.rider
                                                        ELSE @]
       IN /\ order' = [order EXCEPT ![request.order] = row]
          /\ request' = IF request.next = "DELIVERED" /\ row.rider # None
                        THEN [op |-> "release", order |-> None,
                              rider |-> row.rider, next |-> "ONLINE"]
                        ELSE None
    /\ UNCHANGED <<job, riderStatus, Untouched>>

CommitCancel ==
    /\ Asked("cancel")
    /\ order' = [order EXCEPT ![request.order].status = "CANCELLED"]
    /\ request' = None
    /\ UNCHANGED <<job, riderStatus, Untouched>>

\* The rider named by the order row is put ONLINE; the job is not touched.
CommitForceCancel ==
    /\ Asked("forceCancel")
    /\ order' = [order EXCEPT ![request.order].status = "CANCELLED"]
    /\ LET r == order[request.order].rider
       IN IF r = None THEN UNCHANGED riderStatus ELSE SetRider(r, "ONLINE")
    /\ request' = None
    /\ UNCHANGED <<job, Untouched>>

\* The transaction of reassignRider reads the order itself, and refuses a
\* closed one.
CommitReassign ==
    /\ Asked("reassign")
    /\ order[request.order].status \notin Closed
    /\ order' = [order EXCEPT ![request.order] =
                    [status |-> "RIDER_ASSIGNED", rider |-> request.rider]]
    /\ riderStatus' = [r \in Rider |->
                          IF r = request.rider THEN "BUSY"
                          ELSE IF r = order[request.order].rider THEN "ONLINE"
                          ELSE riderStatus[r]]
    /\ request' = None
    /\ UNCHANGED <<job, Untouched>>

\* The writes of RiderProfile.status alone
CommitRiderStatus ==
    /\ Asked("setStatus") \/ Asked("ping") \/ Asked("release")
    /\ SetRider(request.rider, request.next)
    /\ request' = None
    /\ UNCHANGED <<order, job, Untouched>>

\* The handler throws, or its process stops before the write.
Drop ==
    /\ request # None
    /\ request' = None
    /\ UNCHANGED <<order, job, riderStatus, Untouched>>

\* PATCH riders/me/status and riders/:id/status check nothing.
SetAnyStatus(r) ==
    /\ "meStatus" \in Endpoints
    /\ \E status \in RiderStatus \ {riderStatus[r]} : SetRider(r, status)
    /\ UNCHANGED <<order, job, request, Untouched>>

-----------------------------------------------------------------------------
OfferStep ==
    \/ \E o \in Order, r \in Rider, a \in Assignment : Offer(o, r, a)
    \/ \E a \in Assignment : Accept(a) \/ Reject(a) \/ Tick(a)
    \/ \E r \in Rider : ExpireByRead(r)

WorkerStep(w) ==
    \/ WorkerFind(w) \/ WorkerExpire(w) \/ WorkerRecord(w)
    \/ WorkerFindMissing(w) \/ WorkerBackfill(w) \/ WorkerDone(w)
    \/ WorkerCrash(w)

JobStep(o) ==
    \/ CreateJob(o)
    \/ RiderStep(o) \/ VerifyPickup(o) \/ CompleteDelivery(o)
    \/ RecordFailure(o) \/ \E action \in Action : ResolveFailure(o, action)
    \/ StartReturn(o) \/ ConfirmReturn(o)

RequestStep ==
    \/ \E o \in Order : ReadStatus(o) \/ ReadCancel(o) \/ ReadForceCancel(o)
    \/ \E o \in Order, r \in Rider : ReadReassign(o, r) \/ ReadPing(o, r)
    \/ \E r \in Rider : ReadSetStatus(r) \/ SetAnyStatus(r)
    \/ CommitStatus \/ CommitCancel \/ CommitForceCancel \/ CommitReassign
    \/ CommitRiderStatus \/ Drop

Next ==
    \/ OfferStep
    \/ \E w \in Worker : WorkerStep(w)
    \/ \E o \in Order : JobStep(o)
    \/ RequestStep

Spec == Init /\ [][Next]_vars

\* Time passes, the interval timer of a worker keeps firing, and it does not
\* fail at the same statement for ever.
Fairness ==
    /\ \A a \in Assignment : WF_vars(Tick(a))
    /\ \A w \in Worker :
          /\ WF_vars(WorkerFind(w))
          /\ SF_vars(WorkerExpire(w))
          /\ SF_vars(WorkerRecord(w))
          /\ SF_vars(WorkerFindMissing(w))
          /\ SF_vars(WorkerBackfill(w))
          /\ SF_vars(WorkerDone(w))

FairSpec == Spec /\ Fairness

-----------------------------------------------------------------------------
(* Properties under any interleaving *)

\* A job never has two offers open: whoever offers it, and whether the earlier
\* one was answered, expired by a read, by the worker or by the next offer.
OneOpenOffer ==
    \A a, b \in Assignment :
        (/\ assignment[a] # None /\ assignment[b] # None
         /\ assignment[a].job = assignment[b].job
         /\ assignment[a].status \in {"OFFERED", "ACCEPTED"}
         /\ assignment[b].status \in {"OFFERED", "ACCEPTED"})
            => a = b

\* No rider holds two unfinished deliveries, although jobs get riders by an
\* accepted offer and by the row of an order that an admin edited.
OneActiveJobPerRider ==
    \A o, p \in Order :
        (/\ o # p /\ job[o] # None /\ job[p] # None
         /\ job[o].rider # None /\ job[o].rider = job[p].rider)
            => job[o].status \in Finished \/ job[p].status \in Finished

\* An accepted assignment and its job agree: the job has left the queue and is
\* in the hands of that rider, through failures, retries and reassignments.
AcceptedMatchesJob ==
    \A a \in Assignment :
        assignment[a] # None /\ assignment[a].status = "ACCEPTED"
            => LET j == job[assignment[a].job]
               IN /\ j # None
                  /\ j.status # "WAITING_FOR_DISPATCH"
                  /\ j.rider = assignment[a].rider

\* Riders and jobs match: whoever accepted a job has it and no other unfinished
\* one, although orders are edited, cancelled and reassigned behind their jobs
\* (accept, transitionWithinTransaction, the index on active riders).
RidersMatchJobs == AcceptedMatchesJob /\ OneActiveJobPerRider

\* An answer to an offer is final: the late worker does not expire an offer
\* the rider accepted or rejected after the batch was read.
AnswerIsFinal ==
    [][\A a \in Assignment :
          assignment[a] # None /\ assignment'[a] # assignment[a]
              => \/ assignment[a].status = "OFFERED"
                 \/ /\ assignment[a].status = "ACCEPTED"
                    /\ assignment'[a].status \in {"REJECTED", "REASSIGNED"}]_vars

\* The log tells of an expiry only when the offer did expire.
ExpiryEventsAreTrue ==
    \A a \in expiryEvent :
        assignment[a] # None /\ assignment[a].status = "EXPIRED"

-----------------------------------------------------------------------------
(* Properties of the dispatch handlers on their own: no order is edited      *)
(* behind their back                                                         *)

\* The order row mirrors its job.
OrderFollowsJob ==
    \A o \in Order : job[o] # None =>
        /\ order[o].status = legacyOrderStatus(job[o].status)
        /\ order[o].rider = job[o].rider

\* A delivery in progress has exactly one accepted assignment.
ActiveJobIsAccepted ==
    \A o \in Order : HasStatus(o, ACTIVE_JOB_STATUSES)
        => Cardinality(Offers(o, {"ACCEPTED"})) = 1

\* A rider is BUSY only while he has a delivery: every way a delivery can end
\* gives him back to dispatch.
BusyMeansDelivering ==
    \A r \in Rider : riderStatus[r] = "BUSY" => HasActiveJob(r, {})

\* Once out of the store, the parcel is with the rider it was handed to.
ParcelIsWithRider ==
    \A o \in Order :
        HasStatus(o, {"PICKUP_VERIFIED", "OUT_FOR_DELIVERY",
                      "RIDER_AT_CUSTOMER", "DELIVERY_FAILED",
                      "RETURNING_TO_STORE", "RETURNED_TO_STORE", "DELIVERED"})
            => job[o].proof # None /\ job[o].proof = job[o].rider

\* The order and the assignments keep up with their job, and so do the rider and
\* the parcel, on every way a delivery can go (transitionWithinTransaction and
\* its callers).
RecordsFollowJob == OrderFollowsJob /\ ActiveJobIsAccepted
RiderFollowsJob == BusyMeansDelivering /\ ParcelIsWithRider
AllFollowJob == RecordsFollowJob /\ RiderFollowsJob

-----------------------------------------------------------------------------
(* Properties the code does not have: see the README's findings *)

\* DELIVERED and CANCELLED orders stay as they are.
ClosedOrderStays ==
    [][\A o \in Order : order[o].status \in Closed
            => order'[o].status = order[o].status]_vars

\* What is delivered was picked up with a proof.
DeliveredWasPickedUp ==
    \A o \in Order : HasStatus(o, {"DELIVERED"}) => job[o].proof # None

\* A rider at the store can be handed the parcel.
HandoverPossible ==
    \A o \in Order : HasStatus(o, {"RIDER_AT_STORE"}) => FirstHandover(o)

-----------------------------------------------------------------------------
(* The jobs as riders meet them *)

\* Where a job is, as its row and its open offer tell.
Page(o) ==
    LET open == Offers(o, {"OFFERED"})
        entry(place, r, late) == [place |-> place, rider |-> r, late |-> late]
    IN CASE job[o] = None -> entry("absent", None, FALSE)
         [] HasStatus(o, Finished) -> entry("closed", job[o].rider, FALSE)
         [] HasStatus(o, ACTIVE_JOB_STATUSES) -> entry("held", job[o].rider, FALSE)
         [] HasStatus(o, {"WAITING_FOR_DISPATCH"}) /\ open = {} ->
               entry("queue", job[o].rider, FALSE)
         [] HasStatus(o, {"WAITING_FOR_DISPATCH"}) /\ open # {} ->
               LET a == CHOOSE a \in open : TRUE
               IN entry("offered", assignment[a].rider, assignment[a].overdue)

Book == INSTANCE OfferBook WITH Job <- Order, page <- [o \in Order |-> Page(o)]

\* A job is in one place at a time and gets to a rider only by an offer he took
\* up in time, from rider to rider only through the queue, and is closed by the
\* rider who had it, whatever happens to its order, its offers and its riders
\* (offer, accept, reject, transitionWithinTransaction).
KeepsBook == Book!BookSpec

-----------------------------------------------------------------------------
(* Liveness, under FairSpec *)

HasAnswer(a, statuses) ==
    assignment[a] # None /\ assignment[a].status \in statuses

\* No offer stays open for ever: the rider answers it, or it is expired.
OfferIsSettled ==
    \A a \in Assignment :
        HasAnswer(a, {"OFFERED"}) ~> HasAnswer(a, Answered \cup {"ACCEPTED"})

\* Every expired offer is told of in the log, whoever expired it and however
\* often the worker was cut off between the update and the event.
ExpiryIsRecorded ==
    \A a \in Assignment : HasAnswer(a, {"EXPIRED"}) ~> (a \in expiryEvent)

\* Both: an open offer comes to an end that the log tells of.
OffersEnd == OfferIsSettled /\ ExpiryIsRecorded
=============================================================================
