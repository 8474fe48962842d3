--------------------------- MODULE DeliveryProof ---------------------------
(***************************************************************************)
(* The proofs and the cash of one delivery: pickup codes, the customer's   *)
(* one-time code, cash on delivery with its ledger, failed attempts and    *)
(* their resolution, the return and its inspection, and an administrator   *)
(* who cancels the order meanwhile.                                        *)
(*                                                                         *)
(* Every handler of delivery-operations is one SERIALIZABLE transaction    *)
(* under an advisory lock, hence one action; one that throws changes       *)
(* nothing and is not a step.  A wrong code is answered with an error but  *)
(* committed.  All rows hang on one job, so one job is modelled; the job's *)
(* way to its rider is Dispatch's subject and is abridged here.            *)
(*                                                                         *)
(* A call carries an idempotency key; a key already in the table of        *)
(* operations makes the call return the old row.  Keys are tracked for the *)
(* calls that could take effect twice: failures, resolutions and deposits. *)
(* The lines and counts of the pickup checklist are left out: a checklist  *)
(* whose counts are wrong is refused.                                      *)
(***************************************************************************)
EXTENDS Integers, FiniteSets, FiniteSetsExt

CONSTANTS
    Rider,
    Key,                \* idempotency keys of the tracked calls
    None,
    Price,              \* the payment's amountPaise, in coins
    Units,              \* units ordered, of one product
    OTP_MAX_ATTEMPTS,   \* 5 in the code
    PICKUP_MAX_ATTEMPTS,\* 5 in the code
    IssueLimit,         \* customer codes issued in one behaviour
    RestoreLimit        \* an order is force-cancelled below this many units

JobStatus == {"WAITING_FOR_DISPATCH", "RIDER_ASSIGNED",
              "RIDER_EN_ROUTE_TO_STORE", "RIDER_AT_STORE", "PICKUP_VERIFIED",
              "OUT_FOR_DELIVERY", "RIDER_AT_CUSTOMER", "DELIVERED",
              "DELIVERY_FAILED", "RETURNING_TO_STORE", "RETURNED_TO_STORE",
              "CANCELLED"}
Resolution == {"RETRY_DELIVERY", "REASSIGN_RIDER", "RETURN_TO_STORE",
               "CANCEL_AND_REFUND", "ESCALATE_TO_ADMIN"}
OperationType == {"DELIVERY_FAILURE_RECORDED", "FAILURE_RESOLUTION_APPLIED",
                  "COD_SETTLED"}
Settlement == {"HELD_BY_RIDER", "PARTIALLY_DEPOSITED", "SETTLED",
               "VARIANCE_REVIEW"}
TaskStatus == {"PENDING", "VERIFIED", "PROBLEM_REPORTED"}
Job == [status : JobStatus, rider : Rider \cup {None}]
Code == [attempts : Nat, expired : BOOLEAN]
Issue == [id : Nat, attempts : Nat, expired : BOOLEAN]
Ledger == [rider : Rider \cup {None}, expected : Nat, collected : Nat,
           holding : Nat, deposited : Nat,
           variance : Int, status : Settlement]
Payment == [method : {"COD", "ONLINE"},
            status : {"PENDING_COD", "CAPTURED", "REFUND_PENDING"},
            refunds : Nat]

ASSUME ProofAssumption ==
    /\ None \notin Rider \cup TaskStatus \cup Resolution \cup OperationType
                   \cup Code \cup Issue \cup Ledger
    /\ Price \in Nat \ {0} /\ Units \in Nat \ {0}
    /\ OTP_MAX_ATTEMPTS \in Nat \ {0} /\ PICKUP_MAX_ATTEMPTS \in Nat \ {0}
    /\ IssueLimit \in Nat /\ RestoreLimit \in Nat
    /\ IsFiniteSet(Key)

VARIABLES
    job,          \* DeliveryJob: status and currentRider
    orderStatus,  \* the order: "OPEN", "DELIVERED" or "CANCELLED"
    payment,
    task,         \* status of the RiderPickupTask, or None; one per job
    challenge,    \* the PENDING PickupChallenge, or None
    pickupProof,  \* the rider of the PickupProof, or None
    otp,          \* the PENDING OTP_ISSUED operation, or None
    issued,       \* codes issued so far
    guesses,      \* guesses[i]: OTP_ATTEMPT_FAILED rows of code i
    deliveryProof,\* the code the DeliveryProof rests on, or None
    decision,     \* decidedAction of the open DeliveryFailureDecision, or None
    operation,    \* operation[k]: type of the operation recorded under key k
    failures,     \* DELIVERY_FAILURE_RECORDED transitions made
    ledger,       \* CodLedger, or None
    deposit,      \* deposit[k]: amount of the DEPOSITED entry of key k
    inspected,    \* is there a RETURN_INSPECTION_COMPLETED operation?
    restored      \* units written back to the inventory

custody == <<job, orderStatus>>
codes == <<challenge, pickupProof, otp, issued, guesses, deliveryProof>>
resolution == <<decision, failures>>
cash == <<ledger, deposit>>
stock == <<inspected, restored>>
vars == <<custody, task, codes, resolution, cash, stock, payment, operation>>

TypeOK ==
    /\ job \in Job
    /\ orderStatus \in {"OPEN", "DELIVERED", "CANCELLED"}
    /\ payment \in Payment
    /\ task \in TaskStatus \cup {None}
    /\ challenge \in Code \cup {None}
    /\ pickupProof \in Rider \cup {None}
    /\ otp \in Issue \cup {None}
    /\ issued \in 0 .. IssueLimit
    /\ guesses \in [1 .. IssueLimit -> Nat]
    /\ deliveryProof \in (1 .. IssueLimit) \cup {None}
    /\ decision \in Resolution \cup {None}
    /\ operation \in [Key -> OperationType \cup {None}]
    /\ failures \in Nat
    /\ ledger \in Ledger \cup {None}
    /\ deposit \in [Key -> Nat]
    /\ inspected \in BOOLEAN
    /\ restored \in Nat

Init ==
    /\ job = [status |-> "WAITING_FOR_DISPATCH", rider |-> None]
    /\ orderStatus = "OPEN"
    /\ payment \in {[method |-> "COD", status |-> "PENDING_COD", refunds |-> 0],
                    [method |-> "ONLINE", status |-> "CAPTURED", refunds |-> 0]}
    /\ task = None /\ challenge = None /\ pickupProof = None
    /\ otp = None /\ issued = 0 /\ guesses = [i \in 1 .. IssueLimit |-> 0]
    /\ deliveryProof = None
    /\ decision = None /\ failures = 0
    /\ operation = [k \in Key |-> None]
    /\ ledger = None /\ deposit = [k \in Key |-> 0]
    /\ inspected = FALSE /\ restored = 0

-----------------------------------------------------------------------------
(* The job *)

\* A transition rewrites the order's status, whatever it was.
Transition(next) ==
    /\ job' = [status |-> next,
               rider |-> IF next = "WAITING_FOR_DISPATCH" THEN None
                         ELSE job.rider]
    /\ orderStatus' = IF next \in {"DELIVERED", "CANCELLED"} THEN next
                      ELSE "OPEN"

At(statuses) == job.status \in statuses

\* The accepted offer, and the rider's change of mind.
Assign(r) ==
    /\ At({"WAITING_FOR_DISPATCH"})
    /\ job' = [status |-> "RIDER_ASSIGNED", rider |-> r]
    /\ orderStatus' = "OPEN"
    /\ UNCHANGED <<task, codes, resolution, cash, stock, payment, operation>>

Unassign ==
    /\ At({"RIDER_ASSIGNED"}) /\ Transition("WAITING_FOR_DISPATCH")
    /\ UNCHANGED <<task, codes, resolution, cash, stock, payment, operation>>

RiderSteps == {<<"RIDER_ASSIGNED", "RIDER_EN_ROUTE_TO_STORE">>,
               <<"RIDER_EN_ROUTE_TO_STORE", "RIDER_AT_STORE">>,
               <<"PICKUP_VERIFIED", "OUT_FOR_DELIVERY">>,
               <<"OUT_FOR_DELIVERY", "RIDER_AT_CUSTOMER">>}

NextStops == {next \in JobStatus : <<job.status, next>> \in RiderSteps}

RiderMoves ==
    /\ \E next \in NextStops : Transition(next)
    /\ UNCHANGED <<task, codes, resolution, cash, stock, payment, operation>>

-----------------------------------------------------------------------------
(* Pickup *)

\* What the rider's calls about the checklist leave alone.
SaveTask(status) ==
    /\ task' = status
    /\ UNCHANGED <<custody, codes, resolution, cash, stock, payment,
                   operation>>

\* Reading the pickup page creates the task.
pickup ==
    /\ At({"RIDER_AT_STORE", "PICKUP_VERIFIED"}) /\ task = None
    /\ SaveTask("PENDING")

verifyPickup == At({"RIDER_AT_STORE"}) /\ SaveTask("VERIFIED")

reportPickupProblem == At({"RIDER_AT_STORE"}) /\ SaveTask("PROBLEM_REPORTED")

assertPickupChecklist == task = "VERIFIED"

MayIssueChallenge ==
    At({"RIDER_AT_STORE"}) /\ assertPickupChecklist /\ pickupProof = None

issuePickupChallenge ==
    /\ MayIssueChallenge
    /\ challenge' = [attempts |-> 0, expired |-> FALSE]
    /\ UNCHANGED <<custody, task, pickupProof, otp, issued, guesses,
                   deliveryProof, resolution, cash, stock, payment, operation>>

ChallengeExpires ==
    /\ challenge # None /\ ~challenge.expired
    /\ challenge' = [challenge EXCEPT !.expired = TRUE]
    /\ UNCHANGED <<custody, task, pickupProof, otp, issued, guesses,
                   deliveryProof, resolution, cash, stock, payment, operation>>

\* An existing proof is returned as it is, and the job stays where it is.
recordPickupProof ==
    IF pickupProof = None
    THEN pickupProof' = job.rider /\ Transition("PICKUP_VERIFIED")
    ELSE UNCHANGED <<pickupProof, custody>>

\* One more wrong guess; the last one allowed closes the code.
Guessed(code, limit) ==
    IF code.attempts + 1 >= limit THEN None
    ELSE [code EXCEPT !.attempts = @ + 1]

MayVerifyChallenge ==
    At({"RIDER_AT_STORE"}) /\ assertPickupChecklist /\ challenge # None

verifyPickupChallenge(right) ==
    /\ MayVerifyChallenge
    /\ IF ~challenge.expired /\ right
       THEN challenge' = None /\ recordPickupProof
       ELSE /\ challenge' = IF challenge.expired THEN None
                            ELSE Guessed(challenge, PICKUP_MAX_ATTEMPTS)
            /\ UNCHANGED <<pickupProof, custody>>
    /\ UNCHANGED <<task, otp, issued, guesses, deliveryProof, resolution, cash,
                   stock, payment, operation>>

MayConfirmPickup == At({"RIDER_AT_STORE"}) /\ assertPickupChecklist

\* A pending challenge is left as it is.
confirmStorePickup ==
    /\ MayConfirmPickup /\ recordPickupProof
    /\ UNCHANGED <<task, challenge, otp, issued, guesses, deliveryProof,
                   resolution, cash, stock, payment, operation>>

-----------------------------------------------------------------------------
(* The customer's code and the delivery *)

MayIssueOtp == At({"RIDER_AT_CUSTOMER"}) /\ issued < IssueLimit

\* A new code supersedes the pending one.
issueOtp ==
    /\ MayIssueOtp
    /\ issued' = issued + 1
    /\ otp' = [id |-> issued', attempts |-> 0, expired |-> FALSE]
    /\ UNCHANGED <<custody, task, challenge, pickupProof, guesses,
                   deliveryProof, resolution, cash, stock, payment, operation>>

OtpExpires ==
    /\ otp # None /\ ~otp.expired
    /\ otp' = [otp EXCEPT !.expired = TRUE]
    /\ UNCHANGED <<custody, task, challenge, pickupProof, issued, guesses,
                   deliveryProof, resolution, cash, stock, payment, operation>>

\* A mutant: the issue stays open after the last attempt.
GuessedForever(code) == [code EXCEPT !.attempts = @ + 1]

GuessedOtp(code) == Guessed(code, OTP_MAX_ATTEMPTS)

\* completeDelivery with a code that is wrong or too late: the attempt counts.
rejectOtp ==
    /\ At({"RIDER_AT_CUSTOMER"}) /\ otp # None
    /\ IF otp.expired THEN otp' = None /\ UNCHANGED guesses
       ELSE /\ otp' = GuessedOtp(otp)
            /\ guesses' = [guesses EXCEPT ![otp.id] = @ + 1]
    /\ UNCHANGED <<custody, task, challenge, pickupProof, issued,
                   deliveryProof, resolution, cash, stock, payment, operation>>

Paid ==
    payment.method = "COD" =>
        /\ payment.status = "CAPTURED"
        /\ ledger # None /\ ledger.collected = ledger.expected

MayComplete == At({"RIDER_AT_CUSTOMER"}) /\ otp # None /\ ~otp.expired /\ Paid

\* completeDelivery with the right code; an unpaid one is rolled back.
completeDelivery ==
    /\ MayComplete
    /\ deliveryProof' = otp.id /\ otp' = None
    /\ Transition("DELIVERED")
    /\ UNCHANGED <<task, challenge, pickupProof, issued, guesses, resolution,
                   cash, stock, payment, operation>>

-----------------------------------------------------------------------------
(* Failed deliveries *)

\* FAILURE_POLICY: what the system recommends for each reason.
Recommended == {"RETRY_DELIVERY", "RETURN_TO_STORE", "ESCALATE_TO_ADMIN",
                "REASSIGN_RIDER"}

FAILURE_STATUSES == {"RIDER_EN_ROUTE_TO_STORE", "RIDER_AT_STORE",
                     "OUT_FOR_DELIVERY", "RIDER_AT_CUSTOMER"}

\* A mutant: a key already used does not stop the call.
UnusedUnchecked(k) == k \in Key

Unused(k) == operation[k] = None

\* By the rider or, from any of the statuses, by an administrator.
recordFailure(k) ==
    /\ Unused(k) /\ At(FAILURE_STATUSES)
    /\ Transition("DELIVERY_FAILED")
    /\ operation' = [operation EXCEPT ![k] = "DELIVERY_FAILURE_RECORDED"]
    /\ decision' \in Recommended
    /\ failures' = failures + 1
    /\ UNCHANGED <<task, codes, cash, stock, payment>>

\* A mutant: the rider's cash is not looked at.
HoldsCashIgnored == FALSE

HoldsCash == ledger # None /\ ledger.holding > 0

\* A mutant: the refund does not ask whether the payment is still captured.
RefundedAgain ==
    IF payment.method = "ONLINE"
    THEN [payment EXCEPT !.status = "REFUND_PENDING", !.refunds = @ + Price]
    ELSE payment

\* A refund of the whole amount, unless there is one already.
Refunded ==
    IF payment.method = "ONLINE" /\ payment.status = "CAPTURED"
    THEN [payment EXCEPT !.status = "REFUND_PENDING",
                         !.refunds = IF @ = Price THEN @ ELSE @ + Price]
    ELSE payment

MayResolve(k, action) ==
    /\ Unused(k) /\ At({"DELIVERY_FAILED"}) /\ decision # None
    /\ action \in {"REASSIGN_RIDER", "CANCEL_AND_REFUND"} => ~HoldsCash

\* An administrator applies the decision or overrides it.
resolveFailure(k, action) ==
    /\ MayResolve(k, action)
    /\ CASE action = "RETRY_DELIVERY" -> Transition("OUT_FOR_DELIVERY")
         [] action = "REASSIGN_RIDER" -> Transition("WAITING_FOR_DISPATCH")
         [] action = "RETURN_TO_STORE" -> Transition("RETURNING_TO_STORE")
         [] action = "CANCEL_AND_REFUND" -> Transition("CANCELLED")
         [] action = "ESCALATE_TO_ADMIN" -> UNCHANGED custody
    /\ payment' = IF action = "CANCEL_AND_REFUND" THEN Refunded ELSE payment
    /\ decision' = IF action = "ESCALATE_TO_ADMIN" THEN action ELSE None
    /\ operation' = [operation EXCEPT ![k] = "FAILURE_RESOLUTION_APPLIED"]
    /\ UNCHANGED <<task, codes, cash, stock, failures>>

MayReturn == At({"DELIVERY_FAILED"}) /\ decision = "RETURN_TO_STORE"

startReturn ==
    /\ MayReturn
    /\ Transition("RETURNING_TO_STORE")
    /\ decision' = None
    /\ UNCHANGED <<task, codes, cash, stock, payment, operation, failures>>

MayConfirmReturn == At({"RETURNING_TO_STORE"})

confirmReturn ==
    /\ MayConfirmReturn /\ Transition("RETURNED_TO_STORE")
    /\ UNCHANGED <<task, codes, resolution, cash, stock, payment, operation>>

Inspectable == At({"RETURNED_TO_STORE"}) /\ ~inspected

\* The sellable units of an inspection that accounts for every unit.
Sellable == {n \in 0 .. Units : \E rest \in 0 .. Units : n + rest = Units}

\* The sellable units go back on the shelf.
inspectReturn(sellable) ==
    /\ Inspectable
    /\ inspected' = TRUE /\ restored' = restored + sellable
    /\ UNCHANGED <<custody, task, codes, resolution, cash, payment, operation>>

-----------------------------------------------------------------------------
(* Cash on delivery *)

MayCollect ==
    /\ At({"OUT_FOR_DELIVERY", "RIDER_AT_CUSTOMER"})
    /\ payment.method = "COD"
    /\ payment.status \in {"PENDING_COD", "CAPTURED"}
    /\ ledger = None

collectCod ==
    /\ MayCollect
    /\ payment' = [payment EXCEPT !.status = "CAPTURED"]
    /\ ledger' = [rider |-> job.rider, expected |-> Price, collected |-> Price,
                  holding |-> Price, deposited |-> 0, variance |-> 0,
                  status |-> "HELD_BY_RIDER"]
    /\ UNCHANGED <<custody, task, codes, resolution, deposit, stock,
                   operation>>

\* A mutant: a ledger under review takes deposits.
FinalWithoutReview == ledger.status = "SETTLED"

Final == ledger.status \in {"SETTLED", "VARIANCE_REVIEW"}

\* A mutant: a deposit is compared with what was collected.
WithinCollected(amount) == amount <= ledger.collected

WithinHolding(amount) == amount <= ledger.holding

\* A mutant: a deposit is taken from what was collected.
HoldingAfterOfCollected(amount) == ledger.collected - amount

HoldingAfter(amount) == ledger.holding - amount

SettlementStatus(finalize, variance, holding) ==
    IF finalize THEN IF variance = 0 THEN "SETTLED" ELSE "VARIANCE_REVIEW"
    ELSE IF holding = 0 THEN "SETTLED" ELSE "PARTIALLY_DEPOSITED"

MaySettle(k, amount) ==
    /\ Unused(k)
    /\ payment.method = "COD" /\ payment.status = "CAPTURED"
    /\ ledger # None /\ ~Final
    /\ WithinHolding(amount)

\* A variance that is finalized needs a reason; callers give one.
settleCod(k, amount, finalize) ==
    /\ MaySettle(k, amount)
    /\ LET holding == HoldingAfter(amount)
           deposited == ledger.deposited + amount
           variance == ledger.expected - deposited
       IN ledger' = [ledger EXCEPT
             !.holding = holding, !.deposited = deposited,
             !.variance = IF finalize THEN variance ELSE 0,
             !.status = SettlementStatus(finalize, variance, holding)]
    /\ deposit' = [deposit EXCEPT ![k] = amount]
    /\ operation' = [operation EXCEPT ![k] = "COD_SETTLED"]
    /\ UNCHANGED <<custody, task, codes, resolution, stock, payment>>

-----------------------------------------------------------------------------
(* The order is cancelled by an administrator, behind the delivery *)

forceCancel ==
    /\ restored < RestoreLimit /\ orderStatus = "OPEN"
    /\ orderStatus' = "CANCELLED"
    /\ payment' = IF payment.status = "CAPTURED"
                  THEN [payment EXCEPT !.status = "REFUND_PENDING",
                                       !.refunds = @ + Price]
                  ELSE payment
    /\ restored' = restored + Units
    /\ UNCHANGED <<job, task, codes, resolution, cash, inspected, operation>>

-----------------------------------------------------------------------------
Next ==
    \/ \E r \in Rider : Assign(r)
    \/ Unassign \/ RiderMoves
    \/ pickup \/ verifyPickup \/ reportPickupProblem
    \/ issuePickupChallenge \/ ChallengeExpires \/ confirmStorePickup
    \/ \E right \in BOOLEAN : verifyPickupChallenge(right)
    \/ issueOtp \/ OtpExpires \/ rejectOtp \/ completeDelivery
    \/ \E k \in Key : \/ recordFailure(k)
                      \/ \E action \in Resolution : resolveFailure(k, action)
                      \/ \E amount \in 1 .. Price, finalize \in BOOLEAN :
                            settleCod(k, amount, finalize)
    \/ startReturn \/ confirmReturn
    \/ \E sellable \in Sellable : inspectReturn(sellable)
    \/ collectCod \/ forceCancel

Spec == Init /\ [][Next]_vars

-----------------------------------------------------------------------------
(* Properties *)

\* No coin is lost or made: what was collected is what the rider still holds
\* and what was handed in, and what was handed in is what the entries of the
\* ledger say, each deposit once however often its call is repeated (collectCod,
\* settleCod).
CashConserved ==
    IF ledger = None THEN \A k \in Key : deposit[k] = 0
    ELSE /\ ledger.collected = ledger.holding + ledger.deposited
         /\ ledger.deposited = MapThenSumSet(LAMBDA k : deposit[k], Key)

\* While cash is outstanding, the delivery stays with the rider who collected
\* it, through failures, retries, reassignment and return (resolveFailure).
CashStaysWithCollector ==
    ledger # None /\ ledger.holding > 0 =>
        ledger.rider = job.rider /\ job.rider # None

\* Both: the cash of a delivery is accounted for, and by the rider who has it.
CashIsKept == CashConserved /\ CashStaysWithCollector

\* A ledger that is settled or under review is never written again, neither by
\* a deposit nor by a collection after a retry.
LedgerIsFinal ==
    [][ledger # None /\ ledger.status \in {"SETTLED", "VARIANCE_REVIEW"} =>
          ledger' = ledger]_vars

\* A captured online payment is refunded once and in full when its delivery is
\* cancelled, whether the order, the delivery or both are, in either order
\* (resolveFailure, forceCancel).
RefundedOnce ==
    payment.method = "ONLINE" =>
        /\ payment.refunds <= Price
        /\ job.status = "CANCELLED" => payment.refunds = Price

\* No code is guessed more often than its limit, whatever expires, fails and is
\* retried in between (verifyOtpWithinTransaction).
GuessesBounded ==
    \A i \in 1 .. IssueLimit : guesses[i] <= OTP_MAX_ATTEMPTS

\* A failure reported once is recorded once: a repeated call that arrives after
\* the delivery was retried does not fail it again (recordFailure).
FailureCountedOnce ==
    failures = Cardinality(
        {k \in Key : operation[k] = "DELIVERY_FAILURE_RECORDED"})

\* Both counts, of guesses and of failures, survive retries.
AttemptsAreCounted == GuessesBounded /\ FailureCountedOnce

\* NOT a property of the code: a unit goes back on the shelf at most once.  An
\* administrator who cancels the order of an inspected parcel restores it again
\* (inspectReturn, order.service.ts forceCancel).
RestoredOnce == restored <= Units

\* NOT a property of the code: cash a rider holds can be handed in.  Cancelling
\* the order takes its payment out of CAPTURED, and a variance that is finalized
\* closes the ledger, over cash that is still with the rider (settleCod).
HeldCashIsAccepted ==
    HoldsCash => payment.status = "CAPTURED" /\ ~Final
=============================================================================
