------------------------ MODULE DeliveryProofProofs ------------------------
(***************************************************************************)
(* What holds of a delivery's proofs and cash for every number of riders,  *)
(* of idempotency keys and of codes, and for every price and limit: the    *)
(* cash is accounted for and stays with its collector, a captured payment  *)
(* is refunded once, attempts and failures are counted, a ledger that is   *)
(* closed is never written again, and the screens agree with the server.   *)
(***************************************************************************)
EXTENDS DeliveryScreens, SumLemmas

-----------------------------------------------------------------------------
(* Types *)

LEMMA InitTypeOK == Init => TypeOK
<1> SUFFICES ASSUME Init PROVE TypeOK
  OBVIOUS
<1> USE ProofAssumption DEF Init
<1>1. job \in Job
  BY DEF Job, JobStatus
<1>2. payment \in Payment
  BY DEF Payment
<1>3. /\ task \in TaskStatus \cup {None} /\ challenge \in Code \cup {None}
      /\ pickupProof \in Rider \cup {None} /\ otp \in Issue \cup {None}
      /\ issued \in 0 .. IssueLimit /\ guesses \in [1 .. IssueLimit -> Nat]
  OBVIOUS
<1>4. /\ deliveryProof \in (1 .. IssueLimit) \cup {None}
      /\ decision \in Resolution \cup {None} /\ failures \in Nat
      /\ operation \in [Key -> OperationType \cup {None}]
  OBVIOUS
<1>5. /\ ledger \in Ledger \cup {None} /\ deposit \in [Key -> Nat]
      /\ inspected \in BOOLEAN /\ restored \in Nat
  OBVIOUS
<1>6. orderStatus \in {"OPEN", "DELIVERED", "CANCELLED"}
  OBVIOUS
<1> QED
  BY <1>1, <1>2, <1>3, <1>4, <1>5, <1>6 DEF TypeOK

\* A transition leads from a job to a job.
LEMMA TransitionType ==
  ASSUME TypeOK, NEW next \in JobStatus, Transition(next)
  PROVE  job' \in Job /\ orderStatus' \in {"OPEN", "DELIVERED", "CANCELLED"}
BY DEF Transition, TypeOK, Job

\* The actions of which only the job, the task and the challenge are typed anew.
LEMMA CustodyTypeOK ==
  ASSUME TypeOK,
         \/ \E r \in Rider : Assign(r)
         \/ Unassign \/ RiderMoves \/ confirmReturn
         \/ pickup \/ verifyPickup \/ reportPickupProblem
         \/ startReturn \/ \E sellable \in Sellable : inspectReturn(sellable)
  PROVE  TypeOK'
<1> USE DEF TypeOK, custody, codes, resolution, cash, stock
<1>1. CASE \E r \in Rider : Assign(r)
  BY <1>1 DEF Assign, Job, JobStatus
<1>2. CASE Unassign
  <2>1. Transition("WAITING_FOR_DISPATCH") /\ "WAITING_FOR_DISPATCH" \in JobStatus
    BY <1>2 DEF Unassign, JobStatus
  <2> QED
    BY <1>2, <2>1, TransitionType DEF Unassign
<1>3. CASE RiderMoves
  BY <1>3, TransitionType DEF RiderMoves, NextStops
<1>4. CASE confirmReturn
  <2>1. Transition("RETURNED_TO_STORE") /\ "RETURNED_TO_STORE" \in JobStatus
    BY <1>4 DEF confirmReturn, JobStatus
  <2> QED
    BY <1>4, <2>1, TransitionType DEF confirmReturn
<1>5. CASE pickup \/ verifyPickup \/ reportPickupProblem
  BY <1>5 DEF pickup, verifyPickup, reportPickupProblem, SaveTask, TaskStatus
<1>6. CASE startReturn
  <2>1. Transition("RETURNING_TO_STORE") /\ "RETURNING_TO_STORE" \in JobStatus
    BY <1>6 DEF startReturn, JobStatus
  <2>2. /\ job' \in Job /\ orderStatus' \in {"OPEN", "DELIVERED", "CANCELLED"}
    BY <2>1, TransitionType
  <2> QED
    BY <1>6, <2>2 DEF startReturn
<1>7. CASE \E sellable \in Sellable : inspectReturn(sellable)
  BY <1>7, ProofAssumption DEF inspectReturn, Sellable
<1> QED
  BY <1>1, <1>2, <1>3, <1>4, <1>5, <1>6, <1>7

\* A pickup proof names a rider or stays as it was.
LEMMA PickupProofType ==
  ASSUME TypeOK, recordPickupProof
  PROVE  /\ pickupProof' \in Rider \cup {None} /\ job' \in Job
         /\ orderStatus' \in {"OPEN", "DELIVERED", "CANCELLED"}
<1>1. CASE pickupProof = None
  <2>1. Transition("PICKUP_VERIFIED") /\ "PICKUP_VERIFIED" \in JobStatus
    BY <1>1 DEF recordPickupProof, JobStatus
  <2>2. pickupProof' \in Rider \cup {None}
    BY <1>1 DEF recordPickupProof, TypeOK, Job
  <2> QED
    BY <2>1, <2>2, TransitionType
<1>2. CASE pickupProof # None
  BY <1>2 DEF recordPickupProof, TypeOK, custody
<1> QED
  BY <1>1, <1>2

LEMMA PickupTypeOK ==
  ASSUME TypeOK,
         \/ issuePickupChallenge \/ ChallengeExpires \/ confirmStorePickup
         \/ \E right \in BOOLEAN : verifyPickupChallenge(right)
  PROVE  TypeOK'
<1> USE ProofAssumption DEF TypeOK, custody, codes, resolution, cash, stock
<1>1. CASE issuePickupChallenge
  BY <1>1 DEF issuePickupChallenge, Code
<1>2. CASE ChallengeExpires
  BY <1>2 DEF ChallengeExpires, Code
<1>3. CASE confirmStorePickup
  BY <1>3, PickupProofType DEF confirmStorePickup
<1>4. CASE \E right \in BOOLEAN : verifyPickupChallenge(right)
  <2>1. PICK right \in BOOLEAN : verifyPickupChallenge(right)
    BY <1>4
  <2>2. challenge' \in Code \cup {None}
    BY <2>1 DEF verifyPickupChallenge, MayVerifyChallenge, Guessed, Code
  <2>3. /\ pickupProof' \in Rider \cup {None} /\ job' \in Job
        /\ orderStatus' \in {"OPEN", "DELIVERED", "CANCELLED"}
    BY <2>1, PickupProofType DEF verifyPickupChallenge
  <2> QED
    BY <2>1, <2>2, <2>3 DEF verifyPickupChallenge
<1> QED
  BY <1>1, <1>2, <1>3, <1>4

\* The code that is open is one of those issued.
CodeIsIssued == otp # None => otp.id = issued /\ otp.id \in 1 .. IssueLimit

LEMMA CodeTypeOK ==
  ASSUME TypeOK, CodeIsIssued,
         issueOtp \/ OtpExpires \/ rejectOtp \/ completeDelivery
  PROVE  TypeOK'
<1> USE ProofAssumption DEF TypeOK, custody, codes, resolution, cash, stock
<1>1. CASE issueOtp
  <2>1. issued' \in 0 .. IssueLimit /\ otp' \in Issue
    BY <1>1 DEF issueOtp, MayIssueOtp, Issue
  <2> QED
    BY <1>1, <2>1 DEF issueOtp
<1>2. CASE OtpExpires
  BY <1>2 DEF OtpExpires, Issue
<1>3. CASE rejectOtp
  <2>1. otp' \in Issue \cup {None}
    BY <1>3 DEF rejectOtp, GuessedOtp, Guessed, Issue
  <2>2. guesses' \in [1 .. IssueLimit -> Nat]
    BY <1>3 DEF rejectOtp
  <2> QED
    BY <1>3, <2>1, <2>2 DEF rejectOtp
<1>4. CASE completeDelivery
  <2>1. Transition("DELIVERED") /\ "DELIVERED" \in JobStatus
    BY <1>4 DEF completeDelivery, JobStatus
  <2>2. /\ job' \in Job /\ orderStatus' \in {"OPEN", "DELIVERED", "CANCELLED"}
    BY <2>1, TransitionType
  <2>3. deliveryProof' \in (1 .. IssueLimit) \cup {None}
    BY <1>4 DEF completeDelivery, MayComplete, CodeIsIssued
  <2> QED
    BY <1>4, <2>2, <2>3 DEF completeDelivery
<1> QED
  BY <1>1, <1>2, <1>3, <1>4

LEMMA RefundedType == ASSUME TypeOK PROVE Refunded \in Payment
<1> DEFINE sum == IF payment.refunds = Price THEN payment.refunds
                  ELSE payment.refunds + Price
<1>1. payment \in Payment /\ Price \in Nat
  BY ProofAssumption DEF TypeOK
<1>2. sum \in Nat
  BY <1>1 DEF Payment
<1>3. Refunded \in {payment, [payment EXCEPT !.status = "REFUND_PENDING",
                                            !.refunds = sum]}
  BY DEF Refunded
<1> HIDE DEF sum
<1> QED
  BY <1>1, <1>2, <1>3 DEF Payment

LEMMA FailureTypeOK ==
  ASSUME TypeOK,
         \E k \in Key : \/ recordFailure(k)
                        \/ \E action \in Resolution : resolveFailure(k, action)
  PROVE  TypeOK'
<1> USE ProofAssumption DEF TypeOK, custody, codes, resolution, cash, stock
<1>0. PICK k \in Key : \/ recordFailure(k)
                       \/ \E action \in Resolution : resolveFailure(k, action)
  OBVIOUS
<1>1. CASE recordFailure(k)
  <2>1. Transition("DELIVERY_FAILED") /\ "DELIVERY_FAILED" \in JobStatus
    BY <1>1 DEF recordFailure, JobStatus
  <2>2. /\ job' \in Job /\ orderStatus' \in {"OPEN", "DELIVERED", "CANCELLED"}
    BY <2>1, TransitionType
  <2>3. operation' \in [Key -> OperationType \cup {None}]
    BY <1>1 DEF recordFailure, OperationType
  <2>4. decision' \in Resolution \cup {None} /\ failures' \in Nat
    BY <1>1 DEF recordFailure, Recommended, Resolution
  <2> QED
    BY <1>1, <2>2, <2>3, <2>4 DEF recordFailure
<1>3. CASE \E action \in Resolution : resolveFailure(k, action)
  <2>1. PICK action \in Resolution : resolveFailure(k, action)
    BY <1>3
  <2>2. job' \in Job /\ orderStatus' \in {"OPEN", "DELIVERED", "CANCELLED"}
    <3>1. \/ \E next \in JobStatus : Transition(next)
          \/ UNCHANGED custody
      BY <2>1 DEF resolveFailure, JobStatus, Resolution
    <3> QED
      BY <3>1, TransitionType
  <2>3. payment' \in Payment
    BY <2>1, RefundedType DEF resolveFailure
  <2>4. decision' \in Resolution \cup {None}
    BY <2>1 DEF resolveFailure
  <2>5. operation' \in [Key -> OperationType \cup {None}]
    BY <2>1 DEF resolveFailure, OperationType
  <2> QED
    BY <2>1, <2>2, <2>3, <2>4, <2>5 DEF resolveFailure
<1> QED
  BY <1>0, <1>1, <1>3

\* The deposit leaves a ledger, with nothing below zero.
LEMMA SettledLedgerType ==
  ASSUME TypeOK, NEW k \in Key, NEW amount \in 1 .. Price,
         NEW finalize \in BOOLEAN, settleCod(k, amount, finalize)
  PROVE  /\ ledger \in Ledger /\ ledger' \in Ledger
         /\ ledger'.rider = ledger.rider
         /\ ledger'.collected = ledger.collected
         /\ ledger'.holding = ledger.holding - amount
         /\ ledger'.deposited = ledger.deposited + amount
<1> DEFINE holding == HoldingAfter(amount)
           deposited == ledger.deposited + amount
           variance == ledger.expected - deposited
           put == IF finalize THEN variance ELSE 0
           status == SettlementStatus(finalize, variance, holding)
<1>1. ledger \in Ledger
  BY DEF TypeOK, settleCod, MaySettle
<1>2. ledger' = [ledger EXCEPT !.holding = holding, !.deposited = deposited,
                               !.variance = put, !.status = status]
  BY DEF settleCod
<1>3. amount \in Nat /\ ledger.holding \in Nat /\ amount <= ledger.holding
  BY <1>1, ProofAssumption DEF settleCod, MaySettle, WithinHolding, Ledger
<1>4. holding = ledger.holding - amount /\ holding \in Nat
  BY <1>3 DEF HoldingAfter
<1>5. deposited \in Nat /\ variance \in Int /\ put \in Int
  BY <1>1, <1>3 DEF Ledger
<1>6. status \in Settlement
  BY DEF SettlementStatus, Settlement
<1>7. deposited = ledger.deposited + amount
  OBVIOUS
<1> HIDE DEF holding, deposited, variance, put, status
<1> QED
  BY <1>1, <1>2, <1>4, <1>5, <1>6, <1>7 DEF Ledger

LEMMA SettleTypeOK ==
  ASSUME TypeOK, NEW k \in Key, NEW amount \in 1 .. Price,
         NEW finalize \in BOOLEAN, settleCod(k, amount, finalize)
  PROVE  TypeOK'
<1>1. ledger' \in Ledger
  BY SettledLedgerType
<1>2. deposit' \in [Key -> Nat]
  BY ProofAssumption DEF settleCod, TypeOK
<1>3. operation' \in [Key -> OperationType \cup {None}]
  BY DEF settleCod, TypeOK, OperationType
<1>4. UNCHANGED <<custody, task, codes, resolution, stock, payment>>
  BY DEF settleCod
<1> QED
  BY <1>1, <1>2, <1>3, <1>4
     DEF TypeOK, custody, codes, resolution, stock

LEMMA CashTypeOK ==
  ASSUME TypeOK,
         \/ collectCod \/ forceCancel
         \/ \E k \in Key, amount \in 1 .. Price, finalize \in BOOLEAN :
               settleCod(k, amount, finalize)
  PROVE  TypeOK'
<1> USE ProofAssumption DEF TypeOK, custody, codes, resolution, cash, stock
<1>1. CASE collectCod
  <2>1. /\ job.rider \in Rider \cup {None} /\ Price \in Nat /\ 0 \in Int
        /\ "HELD_BY_RIDER" \in Settlement
    BY DEF Job, Settlement
  <2>3. ledger' = [rider |-> job.rider, expected |-> Price,
                   collected |-> Price, holding |-> Price, deposited |-> 0,
                   variance |-> 0, status |-> "HELD_BY_RIDER"]
    BY <1>1 DEF collectCod
  <2>4. ledger' \in Ledger
    BY <2>1, <2>3 DEF Ledger
  <2>2. payment' \in Payment
    BY <1>1 DEF collectCod, Payment
  <2> QED
    BY <1>1, <2>2, <2>4 DEF collectCod
<1>2. CASE forceCancel
  <2>1. payment' \in Payment
    <3> DEFINE sum == payment.refunds + Price
    <3>1. payment \in Payment /\ sum \in Nat
      BY DEF Payment
    <3>2. payment' \in {payment, [payment EXCEPT !.status = "REFUND_PENDING",
                                                !.refunds = sum]}
      BY <1>2 DEF forceCancel
    <3> HIDE DEF sum
    <3> QED
      BY <3>1, <3>2 DEF Payment
  <2> QED
    BY <1>2, <2>1 DEF forceCancel
<1>3. CASE \E k \in Key, amount \in 1 .. Price, finalize \in BOOLEAN :
              settleCod(k, amount, finalize)
  BY <1>3, SettleTypeOK
<1> QED
  BY <1>1, <1>2, <1>3

LEMMA NextTypeOK == TypeOK /\ CodeIsIssued /\ [Next]_vars => TypeOK'
<1> SUFFICES ASSUME TypeOK, CodeIsIssued, [Next]_vars PROVE TypeOK'
  OBVIOUS
<1>1. CASE UNCHANGED vars
  BY <1>1 DEF TypeOK, vars, custody, codes, resolution, cash, stock
<1>2. CASE Next
  BY <1>2, CustodyTypeOK, PickupTypeOK, CodeTypeOK, FailureTypeOK, CashTypeOK
     DEF Next
<1> QED
  BY <1>1, <1>2

-----------------------------------------------------------------------------
(* The cash *)

\* While the job is on its way to its parcel no cash is held: a rider who holds
\* some is not taken off the job, and collects only after the pickup.
BeforeDelivery == {"WAITING_FOR_DISPATCH", "RIDER_ASSIGNED",
                   "RIDER_EN_ROUTE_TO_STORE", "RIDER_AT_STORE",
                   "PICKUP_VERIFIED"}

CashAfterPickup == At(BeforeDelivery) => ~HoldsCash

\* A job waits without a rider, and only then.
WaitsAlone == job.rider = None <=> job.status = "WAITING_FOR_DISPATCH"

\* An unused key has no deposit.
DepositsAreRecorded == \A k \in Key : operation[k] = None => deposit[k] = 0

CashInv == /\ CashIsKept /\ CashAfterPickup /\ WaitsAlone
           /\ DepositsAreRecorded

LEMMA InitCashInv == Init => CashInv
<1> SUFFICES ASSUME Init PROVE CashInv
  OBVIOUS
<1>1. CashConserved /\ CashStaysWithCollector
  BY DEF Init, CashConserved, CashStaysWithCollector
<1>2. CashAfterPickup /\ WaitsAlone /\ DepositsAreRecorded
  BY DEF Init, CashAfterPickup, HoldsCash, WaitsAlone, DepositsAreRecorded
<1> QED
  BY <1>1, <1>2 DEF CashInv, CashIsKept

\* CashConserved with the sum by its name.
AccountsBalance ==
    IF ledger = None THEN \A k \in Key : deposit[k] = 0
    ELSE /\ ledger.collected = ledger.holding + ledger.deposited
         /\ ledger.deposited = SumOf(deposit, Key)

LEMMA BalanceIsConserved ==
  (CashConserved <=> AccountsBalance) /\ (CashConserved' <=> AccountsBalance')
BY Zenon DEF CashConserved, AccountsBalance, SumOf

\* What leaves the ledger and the deposits alone conserves the cash.
LEMMA CashUntouched ==
  ASSUME CashConserved, UNCHANGED cash
  PROVE  CashConserved'
BY BalanceIsConserved DEF AccountsBalance, cash

\* A job that moves with its rider keeps the cash with its collector; only one
\* without cash goes back to the queue or towards the store.
LEMMA MovesWithCash ==
  ASSUME TypeOK, CashInv, NEW next \in JobStatus, Transition(next),
         UNCHANGED ledger,
         next \in BeforeDelivery => ~HoldsCash,
         job.status # "WAITING_FOR_DISPATCH"
  PROVE  CashStaysWithCollector' /\ CashAfterPickup' /\ WaitsAlone'
<1>1. /\ job'.status = next
      /\ job'.rider = IF next = "WAITING_FOR_DISPATCH" THEN None ELSE job.rider
  BY DEF Transition
<1>2. job.rider # None
  BY DEF CashInv, WaitsAlone
<1>3. WaitsAlone'
  BY <1>1, <1>2 DEF WaitsAlone
<1>4. CashAfterPickup'
  BY <1>1 DEF CashAfterPickup, At, HoldsCash
<1>5. CashStaysWithCollector'
  BY <1>1, <1>2 DEF CashStaysWithCollector, CashInv, CashIsKept, HoldsCash,
                    BeforeDelivery
<1> QED
  BY <1>3, <1>4, <1>5

\* A step that leaves job, ledger, deposits and operations alone.
LEMMA CashInvStutters ==
  ASSUME CashInv, UNCHANGED <<job, cash, operation>>
  PROVE  CashInv'
BY CashUntouched
   DEF CashInv, CashIsKept, CashStaysWithCollector, CashAfterPickup, HoldsCash,
       At, WaitsAlone, DepositsAreRecorded, cash

\* A step on which the job moves and the cash does not.
LEMMA CashInvMoves ==
  ASSUME TypeOK, CashInv, NEW next \in JobStatus, Transition(next),
         UNCHANGED cash,
         \A k \in Key : operation'[k] = None => operation[k] = None,
         next \in BeforeDelivery => ~HoldsCash,
         job.status # "WAITING_FOR_DISPATCH"
  PROVE  CashInv'
<1>1. UNCHANGED ledger /\ UNCHANGED deposit
  BY DEF cash
<1>2. CashConserved'
  BY CashUntouched DEF CashInv, CashIsKept
<1>3. CashStaysWithCollector' /\ CashAfterPickup' /\ WaitsAlone'
  BY <1>1, MovesWithCash
<1>4. DepositsAreRecorded'
  BY <1>1 DEF CashInv, DepositsAreRecorded
<1> QED
  BY <1>2, <1>3, <1>4 DEF CashInv, CashIsKept

LEMMA CustodyCash ==
  ASSUME TypeOK, CashInv,
         \/ \E r \in Rider : Assign(r)
         \/ Unassign \/ RiderMoves \/ confirmReturn \/ startReturn
         \/ completeDelivery
  PROVE  CashInv'
<1>0. /\ UNCHANGED cash /\ UNCHANGED operation
      /\ \A k \in Key : operation'[k] = None => operation[k] = None
  BY DEF Assign, Unassign, RiderMoves, confirmReturn, startReturn,
         completeDelivery
<1>1. CASE \E r \in Rider : Assign(r)
  <2>1. PICK r \in Rider : Assign(r)
    BY <1>1
  <2>2. /\ job.status = "WAITING_FOR_DISPATCH"
        /\ job'.status = "RIDER_ASSIGNED" /\ job'.rider = r /\ r # None
    BY <2>1, ProofAssumption DEF Assign, At
  <2>3. ~HoldsCash
    BY <2>2 DEF CashInv, CashAfterPickup, At, BeforeDelivery
  <2>4. ~HoldsCash' /\ WaitsAlone'
    BY <1>0, <2>2, <2>3 DEF HoldsCash, cash, WaitsAlone
  <2>5. CashStaysWithCollector' /\ CashAfterPickup'
    BY <2>4 DEF CashStaysWithCollector, CashAfterPickup, HoldsCash
  <2> QED
    BY <1>0, <2>4, <2>5, CashUntouched
       DEF CashInv, CashIsKept, DepositsAreRecorded, cash
<1>2. CASE Unassign
  <2>1. /\ Transition("WAITING_FOR_DISPATCH") /\ job.status = "RIDER_ASSIGNED"
        /\ "WAITING_FOR_DISPATCH" \in JobStatus
    BY <1>2 DEF Unassign, At, JobStatus
  <2>2. ~HoldsCash
    BY <2>1 DEF CashInv, CashAfterPickup, At, BeforeDelivery
  <2> QED
    BY <1>0, <2>1, <2>2, CashInvMoves
<1>3. CASE RiderMoves
  <2>1. PICK next \in JobStatus :
           <<job.status, next>> \in RiderSteps /\ Transition(next)
    BY <1>3 DEF RiderMoves, NextStops
  <2>2. next \in BeforeDelivery => job.status \in BeforeDelivery
    BY <2>1 DEF RiderSteps, BeforeDelivery
  <2>3. next \in BeforeDelivery => ~HoldsCash
    BY <2>2 DEF CashInv, CashAfterPickup, At
  <2>4. job.status # "WAITING_FOR_DISPATCH"
    BY <2>1 DEF RiderSteps
  <2> QED
    BY <1>0, <2>1, <2>3, <2>4, CashInvMoves
<1>4. CASE confirmReturn
  <2>1. /\ Transition("RETURNED_TO_STORE") /\ "RETURNED_TO_STORE" \in JobStatus
        /\ job.status = "RETURNING_TO_STORE"
        /\ "RETURNED_TO_STORE" \notin BeforeDelivery
    BY <1>4 DEF confirmReturn, MayConfirmReturn, JobStatus, At, BeforeDelivery
  <2> QED
    BY <1>0, <2>1, CashInvMoves
<1>5. CASE startReturn
  <2>1. /\ Transition("RETURNING_TO_STORE")
        /\ "RETURNING_TO_STORE" \in JobStatus
        /\ job.status = "DELIVERY_FAILED"
        /\ "RETURNING_TO_STORE" \notin BeforeDelivery
    BY <1>5 DEF startReturn, MayReturn, JobStatus, At, BeforeDelivery
  <2> QED
    BY <1>0, <2>1, CashInvMoves
<1>6. CASE completeDelivery
  <2>1. /\ Transition("DELIVERED") /\ "DELIVERED" \in JobStatus
        /\ job.status = "RIDER_AT_CUSTOMER" /\ "DELIVERED" \notin BeforeDelivery
    BY <1>6 DEF completeDelivery, MayComplete, JobStatus, At, BeforeDelivery
  <2> QED
    BY <1>0, <2>1, CashInvMoves
<1> QED
  BY <1>1, <1>2, <1>3, <1>4, <1>5, <1>6

LEMMA PickupCash ==
  ASSUME TypeOK, CashInv,
         \/ confirmStorePickup
         \/ \E right \in BOOLEAN : verifyPickupChallenge(right)
  PROVE  CashInv'
<1>1. /\ UNCHANGED cash /\ UNCHANGED operation
      /\ job.status = "RIDER_AT_STORE"
      /\ recordPickupProof \/ UNCHANGED job
  BY DEF confirmStorePickup, MayConfirmPickup, verifyPickupChallenge,
         MayVerifyChallenge, At, custody
<1>2. CASE UNCHANGED job
  BY <1>1, <1>2, CashInvStutters
<1>3. CASE recordPickupProof /\ ~ UNCHANGED job
  <2>1. Transition("PICKUP_VERIFIED") /\ "PICKUP_VERIFIED" \in JobStatus
    BY <1>3 DEF recordPickupProof, custody, JobStatus
  <2>2. ~HoldsCash
    BY <1>1 DEF CashInv, CashAfterPickup, At, BeforeDelivery
  <2> QED
    BY <1>1, <2>1, <2>2, CashInvMoves
<1> QED
  BY <1>1, <1>2, <1>3

LEMMA FailureCash ==
  ASSUME TypeOK, CashInv, NEW k \in Key,
         \/ recordFailure(k)
         \/ \E action \in Resolution : resolveFailure(k, action)
  PROVE  CashInv'
<1>0. operation \in [Key -> OperationType \cup {None}]
  BY DEF TypeOK
<1>1. UNCHANGED cash /\ \A i \in Key : operation'[i] = None => operation[i] = None
  BY <1>0, ProofAssumption
     DEF recordFailure, resolveFailure, OperationType
<1>2. CASE recordFailure(k)
  <2>1. /\ Transition("DELIVERY_FAILED") /\ "DELIVERY_FAILED" \in JobStatus
        /\ job.status # "WAITING_FOR_DISPATCH"
        /\ "DELIVERY_FAILED" \notin BeforeDelivery
    BY <1>2 DEF recordFailure, At, FAILURE_STATUSES, JobStatus, BeforeDelivery
  <2> QED
    BY <1>1, <2>1, CashInvMoves
<1>3. ASSUME NEW action \in Resolution, resolveFailure(k, action)
      PROVE  CashInv'
  <2>1. job.status = "DELIVERY_FAILED"
    BY <1>3 DEF resolveFailure, MayResolve, At
  <2>2. CASE action = "ESCALATE_TO_ADMIN"
    <3>1. UNCHANGED job
      BY <1>3, <2>2 DEF resolveFailure, custody
    <3> QED
      BY <1>1, <3>1, CashUntouched
         DEF CashInv, CashIsKept, CashStaysWithCollector, CashAfterPickup,
             HoldsCash, At, WaitsAlone, DepositsAreRecorded, cash
  <2>3. CASE action # "ESCALATE_TO_ADMIN"
    <3>1. PICK next \in JobStatus :
             Transition(next) /\ (next \in BeforeDelivery => ~HoldsCash)
      BY <1>3, <2>3 DEF resolveFailure, MayResolve, Resolution, JobStatus,
                        BeforeDelivery
    <3> QED
      BY <1>1, <2>1, <3>1, CashInvMoves
  <2> QED
    BY <2>2, <2>3
<1> QED
  BY <1>2, <1>3

LEMMA CollectCash ==
  ASSUME TypeOK, CashInv, collectCod
  PROVE  CashInv'
<1>1. /\ ledger = None /\ ledger' # None /\ ledger'.rider = job.rider
      /\ ledger'.collected = Price /\ ledger'.holding = Price
      /\ ledger'.deposited = 0
      /\ UNCHANGED job /\ UNCHANGED deposit /\ UNCHANGED operation
      /\ job.status \in {"OUT_FOR_DELIVERY", "RIDER_AT_CUSTOMER"}
  <2> DEFINE row == [rider |-> job.rider, expected |-> Price,
                     collected |-> Price, holding |-> Price, deposited |-> 0,
                     variance |-> 0, status |-> "HELD_BY_RIDER"]
  <2>1. row \in Ledger
    BY ProofAssumption DEF Ledger, TypeOK, Job, Settlement
  <2>2. row # None
    BY <2>1, ProofAssumption
  <2> QED
    BY <2>2 DEF collectCod, MayCollect, custody, At
<1>2. \A k \in Key : deposit[k] = 0
  BY <1>1 DEF CashInv, CashIsKept, CashConserved
<1>3. SumOf(deposit, Key) = 0
  BY <1>2, ProofAssumption, SumZero
<1>4. CashConserved'
  BY <1>1, <1>3, ProofAssumption, BalanceIsConserved DEF AccountsBalance
<1>5. CashStaysWithCollector' /\ CashAfterPickup' /\ WaitsAlone'
  BY <1>1 DEF CashStaysWithCollector, CashAfterPickup, WaitsAlone, CashInv,
              At, BeforeDelivery
<1> QED
  BY <1>1, <1>4, <1>5 DEF CashInv, CashIsKept, DepositsAreRecorded

LEMMA SettleCash ==
  ASSUME TypeOK, CashInv, NEW k \in Key, NEW amount \in 1 .. Price,
         NEW finalize \in BOOLEAN, settleCod(k, amount, finalize)
  PROVE  CashInv'
<1>1. /\ ledger # None /\ ledger \in Ledger /\ ledger' \in Ledger
      /\ ledger'.rider = ledger.rider
      /\ ledger'.collected = ledger.collected
      /\ ledger'.holding = ledger.holding - amount
      /\ ledger'.deposited = ledger.deposited + amount
  BY SettledLedgerType DEF settleCod, MaySettle
<1>2. ledger' # None /\ amount \in Nat /\ Price \in Nat /\ IsFiniteSet(Key)
  BY <1>1, ProofAssumption
<1>3. /\ UNCHANGED job /\ operation[k] = None
      /\ deposit' = [deposit EXCEPT ![k] = amount]
      /\ operation' = [operation EXCEPT ![k] = "COD_SETTLED"]
      /\ deposit \in [Key -> Nat]
      /\ operation \in [Key -> OperationType \cup {None}]
  BY DEF settleCod, MaySettle, custody, Unused, TypeOK
<1>4. deposit[k] = 0
  BY <1>3 DEF CashInv, DepositsAreRecorded
<1>5. SumOf(deposit', Key) = SumOf(deposit, Key) + amount
  <2>1. /\ deposit \in [Key -> Int] /\ deposit' \in [Key -> Int]
        /\ deposit'[k] = amount /\ \A i \in Key \ {k} : deposit'[i] = deposit[i]
    BY <1>2, <1>3
  <2>2. SumOf(deposit', Key) = SumOf(deposit, Key) + amount - 0
    BY <1>2, <1>4, <2>1, SumUpdate
  <2>3. SumOf(deposit, Key) \in Int
    BY <1>2, <2>1, SumType
  <2> QED
    BY <1>2, <2>2, <2>3
<1>6. /\ ledger.collected = ledger.holding + ledger.deposited
      /\ ledger.deposited = SumOf(deposit, Key)
  BY <1>1, BalanceIsConserved DEF CashInv, CashIsKept, AccountsBalance
<1>7. /\ ledger'.collected = ledger'.holding + ledger'.deposited
      /\ ledger'.deposited = SumOf(deposit', Key)
  BY <1>1, <1>2, <1>5, <1>6 DEF Ledger
<1>8. CashConserved'
  BY <1>2, <1>7, BalanceIsConserved DEF AccountsBalance
<1>9. HoldsCash' => HoldsCash
  BY <1>1, <1>2 DEF HoldsCash, Ledger
<1>10. CashStaysWithCollector' /\ CashAfterPickup' /\ WaitsAlone'
  BY <1>1, <1>3, <1>9
     DEF CashStaysWithCollector, CashAfterPickup, WaitsAlone, CashInv,
         CashIsKept, At, HoldsCash
<1>11. DepositsAreRecorded'
  BY <1>3, ProofAssumption
     DEF CashInv, DepositsAreRecorded, OperationType
<1> QED
  BY <1>8, <1>10, <1>11 DEF CashInv, CashIsKept

LEMMA NextCashInv == TypeOK /\ CashInv /\ [Next]_vars => CashInv'
<1> SUFFICES ASSUME TypeOK, CashInv, [Next]_vars PROVE CashInv'
  OBVIOUS
<1>1. CASE \/ UNCHANGED vars \/ pickup \/ verifyPickup \/ reportPickupProblem
           \/ issuePickupChallenge \/ ChallengeExpires
           \/ issueOtp \/ OtpExpires \/ rejectOtp \/ forceCancel
           \/ \E sellable \in Sellable : inspectReturn(sellable)
  <2>1. UNCHANGED <<job, cash, operation>>
    BY <1>1 DEF vars, custody, pickup, verifyPickup, reportPickupProblem,
                SaveTask, issuePickupChallenge, ChallengeExpires, issueOtp,
                OtpExpires, rejectOtp, forceCancel, inspectReturn
  <2> QED
    BY <2>1, CashInvStutters
<1>2. CASE \/ \E r \in Rider : Assign(r)
           \/ Unassign \/ RiderMoves \/ confirmReturn \/ startReturn
           \/ completeDelivery
  BY <1>2, CustodyCash
<1>3. CASE \/ confirmStorePickup
           \/ \E right \in BOOLEAN : verifyPickupChallenge(right)
  BY <1>3, PickupCash
<1>4. CASE \E k \in Key : \/ recordFailure(k)
                          \/ \E action \in Resolution : resolveFailure(k, action)
  BY <1>4, FailureCash
<1>5. CASE collectCod
  BY <1>5, CollectCash
<1>6. CASE \E k \in Key, amount \in 1 .. Price, finalize \in BOOLEAN :
              settleCod(k, amount, finalize)
  BY <1>6, SettleCash
<1> QED
  BY <1>1, <1>2, <1>3, <1>4, <1>5, <1>6 DEF Next

-----------------------------------------------------------------------------
(* Refunds *)

\* What the refund of a captured payment follows: it is written in the step
\* that takes the payment out of CAPTURED, and a cancelled job has taken that
\* step, or the order has before it.
RefundInv ==
    payment.method = "ONLINE" =>
        /\ payment.status # "PENDING_COD"
        /\ payment.status = "CAPTURED" => payment.refunds = 0
        /\ payment.status = "REFUND_PENDING" => payment.refunds = Price
        /\ job.status = "CANCELLED" => payment.status = "REFUND_PENDING"

LEMMA RefundInvSuffices == TypeOK /\ RefundInv => RefundedOnce
BY ProofAssumption DEF RefundInv, RefundedOnce, TypeOK, Payment

LEMMA InitRefundInv == Init => RefundInv
BY DEF Init, RefundInv

\* A refund takes the payment out of CAPTURED, with the whole amount.
LEMMA RefundWhole ==
  ASSUME TypeOK, RefundInv, payment' = Refunded
  PROVE  /\ payment'.method = payment.method
         /\ payment.method = "ONLINE" => /\ payment'.status = "REFUND_PENDING"
                                         /\ payment'.refunds = Price
<1>1. payment \in Payment /\ Price \in Nat \ {0}
  BY ProofAssumption DEF TypeOK
<1>2. CASE payment.method = "ONLINE" /\ payment.status = "CAPTURED"
  <2>1. payment.refunds = 0 /\ payment.refunds # Price
    BY <1>1, <1>2 DEF RefundInv
  <2>2. payment' = [payment EXCEPT !.status = "REFUND_PENDING",
                                   !.refunds = payment.refunds + Price]
    BY <1>2, <2>1 DEF Refunded
  <2> QED
    BY <1>1, <2>1, <2>2 DEF Payment
<1>3. CASE ~ (payment.method = "ONLINE" /\ payment.status = "CAPTURED")
  BY <1>1, <1>3 DEF Refunded, RefundInv, Payment
<1> QED
  BY <1>2, <1>3

LEMMA ResolveRefunds ==
  ASSUME TypeOK, RefundInv, NEW k \in Key, NEW action \in Resolution,
         resolveFailure(k, action)
  PROVE  RefundInv'
<1>1. CASE action = "CANCEL_AND_REFUND"
  <2>1. payment' = Refunded
    BY <1>1 DEF resolveFailure
  <2> QED
    BY <2>1, RefundWhole DEF RefundInv
<1>2. CASE action # "CANCEL_AND_REFUND"
  <2>1. UNCHANGED payment /\ job.status = "DELIVERY_FAILED"
    BY <1>2 DEF resolveFailure, MayResolve, At
  <2>2. job'.status # "CANCELLED"
    <3>1. \/ \E next \in JobStatus \ {"CANCELLED"} : Transition(next)
          \/ UNCHANGED job
      BY <1>2 DEF resolveFailure, Resolution, JobStatus, custody
    <3> QED
      BY <2>1, <3>1 DEF Transition
  <2> QED
    BY <2>1, <2>2 DEF RefundInv
<1> QED
  BY <1>1, <1>2

LEMMA ForceCancelRefunds ==
  ASSUME TypeOK, RefundInv, forceCancel
  PROVE  RefundInv'
<1>1. payment \in Payment /\ Price \in Nat /\ UNCHANGED job
  BY ProofAssumption DEF TypeOK, forceCancel
<1>2. CASE payment.status = "CAPTURED"
  <2>1. payment' = [payment EXCEPT !.status = "REFUND_PENDING",
                                   !.refunds = payment.refunds + Price]
    BY <1>2 DEF forceCancel
  <2> QED
    BY <1>1, <1>2, <2>1 DEF RefundInv, Payment
<1>3. CASE payment.status # "CAPTURED"
  BY <1>1, <1>3 DEF RefundInv, forceCancel
<1> QED
  BY <1>2, <1>3

LEMMA NextRefundInv == TypeOK /\ RefundInv /\ [Next]_vars => RefundInv'
<1> SUFFICES ASSUME TypeOK, RefundInv, [Next]_vars PROVE RefundInv'
  OBVIOUS
<1>1. CASE \/ UNCHANGED vars
           \/ pickup \/ verifyPickup \/ reportPickupProblem
           \/ issuePickupChallenge \/ ChallengeExpires
           \/ issueOtp \/ OtpExpires \/ rejectOtp
           \/ \E sellable \in Sellable : inspectReturn(sellable)
           \/ \E k \in Key, amount \in 1 .. Price, finalize \in BOOLEAN :
                 settleCod(k, amount, finalize)
  <2>1. UNCHANGED job /\ UNCHANGED payment
    BY <1>1 DEF vars, custody, pickup, verifyPickup, reportPickupProblem,
                SaveTask, issuePickupChallenge, ChallengeExpires, issueOtp,
                OtpExpires, rejectOtp, settleCod, inspectReturn
  <2> QED
    BY <2>1 DEF RefundInv
<1>2. CASE \/ \E r \in Rider : Assign(r)
           \/ Unassign \/ RiderMoves \/ confirmReturn \/ startReturn
           \/ completeDelivery \/ confirmStorePickup
           \/ \E right \in BOOLEAN : verifyPickupChallenge(right)
           \/ \E k \in Key : recordFailure(k)
  <2>1. /\ UNCHANGED payment
        /\ job'.status = "CANCELLED" => job.status = "CANCELLED"
    BY <1>2 DEF Assign, Unassign, RiderMoves, NextStops, RiderSteps,
                confirmReturn, MayConfirmReturn, startReturn, MayReturn,
                completeDelivery, MayComplete, confirmStorePickup,
                MayConfirmPickup, verifyPickupChallenge, MayVerifyChallenge,
                recordPickupProof, recordFailure, Transition, custody
  <2> QED
    BY <2>1 DEF RefundInv
<1>3. CASE \E k \in Key, action \in Resolution : resolveFailure(k, action)
  BY <1>3, ResolveRefunds
<1>4. CASE forceCancel
  BY <1>4, ForceCancelRefunds
<1>5. CASE collectCod
  <2>1. payment.method # "ONLINE" /\ payment'.method = payment.method
    BY <1>5 DEF collectCod, MayCollect, TypeOK, Payment
  <2> QED
    BY <2>1 DEF RefundInv
<1> QED
  BY <1>1, <1>2, <1>3, <1>4, <1>5 DEF Next

-----------------------------------------------------------------------------
(* Attempts *)

\* The open code has as many guesses as it counts, fewer than its limit, and a
\* code that is not issued yet has none.
GuessesInv ==
    /\ otp # None => guesses[otp.id] = otp.attempts
                     /\ otp.attempts < OTP_MAX_ATTEMPTS
    /\ \A i \in 1 .. IssueLimit : i > issued => guesses[i] = 0
    /\ GuessesBounded

AttemptsInv == CodeIsIssued /\ GuessesInv /\ FailureCountedOnce

LEMMA InitAttemptsInv == Init => AttemptsInv
<1> SUFFICES ASSUME Init PROVE AttemptsInv
  OBVIOUS
<1>1. {k \in Key : operation[k] = "DELIVERY_FAILURE_RECORDED"} = {}
  BY ProofAssumption DEF Init, OperationType
<1>2. FailureCountedOnce
  BY <1>1, FS_EmptySet DEF Init, FailureCountedOnce
<1>3. CodeIsIssued /\ GuessesInv
  BY ProofAssumption DEF Init, CodeIsIssued, GuessesInv, GuessesBounded
<1> QED
  BY <1>2, <1>3 DEF AttemptsInv

LEMMA CodeGuesses ==
  ASSUME TypeOK, CodeIsIssued, GuessesInv,
         issueOtp \/ OtpExpires \/ rejectOtp \/ completeDelivery
  PROVE  CodeIsIssued' /\ GuessesInv'
<1> USE ProofAssumption
<1>0. /\ issued \in 0 .. IssueLimit /\ guesses \in [1 .. IssueLimit -> Nat]
      /\ otp \in Issue \cup {None} /\ None \notin Issue
      /\ OTP_MAX_ATTEMPTS \in Nat \ {0} /\ IssueLimit \in Nat
  BY DEF TypeOK
<1>1. CASE issueOtp
  <2>1. /\ issued' = issued + 1 /\ issued' \in 1 .. IssueLimit
        /\ otp' = [id |-> issued', attempts |-> 0, expired |-> FALSE]
        /\ guesses' = guesses
    BY <1>0, <1>1 DEF issueOtp, MayIssueOtp
  <2>2. guesses[issued'] = 0
    BY <1>0, <2>1 DEF GuessesInv
  <2>3. otp'.id = issued' /\ otp'.attempts = 0
    BY <2>1
  <2> QED
    BY <1>0, <2>1, <2>2, <2>3 DEF CodeIsIssued, GuessesInv, GuessesBounded
<1>2. CASE OtpExpires
  <2>1. /\ otp \in Issue /\ UNCHANGED guesses /\ UNCHANGED issued
        /\ otp' = [otp EXCEPT !.expired = TRUE]
    BY <1>0, <1>2 DEF OtpExpires
  <2>2. otp'.id = otp.id /\ otp'.attempts = otp.attempts /\ otp # None
    BY <1>2, <2>1 DEF Issue, OtpExpires
  <2> QED
    BY <1>0, <2>1, <2>2 DEF CodeIsIssued, GuessesInv, GuessesBounded
<1>3. CASE rejectOtp
  <2>1. otp \in Issue /\ otp # None /\ UNCHANGED issued
    BY <1>0, <1>3 DEF rejectOtp
  <2>2. CASE otp.expired
    <3>1. otp' = None /\ UNCHANGED guesses
      BY <1>3, <2>2 DEF rejectOtp
    <3> QED
      BY <2>1, <3>1 DEF CodeIsIssued, GuessesInv, GuessesBounded
  <2>3. CASE ~ otp.expired
    <3>1. /\ otp' = GuessedOtp(otp)
          /\ guesses' = [guesses EXCEPT ![otp.id] = @ + 1]
      BY <1>3, <2>3 DEF rejectOtp
    <3>2. /\ otp.id \in 1 .. IssueLimit /\ otp.id = issued
          /\ otp.attempts \in Nat
          /\ guesses[otp.id] = otp.attempts
          /\ otp.attempts < OTP_MAX_ATTEMPTS
      BY <2>1 DEF CodeIsIssued, GuessesInv, Issue
    <3>3. /\ guesses'[otp.id] = otp.attempts + 1
          /\ \A i \in 1 .. IssueLimit :
                i # otp.id => guesses'[i] = guesses[i]
      BY <1>0, <3>1, <3>2
    <3>4. GuessesBounded'
      BY <1>0, <3>2, <3>3 DEF GuessesBounded, GuessesInv
    <3>5. \A i \in 1 .. IssueLimit : i > issued' => guesses'[i] = 0
      BY <1>0, <2>1, <3>2, <3>3 DEF GuessesInv
    <3>6. CASE otp.attempts + 1 >= OTP_MAX_ATTEMPTS
      <4>1. otp' = None
        BY <3>1, <3>6 DEF GuessedOtp, Guessed
      <4> QED
        BY <3>4, <3>5, <4>1 DEF CodeIsIssued, GuessesInv
    <3>7. CASE ~ (otp.attempts + 1 >= OTP_MAX_ATTEMPTS)
      <4>1. otp' = [otp EXCEPT !.attempts = otp.attempts + 1]
        BY <3>1, <3>7 DEF GuessedOtp, Guessed
      <4>2. otp'.id = otp.id /\ otp'.attempts = otp.attempts + 1
        BY <2>1, <4>1 DEF Issue
      <4>3. otp'.attempts < OTP_MAX_ATTEMPTS
        BY <1>0, <3>2, <3>7, <4>2
      <4> QED
        BY <2>1, <3>2, <3>3, <3>4, <3>5, <4>2, <4>3
           DEF CodeIsIssued, GuessesInv
    <3> QED
      BY <3>6, <3>7
  <2> QED
    BY <2>2, <2>3
<1>4. CASE completeDelivery
  BY <1>0, <1>4 DEF completeDelivery, CodeIsIssued, GuessesInv, GuessesBounded
<1> QED
  BY <1>1, <1>2, <1>3, <1>4

\* A key is taken once, so each recorded failure adds one.
LEMMA FailureAddsOne ==
  ASSUME TypeOK, FailureCountedOnce, NEW k \in Key, recordFailure(k)
  PROVE  FailureCountedOnce'
<1> DEFINE F == {i \in Key : operation[i] = "DELIVERY_FAILURE_RECORDED"}
           G == {i \in Key : operation'[i] = "DELIVERY_FAILURE_RECORDED"}
<1>1. /\ operation \in [Key -> OperationType \cup {None}]
      /\ operation' = [operation EXCEPT ![k] = "DELIVERY_FAILURE_RECORDED"]
      /\ operation[k] = None /\ failures' = failures + 1
  BY DEF TypeOK, recordFailure, Unused
<1>2. k \notin F /\ G = F \cup {k}
  BY <1>1, ProofAssumption DEF OperationType
<1>3. IsFiniteSet(F)
  BY ProofAssumption, FS_Subset
<1>4. Cardinality(G) = Cardinality(F) + 1
  BY <1>2, <1>3, FS_AddElement
<1> QED
  BY <1>1, <1>4 DEF FailureCountedOnce

\* Another operation under an unused key is no failure.
LEMMA OthersAddNone ==
  ASSUME TypeOK, FailureCountedOnce, UNCHANGED failures,
         \A k \in Key : \/ operation'[k] = operation[k]
                        \/ /\ operation[k] = None
                           /\ operation'[k] # "DELIVERY_FAILURE_RECORDED"
  PROVE  FailureCountedOnce'
<1>1. {k \in Key : operation'[k] = "DELIVERY_FAILURE_RECORDED"}
        = {k \in Key : operation[k] = "DELIVERY_FAILURE_RECORDED"}
  BY ProofAssumption DEF OperationType
<1> QED
  BY <1>1 DEF FailureCountedOnce

LEMMA NextAttemptsInv == TypeOK /\ AttemptsInv /\ [Next]_vars => AttemptsInv'
<1> SUFFICES ASSUME TypeOK, AttemptsInv, [Next]_vars PROVE AttemptsInv'
  OBVIOUS
<1> USE DEF AttemptsInv
<1>0. operation \in [Key -> OperationType \cup {None}]
  BY DEF TypeOK
<1>1. CodeIsIssued' /\ GuessesInv'
  <2>1. CASE issueOtp \/ OtpExpires \/ rejectOtp \/ completeDelivery
    BY <2>1, CodeGuesses
  <2>2. CASE ~ (issueOtp \/ OtpExpires \/ rejectOtp \/ completeDelivery)
    <3>1. UNCHANGED <<otp, guesses, issued>>
      BY <2>2 DEF Next, vars, codes, Assign, Unassign, RiderMoves, pickup,
                  verifyPickup, reportPickupProblem, SaveTask,
                  issuePickupChallenge, ChallengeExpires, confirmStorePickup,
                  verifyPickupChallenge, recordFailure, resolveFailure,
                  settleCod, startReturn, confirmReturn, inspectReturn,
                  collectCod, forceCancel
    <3> QED
      BY <3>1 DEF CodeIsIssued, GuessesInv, GuessesBounded
  <2> QED
    BY <2>1, <2>2
<1>2. FailureCountedOnce'
  <2>1. CASE \E k \in Key : recordFailure(k)
    BY <2>1, FailureAddsOne
  <2>2. CASE \E k \in Key :
                \/ \E action \in Resolution : resolveFailure(k, action)
                \/ \E amount \in 1 .. Price, finalize \in BOOLEAN :
                      settleCod(k, amount, finalize)
    <3>1. /\ UNCHANGED failures
          /\ \E k \in Key, type \in OperationType :
                /\ operation[k] = None /\ type # "DELIVERY_FAILURE_RECORDED"
                /\ operation' = [operation EXCEPT ![k] = type]
      BY <2>2 DEF resolveFailure, MayResolve, settleCod, MaySettle, Unused,
                  OperationType, resolution
    <3> QED
      BY <1>0, <3>1, OthersAddNone
  <2>3. CASE ~ \E k \in Key :
                \/ recordFailure(k)
                \/ \E action \in Resolution : resolveFailure(k, action)
                \/ \E amount \in 1 .. Price, finalize \in BOOLEAN :
                      settleCod(k, amount, finalize)
    <3>1. UNCHANGED failures /\ UNCHANGED operation
      BY <2>3 DEF Next, vars, resolution, Assign, Unassign, RiderMoves, pickup,
                  verifyPickup, reportPickupProblem, SaveTask,
                  issuePickupChallenge, ChallengeExpires, confirmStorePickup,
                  verifyPickupChallenge, issueOtp, OtpExpires, rejectOtp,
                  completeDelivery, startReturn, confirmReturn, inspectReturn,
                  collectCod, forceCancel
    <3> QED
      BY <3>1 DEF FailureCountedOnce
  <2> QED
    BY <2>1, <2>2, <2>3
<1> QED
  BY <1>1, <1>2

-----------------------------------------------------------------------------
(* The theorems *)

\* Every row of a delivery has its type, and the code that is open is the last
\* one issued (the handlers of delivery-operations).
THEOREM DeliveryTypes == Spec => []TypeOK
<1>1. Init => TypeOK /\ AttemptsInv
  BY InitTypeOK, InitAttemptsInv
<1>2. TypeOK /\ AttemptsInv /\ [Next]_vars => (TypeOK /\ AttemptsInv)'
  BY NextTypeOK, NextAttemptsInv DEF AttemptsInv
<1> QED
  BY <1>1, <1>2, PTL DEF Spec

\* The cash of a delivery is accounted for coin by coin, each deposit once, and
\* is owed by the rider who is on the job, however often calls are repeated,
\* deliveries fail and riders change (collectCod, settleCod, resolveFailure).
THEOREM CashKept == Spec => []CashIsKept
<1>1. Init => CashInv
  BY InitCashInv
<1>2. TypeOK /\ CashInv /\ [Next]_vars => CashInv'
  BY NextCashInv
<1>3. CashInv => CashIsKept
  BY DEF CashInv
<1> QED
  BY <1>1, <1>2, <1>3, DeliveryTypes, PTL DEF Spec

\* A captured online payment is refunded once and in full, whether the order,
\* the delivery or both are cancelled, in either order (resolveFailure,
\* forceCancel).
THEOREM CancelledRefundedOnce == Spec => []RefundedOnce
<1>1. Init => RefundInv
  BY InitRefundInv
<1>2. TypeOK /\ RefundInv /\ [Next]_vars => RefundInv'
  BY NextRefundInv
<1>3. TypeOK /\ RefundInv => RefundedOnce
  BY RefundInvSuffices
<1> QED
  BY <1>1, <1>2, <1>3, DeliveryTypes, PTL DEF Spec

\* No code is guessed more often than its limit, and a failure reported once is
\* recorded once, whatever expires, fails and is retried (rejectOtp,
\* recordFailure).
THEOREM AttemptsCounted == Spec => []AttemptsAreCounted
<1>1. Init => AttemptsInv
  BY InitAttemptsInv
<1>2. TypeOK /\ AttemptsInv /\ [Next]_vars => AttemptsInv'
  BY NextAttemptsInv
<1>3. AttemptsInv => AttemptsAreCounted
  BY DEF AttemptsInv, GuessesInv, AttemptsAreCounted
<1> QED
  BY <1>1, <1>2, <1>3, DeliveryTypes, PTL DEF Spec

\* A ledger that is settled or under review is never written again, neither by
\* a deposit nor by a collection after a retry (settleCod, collectCod).
THEOREM ClosedLedgerStays == Spec => LedgerIsFinal
<1>1. [Next]_vars =>
         [ledger # None /\ ledger.status \in {"SETTLED", "VARIANCE_REVIEW"} =>
             ledger' = ledger]_vars
  <2> SUFFICES ASSUME Next, ledger # None,
                      ledger.status \in {"SETTLED", "VARIANCE_REVIEW"}
               PROVE  ledger' = ledger
    OBVIOUS
  <2>1. ~ collectCod
    BY DEF collectCod, MayCollect
  <2>2. \A k \in Key, amount \in 1 .. Price, finalize \in BOOLEAN :
           ~ settleCod(k, amount, finalize)
    BY DEF settleCod, MaySettle, Final
  <2> QED
    BY <2>1, <2>2
       DEF Next, cash, Assign, Unassign, RiderMoves, pickup, verifyPickup,
           reportPickupProblem, SaveTask, issuePickupChallenge,
           ChallengeExpires, confirmStorePickup, verifyPickupChallenge,
           issueOtp, OtpExpires, rejectOtp, completeDelivery, recordFailure,
           resolveFailure, startReturn, confirmReturn, inspectReturn,
           forceCancel
<1> QED
  BY <1>1, PTL DEF Spec, LedgerIsFinal

-----------------------------------------------------------------------------
(* The screens.  A page tells what the server will take by a few columns of  *)
(* its rows, so what else the rows hold must follow from these: of a ledger  *)
(* that is open, settled or not there, and of a delivery that failed.        *)

\* An order without a collection is unpaid; with one it is paid in full, and
\* the status of its ledger says whether the rider still holds something.
LedgerTells ==
    IF ledger = None
    THEN payment.method = "COD" => payment.status = "PENDING_COD"
    ELSE /\ payment.method = "COD"
         /\ payment.status \in {"CAPTURED", "REFUND_PENDING"}
         /\ ledger.expected = Price /\ ledger.collected = Price
         /\ ledger.status # "VARIANCE_REVIEW" =>
               ledger.variance = 0 /\ (ledger.holding = 0 <=> Final)
         /\ ~CodSettled => ledger.holding = Price /\ ~Final

\* A failed delivery has a decision to apply.
FailureIsDecided == At({"DELIVERY_FAILED"}) => decision # None

PanelInv == LedgerTells /\ FailureIsDecided

LEMMA InitPanelInv == Init => PanelInv
<1> SUFFICES ASSUME Init PROVE PanelInv
  OBVIOUS
<1>1. ledger = None /\ job.status = "WAITING_FOR_DISPATCH"
      /\ payment.method = "COD" => payment.status = "PENDING_COD"
  BY DEF Init
<1>2. QED
  BY <1>1 DEF PanelInv, LedgerTells, FailureIsDecided, At, Init

\* A call recorded under an unused key does not undo a settlement.
LEMMA SettledStays ==
  ASSUME TypeOK, \A k \in Key : operation[k] # None => operation'[k] = operation[k]
  PROVE  CodSettled => CodSettled'
BY ProofAssumption DEF CodSettled, OperationType

\* What leaves ledger, payment and settlements alone leaves LedgerTells.
LEMMA LedgerStays ==
  ASSUME LedgerTells, UNCHANGED <<ledger, payment>>, CodSettled => CodSettled'
  PROVE  LedgerTells'
BY DEF LedgerTells, Final

\* The collection opens a ledger of the whole price.
LEMMA CollectTells ==
  ASSUME TypeOK, collectCod
  PROVE  LedgerTells'
<1>1. payment \in Payment /\ Price \in Nat \ {0}
  BY ProofAssumption DEF TypeOK
<1>2. payment'.method = "COD" /\ payment'.status = "CAPTURED"
  BY <1>1 DEF collectCod, MayCollect, Payment
<1> DEFINE row == [rider |-> job.rider, expected |-> Price,
                   collected |-> Price, holding |-> Price, deposited |-> 0,
                   variance |-> 0, status |-> "HELD_BY_RIDER"]
<1>3. ledger' = row
  BY DEF collectCod
<1>4. row \in Ledger
  BY <1>1 DEF TypeOK, Job, Ledger, Settlement
<1>5. ledger' # None
  BY <1>3, <1>4, ProofAssumption
<1>6. QED
  BY <1>1, <1>2, <1>3, <1>5 DEF LedgerTells, Final

\* A deposit closes the ledger if nothing is left, or if it is told to: then
\* it is settled without a variance and under review with one.
LEMMA SettleTells ==
  ASSUME TypeOK, CashInv, LedgerTells, NEW k \in Key,
         NEW amount \in 1 .. Price, NEW finalize \in BOOLEAN,
         settleCod(k, amount, finalize)
  PROVE  LedgerTells'
<1> DEFINE holding == ledger.holding - amount
           variance == ledger.expected - (ledger.deposited + amount)
<1>1. /\ ledger # None /\ ledger \in Ledger /\ ledger' \in Ledger
      /\ ledger'.collected = ledger.collected
      /\ ledger'.holding = holding
  BY SettledLedgerType DEF settleCod, MaySettle
<1>2. ledger' # None
  BY <1>1, ProofAssumption
<1>3. /\ ledger'.expected = ledger.expected
      /\ ledger'.variance = IF finalize THEN variance ELSE 0
      /\ ledger'.status = SettlementStatus(finalize, variance, holding)
  BY <1>1 DEF settleCod, HoldingAfter, Ledger
<1>4. ledger.collected = ledger.holding + ledger.deposited
  BY <1>1 DEF CashInv, CashIsKept, CashConserved
<1>5. /\ payment' = payment /\ payment.method = "COD"
      /\ payment.status \in {"CAPTURED", "REFUND_PENDING"}
      /\ ledger.expected = Price /\ ledger.collected = Price
  BY <1>1 DEF settleCod, LedgerTells
<1>6. variance = holding
  BY <1>1, <1>4, <1>5, ProofAssumption DEF Ledger
<1>7. CodSettled'
  BY DEF settleCod, CodSettled, TypeOK
<1>8. ledger'.status # "VARIANCE_REVIEW" =>
         ledger'.variance = 0 /\ (ledger'.holding = 0 <=> Final')
  <2> HIDE DEF holding, variance
  <2> QED
    BY <1>1, <1>3, <1>6 DEF SettlementStatus, Final
<1>9. QED
  BY <1>1, <1>2, <1>3, <1>5, <1>7, <1>8 DEF LedgerTells

\* A cancelled order is refunded; cash never collected stays pending.
LEMMA ForceCancelTells ==
  ASSUME TypeOK, LedgerTells, forceCancel
  PROVE  LedgerTells'
<1>1. payment \in Payment /\ ledger' = ledger /\ operation' = operation
  BY DEF forceCancel, TypeOK, cash
<1>2. /\ payment'.method = payment.method
      /\ payment'.status = IF payment.status = "CAPTURED"
                           THEN "REFUND_PENDING" ELSE payment.status
  BY <1>1 DEF forceCancel, Payment
<1>3. QED
  BY <1>1, <1>2 DEF LedgerTells, Final, CodSettled

\* The refund of a cancelled delivery is of a payment online.
LEMMA ResolveTells ==
  ASSUME TypeOK, LedgerTells, NEW k \in Key, NEW action \in Resolution,
         resolveFailure(k, action)
  PROVE  LedgerTells'
<1>1. payment \in Payment /\ Refunded \in Payment /\ ledger' = ledger
  BY RefundedType DEF resolveFailure, TypeOK, cash
<1>2. payment.method = "COD" => payment' = payment
  BY DEF resolveFailure, Refunded
<1>3. payment'.method = payment.method
  BY <1>1 DEF resolveFailure, Refunded, Payment
<1>4. \A i \in Key : operation[i] # None => operation'[i] = operation[i]
  BY DEF resolveFailure, MayResolve, Unused, TypeOK
<1>5. CodSettled => CodSettled'
  BY <1>4, SettledStays
<1>6. CASE payment.method = "COD"
  BY <1>1, <1>2, <1>5, <1>6, LedgerStays
<1>7. CASE payment.method # "COD"
  BY <1>1, <1>3, <1>7 DEF LedgerTells
<1>8. QED
  BY <1>6, <1>7

LEMMA NextLedgerTells ==
  ASSUME TypeOK, CashInv, LedgerTells, [Next]_vars
  PROVE  LedgerTells'
<1>1. CASE \/ UNCHANGED vars
           \/ \E r \in Rider : Assign(r)
           \/ Unassign \/ RiderMoves
           \/ pickup \/ verifyPickup \/ reportPickupProblem
           \/ issuePickupChallenge \/ ChallengeExpires \/ confirmStorePickup
           \/ \E right \in BOOLEAN : verifyPickupChallenge(right)
           \/ issueOtp \/ OtpExpires \/ rejectOtp \/ completeDelivery
           \/ startReturn \/ confirmReturn
           \/ \E sellable \in Sellable : inspectReturn(sellable)
  <2>1. UNCHANGED <<ledger, payment, operation>>
    BY <1>1
       DEF vars, cash, Assign, Unassign, RiderMoves, pickup, verifyPickup,
           reportPickupProblem, SaveTask, issuePickupChallenge,
           ChallengeExpires, confirmStorePickup, verifyPickupChallenge,
           issueOtp, OtpExpires, rejectOtp, completeDelivery, startReturn,
           confirmReturn, inspectReturn
  <2> QED
    BY <2>1, LedgerStays DEF CodSettled
<1>2. CASE \E k \in Key : recordFailure(k)
  <2>1. PICK k \in Key : recordFailure(k)
    BY <1>2
  <2>2. UNCHANGED <<ledger, payment>>
    BY <2>1 DEF recordFailure, cash
  <2>3. \A i \in Key : operation[i] # None => operation'[i] = operation[i]
    BY <2>1 DEF recordFailure, Unused, TypeOK
  <2> QED
    BY <2>2, <2>3, SettledStays, LedgerStays
<1>3. CASE \E k \in Key, action \in Resolution : resolveFailure(k, action)
  BY <1>3, ResolveTells
<1>4. CASE \E k \in Key, amount \in 1 .. Price, finalize \in BOOLEAN :
              settleCod(k, amount, finalize)
  BY <1>4, SettleTells
<1>5. CASE collectCod
  BY <1>5, CollectTells
<1>6. CASE forceCancel
  BY <1>6, ForceCancelTells
<1>7. QED
  BY <1>1, <1>2, <1>3, <1>4, <1>5, <1>6 DEF Next

\* Only recordFailure fails a delivery, with a decision, and only the steps
\* that end a failure take its decision.
LEMMA NextFailureIsDecided ==
  ASSUME TypeOK, FailureIsDecided, [Next]_vars
  PROVE  FailureIsDecided'
<1> USE DEF FailureIsDecided, At, custody, resolution
<1>1. CASE \/ UNCHANGED vars
           \/ pickup \/ verifyPickup \/ reportPickupProblem
           \/ issuePickupChallenge \/ ChallengeExpires
           \/ issueOtp \/ OtpExpires \/ rejectOtp
           \/ \E sellable \in Sellable : inspectReturn(sellable)
           \/ \E k \in Key, amount \in 1 .. Price, finalize \in BOOLEAN :
                 settleCod(k, amount, finalize)
           \/ collectCod \/ forceCancel
  <2>1. UNCHANGED <<job, decision>>
    BY <1>1
       DEF vars, pickup, verifyPickup, reportPickupProblem, SaveTask,
           issuePickupChallenge, ChallengeExpires, issueOtp, OtpExpires,
           rejectOtp, inspectReturn, settleCod, collectCod, forceCancel
  <2> QED
    BY <2>1
<1>2. CASE \/ \E r \in Rider : Assign(r)
           \/ Unassign \/ RiderMoves \/ confirmReturn \/ startReturn
           \/ completeDelivery
  <2>1. job'.status # "DELIVERY_FAILED"
    BY <1>2
       DEF Assign, Unassign, RiderMoves, NextStops, RiderSteps, confirmReturn,
           startReturn, completeDelivery, Transition
  <2> QED
    BY <2>1
<1>3. CASE \/ confirmStorePickup
           \/ \E right \in BOOLEAN : verifyPickupChallenge(right)
  <2>1. /\ decision' = decision
        /\ job' = job \/ job'.status = "PICKUP_VERIFIED"
    BY <1>3
       DEF confirmStorePickup, verifyPickupChallenge, recordPickupProof,
           Transition
  <2> QED
    BY <2>1
<1>4. CASE \E k \in Key : recordFailure(k)
  BY <1>4, ProofAssumption DEF recordFailure, Recommended, Resolution
<1>5. CASE \E k \in Key, action \in Resolution : resolveFailure(k, action)
  <2>1. PICK k \in Key, action \in Resolution : resolveFailure(k, action)
    BY <1>5
  <2>2. CASE action = "ESCALATE_TO_ADMIN"
    BY <2>1, <2>2, ProofAssumption DEF resolveFailure
  <2>3. CASE action # "ESCALATE_TO_ADMIN"
    <3>1. \E next \in {"OUT_FOR_DELIVERY", "WAITING_FOR_DISPATCH",
                       "RETURNING_TO_STORE", "CANCELLED"} : Transition(next)
      BY <2>1, <2>3 DEF resolveFailure, Resolution
    <3>2. job'.status # "DELIVERY_FAILED"
      BY <3>1 DEF Transition
    <3> QED
      BY <3>2
  <2> QED
    BY <2>2, <2>3
<1>6. QED
  BY <1>1, <1>2, <1>3, <1>4, <1>5 DEF Next

LEMMA NextPanelInv == TypeOK /\ CashInv /\ PanelInv /\ [Next]_vars => PanelInv'
BY NextLedgerTells, NextFailureIsDecided DEF PanelInv

\* A call that is offered where the server takes it; one lemma per screen.
\* Calls of the rider's portal.
LEMMA RiderPortalIsTaken ==
  ASSUME TypeOK, PanelInv, RoomLeft, NEW call \in Matched \cap RiderPortal
  PROVE  Taken(call)
<1>1. job.status \in JobStatus
  BY DEF TypeOK, Job
<1>2. call \in TravelPanel => Taken(call)
  <2>1. At({"RIDER_ASSIGNED", "RIDER_EN_ROUTE_TO_STORE", "PICKUP_VERIFIED",
            "OUT_FOR_DELIVERY"}) => NextStops # {}
    <3>1. \A next \in JobStatus :
             <<job.status, next>> \in RiderSteps => next \in NextStops
      BY DEF NextStops
    <3>2. At({"RIDER_ASSIGNED", "RIDER_EN_ROUTE_TO_STORE", "PICKUP_VERIFIED",
              "OUT_FOR_DELIVERY"}) =>
             \E next \in JobStatus : <<job.status, next>> \in RiderSteps
      BY DEF At, RiderSteps, JobStatus
    <3> QED
      BY <3>1, <3>2
  <2> QED
    BY <2>1 DEF TravelPanel, When, Taken, At
<1>3. call \in CustomerPanel => Taken(call)
  BY DEF CustomerPanel, When, Taken, At, Matched, MayIssueOtp, RoomLeft,
         CollectedBefore, CodCollected, IsCod, MayCollect, PanelInv, LedgerTells
<1>4. call \in FailurePanel => Taken(call)
  BY DEF FailurePanel, When, Taken, At, RIDER_TRANSITIONS
<1>5. call \in ReturnPanel => Taken(call)
  BY DEF ReturnPanel, When, Taken, MayReturn
<1>6. call \notin ChecklistPanel \cup ProblemPanel \cup HandoffPanel
  BY DEF ChecklistPanel, ProblemPanel, HandoffPanel, When, Matched
<1>7. QED
  BY <1>2, <1>3, <1>4, <1>5, <1>6 DEF RiderPortal, When

\* Any action that asks nothing of the cash resolves a failure.
LEMMA ResolutionIsTaken ==
  ASSUME RoomLeft, At({"DELIVERY_FAILED"}), decision # None
  PROVE  Taken("resolveFailure")
<1>1. PICK k \in Key : Unused(k)
  BY DEF RoomLeft
<1>2. "RETRY_DELIVERY" \in Resolution /\ MayResolve(k, "RETRY_DELIVERY")
  BY <1>1 DEF Resolution, MayResolve
<1>3. QED
  BY <1>2 DEF Taken

\* An open ledger takes what the rider holds, but for a cancelled order.
LEMMA SettlementIsTaken ==
  ASSUME TypeOK, PanelInv, RoomLeft, CodCollected, ~Final,
         payment.status # "REFUND_PENDING"
  PROVE  HoldsCash /\ Taken("settleCod")
<1>1. PICK k \in Key : Unused(k)
  BY DEF RoomLeft
<1>2. /\ ledger # None /\ ledger \in Ledger
      /\ payment.method = "COD" /\ payment.status = "CAPTURED"
  BY DEF CodCollected, TypeOK, PanelInv, LedgerTells
<1>3. ledger.holding \in Nat /\ ledger.holding # 0
  BY <1>2 DEF Ledger, PanelInv, LedgerTells, Final
<1>4. MaySettle(k, ledger.holding)
  BY <1>1, <1>2, <1>3 DEF MaySettle, WithinHolding
<1>5. HoldsCash
  BY <1>2, <1>3 DEF HoldsCash
<1>6. QED
  BY <1>4, <1>5 DEF Taken

LEMMA AdminPortalIsTaken ==
  ASSUME TypeOK, PanelInv, RoomLeft, NEW call \in Matched \cap AdminPortal
  PROVE  \/ Taken(call)
         \/ call = "settleCod" /\ payment.status = "REFUND_PENDING"
<1>1. call \in ResolutionPanel => Taken(call)
  BY ResolutionIsTaken DEF ResolutionPanel, When
<1>2. call \in ReturnedPanel => Taken(call)
  BY DEF ReturnedPanel, When, Taken, MayConfirmReturn
<1>3. call \in InspectionPanel => Taken(call)
  BY DEF InspectionPanel, When, Taken, Inspectable
<1>4. call \in SettlementPanel =>
         \/ Taken(call)
         \/ call = "settleCod" /\ payment.status = "REFUND_PENDING"
  <2>1. call \in SettlementPanel => call = "settleCod" /\ CodCollected /\ ~Final
    BY DEF SettlementPanel, When
  <2>2. CodCollected /\ ~Final =>
           Taken("settleCod") \/ payment.status = "REFUND_PENDING"
    BY SettlementIsTaken
  <2> QED
    BY <2>1, <2>2
<1>5. QED
  BY <1>1, <1>2, <1>3, <1>4 DEF AdminPortal, When

\* The app settles a collection once, whole: before that the ledger is open.
LEMMA AppsAreTaken ==
  ASSUME TypeOK, PanelInv, RoomLeft,
         NEW call \in Matched \cap (RiderApp \cup StoreApp)
  PROVE  \/ Taken(call)
         \/ call = "settleCod" /\ payment.status = "REFUND_PENDING"
<1>1. call \in AppCashCard => Taken(call)
  BY DEF AppCashCard, When, Taken, At, CodCollected, IsCod, MayCollect,
         PanelInv, LedgerTells
<1>2. call \in AppCodeCard => Taken(call)
  BY DEF AppCodeCard, When, Taken, MayIssueOtp, RoomLeft
<1>3. call \in AppReturnCard => Taken(call)
  BY DEF AppReturnCard, When, Taken, MayConfirmReturn
<1>4. call \in AppInspectionCard => Taken(call)
  BY DEF AppInspectionCard, When, Taken, Inspectable
<1>5. call \in AppSettlementCard =>
         \/ Taken(call)
         \/ call = "settleCod" /\ payment.status = "REFUND_PENDING"
  <2>1. ~CodSettled /\ CodCollected => ~Final
    BY DEF CodCollected, PanelInv, LedgerTells
  <2>2. call \in AppSettlementCard =>
           call = "settleCod" /\ CodCollected /\ ~CodSettled
    BY DEF AppSettlementCard, When
  <2>3. CodCollected /\ ~Final =>
           Taken("settleCod") \/ payment.status = "REFUND_PENDING"
    BY SettlementIsTaken
  <2> QED
    BY <2>1, <2>2, <2>3
<1>6. QED
  BY <1>1, <1>2, <1>3, <1>4, <1>5 DEF RiderApp, StoreApp, When

LEMMA FreshOffers ==
  ASSUME TypeOK, PanelInv
  PROVE  FreshOffersAreTaken
<1> SUFFICES ASSUME RoomLeft,
                    NEW call \in Matched \cap UNION {RiderPortal, StorePortal,
                                   AdminPortal, RiderApp, StoreApp}
             PROVE  \/ Taken(call)
                    \/ call = "settleCod" /\ payment.status = "REFUND_PENDING"
  BY DEF FreshOffersAreTaken
<1>1. call \notin StorePortal
  BY DEF StorePortal, When, Matched
<1>2. QED
  BY <1>1, RiderPortalIsTaken, AdminPortalIsTaken, AppsAreTaken

\* The form spreads the units over three kinds; whatever is not sellable may
\* be damaged, so every number of sellable units has its form.
LEMMA FormsAreSellable ==
  {q.sellable : q \in submitInspection} = Sellable
<1> USE ProofAssumption
<1>1. ASSUME NEW q \in submitInspection PROVE q.sellable \in Sellable
  <2>1. /\ q.sellable \in 0 .. Units /\ q.damaged \in 0 .. Units
        /\ q.missing \in 0 .. Units
        /\ q.sellable + q.damaged + q.missing = Units
    BY <1>1 DEF submitInspection
  <2>2. Units - q.sellable \in 0 .. Units
        /\ q.sellable + (Units - q.sellable) = Units
    BY <2>1
  <2> QED
    BY <2>1, <2>2 DEF Sellable
<1>2. ASSUME NEW n \in Sellable PROVE \E q \in submitInspection : q.sellable = n
  <2> DEFINE form == [sellable |-> n, damaged |-> Units - n, missing |-> 0]
  <2>1. n \in 0 .. Units /\ Units - n \in 0 .. Units /\ 0 \in 0 .. Units
        /\ n + (Units - n) + 0 = Units
    BY <1>2 DEF Sellable
  <2>2. form \in submitInspection
    BY <2>1 DEF submitInspection
  <2> QED
    BY <2>2
<1>3. QED
  BY <1>1, <1>2

\* Each counter is the condition of its panel: a failure has its decision and
\* an open ledger its cash.
LEMMA QueueIsCounted ==
  ASSUME TypeOK, PanelInv
  PROVE  QueueCountsWork
<1> DEFINE offered == AdminPortal
<1>0. /\ "resolveFailure" \in offered <=>
            getQueue /\ At({"DELIVERY_FAILED"}) /\ decision # None
      /\ "confirmReturn" \in offered <=>
            getQueue /\ At({"RETURNING_TO_STORE"})
      /\ "inspectReturn" \in offered <=>
            getQueue /\ At({"RETURNED_TO_STORE"}) /\ ~inspected
      /\ "settleCod" \in offered <=>
            getQueue /\ IsCod /\ CodCollected /\ HoldsCash /\ ~Final
  <2>1. \A c : c \in offered <=>
           getQueue /\ c \in ResolutionPanel \cup ReturnedPanel
                              \cup InspectionPanel \cup SettlementPanel
    BY DEF AdminPortal, When
  <2>2. \A c : c \in ResolutionPanel <=>
           c = "resolveFailure" /\ At({"DELIVERY_FAILED"}) /\ decision # None
    BY DEF ResolutionPanel, When
  <2>3. \A c : c \in ReturnedPanel <=>
           c = "confirmReturn" /\ At({"RETURNING_TO_STORE"})
    BY DEF ReturnedPanel, When
  <2>4. \A c : c \in InspectionPanel <=>
           c = "inspectReturn" /\ At({"RETURNED_TO_STORE"}) /\ ~inspected
    BY DEF InspectionPanel, When
  <2>5. \A c : c \in SettlementPanel <=>
           c = "settleCod" /\ IsCod /\ CodCollected /\ HoldsCash /\ ~Final
    BY DEF SettlementPanel, When
  <2> QED
    BY <2>1, <2>2, <2>3, <2>4, <2>5
<1>1. stats.exceptions <=> "resolveFailure" \in offered
  BY <1>0 DEF stats, PanelInv, FailureIsDecided
<1>2. stats.returning <=> "confirmReturn" \in offered
  BY <1>0 DEF stats
<1>3. stats.inspections <=> "inspectReturn" \in offered
  BY <1>0 DEF stats
<1>4. stats.settlements <=> "settleCod" \in offered
  <2>1. CodCollected /\ ~Final => HoldsCash
    <3> SUFFICES ASSUME ledger # None, ~Final PROVE ledger.holding > 0
      BY DEF CodCollected, HoldsCash
    <3>1. ledger \in Ledger /\ ledger.status # "VARIANCE_REVIEW"
      BY DEF TypeOK, Final
    <3>2. ledger.holding \in Nat /\ ledger.holding # 0
      BY <3>1 DEF Ledger, PanelInv, LedgerTells
    <3> QED
      BY <3>2
  <2>2. stats.settlements <=> getQueue /\ IsCod /\ CodCollected /\ ~Final
    BY DEF stats, SettlementOpen
  <2> QED
    BY <1>0, <2>1, <2>2
<1>5. UNION {When(stats.exceptions, {"EXCEPTIONS"}),
             When(stats.returning \/ stats.inspections, {"RETURNS"}),
             When(stats.settlements, {"COD"}), When(getQueue, {"ALL"})}
         \subseteq {filter \in Filters : visibleJobs(filter)}
  <2>1. stats.exceptions => visibleJobs("EXCEPTIONS")
    BY DEF stats, visibleJobs
  <2>2. stats.returning \/ stats.inspections => visibleJobs("RETURNS")
    BY DEF stats, visibleJobs, At
  <2>3. stats.settlements => visibleJobs("COD")
    BY DEF stats, visibleJobs, SettlementOpen
  <2>4. getQueue => visibleJobs("ALL")
    BY DEF visibleJobs
  <2> QED
    BY <2>1, <2>2, <2>3, <2>4 DEF When, Filters
<1>6. stats.inspections => Inspectable
  BY DEF stats, Inspectable
<1>7. QED
  BY <1>1, <1>2, <1>3, <1>4, <1>5, <1>6, FormsAreSellable DEF QueueCountsWork

\* The listed deposits are those of some coin.
LEMMA AuditAddsUp ==
  ASSUME TypeOK, NEW r
  PROVE  LET listed == {k \in Key : deposit[k] > 0}
         IN SumOf(deposit, listed) = SumOf(deposit, Key)
<1> DEFINE listed == {k \in Key : deposit[k] > 0}
<1>1. deposit \in [Key -> Nat] /\ deposit \in [Key -> Int] /\ IsFiniteSet(Key)
  BY ProofAssumption DEF TypeOK
<1>2. /\ listed \in SUBSET Key /\ Key \ listed \in SUBSET Key
      /\ IsFiniteSet(listed) /\ IsFiniteSet(Key \ listed)
  BY <1>1, FS_Subset
<1>3. \A k \in Key \ listed : deposit[k] = 0
  BY <1>1
<1> HIDE DEF listed
<1>4. SumOf(deposit, Key \ listed) = 0
  BY <1>2, <1>3, SumZero
<1>5. SumOf(deposit, listed) \in Int
  <2> DEFINE part == [k \in listed |-> deposit[k]]
  <2>1. part \in [listed -> Int] /\ \A k \in listed : deposit[k] = part[k]
    BY <1>1, <1>2
  <2> HIDE DEF part
  <2>2. SumOf(part, listed) \in Int /\ SumOf(deposit, listed) = SumOf(part, listed)
    BY <1>2, <2>1, SumType, SumCongruent
  <2> QED
    BY <2>2
<1>6. SumOf(deposit, Key) = SumOf(deposit, listed) + SumOf(deposit, Key \ listed)
  BY <1>1, <1>2, SumOfParts
<1>7. QED
  BY <1>4, <1>5, <1>6 DEF listed

\* The cash page: what is listed adds up, and it calls a handover pending while
\* the ledger is open or under review.
LEMMA WorkAddsUp ==
  ASSUME TypeOK, CashInv, PanelInv
  PROVE  WorkIsCounted
<1>1. ASSUME NEW r \in Rider
      PROVE  /\ cod(r).collected = cod(r).cashHeld + cod(r).deposited
             /\ cod(r).deposited = SumOf(deposit, cod(r).audit)
             /\ cod(r).variance # 0 => ~NoPendingCash(r)
  <2>1. CASE ledger = None \/ ledger.rider # r
    <3>1. /\ cod(r).collected = 0 /\ cod(r).cashHeld = 0
          /\ cod(r).deposited = 0 /\ cod(r).variance = 0 /\ cod(r).audit = {}
      BY <2>1 DEF cod
    <3>2. SumOf(deposit, {}) = 0
      BY SumZero, FS_EmptySet
    <3> QED
      BY <3>1, <3>2
  <2>2. CASE ledger # None /\ ledger.rider = r
    <3>1. /\ cod(r).collected = ledger.collected
          /\ cod(r).cashHeld = ledger.holding
          /\ cod(r).deposited = ledger.deposited
          /\ cod(r).variance = ledger.variance
          /\ cod(r).audit = {k \in Key : deposit[k] > 0}
          /\ NoPendingCash(r) <=> ~(\/ ledger.holding > 0
                                    \/ ledger.status = "VARIANCE_REVIEW")
      BY <2>2 DEF cod, NoPendingCash
    <3>2. /\ ledger.collected = ledger.holding + ledger.deposited
          /\ ledger.deposited = SumOf(deposit, Key)
      BY <2>2, BalanceIsConserved DEF CashInv, CashIsKept, AccountsBalance
    <3>3. ledger.variance # 0 => ledger.status = "VARIANCE_REVIEW"
      BY <2>2 DEF PanelInv, LedgerTells
    <3> QED
      BY <3>1, <3>2, <3>3, AuditAddsUp
  <2> QED
    BY <2>1, <2>2
<1>2. ASSUME CodCollected
      PROVE  ~NoPendingCash(ledger.rider) <=>
                \/ stats.settlements
                \/ ledger.status = "VARIANCE_REVIEW"
                \/ SettlementOpen /\ payment.status = "REFUND_PENDING"
  <2>1. /\ ledger # None /\ ledger \in Ledger /\ ledger.holding \in Nat
        /\ IsCod /\ payment.status \in {"CAPTURED", "REFUND_PENDING"}
    BY <1>2 DEF CodCollected, TypeOK, Ledger, PanelInv, LedgerTells, IsCod
  <2>2. ~NoPendingCash(ledger.rider) <=>
           ledger.holding > 0 \/ ledger.status = "VARIANCE_REVIEW"
    BY <2>1 DEF NoPendingCash, cod
  <2>3. ledger.status # "VARIANCE_REVIEW" => (ledger.holding > 0 <=> ~Final)
    BY <2>1 DEF PanelInv, LedgerTells
  <2>4. SettlementOpen <=> ~Final
    BY <1>2, <2>1 DEF SettlementOpen
  <2>5. payment.status = "CAPTURED" => getQueue
    BY <2>1 DEF getQueue
  <2>6. stats.settlements <=> getQueue /\ SettlementOpen
    BY DEF stats
  <2>7. ledger.status = "VARIANCE_REVIEW" => Final
    BY DEF Final
  <2> QED
    BY <2>1, <2>2, <2>3, <2>4, <2>5, <2>6, <2>7
<1>3. \A r \in Rider :
         /\ cod(r).collected = cod(r).cashHeld + cod(r).deposited
         /\ cod(r).deposited = MapThenSumSet(LAMBDA k : deposit[k], cod(r).audit)
         /\ cod(r).variance # 0 => ~NoPendingCash(r)
  BY <1>1, Zenon DEF SumOf
<1>4. QED
  BY <1>2, <1>3, QueueIsCounted DEF WorkIsCounted

\* Every status of an assigned delivery has its screen.
LEMMA SomebodyGoesOn ==
  ASSUME TypeOK, CashInv, PanelInv, RoomLeft,
         job.rider # None, ~Finished, ~Stranded
  PROVE  OnItsWay
<1> DEFINE offered == UNION {RiderPortal, StorePortal, AdminPortal}
           moves == {"move", "recordFailure", "completeDelivery",
                     "resolveFailure", "startReturn", "confirmReturn",
                     "inspectReturn"}
<1>0. job.status \in JobStatus \ {"WAITING_FOR_DISPATCH", "DELIVERED",
                                  "CANCELLED"}
  BY DEF TypeOK, Job, CashInv, WaitsAlone, Finished, At
<1>1. CASE job.status \in {"RIDER_ASSIGNED", "RIDER_EN_ROUTE_TO_STORE",
                           "PICKUP_VERIFIED", "OUT_FOR_DELIVERY"}
  <2>1. "move" \in RiderPortal
    BY <1>1 DEF RiderPortal, TravelPanel, When, At, activeJob, ACTIVE_STATUSES
  <2>2. Taken("move")
    BY <2>1, RiderPortalIsTaken DEF Matched
  <2> QED
    BY <2>1, <2>2 DEF OnItsWay
<1>2. CASE job.status = "RIDER_AT_CUSTOMER"
  <2>1. "recordFailure" \in RiderPortal
    BY <1>2 DEF RiderPortal, FailurePanel, When, At, activeJob, ACTIVE_STATUSES
  <2>2. Taken("recordFailure")
    BY <2>1, RiderPortalIsTaken DEF Matched
  <2> QED
    BY <2>1, <2>2 DEF OnItsWay
<1>3. CASE job.status = "DELIVERY_FAILED"
  <2>1. decision # None
    BY <1>3 DEF PanelInv, FailureIsDecided, At
  <2>2. "resolveFailure" \in AdminPortal
    BY <1>3, <2>1 DEF AdminPortal, ResolutionPanel, When, At, getQueue
  <2>3. Taken("resolveFailure")
    BY <1>3, <2>1, ResolutionIsTaken DEF At
  <2> QED
    BY <2>2, <2>3 DEF OnItsWay
<1>4. CASE job.status = "RETURNING_TO_STORE"
  <2>1. "confirmReturn" \in AdminPortal
    BY <1>4 DEF AdminPortal, ReturnedPanel, When, At, getQueue
  <2>2. Taken("confirmReturn")
    BY <1>4 DEF Taken, MayConfirmReturn, At
  <2> QED
    BY <2>1, <2>2 DEF OnItsWay
<1>5. CASE job.status = "RETURNED_TO_STORE"
  <2>1. ~inspected
    BY <1>5 DEF Finished, At
  <2>2. "inspectReturn" \in AdminPortal
    BY <1>5, <2>1 DEF AdminPortal, InspectionPanel, When, At, getQueue
  <2>3. Taken("inspectReturn")
    BY <1>5, <2>1 DEF Taken, Inspectable, At
  <2> QED
    BY <2>2, <2>3 DEF OnItsWay
<1>6. CASE job.status = "RIDER_AT_STORE"
  <2>1. pickupProof = None
    BY <1>6 DEF Stranded, At
  <2>2. CASE ~assertPickupChecklist
    <3>1. "verifyPickup" \in RiderPortal
      BY <1>6 DEF RiderPortal, ChecklistPanel, When, At, activeJob,
                  ACTIVE_STATUSES
    <3>2. Taken("verifyPickup")
      BY <1>6 DEF Taken, At
    <3> QED
      BY <2>2, <3>1, <3>2 DEF OnItsWay
  <2>3. CASE assertPickupChecklist
    <3>1. "confirmStorePickup" \in StorePortal
      BY <1>6 DEF StorePortal, When, At, getQueue
    <3>2. Taken("confirmStorePickup")
      BY <1>6, <2>3 DEF Taken, MayConfirmPickup, At
    <3> QED
      BY <2>1, <3>1, <3>2 DEF OnItsWay
  <2> QED
    BY <2>2, <2>3
<1>7. QED
  BY <1>0, <1>1, <1>2, <1>3, <1>4, <1>5, <1>6 DEF JobStatus

\* What the app sends wrong the portal sends right, or an administrator does.
LEMMA AppHasAWayRound ==
  ASSUME TypeOK, PanelInv, RoomLeft
  PROVE  AppGoesWrong
<1>1. ASSUME AppCompleteButton, getCustomerOtp, payment.status = "CAPTURED"
      PROVE  /\ ~TakesCompletion(AppCompletion)
             /\ "completeDelivery" \in RiderPortal
             /\ TakesCompletion(PortalCompletion)
  <2>1. ~TakesCompletion(AppCompletion)
    BY DEF TakesCompletion, AppCompletion
  <2>2. "completeDelivery" \in RiderPortal
    BY <1>1 DEF AppCompleteButton, RiderPortal, CustomerPanel, When
  <2>3. Paid
    BY <1>1 DEF Paid, AppCompleteButton, IsCod, CodCollected, PanelInv,
                LedgerTells
  <2>4. MayComplete
    BY <1>1, <2>3 DEF MayComplete, AppCompleteButton, getCustomerOtp
  <2> QED
    BY <2>1, <2>2, <2>4 DEF TakesCompletion, PortalCompletion
<1>2. ASSUME NEW reason \in AppFailureCard
      PROVE  \/ TakesFailure(reason)
             \/ ~At(RIDER_TRANSITIONS)
             \/ /\ "recordFailure" \in RiderPortal
                /\ \E known \in DeliveryFailureReason : TakesFailure(known)
  <2> SUFFICES ASSUME At(RIDER_TRANSITIONS)
               PROVE  /\ "recordFailure" \in RiderPortal
                      /\ \E known \in DeliveryFailureReason : TakesFailure(known)
    OBVIOUS
  <2>1. activeJob
    BY DEF AppFailureCard
  <2>2. "recordFailure" \in RiderPortal
    BY <2>1 DEF RiderPortal, FailurePanel, When, At, RIDER_TRANSITIONS
  <2>3. "OTHER" \in DeliveryFailureReason /\ TakesFailure("OTHER")
    BY DEF TakesFailure, DeliveryFailureReason, Taken
  <2> QED
    BY <2>2, <2>3
<1>3. ASSUME AppReturnButton
      PROVE  "resolveFailure" \in AdminPortal /\ Taken("resolveFailure")
  <2>1. At({"DELIVERY_FAILED"}) /\ decision # None
    BY <1>3 DEF AppReturnButton, PanelInv, FailureIsDecided
  <2>2. "resolveFailure" \in AdminPortal
    BY <2>1 DEF AdminPortal, ResolutionPanel, When, getQueue, At
  <2> QED
    BY <2>1, <2>2, ResolutionIsTaken
<1>4. QED
  BY <1>1, <1>2, <1>3 DEF AppGoesWrong

LEMMA SomebodyIsThere ==
  ASSUME TypeOK, CashInv, PanelInv
  PROVE  NobodyIsStuck
<1> SUFFICES ASSUME RoomLeft
             PROVE  /\ job.rider # None /\ ~Finished /\ ~Stranded => OnItsWay
                    /\ HoldsCash /\ ~Final /\ payment.status = "CAPTURED" =>
                          "settleCod" \in AdminPortal /\ Taken("settleCod")
                    /\ AppGoesWrong
  BY DEF NobodyIsStuck
<1>1. ASSUME HoldsCash, ~Final, payment.status = "CAPTURED"
      PROVE  "settleCod" \in AdminPortal /\ Taken("settleCod")
  <2>1. IsCod /\ CodCollected
    BY <1>1 DEF HoldsCash, IsCod, CodCollected, PanelInv, LedgerTells
  <2>2. "settleCod" \in AdminPortal
    BY <1>1, <2>1 DEF AdminPortal, SettlementPanel, When, getQueue
  <2> QED
    BY <1>1, <2>1, <2>2, SettlementIsTaken
<1>2. QED
  BY <1>1, SomebodyGoesOn, AppHasAWayRound

\* What the portals and the app offer for a delivery is taken, the work and the
\* cash they count is the work and the cash there is, and no assigned delivery
\* is out of everybody's reach, after any failures, retries, returns,
\* settlements and cancellations (delivery-exceptions/page.tsx, the rider's
\* pages and app, delivery-operations.service.ts).
THEOREM PanelsMatch == Spec => []PanelsMatchServer
<1>1. Init => CashInv /\ PanelInv
  BY InitCashInv, InitPanelInv
<1>2. TypeOK /\ CashInv /\ PanelInv /\ [Next]_vars => (CashInv /\ PanelInv)'
  BY NextCashInv, NextPanelInv
<1>3. TypeOK /\ CashInv /\ PanelInv => PanelsMatchServer
  BY FreshOffers, WorkAddsUp, SomebodyIsThere DEF PanelsMatchServer
<1> QED
  BY <1>1, <1>2, <1>3, DeliveryTypes, PTL DEF Spec
=============================================================================
