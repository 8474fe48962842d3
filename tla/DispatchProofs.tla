--------------------------- MODULE DispatchProofs ---------------------------
(***************************************************************************)
(* What Dispatch keeps for every set of orders, riders, offers and         *)
(* workers: the types of its rows, the answer to an offer that is final    *)
(* and the log of expiries that is true, and the offers, jobs and riders   *)
(* that agree with each other.  And what the dispatch handlers keep when   *)
(* no order is edited behind them, which is Endpoints = {}: the order row  *)
(* and the accepted assignment follow their job, a BUSY rider has a        *)
(* delivery, and - unless an admin reports failures before the hand-over - *)
(* the parcel is with the job's rider.  Then, Dispatch implements          *)
(* OfferBook under every endpoint; last, the screens agree with the        *)
(* server.                                                                 *)
(***************************************************************************)
EXTENDS DispatchScreens, FiniteSets, FiniteSetTheorems, TLAPS

-----------------------------------------------------------------------------
(* The inductive invariant *)

\* The request in flight carries what its commit writes.
RequestFits ==
    request # None =>
        /\ request.op \in {"status", "cancel", "forceCancel", "reassign"}
              => request.order \in Order
        /\ request.op = "status" => request.next \in OrderStatus
        /\ request.op = "reassign" => request.rider \in Rider
        /\ request.op \in {"setStatus", "ping", "release"}
              => request.rider \in Rider /\ request.next \in RiderStatus

HasRow(a) == assignment[a] # None
IsExpired(a) == HasRow(a) /\ assignment[a].status = "EXPIRED"

\* A worker's batch holds rows that exist; what it is about to report expired.
BatchFits ==
    \A w \in Worker :
        /\ \A a \in worker[w].todo : HasRow(a)
        /\ worker[w].phase = "record"
              => worker[w].hand \in Assignment /\ IsExpired(worker[w].hand)
        /\ worker[w].phase = "backfill"
              => \A a \in worker[w].todo : IsExpired(a)

\* Rows never vanish and an expired offer stays expired, so a batch still fits
\* after any step of another actor.
RowsPersist ==
    \A a \in Assignment : /\ HasRow(a) => HasRow(a)'
                          /\ IsExpired(a) => IsExpired(a)'

TypeInv == TypeOK /\ RequestFits /\ BatchFits /\ ExpiryEventsAreTrue

LEMMA InitTypeInv == Init => TypeInv
BY DispatchAssumption
   DEF Init, TypeInv, TypeOK, RequestFits, BatchFits, ExpiryEventsAreTrue,
       OrderRow, OrderStatus, RiderStatus, Batch, Idle

\* What concerns workers and the log survives a step that leaves them alone.
LEMMA KeepBatches ==
    ASSUME TypeInv, RowsPersist, UNCHANGED <<worker, expiryEvent>>
    PROVE  BatchFits' /\ ExpiryEventsAreTrue'
<1>1. ExpiryEventsAreTrue'
  BY DEF TypeInv, TypeOK, RowsPersist, ExpiryEventsAreTrue, HasRow, IsExpired
<1>2. BatchFits'
  <2> SUFFICES ASSUME NEW w \in Worker
               PROVE  /\ \A a \in worker[w].todo : HasRow(a)'
                      /\ worker[w].phase = "record"
                            => /\ worker[w].hand \in Assignment
                               /\ assignment'[worker[w].hand] # None
                               /\ assignment'[worker[w].hand].status = "EXPIRED"
                      /\ worker[w].phase = "backfill"
                            => \A a \in worker[w].todo : IsExpired(a)'
    BY DEF BatchFits, HasRow, IsExpired
  <2>1. worker[w].todo \subseteq Assignment
    BY DEF TypeInv, TypeOK, Batch
  <2>2. QED BY <2>1 DEF TypeInv, BatchFits, RowsPersist, IsExpired, HasRow
<1>3. QED BY <1>1, <1>2

-----------------------------------------------------------------------------
(* Jobs *)

\* A transition keeps the job and its order well typed.
LEMMA MoveType ==
    ASSUME TypeOK, NEW o \in Order, NEW row \in JobRow, job[o] \in JobRow,
           NEW next \in JobStatus, NEW assigned \in Rider \cup {None},
           Move(o, row, next, assigned)
    PROVE  /\ job' \in [Order -> JobRow \cup {None}]
           /\ order' \in [Order -> OrderRow]
<1>1. JobRider(o, next, assigned) \in Rider \cup {None}
  BY DEF JobRider, JobRow
<1>2. legacyOrderStatus(next) \in OrderStatus
  BY DEF legacyOrderStatus, OrderStatus, JobStatus
<1>3. [row EXCEPT !.status = next, !.rider = JobRider(o, next, assigned)]
        \in JobRow
  BY <1>1 DEF JobRow
<1>4. job' \in [Order -> JobRow \cup {None}]
  BY <1>3 DEF Move, MayMove, TypeOK
<1>5. order[o].rider \in Rider \cup {None} /\ job[o].rider \in Rider \cup {None}
  BY DEF TypeOK, OrderRow, JobRow
<1>6. order' \in [Order -> OrderRow]
  BY <1>2, <1>5 DEF Move, MayMove, TypeOK, OrderRow
<1>7. QED BY <1>4, <1>6

LEMMA FreedType ==
    ASSUME TypeOK, NEW o, NEW next
    PROVE  Freed(o, next) \in [Rider -> RiderStatus]
BY DEF Freed, TypeOK, RiderStatus

LEMMA TransitionType ==
    ASSUME TypeOK, NEW o \in Order, NEW row \in JobRow, job[o] \in JobRow,
           NEW next \in JobStatus, Transition(o, row, next)
    PROVE  /\ job' \in [Order -> JobRow \cup {None}]
           /\ order' \in [Order -> OrderRow]
           /\ riderStatus' \in [Rider -> RiderStatus]
BY MoveType, FreedType DEF Transition

\* A step of a job that leaves offers, workers and requests alone.
LEMMA KeepRest ==
    ASSUME TypeInv,
           UNCHANGED <<assignment, expiryEvent, worker, request>>,
           job' \in [Order -> JobRow \cup {None}],
           order' \in [Order -> OrderRow],
           riderStatus' \in [Rider -> RiderStatus]
    PROVE  TypeInv'
<1>1. RowsPersist BY DEF RowsPersist, HasRow, IsExpired
<1>2. BatchFits' /\ ExpiryEventsAreTrue' BY <1>1, KeepBatches
<1>3. QED BY <1>2 DEF TypeInv, TypeOK, RequestFits

LEMMA JobRowOf ==
    ASSUME TypeOK, NEW o \in Order, job[o] # None
    PROVE  job[o] \in JobRow
BY DEF TypeOK

LEMMA RowIsNotNone ==
    ASSUME NEW row \in AssignmentRow
    PROVE  row # None
BY DispatchAssumption

LEMMA RowOf ==
    ASSUME TypeOK, NEW a \in Assignment, assignment[a] # None
    PROVE  assignment[a] \in AssignmentRow
BY DEF TypeOK

\* An answer changes the status of a row and nothing else.
LEMMA AnsweredRow ==
    ASSUME NEW row \in AssignmentRow, NEW status \in AssignmentStatus
    PROVE  LET answered == [row EXCEPT !.status = status]
           IN /\ answered \in AssignmentRow /\ answered # None
              /\ answered.status = status
              /\ answered.job = row.job /\ answered.rider = row.rider
<1>1. [row EXCEPT !.status = status] \in AssignmentRow BY DEF AssignmentRow
<1>2. QED BY <1>1, RowIsNotNone DEF AssignmentRow

LEMMA JobStepTypeInv ==
    ASSUME TypeInv, NEW o \in Order, JobStep(o)
    PROVE  TypeInv'
<1> USE DEF TypeInv
<1>1. CASE CreateJob(o)
  <2>1. initialStatus(order[o].status) \in JobStatus
    BY <1>1 DEF CreateJob, initialStatus, TypeOK, OrderRow, OrderStatus, JobStatus
  <2>2. job' \in [Order -> JobRow \cup {None}]
    BY <1>1, <2>1 DEF CreateJob, TypeOK, OrderRow, JobRow
  <2>3. QED BY <1>1, <2>2, KeepRest DEF CreateJob, TypeOK
<1>2. ASSUME job[o] # None, NEW row \in JobRow, NEW next \in JobStatus,
             Transition(o, row, next),
             UNCHANGED <<assignment, expiryEvent, worker, request>>
      PROVE  TypeInv'
  BY <1>2, JobRowOf, TransitionType, KeepRest
<1>3. CASE RiderStep(o)
  BY <1>3, <1>2, JobRowOf DEF RiderStep, StepsOf
<1>4. CASE VerifyPickup(o)
  <2> DEFINE proof == IF job[o].proof = None THEN job[o].rider ELSE job[o].proof
  <2>1. job[o] # None /\ job[o] \in JobRow
    BY <1>4, JobRowOf DEF VerifyPickup, HasStatus
  <2>2. [job[o] EXCEPT !.proof = proof] \in JobRow
    BY <2>1 DEF JobRow
  <2>3. QED BY <1>4, <1>2, <2>1, <2>2 DEF VerifyPickup, JobStatus
<1>5. CASE CompleteDelivery(o)
  BY <1>5, <1>2, JobRowOf DEF CompleteDelivery, HasStatus, JobStatus
<1>6. CASE RecordFailure(o)
  <2>1. PICK action \in Policy :
            /\ job[o] # None
            /\ Transition(o, [job[o] EXCEPT !.decision = action],
                          "DELIVERY_FAILED")
    BY <1>6 DEF RecordFailure, HasStatus
  <2>2. [job[o] EXCEPT !.decision = action] \in JobRow
    BY <2>1, JobRowOf DEF JobRow, Action
  <2>3. QED BY <1>6, <1>2, <2>1, <2>2 DEF RecordFailure, JobStatus
<1>7. CASE StartReturn(o)
  <2>1. job[o] # None /\ Resolved(o) \in JobRow
    BY <1>7, JobRowOf DEF StartReturn, HasStatus, Resolved, JobRow
  <2>2. QED BY <1>7, <1>2, <2>1 DEF StartReturn, JobStatus
<1>8. CASE ConfirmReturn(o)
  BY <1>8, <1>2, JobRowOf DEF ConfirmReturn, HasStatus, JobStatus
<1>9. ASSUME NEW action \in Action, ResolveFailure(o, action) PROVE TypeInv'
  <2>1. job[o] # None /\ job[o] \in JobRow /\ Resolved(o) \in JobRow
    BY <1>9, JobRowOf DEF ResolveFailure, HasStatus, Resolved, JobRow
  <2>2. /\ job' \in [Order -> JobRow \cup {None}]
        /\ order' \in [Order -> OrderRow]
        /\ riderStatus' \in [Rider -> RiderStatus]
    <3>1. CASE action = "ESCALATE_TO_ADMIN"
      <4>1. [job[o] EXCEPT !.decision = action] \in JobRow
        BY <2>1 DEF JobRow
      <4>2. job' = [job EXCEPT ![o].decision = action] /\ UNCHANGED <<order, riderStatus>>
        BY <1>9, <3>1 DEF ResolveFailure
      <4>3. QED BY <4>1, <4>2 DEF TypeOK
    <3>2. CASE action # "ESCALATE_TO_ADMIN"
      <4>1. \E next \in JobStatus : Transition(o, Resolved(o), next)
        BY <1>9, <3>2 DEF ResolveFailure, Action, Policy, JobStatus
      <4>2. QED BY <2>1, <4>1, TransitionType
    <3>3. QED BY <3>1, <3>2
  <2>3. \A a \in Assignment :
            /\ assignment'[a] = assignment[a]
               \/ /\ HasRow(a) /\ assignment[a].status = "ACCEPTED"
                  /\ assignment'[a] = [assignment[a] EXCEPT !.status = "REASSIGNED"]
    BY <1>9 DEF ResolveFailure, Reassigned, Offers, HasRow, TypeOK
  <2>4. assignment' \in [Assignment -> AssignmentRow \cup {None}]
    <3>1. ASSUME NEW a \in Assignment
          PROVE  assignment'[a] \in AssignmentRow \cup {None}
      <4>1. CASE assignment'[a] = assignment[a] BY <4>1 DEF TypeOK
      <4>2. CASE assignment'[a] # assignment[a]
        <5>1. /\ assignment[a] # None
              /\ assignment'[a] = [assignment[a] EXCEPT !.status = "REASSIGNED"]
          BY <2>3, <4>2 DEF HasRow
        <5>2. "REASSIGNED" \in AssignmentStatus BY DEF AssignmentStatus
        <5>3. QED BY <5>1, <5>2, RowOf, AnsweredRow
      <4>3. QED BY <4>1, <4>2
    <3>2. assignment' = assignment \/ assignment' = Reassigned(o)
      BY <1>9 DEF ResolveFailure
    <3>3. QED BY <3>1, <3>2 DEF Reassigned, TypeOK
  <2>5. RowsPersist
    BY <2>3, <2>4, DispatchAssumption
       DEF RowsPersist, HasRow, IsExpired, TypeOK, AssignmentRow, AssignmentStatus
  <2>6. BatchFits' /\ ExpiryEventsAreTrue'
    BY <1>9, <2>5, KeepBatches DEF ResolveFailure
  <2>7. QED
    BY <1>9, <2>2, <2>4, <2>6 DEF ResolveFailure, TypeOK, RequestFits
<1>10. QED
  BY <1>1, <1>3, <1>4, <1>5, <1>6, <1>7, <1>8, <1>9 DEF JobStep

-----------------------------------------------------------------------------
(* Offers *)

\* What a step may do to an offer row: make it, let it run late, answer it.
\* No answered offer changes, but an accepted one may still be given back.
AnswerStep(a) ==
    \/ assignment'[a] = assignment[a]
    \/ ~HasRow(a)
    \/ assignment[a].status = "OFFERED"
    \/ /\ assignment[a].status = "ACCEPTED"
       /\ assignment'[a].status \in {"REJECTED", "REASSIGNED"}

Answers == \A a \in Assignment : AnswerStep(a) /\ (HasRow(a) => HasRow(a)')

LEMMA AnswersPersist ==
    ASSUME Answers
    PROVE  RowsPersist
BY DEF Answers, AnswerStep, RowsPersist, IsExpired, HasRow

\* Expiring overdue offers only answers open ones.
LEMMA ExpiredType ==
    ASSUME TypeOK, NEW as
    PROVE  /\ Expired(as) \in [Assignment -> AssignmentRow \cup {None}]
           /\ \A a \in Assignment :
                 /\ Expired(as)[a] = assignment[a]
                    \/ /\ assignment[a] # None
                       /\ assignment[a].status = "OFFERED"
                       /\ Expired(as)[a].status = "EXPIRED"
                       /\ Expired(as)[a].job = assignment[a].job
                       /\ Expired(as)[a].rider = assignment[a].rider
                 /\ assignment[a] # None => Expired(as)[a] # None
<1> DEFINE row(a) == [assignment[a] EXCEPT !.status = "EXPIRED"]
<1>1. ASSUME NEW a \in Assignment, assignment[a] # None
      PROVE  /\ row(a) \in AssignmentRow /\ row(a) # None
             /\ row(a).status = "EXPIRED" /\ row(a).job = assignment[a].job
             /\ row(a).rider = assignment[a].rider
  <2>1. assignment[a] \in AssignmentRow BY <1>1, RowOf
  <2>2. row(a) \in AssignmentRow BY <2>1 DEF AssignmentRow, AssignmentStatus
  <2>3. QED BY <2>1, <2>2, RowIsNotNone DEF AssignmentRow
<1>2. ASSUME NEW a \in Assignment
      PROVE  \/ Expired(as)[a] = assignment[a]
             \/ /\ assignment[a] # None /\ assignment[a].status = "OFFERED"
                /\ Expired(as)[a] = row(a)
  BY DEF Expired, Overdue
<1>3. \A a \in Assignment : Expired(as)[a] \in AssignmentRow \cup {None}
  BY <1>1, <1>2 DEF TypeOK
<1>4. QED
  <2>1. Expired(as) \in [Assignment -> AssignmentRow \cup {None}]
    BY <1>3 DEF Expired
  <2>2. ASSUME NEW a \in Assignment
        PROVE  /\ \/ Expired(as)[a] = assignment[a]
                  \/ /\ assignment[a] # None
                     /\ assignment[a].status = "OFFERED"
                     /\ Expired(as)[a].status = "EXPIRED"
                     /\ Expired(as)[a].job = assignment[a].job
                     /\ Expired(as)[a].rider = assignment[a].rider
               /\ assignment[a] # None => Expired(as)[a] # None
    <3>1. CASE Expired(as)[a] = assignment[a] BY <3>1
    <3>2. CASE /\ assignment[a] # None /\ assignment[a].status = "OFFERED"
               /\ Expired(as)[a] = row(a)
      <4> HIDE DEF row
      <4>1. QED BY <3>2, <1>1
    <3>3. QED BY <3>1, <3>2, <1>2
  <2>3. QED BY <2>1, <2>2

\* A step that answers offers, possibly with its job, keeps the invariant.
LEMMA KeepOffers ==
    ASSUME TypeInv, Answers,
           UNCHANGED <<expiryEvent, worker, request>>,
           assignment' \in [Assignment -> AssignmentRow \cup {None}],
           job' \in [Order -> JobRow \cup {None}],
           order' \in [Order -> OrderRow],
           riderStatus' \in [Rider -> RiderStatus]
    PROVE  TypeInv'
<1>1. BatchFits' /\ ExpiryEventsAreTrue' BY AnswersPersist, KeepBatches
<1>2. QED BY <1>1 DEF TypeInv, TypeOK, RequestFits

\* Writing one field of an existing offer row.
LEMMA SetOffer ==
    ASSUME TypeOK, NEW b \in Assignment, HasRow(b), NEW row \in AssignmentRow,
           assignment' = [assignment EXCEPT ![b] = row]
    PROVE  /\ assignment' \in [Assignment -> AssignmentRow \cup {None}]
           /\ HasRow(b)' /\ assignment'[b] = row
           /\ \A a \in Assignment : a # b => assignment'[a] = assignment[a]
           /\ \A a \in Assignment : HasRow(a) => HasRow(a)'
BY RowIsNotNone DEF TypeOK, HasRow

LEMMA OfferAnswers ==
    ASSUME TypeInv, OfferStep
    PROVE  /\ Answers
           /\ assignment' \in [Assignment -> AssignmentRow \cup {None}]
<1> USE DEF TypeInv
<1>1. ASSUME NEW o \in Order, NEW r \in Rider, NEW b \in Assignment,
             Offer(o, r, b)
      PROVE  /\ Answers
             /\ assignment' \in [Assignment -> AssignmentRow \cup {None}]
  <2> DEFINE row == [job |-> o, rider |-> r, status |-> "OFFERED",
                     overdue |-> FALSE]
             as == Offers(o, {"OFFERED"})
  <2>1. row \in AssignmentRow /\ row # None
    <3>1. row \in AssignmentRow BY DEF AssignmentRow, AssignmentStatus
    <3>2. QED BY <3>1, RowIsNotNone
  <2>2. assignment' = [Expired(as) EXCEPT ![b] = row] /\ assignment[b] = None
    BY <1>1 DEF Offer, MayOffer
  <2>3. assignment' \in [Assignment -> AssignmentRow \cup {None}]
    BY <2>1, <2>2, ExpiredType
  <2>4. Answers
    BY <2>1, <2>2, ExpiredType DEF Answers, AnswerStep, HasRow
  <2>5. QED BY <2>3, <2>4
<1>2. ASSUME NEW b \in Assignment, Accept(b)
      PROVE  /\ Answers
             /\ assignment' \in [Assignment -> AssignmentRow \cup {None}]
  <2> DEFINE row == [assignment[b] EXCEPT !.status = "ACCEPTED"]
  <2>1. HasRow(b) /\ assignment[b].status = "OFFERED"
        /\ assignment' = [assignment EXCEPT ![b] = row]
    BY <1>2 DEF Accept, MayAccept, InTime, HasRow
  <2>2. row \in AssignmentRow
    BY <2>1, RowOf DEF HasRow, AssignmentRow, AssignmentStatus
  <2>3. QED BY <2>1, <2>2, SetOffer DEF Answers, AnswerStep
<1>3. ASSUME NEW b \in Assignment, Reject(b)
      PROVE  /\ Answers
             /\ assignment' \in [Assignment -> AssignmentRow \cup {None}]
  <2> DEFINE row == [assignment[b] EXCEPT !.status = "REJECTED"]
  <2>1. HasRow(b) /\ assignment[b].status \in {"OFFERED", "ACCEPTED"}
        /\ assignment' = [assignment EXCEPT ![b] = row]
    BY <1>3 DEF Reject, Rejectable, HasRow
  <2>2. row \in AssignmentRow /\ row.status = "REJECTED"
    BY <2>1, RowOf DEF HasRow, AssignmentRow, AssignmentStatus
  <2>3. QED BY <2>1, <2>2, SetOffer DEF Answers, AnswerStep
<1>4. ASSUME NEW b \in Assignment, Tick(b)
      PROVE  /\ Answers
             /\ assignment' \in [Assignment -> AssignmentRow \cup {None}]
  <2> DEFINE row == [assignment[b] EXCEPT !.overdue = TRUE]
  <2>1. HasRow(b) /\ assignment[b].status = "OFFERED"
        /\ assignment' = [assignment EXCEPT ![b] = row]
    BY <1>4 DEF Tick, HasRow
  <2>2. row \in AssignmentRow
    BY <2>1, RowOf DEF HasRow, AssignmentRow
  <2>3. QED BY <2>1, <2>2, SetOffer DEF Answers, AnswerStep
<1>5. ASSUME NEW r \in Rider, ExpireByRead(r)
      PROVE  /\ Answers
             /\ assignment' \in [Assignment -> AssignmentRow \cup {None}]
  BY <1>5, ExpiredType DEF ExpireByRead, Answers, AnswerStep, HasRow
<1>6. QED BY <1>1, <1>2, <1>3, <1>4, <1>5 DEF OfferStep

LEMMA OfferStepTypeInv ==
    ASSUME TypeInv, OfferStep
    PROVE  TypeInv'
<1> USE DEF TypeInv
<1>1. /\ job' \in [Order -> JobRow \cup {None}]
      /\ order' \in [Order -> OrderRow]
      /\ riderStatus' \in [Rider -> RiderStatus]
  <2>1. ASSUME NEW o \in Order, NEW r \in Rider, NEW b \in Assignment,
               Offer(o, r, b)
        PROVE  UNCHANGED <<order, job, riderStatus>>
    BY <2>1 DEF Offer, MayOffer
  <2>2. ASSUME NEW b \in Assignment, Accept(b)
        PROVE  <1>1!1 /\ <1>1!2 /\ <1>1!3
    <3> DEFINE o == assignment[b].job
               r == assignment[b].rider
    <3>1. o \in Order /\ r \in Rider
      BY <2>2, RowOf DEF Accept, MayAccept, InTime, AssignmentRow
    <3>2. job[o] \in JobRow
      BY <2>2, <3>1, JobRowOf DEF Accept, MayAccept, InTime, HasStatus
    <3>3. /\ Move(o, job[o], "RIDER_ASSIGNED", r)
          /\ riderStatus' = [riderStatus EXCEPT ![r] = "BUSY"]
      BY <2>2 DEF Accept, MayAccept, InTime
    <3>4. <1>1!1 /\ <1>1!2
      BY <3>1, <3>2, <3>3, MoveType DEF JobStatus
    <3>5. <1>1!3
      BY <3>3 DEF TypeOK, RiderStatus
    <3>6. QED BY <3>4, <3>5
  <2>3. ASSUME NEW b \in Assignment, Reject(b)
        PROVE  <1>1!1 /\ <1>1!2 /\ <1>1!3
    <3> DEFINE o == assignment[b].job
    <3>1. CASE ~GivesBackJob(b)
      BY <2>3, <3>1 DEF Reject, TypeOK
    <3>2. CASE GivesBackJob(b)
      <4>1. o \in Order
        BY <2>3, RowOf DEF Reject, AssignmentRow
      <4>2. job[o] \in JobRow
        BY <2>3, <3>2, <4>1, JobRowOf
           DEF Reject, Rejectable, GivesBackJob, HasStatus
      <4>3. /\ Move(o, job[o], "WAITING_FOR_DISPATCH", None)
            /\ riderStatus' = [Freed(o, "WAITING_FOR_DISPATCH") EXCEPT
                                  ![assignment[b].rider] = "ONLINE"]
        BY <2>3, <3>2 DEF Reject
      <4>4. <1>1!1 /\ <1>1!2
        BY <4>1, <4>2, <4>3, MoveType DEF JobStatus
      <4>5. <1>1!3
        BY <4>3, FreedType DEF RiderStatus
      <4>6. QED BY <4>4, <4>5
    <3>3. QED BY <3>1, <3>2
  <2>4. ASSUME NEW b \in Assignment, Tick(b)
        PROVE  UNCHANGED <<order, job, riderStatus>>
    BY <2>4 DEF Tick
  <2>5. ASSUME NEW r \in Rider, ExpireByRead(r)
        PROVE  UNCHANGED <<order, job, riderStatus>>
    BY <2>5 DEF ExpireByRead
  <2>6. QED BY <2>1, <2>2, <2>3, <2>4, <2>5 DEF OfferStep, TypeOK
<1>2. UNCHANGED <<expiryEvent, worker, request>>
  BY DEF OfferStep, Offer, MayOffer, Accept, MayAccept, InTime, Reject, Tick,
         ExpireByRead
<1>3. QED BY <1>1, <1>2, OfferAnswers, KeepOffers

-----------------------------------------------------------------------------
(* The worker *)

\* A worker's step touches its own batch and at most expires overdue offers.
LEMMA KeepRows ==
    ASSUME TypeInv, UNCHANGED Rows,
           assignment' \in [Assignment -> AssignmentRow \cup {None}],
           worker' \in [Worker -> Batch], expiryEvent' \in SUBSET Assignment,
           BatchFits', ExpiryEventsAreTrue'
    PROVE  TypeInv'
BY DEF TypeInv, TypeOK, RequestFits, Rows

LEMMA WorkerType ==
    ASSUME TypeOK, NEW w \in Worker
    PROVE  worker[w].todo \subseteq Assignment
BY DEF TypeOK, Batch

\* The batches of the other workers fit a state in which rows persist.
LEMMA OtherBatches ==
    ASSUME TypeInv, RowsPersist, NEW w \in Worker,
           NEW phase \in {"idle", "expire", "record", "backfill"},
           NEW todo \in SUBSET Assignment, NEW hand \in Assignment \cup {None},
           SetBatch(w, phase, todo, hand),
           \A a \in todo : HasRow(a)',
           phase = "record" => hand \in Assignment /\ IsExpired(hand)',
           phase = "backfill" => \A a \in todo : IsExpired(a)'
    PROVE  worker' \in [Worker -> Batch] /\ BatchFits'
<1> DEFINE batch == [phase |-> phase, todo |-> todo, hand |-> hand]
<1>1. worker' = [worker EXCEPT ![w] = batch] /\ batch \in Batch
  BY DEF SetBatch, Batch
<1>2. worker' \in [Worker -> Batch]
  BY <1>1 DEF TypeInv, TypeOK
<1>3. BatchFits'
  <2> SUFFICES ASSUME NEW v \in Worker
               PROVE  /\ \A a \in worker'[v].todo : HasRow(a)'
                      /\ worker'[v].phase = "record"
                            => /\ worker'[v].hand \in Assignment
                               /\ assignment'[worker'[v].hand] # None
                               /\ assignment'[worker'[v].hand].status = "EXPIRED"
                      /\ worker'[v].phase = "backfill"
                            => \A a \in worker'[v].todo : IsExpired(a)'
    BY DEF BatchFits, HasRow, IsExpired
  <2>1. CASE v = w
    BY <1>1, <2>1 DEF TypeInv, TypeOK, IsExpired, HasRow
  <2>2. CASE v # w
    <3>1. worker'[v] = worker[v]
      BY <1>1, <2>2 DEF TypeInv, TypeOK
    <3>2. worker[v].todo \subseteq Assignment
      BY WorkerType DEF TypeInv
    <3>3. QED BY <3>1, <3>2 DEF TypeInv, BatchFits, RowsPersist, IsExpired, HasRow
  <2>3. QED BY <2>1, <2>2
<1>4. QED BY <1>2, <1>3

\* A worker only ever answers an offer that is still open.
LEMMA WorkerAnswers ==
    ASSUME TypeInv, NEW w \in Worker, WorkerStep(w)
    PROVE  /\ Answers
           /\ assignment' \in [Assignment -> AssignmentRow \cup {None}]
<1> USE DEF TypeInv
<1>1. CASE UNCHANGED assignment
  BY <1>1 DEF Answers, AnswerStep, HasRow, TypeOK
<1>2. ASSUME NEW b \in worker[w].todo, StillOverdue(b),
             assignment' = [assignment EXCEPT ![b].status = "EXPIRED"]
      PROVE  /\ Answers
             /\ assignment' \in [Assignment -> AssignmentRow \cup {None}]
  <2> DEFINE row == [assignment[b] EXCEPT !.status = "EXPIRED"]
  <2>1. b \in Assignment /\ HasRow(b) /\ assignment[b].status = "OFFERED"
    BY <1>2, WorkerType DEF BatchFits, StillOverdue, Overdue
  <2>2. row \in AssignmentRow
    BY <2>1, RowOf DEF HasRow, AssignmentRow, AssignmentStatus
  <2>3. assignment' = [assignment EXCEPT ![b] = row]
    BY <1>2
  <2>4. QED BY <2>1, <2>2, <2>3, SetOffer DEF Answers, AnswerStep
<1>3. QED
  BY <1>1, <1>2 DEF WorkerStep, WorkerFind, WorkerExpire, WorkerRecord,
     WorkerFindMissing, WorkerBackfill, WorkerDone, WorkerCrash

LEMMA WorkerStepTypeInv ==
    ASSUME TypeInv, NEW w \in Worker, WorkerStep(w)
    PROVE  TypeInv'
<1> USE DEF TypeInv
<1>1. /\ RowsPersist
      /\ assignment' \in [Assignment -> AssignmentRow \cup {None}]
  BY WorkerAnswers, AnswersPersist
<1>2. worker[w].todo \subseteq Assignment
      /\ \A a \in worker[w].todo : HasRow(a) /\ HasRow(a)'
  BY <1>1, WorkerType DEF BatchFits, RowsPersist
<1>3. ASSUME UNCHANGED expiryEvent PROVE ExpiryEventsAreTrue'
  BY <1>1, <1>3 DEF ExpiryEventsAreTrue, RowsPersist, HasRow, IsExpired, TypeOK
<1>4. CASE WorkerFind(w)
  <2> DEFINE todo == {a \in Assignment : assignment[a] # None /\ Overdue(a)}
  <2>1. worker' \in [Worker -> Batch] /\ BatchFits'
    <3>1. \A a \in todo : HasRow(a)'
      BY <1>1 DEF RowsPersist, HasRow
    <3>2. SetBatch(w, "expire", todo, None)
      BY <1>4 DEF WorkerFind
    <3>3. QED BY <1>1, <3>1, <3>2, OtherBatches
  <2>2. QED BY <1>1, <1>3, <1>4, <2>1, KeepRows DEF WorkerFind, TypeOK
<1>5. CASE WorkerExpire(w)
  <2>1. PICK b \in worker[w].todo :
            IF StillOverdue(b)
            THEN /\ assignment' = [assignment EXCEPT ![b].status = "EXPIRED"]
                 /\ SetBatch(w, "record", worker[w].todo \ {b}, b)
            ELSE /\ SetBatch(w, "expire", worker[w].todo \ {b}, None)
                 /\ UNCHANGED assignment
    BY <1>5 DEF WorkerExpire
  <2>2. worker' \in [Worker -> Batch] /\ BatchFits'
    <3>1. CASE StillOverdue(b)
      <4>1. b \in Assignment /\ assignment[b] \in AssignmentRow
        BY <1>2, RowOf DEF HasRow
      <4>2. assignment'[b] = [assignment[b] EXCEPT !.status = "EXPIRED"]
        BY <2>1, <3>1, <4>1 DEF TypeOK
      <4>3. IsExpired(b)'
        BY <1>2, <4>1, <4>2 DEF IsExpired, HasRow, AssignmentRow
      <4>4. QED BY <1>1, <1>2, <2>1, <3>1, <4>1, <4>3, OtherBatches
    <3>2. CASE ~StillOverdue(b)
      BY <1>1, <1>2, <2>1, <3>2, OtherBatches
    <3>3. QED BY <3>1, <3>2
  <2>3. QED BY <1>1, <1>3, <1>5, <2>2, KeepRows DEF WorkerExpire, TypeOK
<1>6. CASE WorkerRecord(w)
  <2>1. worker[w].hand \in Assignment /\ IsExpired(worker[w].hand)
    BY <1>6 DEF WorkerRecord, Phase, BatchFits
  <2>2. worker' \in [Worker -> Batch] /\ BatchFits'
    BY <1>1, <1>2, <1>6, OtherBatches DEF WorkerRecord
  <2>3. expiryEvent' \in SUBSET Assignment /\ ExpiryEventsAreTrue'
    BY <1>6, <2>1 DEF WorkerRecord, ExpiryEventsAreTrue, IsExpired, HasRow, TypeOK
  <2>4. QED BY <1>1, <1>6, <2>2, <2>3, KeepRows DEF WorkerRecord
<1>7. CASE WorkerFindMissing(w)
  <2>1. /\ MissingEvents \subseteq Assignment
        /\ \A a \in MissingEvents : HasRow(a)' /\ IsExpired(a)'
    BY <1>1 DEF MissingEvents, RowsPersist, IsExpired, HasRow
  <2>2. worker' \in [Worker -> Batch] /\ BatchFits'
    BY <1>1, <1>7, <2>1, OtherBatches DEF WorkerFindMissing
  <2>3. QED BY <1>1, <1>3, <1>7, <2>2, KeepRows DEF WorkerFindMissing, TypeOK
<1>8. CASE WorkerBackfill(w)
  <2>1. PICK b \in worker[w].todo :
            /\ expiryEvent' = expiryEvent \cup {b}
            /\ SetBatch(w, "backfill", worker[w].todo \ {b}, None)
    BY <1>8 DEF WorkerBackfill
  <2>2. \A a \in worker[w].todo : IsExpired(a) /\ IsExpired(a)'
    BY <1>1, <1>2, <1>8 DEF WorkerBackfill, Phase, BatchFits, RowsPersist
  <2>3. worker' \in [Worker -> Batch] /\ BatchFits'
    <3>1. /\ worker[w].todo \ {b} \in SUBSET Assignment
          /\ \A a \in worker[w].todo \ {b} : HasRow(a)' /\ IsExpired(a)'
      BY <1>2, <2>2
    <3>2. QED BY <1>1, <2>1, <3>1, OtherBatches
  <2>4. expiryEvent' \in SUBSET Assignment BY <1>2, <2>1 DEF TypeOK
  <2>5. ExpiryEventsAreTrue'
    <3>1. \A a \in expiryEvent : IsExpired(a)'
      BY <1>1 DEF ExpiryEventsAreTrue, RowsPersist, IsExpired, HasRow, TypeOK
    <3>2. \A a \in expiryEvent' : IsExpired(a)' BY <2>1, <2>2, <3>1
    <3>3. QED BY <3>2 DEF ExpiryEventsAreTrue, IsExpired, HasRow
  <2>6. QED BY <1>1, <1>8, <2>3, <2>4, <2>5, KeepRows DEF WorkerBackfill
<1>9. CASE WorkerDone(w) \/ WorkerCrash(w)
  <2>1. SetBatch(w, "idle", {}, None)
    BY <1>9 DEF WorkerDone, WorkerCrash, SetBatch, Idle
  <2>2. worker' \in [Worker -> Batch] /\ BatchFits'
    BY <1>1, <2>1, OtherBatches
  <2>3. QED BY <1>1, <1>3, <1>9, <2>2, KeepRows DEF WorkerDone, WorkerCrash, TypeOK
<1>10. QED BY <1>4, <1>5, <1>6, <1>7, <1>8, <1>9 DEF WorkerStep

-----------------------------------------------------------------------------
(* Check-then-write requests *)

\* The first half of a handler adds a request and changes no row.
LEMMA BeginTypeInv ==
    ASSUME TypeInv, NEW op \in CheckThenWrite, NEW o \in Order \cup {None},
           NEW r \in Rider \cup {None},
           NEW next \in OrderStatus \cup RiderStatus \cup {None},
           op \in {"status", "cancel", "forceCancel", "reassign"} => o \in Order,
           op = "status" => next \in OrderStatus,
           op = "reassign" => r \in Rider,
           op \in {"setStatus", "ping"} => r \in Rider /\ next \in RiderStatus,
           Begin(op, o, r, next)
    PROVE  TypeInv'
<1>1. request' \in Request
  BY DEF Begin, Request
<1>2. RequestFits'
  BY DEF Begin, RequestFits, CheckThenWrite
<1>3. RowsPersist
  BY DEF Begin, Untouched, RowsPersist, HasRow, IsExpired
<1>4. BatchFits' /\ ExpiryEventsAreTrue'
  BY <1>3, KeepBatches DEF Begin, Untouched
<1>5. QED BY <1>1, <1>2, <1>4 DEF Begin, Untouched, TypeInv, TypeOK

\* The second half writes rows and ends the request, but for the delivered
\* order that still has to free its rider.
LEMMA CommitTypeInv ==
    ASSUME TypeInv, UNCHANGED <<job, Untouched>>,
           order' \in [Order -> OrderRow],
           riderStatus' \in [Rider -> RiderStatus],
           request' \in Request \cup {None}, RequestFits'
    PROVE  TypeInv'
<1>1. RowsPersist
  BY DEF Untouched, RowsPersist, HasRow, IsExpired
<1>2. BatchFits' /\ ExpiryEventsAreTrue'
  BY <1>1, KeepBatches DEF Untouched
<1>3. QED BY <1>2 DEF Untouched, TypeInv, TypeOK

LEMMA RequestStepTypeInv ==
    ASSUME TypeInv, RequestStep
    PROVE  TypeInv'
<1> USE DEF TypeInv
<1>1. ASSUME NEW o \in Order, ReadStatus(o) \/ ReadCancel(o) \/ ReadForceCancel(o)
      PROVE  TypeInv'
  <2>1. CASE ReadStatus(o)
    <3>1. PICK next \in NextStatuses[order[o].status], r \in Rider \cup {None} :
              Begin("status", o, r, next)
      BY <2>1 DEF ReadStatus
    <3>2. next \in OrderStatus
      BY <3>1 DEF NextStatuses, TypeOK, OrderRow, OrderStatus
    <3>3. QED BY <3>1, <3>2, BeginTypeInv DEF CheckThenWrite
  <2>2. CASE ReadCancel(o)
    BY <2>2, BeginTypeInv DEF ReadCancel, CheckThenWrite, OrderStatus
  <2>3. CASE ReadForceCancel(o)
    BY <2>3, BeginTypeInv DEF ReadForceCancel, CheckThenWrite, OrderStatus
  <2>4. QED BY <1>1, <2>1, <2>2, <2>3
<1>2. ASSUME NEW o \in Order, NEW r \in Rider, ReadReassign(o, r) \/ ReadPing(o, r)
      PROVE  TypeInv'
  <2>1. CASE ReadReassign(o, r)
    BY <2>1, BeginTypeInv DEF ReadReassign, CheckThenWrite, OrderStatus
  <2>2. CASE ReadPing(o, r)
    BY <2>2, BeginTypeInv DEF ReadPing, CheckThenWrite, RiderStatus
  <2>3. QED BY <1>2, <2>1, <2>2
<1>3. ASSUME NEW r \in Rider, ReadSetStatus(r) \/ SetAnyStatus(r)
      PROVE  TypeInv'
  <2>1. CASE ReadSetStatus(r)
    BY <2>1, BeginTypeInv DEF ReadSetStatus, CheckThenWrite, RiderStatus
  <2>2. CASE SetAnyStatus(r)
    BY <2>2, CommitTypeInv DEF SetAnyStatus, SetRider, TypeOK, RequestFits
  <2>3. QED BY <1>3, <2>1, <2>2
<1>4. CASE CommitStatus
  <2> DEFINE row == [order[request.order] EXCEPT
                        !.status = request.next,
                        !.rider = IF request.rider # None THEN request.rider
                                                          ELSE @]
  <2>1. /\ request \in Request /\ request.order \in Order
        /\ request.next \in OrderStatus
    BY <1>4 DEF CommitStatus, Asked, RequestFits, TypeOK
  <2>2. row \in OrderRow
    <3>1. order[request.order] \in OrderRow BY <2>1 DEF TypeOK
    <3>2. request.rider \in Rider \cup {None} BY <2>1 DEF Request
    <3>3. QED BY <2>1, <3>1, <3>2 DEF OrderRow
  <2>3. order' \in [Order -> OrderRow]
    BY <1>4, <2>2 DEF CommitStatus, TypeOK
  <2>4. \/ request' = None
        \/ /\ row.rider \in Rider
           /\ request' = [op |-> "release", order |-> None,
                          rider |-> row.rider, next |-> "ONLINE"]
    BY <1>4, <2>2 DEF CommitStatus, OrderRow
  <2>5. request' \in Request \cup {None} /\ RequestFits'
    BY <2>4 DEF Request, RequestFits, RiderStatus
  <2>6. QED BY <1>4, <2>3, <2>5, CommitTypeInv DEF CommitStatus, TypeOK
<1>5. CASE CommitCancel \/ CommitForceCancel
  <2>1. request.order \in Order /\ request' = None
    BY <1>5 DEF CommitCancel, CommitForceCancel, Asked, RequestFits
  <2>2. order' = [order EXCEPT ![request.order].status = "CANCELLED"]
    BY <1>5 DEF CommitCancel, CommitForceCancel
  <2>3. order' \in [Order -> OrderRow]
    BY <2>1, <2>2 DEF TypeOK, OrderRow, OrderStatus
  <2>4. riderStatus' \in [Rider -> RiderStatus]
    BY <1>5 DEF CommitCancel, CommitForceCancel, SetRider, TypeOK, RiderStatus
  <2>5. QED
    BY <1>5, <2>1, <2>3, <2>4, CommitTypeInv
       DEF CommitCancel, CommitForceCancel, RequestFits
<1>6. CASE CommitReassign
  <2>1. request.order \in Order /\ request.rider \in Rider /\ request' = None
    BY <1>6 DEF CommitReassign, Asked, RequestFits
  <2>2. order' \in [Order -> OrderRow]
    BY <1>6, <2>1 DEF CommitReassign, TypeOK, OrderRow, OrderStatus
  <2>3. riderStatus' \in [Rider -> RiderStatus]
    BY <1>6 DEF CommitReassign, TypeOK, RiderStatus
  <2>4. QED
    BY <1>6, <2>1, <2>2, <2>3, CommitTypeInv DEF CommitReassign, RequestFits
<1>7. CASE CommitRiderStatus
  <2>1. request.rider \in Rider /\ request.next \in RiderStatus
    BY <1>7 DEF CommitRiderStatus, Asked, RequestFits
  <2>2. riderStatus' \in [Rider -> RiderStatus] /\ request' = None
    BY <1>7, <2>1 DEF CommitRiderStatus, SetRider, TypeOK
  <2>3. QED
    BY <1>7, <2>2, CommitTypeInv DEF CommitRiderStatus, RequestFits, TypeOK
<1>8. CASE Drop
  BY <1>8, CommitTypeInv DEF Drop, RequestFits, TypeOK
<1>9. QED BY <1>1, <1>2, <1>3, <1>4, <1>5, <1>6, <1>7, <1>8 DEF RequestStep

-----------------------------------------------------------------------------
(* The theorems *)

LEMMA NextTypeInv == TypeInv /\ [Next]_vars => TypeInv'
<1> SUFFICES ASSUME TypeInv, [Next]_vars PROVE TypeInv'
  OBVIOUS
<1>1. CASE UNCHANGED vars
  BY <1>1 DEF vars, TypeInv, TypeOK, RequestFits, BatchFits, HasRow, IsExpired,
     ExpiryEventsAreTrue
<1>2. QED
  BY <1>1, OfferStepTypeInv, WorkerStepTypeInv, JobStepTypeInv,
     RequestStepTypeInv DEF Next

THEOREM TypeInvariant == Spec => []TypeInv
BY InitTypeInv, NextTypeInv, PTL DEF Spec

\* Rows, batches and requests keep their types whatever endpoints are called.
THEOREM DispatchTypeCorrect == Spec => []TypeOK
<1>1. TypeInv => TypeOK BY DEF TypeInv
<1>2. QED BY <1>1, TypeInvariant, PTL

\* An ASSIGNMENT_EXPIRED event is only ever written for an offer that expired,
\* however many workers run and wherever they are cut off.
THEOREM ExpiryLogIsTrue == Spec => []ExpiryEventsAreTrue
<1>1. TypeInv => ExpiryEventsAreTrue BY DEF TypeInv
<1>2. QED BY <1>1, TypeInvariant, PTL

\* Every step treats answered offers as final.
LEMMA NextAnswers == TypeInv /\ [Next]_vars => Answers
<1> SUFFICES ASSUME TypeInv, [Next]_vars PROVE Answers
  OBVIOUS
<1>1. CASE UNCHANGED assignment
  BY <1>1 DEF Answers, AnswerStep, HasRow
<1>2. ASSUME NEW o \in Order, JobStep(o) PROVE Answers
  <2>1. CASE \E action \in Action : ResolveFailure(o, action)
    <3>1. CASE assignment' = Reassigned(o)
      <4>1. ASSUME NEW a \in Assignment
            PROVE  \/ assignment'[a] = assignment[a]
                   \/ /\ HasRow(a) /\ assignment[a].status = "ACCEPTED"
                      /\ assignment'[a]
                            = [assignment[a] EXCEPT !.status = "REASSIGNED"]
        BY <3>1 DEF Reassigned, Offers, HasRow
      <4>2. ASSUME NEW a \in Assignment, HasRow(a)
            PROVE  LET row == [assignment[a] EXCEPT !.status = "REASSIGNED"]
                   IN row # None /\ row.status = "REASSIGNED"
        <5>1. assignment[a] \in AssignmentRow
          BY <4>2, RowOf DEF TypeInv, HasRow
        <5>2. [assignment[a] EXCEPT !.status = "REASSIGNED"] \in AssignmentRow
          BY <5>1 DEF AssignmentRow, AssignmentStatus
        <5>3. QED BY <5>1, <5>2, RowIsNotNone DEF AssignmentRow
      <4>3. QED BY <4>1, <4>2 DEF Answers, AnswerStep, HasRow
    <3>2. QED BY <2>1, <3>1, <1>1 DEF ResolveFailure
  <2>2. QED
    BY <1>1, <1>2, <2>1 DEF JobStep, CreateJob, RiderStep, StepsOf, VerifyPickup,
       CompleteDelivery, RecordFailure, StartReturn, ConfirmReturn
<1>3. CASE RequestStep
  BY <1>1, <1>3 DEF RequestStep, ReadStatus, ReadCancel, ReadForceCancel,
     ReadReassign, ReadPing, ReadSetStatus, SetAnyStatus, CommitStatus,
     CommitCancel, CommitForceCancel, CommitReassign, CommitRiderStatus, Drop,
     Begin, Untouched
<1>4. QED
  BY <1>1, <1>2, <1>3, OfferAnswers, WorkerAnswers DEF Next, vars

\* A rider's answer to an offer is final: no late worker, no read and no other
\* offer undoes it; only the rider and a failure resolution give a job back.
THEOREM AnswersAreFinal == Spec => AnswerIsFinal
<1> DEFINE Step == \A a \in Assignment :
                      assignment[a] # None /\ assignment'[a] # assignment[a]
                          => \/ assignment[a].status = "OFFERED"
                             \/ /\ assignment[a].status = "ACCEPTED"
                                /\ assignment'[a].status
                                      \in {"REJECTED", "REASSIGNED"}
<1>1. TypeInv /\ [Next]_vars => [Step]_vars
  BY NextAnswers DEF Answers, AnswerStep, HasRow
<1>2. QED BY <1>1, TypeInvariant, PTL DEF Spec, AnswerIsFinal

-----------------------------------------------------------------------------
(* What Dispatch keeps whatever endpoints are called: one open offer per    *)
(* job, an accepted assignment that agrees with its job, and one unfinished *)
(* delivery per rider.  The admin and store endpoints write orders and      *)
(* riders, never jobs or assignments, so the two rows the partial indexes   *)
(* guard stay in step with each other even when the order row does not      *)
(* follow.                                                                  *)

Open == {"OFFERED", "ACCEPTED"}
Waiting == "WAITING_FOR_DISPATCH"

\* The two facts support each other: an accepted offer can be given back only
\* because no other offer of its job is accepted.
OfferInv == OneOpenOffer /\ AcceptedMatchesJob

\* Instances of the two invariants for offers known to have rows.
LEMMA OneOpen ==
    ASSUME OneOpenOffer, NEW a \in Assignment, NEW b \in Assignment,
           HasRow(a), HasRow(b), assignment[a].job = assignment[b].job,
           assignment[a].status \in Open, assignment[b].status \in Open
    PROVE  a = b
BY DEF OneOpenOffer, Open, HasRow

LEMMA InitOfferInv == Init => OfferInv /\ OneActiveJobPerRider
BY DEF Init, OfferInv, OneOpenOffer, AcceptedMatchesJob, OneActiveJobPerRider

-----------------------------------------------------------------------------
(* One unfinished delivery per rider *)

LEMMA JobIsNotNone ==
    ASSUME NEW row \in JobRow
    PROVE  row # None
BY DispatchAssumption

\* The job a transition leaves behind, and the others.
LEMMA MoveEffect ==
    ASSUME TypeOK, NEW o \in Order, NEW row \in JobRow, job[o] \in JobRow,
           NEW next \in JobStatus, NEW assigned \in Rider \cup {None},
           Move(o, row, next, assigned)
    PROVE  /\ job'[o] # None /\ job'[o].status = next
           /\ job'[o].rider = JobRider(o, next, assigned)
           /\ \A p \in Order : p # o => job'[p] = job[p]
<1> DEFINE r == JobRider(o, next, assigned)
           moved == [row EXCEPT !.status = next, !.rider = r]
<1>1. r \in Rider \cup {None}
  BY DEF JobRider, JobRow
<1>2. moved \in JobRow /\ moved.status = next /\ moved.rider = r
  <2> HIDE DEF r
  <2>1. QED BY <1>1 DEF JobRow
<1>3. moved # None
  BY <1>2, JobIsNotNone
<1>4. job' = [job EXCEPT ![o] = moved]
  BY DEF Move, MayMove
<1>5. job'[o] = moved /\ \A p \in Order : p # o => job'[p] = job[p]
  <2> HIDE DEF moved
  <2>1. QED BY <1>4 DEF TypeOK
<1>6. QED BY <1>2, <1>3, <1>5

\* The index lets job o have rider r in this status.
LEMMA HolderKept ==
    ASSUME OneActiveJobPerRider, NEW o \in Order,
           NEW status \in JobStatus, NEW r \in Rider \cup {None},
           RiderMayHold(o, status, r),
           job'[o].status = status, job'[o].rider = r,
           \A p \in Order : p # o => job'[p] = job[p]
    PROVE  OneActiveJobPerRider'
BY DEF OneActiveJobPerRider, RiderMayHold

LEMMA MoveOneJob ==
    ASSUME TypeOK, OneActiveJobPerRider,
           NEW o \in Order, NEW row \in JobRow, job[o] \in JobRow,
           NEW next \in JobStatus, NEW assigned \in Rider \cup {None},
           Move(o, row, next, assigned)
    PROVE  OneActiveJobPerRider'
<1>1. JobRider(o, next, assigned) \in Rider \cup {None}
  BY DEF JobRider, JobRow
<1>2. RiderMayHold(o, next, JobRider(o, next, assigned))
  BY DEF Move, MayMove
<1>3. QED BY <1>1, <1>2, MoveEffect, HolderKept

-----------------------------------------------------------------------------
(* Steps of a job *)

\* A job that does not go back to the queue keeps the rider who accepted it.
LEMMA MoveKeepsHolder ==
    ASSUME TypeInv, AcceptedMatchesJob, NEW o \in Order, NEW row \in JobRow,
           job[o] \in JobRow, NEW next \in JobStatus \ {Waiting},
           Move(o, row, next, None), UNCHANGED assignment
    PROVE  AcceptedMatchesJob'
<1>1. /\ job'[o] # None /\ job'[o].status = next
      /\ job'[o].rider = job[o].rider
      /\ \A p \in Order : p # o => job'[p] = job[p]
  BY MoveEffect DEF TypeInv, JobRider, Waiting
<1>2. \A a \in Assignment : HasRow(a) => assignment[a].job \in Order
  BY RowOf DEF TypeInv, HasRow, AssignmentRow
<1>3. QED BY <1>1, <1>2 DEF AcceptedMatchesJob, HasRow, Waiting

LEMMA SameOffers ==
    ASSUME OneOpenOffer, UNCHANGED assignment
    PROVE  OneOpenOffer'
BY DEF OneOpenOffer

\* A transition that leaves the offers as they are and the job in work.
LEMMA TransitionOfferInv ==
    ASSUME TypeInv, OfferInv, OneActiveJobPerRider, NEW o \in Order,
           NEW row \in JobRow, job[o] # None,
           NEW next \in JobStatus \ {Waiting}, Transition(o, row, next),
           UNCHANGED assignment
    PROVE  OfferInv' /\ OneActiveJobPerRider'
<1>1. job[o] \in JobRow /\ Move(o, row, next, None) /\ TypeOK
  BY JobRowOf DEF Transition, TypeInv
<1>2. QED BY <1>1, MoveOneJob, MoveKeepsHolder, SameOffers DEF OfferInv

LEMMA JobStepOfferInv ==
    ASSUME TypeInv, OfferInv, OneActiveJobPerRider,
           NEW o \in Order, JobStep(o)
    PROVE  OfferInv' /\ OneActiveJobPerRider'
<1> USE DEF TypeInv
<1>1. CASE CreateJob(o)
  <2> DEFINE status == initialStatus(order[o].status)
             row == [status |-> status, rider |-> order[o].rider,
                     proof |-> None, decision |-> None]
  <2>1. status \in JobStatus /\ order[o].rider \in Rider \cup {None}
    BY <1>1 DEF CreateJob, initialStatus, TypeOK, OrderRow, OrderStatus, JobStatus
  <2>2. row \in JobRow /\ row # None
    <3>1. row \in JobRow BY <2>1 DEF JobRow
    <3>2. QED BY <3>1, JobIsNotNone
  <2>3. /\ job[o] = None /\ job' = [job EXCEPT ![o] = row]
        /\ RiderMayHold(o, status, order[o].rider)
        /\ UNCHANGED assignment
    BY <1>1 DEF CreateJob
  <2>4. /\ job'[o] = row
        /\ \A p \in Order : p # o => job'[p] = job[p]
    <3> HIDE DEF row
    <3>1. QED BY <2>3 DEF TypeOK
  <2>5. OneActiveJobPerRider'
    <3>1. job'[o].status = status /\ job'[o].rider = order[o].rider
      BY <2>4
    <3>2. QED BY <2>1, <2>3, <2>4, <3>1, HolderKept
  <2>6. AcceptedMatchesJob'
    <3>1. \A a \in Assignment :
              HasRow(a) /\ assignment[a].status = "ACCEPTED"
                  => assignment[a].job \in Order /\ assignment[a].job # o
      BY <2>3, RowOf DEF OfferInv, AcceptedMatchesJob, HasRow, AssignmentRow
    <3>2. QED BY <2>3, <2>4, <3>1 DEF OfferInv, AcceptedMatchesJob, HasRow
  <2>7. QED BY <2>3, <2>5, <2>6, SameOffers DEF OfferInv
<1>2. CASE RiderStep(o)
  <2>1. PICK next \in JobStatus : /\ <<job[o].status, next>> \in RiderSteps
                                  /\ Transition(o, job[o], next)
    BY <1>2 DEF RiderStep, StepsOf
  <2>2. next # Waiting BY <2>1 DEF RiderSteps, Waiting
  <2>3. QED BY <1>2, <2>1, <2>2, JobRowOf, TransitionOfferInv DEF RiderStep, StepsOf
<1>3. CASE VerifyPickup(o)
  <2> DEFINE proof == IF job[o].proof = None THEN job[o].rider ELSE job[o].proof
  <2>1. job[o] # None /\ job[o] \in JobRow
    BY <1>3, JobRowOf DEF VerifyPickup, HasStatus
  <2>2. [job[o] EXCEPT !.proof = proof] \in JobRow
    BY <2>1 DEF JobRow
  <2>3. /\ Transition(o, [job[o] EXCEPT !.proof = proof], "PICKUP_VERIFIED")
        /\ UNCHANGED assignment
    BY <1>3 DEF VerifyPickup
  <2>4. QED
    BY <2>1, <2>2, <2>3, TransitionOfferInv DEF JobStatus, Waiting
<1>4. CASE CompleteDelivery(o)
  BY <1>4, JobRowOf, TransitionOfferInv
     DEF CompleteDelivery, HasStatus, JobStatus, Waiting
<1>5. CASE RecordFailure(o)
  <2>1. PICK action \in Policy :
            /\ job[o] # None
            /\ Transition(o, [job[o] EXCEPT !.decision = action],
                          "DELIVERY_FAILED")
    BY <1>5 DEF RecordFailure, HasStatus
  <2>2. [job[o] EXCEPT !.decision = action] \in JobRow
    BY <2>1, JobRowOf DEF JobRow, Action
  <2>3. UNCHANGED assignment BY <1>5 DEF RecordFailure
  <2>4. QED
    BY <2>1, <2>2, <2>3, TransitionOfferInv DEF JobStatus, Waiting
<1>6. CASE StartReturn(o)
  <2>1. job[o] # None /\ Resolved(o) \in JobRow
    BY <1>6, JobRowOf DEF StartReturn, HasStatus, Resolved, JobRow
  <2>2. Transition(o, Resolved(o), "RETURNING_TO_STORE") /\ UNCHANGED assignment
    BY <1>6 DEF StartReturn
  <2>3. QED BY <2>1, <2>2, TransitionOfferInv DEF JobStatus, Waiting
<1>7. CASE ConfirmReturn(o)
  BY <1>7, JobRowOf, TransitionOfferInv
     DEF ConfirmReturn, HasStatus, JobStatus, Waiting
<1>8. ASSUME NEW action \in Action, ResolveFailure(o, action)
      PROVE  OfferInv' /\ OneActiveJobPerRider'
  <2>1. job[o] # None /\ job[o] \in JobRow /\ Resolved(o) \in JobRow
    BY <1>8, JobRowOf DEF ResolveFailure, HasStatus, Resolved, JobRow
  <2>2. CASE action = "ESCALATE_TO_ADMIN"
    <3> DEFINE row == [job[o] EXCEPT !.decision = action]
    <3>1. job' = [job EXCEPT ![o] = row] /\ UNCHANGED assignment
      BY <1>8, <2>2 DEF ResolveFailure
    <3>2. /\ row \in JobRow /\ row.status = job[o].status
          /\ row.rider = job[o].rider
      BY <2>1 DEF JobRow
    <3>3. row # None BY <3>2, JobIsNotNone
    <3>4. job'[o] = row /\ \A p \in Order : p # o => job'[p] = job[p]
      <4> HIDE DEF row
      <4>1. QED BY <3>1 DEF TypeOK
    <3>5. \A p \in Order : /\ job[p] # None <=> job'[p] # None
                           /\ job'[p] # None => /\ job'[p].status = job[p].status
                                                /\ job'[p].rider = job[p].rider
      BY <2>1, <3>2, <3>3, <3>4
    <3>6. OneActiveJobPerRider'
      BY <3>5 DEF OneActiveJobPerRider
    <3>7. \A a \in Assignment : HasRow(a) => assignment[a].job \in Order
      BY RowOf DEF HasRow, AssignmentRow
    <3>8. AcceptedMatchesJob'
      BY <3>1, <3>5, <3>7 DEF OfferInv, AcceptedMatchesJob, HasRow
    <3>9. QED BY <3>1, <3>6, <3>8, SameOffers DEF OfferInv
  <2>3. CASE action = "REASSIGN_RIDER"
    <3>1. /\ Transition(o, Resolved(o), Waiting)
          /\ assignment' = Reassigned(o)
      BY <1>8, <2>3 DEF ResolveFailure, Waiting
    <3>2. Move(o, Resolved(o), Waiting, None) BY <3>1 DEF Transition
    <3>3. OneActiveJobPerRider'
      BY <2>1, <3>2, MoveOneJob DEF Waiting, JobStatus
    <3>4. \A p \in Order : p # o => job'[p] = job[p]
      BY <2>1, <3>2, MoveEffect DEF Waiting, JobStatus
    <3>5. ASSUME NEW a \in Assignment, HasRow(a)'
          PROVE  /\ HasRow(a)
                 /\ assignment'[a].job = assignment[a].job
                 /\ assignment'[a].rider = assignment[a].rider
                 /\ assignment'[a].status \in Open
                       => /\ assignment'[a].status = assignment[a].status
                          /\ assignment[a].status = "ACCEPTED"
                                => assignment[a].job # o
      <4>1. CASE a \in Offers(o, {"ACCEPTED"})
        <5>1. assignment[a] \in AssignmentRow /\ HasRow(a)
          BY <4>1, RowOf DEF Offers, HasRow
        <5>2. assignment'[a] = [assignment[a] EXCEPT !.status = "REASSIGNED"]
          BY <3>1, <4>1 DEF Reassigned
        <5>3. QED BY <5>1, <5>2 DEF AssignmentRow, Open
      <4>2. CASE a \notin Offers(o, {"ACCEPTED"})
        <5>1. assignment'[a] = assignment[a]
          BY <3>1, <4>2 DEF Reassigned
        <5>2. QED BY <3>5, <4>2, <5>1 DEF Offers, HasRow
      <4>3. QED BY <4>1, <4>2
    <3>6. OneOpenOffer'
      BY <3>5 DEF OfferInv, OneOpenOffer, HasRow, Open
    <3>7. AcceptedMatchesJob'
      <4>1. \A a \in Assignment : HasRow(a) => assignment[a].job \in Order
        BY RowOf DEF HasRow, AssignmentRow
      <4>2. QED BY <3>4, <3>5, <4>1 DEF OfferInv, AcceptedMatchesJob, HasRow, Open
    <3>8. QED BY <3>3, <3>6, <3>7 DEF OfferInv
  <2>4. CASE action \notin {"ESCALATE_TO_ADMIN", "REASSIGN_RIDER"}
    <3>1. \E next \in JobStatus \ {Waiting} : Transition(o, Resolved(o), next)
      BY <1>8, <2>4 DEF ResolveFailure, Action, Policy, JobStatus, Waiting
    <3>2. UNCHANGED assignment
      BY <1>8, <2>4 DEF ResolveFailure
    <3>3. QED BY <2>1, <3>1, <3>2, TransitionOfferInv
  <2>5. QED BY <2>2, <2>3, <2>4
<1>9. QED
  BY <1>1, <1>2, <1>3, <1>4, <1>5, <1>6, <1>7, <1>8 DEF JobStep

-----------------------------------------------------------------------------
(* Steps on offers *)

\* A step that opens no offer and accepts none, and leaves the jobs alone.
LEMMA FewerOffers ==
    ASSUME TypeInv, OfferInv, UNCHANGED job,
           \A a \in Assignment : HasRow(a)' =>
               /\ HasRow(a)
               /\ assignment'[a].job = assignment[a].job
               /\ assignment'[a].rider = assignment[a].rider
               /\ assignment'[a].status \in Open
                     => assignment'[a].status = assignment[a].status
    PROVE  OfferInv'
<1>1. OneOpenOffer'
  BY DEF OfferInv, OneOpenOffer, HasRow, Open
<1>2. AcceptedMatchesJob'
  BY DEF OfferInv, AcceptedMatchesJob, HasRow, Open
<1>3. QED BY <1>1, <1>2 DEF OfferInv

LEMMA SameJobs ==
    ASSUME OneActiveJobPerRider, UNCHANGED job
    PROVE  OneActiveJobPerRider'
BY DEF OneActiveJobPerRider

LEMMA OfferStepOfferInv ==
    ASSUME TypeInv, OfferInv, OneActiveJobPerRider, OfferStep
    PROVE  OfferInv' /\ OneActiveJobPerRider'
<1> USE DEF TypeInv
<1>1. ASSUME NEW o \in Order, NEW r \in Rider, NEW b \in Assignment,
             Offer(o, r, b)
      PROVE  OfferInv' /\ OneActiveJobPerRider'
  <2> DEFINE row == [job |-> o, rider |-> r, status |-> "OFFERED",
                     overdue |-> FALSE]
             as == Offers(o, {"OFFERED"})
  <2>1. /\ assignment' = [Expired(as) EXCEPT ![b] = row]
        /\ assignment[b] = None /\ ~OpenOffer(o) /\ UNCHANGED job
    BY <1>1 DEF Offer, MayOffer
  <2>2. row \in AssignmentRow /\ row # None
    <3>1. row \in AssignmentRow BY DEF AssignmentRow, AssignmentStatus
    <3>2. QED BY <3>1, RowIsNotNone
  <2>3. /\ assignment'[b] = row
        /\ \A a \in Assignment : a # b => assignment'[a] = Expired(as)[a]
    <3> HIDE DEF row
    <3>1. QED BY <2>1, ExpiredType
  <2>4. ASSUME NEW a \in Assignment, a # b, HasRow(a)'
        PROVE  /\ HasRow(a)
               /\ assignment'[a].job = assignment[a].job
               /\ assignment'[a].rider = assignment[a].rider
               /\ assignment'[a].status \in Open
                     => assignment'[a].status = assignment[a].status
    BY <2>3, <2>4, ExpiredType DEF HasRow, Open
  <2>5. ASSUME NEW a \in Assignment, a # b, HasRow(a)',
               assignment'[a].status \in Open
        PROVE  assignment'[a].job # o
    <3>1. /\ HasRow(a) /\ assignment[a].status \in Open
          /\ assignment'[a].job = assignment[a].job
          /\ assignment'[a].status = assignment[a].status
      BY <2>4, <2>5
    <3>2. SUFFICES ASSUME assignment[a].job = o PROVE FALSE
      BY <3>1
    <3>3. Overdue(a)
      BY <2>1, <3>1, <3>2 DEF OpenOffer, Offers, HasRow, Open
    <3>4. a \in as
      BY <3>1, <3>2, <3>3 DEF Overdue, Offers, HasRow
    <3>5. assignment'[a] = [assignment[a] EXCEPT !.status = "EXPIRED"]
      BY <2>3, <2>5, <3>1, <3>3, <3>4 DEF Expired, HasRow
    <3>6. assignment[a] \in AssignmentRow
      BY <3>1, RowOf DEF HasRow
    <3>7. QED BY <2>5, <3>5, <3>6 DEF Open, AssignmentRow
  <2>6. OneOpenOffer'
    <3> SUFFICES ASSUME NEW a \in Assignment, NEW c \in Assignment, a # c,
                        HasRow(a)', HasRow(c)',
                        assignment'[a].status \in Open,
                        assignment'[c].status \in Open,
                        assignment'[a].job = assignment'[c].job
                 PROVE  FALSE
      BY DEF OneOpenOffer, HasRow, Open
    <3>1. CASE a = b \/ c = b
      BY <2>3, <2>5, <3>1
    <3>2. CASE a # b /\ c # b
      BY <2>4, <3>2, OneOpen DEF OfferInv
    <3>3. QED BY <3>1, <3>2
  <2>7. AcceptedMatchesJob'
    <3>1. assignment'[b].status # "ACCEPTED" BY <2>3
    <3>2. QED
      BY <2>1, <2>4, <3>1 DEF OfferInv, AcceptedMatchesJob, HasRow, Open
  <2>8. QED BY <2>1, <2>6, <2>7, SameJobs DEF OfferInv
<1>2. ASSUME NEW b \in Assignment, Accept(b)
      PROVE  OfferInv' /\ OneActiveJobPerRider'
  <2> DEFINE o == assignment[b].job
             r == assignment[b].rider
             row == [assignment[b] EXCEPT !.status = "ACCEPTED"]
  <2>1. /\ HasRow(b) /\ assignment[b] \in AssignmentRow
        /\ assignment[b].status = "OFFERED"
        /\ HasStatus(o, {Waiting}) /\ Move(o, job[o], "RIDER_ASSIGNED", r)
        /\ assignment' = [assignment EXCEPT ![b] = row]
    BY <1>2, RowOf DEF Accept, MayAccept, InTime, HasRow, Waiting
  <2>2. /\ row \in AssignmentRow /\ row.status = "ACCEPTED"
        /\ row.job = o /\ row.rider = r /\ o \in Order /\ r \in Rider
    BY <2>1 DEF AssignmentRow, AssignmentStatus
  <2>3. /\ assignment'[b] = row
        /\ \A a \in Assignment : a # b => assignment'[a] = assignment[a]
    BY <2>1, <2>2, SetOffer
  <2>4. job[o] \in JobRow /\ job[o].status = Waiting
    BY <2>1, <2>2, JobRowOf DEF HasStatus
  <2>5. /\ job'[o] # None /\ job'[o].status = "RIDER_ASSIGNED"
        /\ job'[o].rider = r
        /\ \A p \in Order : p # o => job'[p] = job[p]
    <3>1. r # None BY <2>2, DispatchAssumption
    <3>2. JobRider(o, "RIDER_ASSIGNED", r) = r BY <3>1 DEF JobRider
    <3>3. QED BY <2>1, <2>2, <2>4, <3>2, MoveEffect DEF JobStatus
  <2>6. OneActiveJobPerRider'
    BY <2>1, <2>2, <2>4, MoveOneJob DEF JobStatus
  <2>7. OneOpenOffer'
    <3> SUFFICES ASSUME NEW a \in Assignment, NEW c \in Assignment,
                        HasRow(a)', HasRow(c)',
                        assignment'[a].status \in Open,
                        assignment'[c].status \in Open,
                        assignment'[a].job = assignment'[c].job
                 PROVE  a = c
      BY DEF OneOpenOffer, HasRow, Open
    <3>1. \A d \in Assignment : HasRow(d)' =>
              /\ HasRow(d) /\ assignment'[d].job = assignment[d].job
              /\ assignment'[d].status \in Open => assignment[d].status \in Open
      BY <2>1, <2>2, <2>3 DEF HasRow, Open
    <3>2. QED BY <3>1, OneOpen DEF OfferInv
  <2>8. AcceptedMatchesJob'
    <3> SUFFICES ASSUME NEW a \in Assignment, HasRow(a)',
                        assignment'[a].status = "ACCEPTED"
                 PROVE  /\ job'[assignment'[a].job] # None
                        /\ job'[assignment'[a].job].status # Waiting
                        /\ job'[assignment'[a].job].rider = assignment'[a].rider
      BY DEF AcceptedMatchesJob, HasRow, Waiting
    <3>1. CASE a = b
      BY <2>2, <2>3, <2>5, <3>1 DEF Waiting
    <3>2. CASE a # b
      <4>1. assignment'[a] = assignment[a] BY <2>3, <3>2
      <4>2. HasRow(a) /\ assignment[a].job \in Order
        BY <4>1, RowOf DEF HasRow, AssignmentRow
      <4>3. assignment[a].job # o
        BY <2>4, <4>1, <4>2
           DEF OfferInv, AcceptedMatchesJob, HasRow, Waiting
      <4>4. QED
        BY <2>5, <4>1, <4>2, <4>3
           DEF OfferInv, AcceptedMatchesJob, HasRow, Waiting
    <3>3. QED BY <3>1, <3>2
  <2>9. QED BY <2>6, <2>7, <2>8 DEF OfferInv
<1>3. ASSUME NEW b \in Assignment, Reject(b)
      PROVE  OfferInv' /\ OneActiveJobPerRider'
  <2> DEFINE o == assignment[b].job
             row == [assignment[b] EXCEPT !.status = "REJECTED"]
  <2>1. /\ HasRow(b) /\ assignment[b] \in AssignmentRow
        /\ assignment' = [assignment EXCEPT ![b] = row]
    BY <1>3, RowOf DEF Reject, HasRow
  <2>2. /\ row \in AssignmentRow /\ row.status = "REJECTED"
        /\ row.job = o /\ row.rider = assignment[b].rider /\ o \in Order
    BY <2>1 DEF AssignmentRow, AssignmentStatus
  <2>3. /\ assignment'[b] = row
        /\ \A a \in Assignment : a # b => assignment'[a] = assignment[a]
    BY <2>1, <2>2, SetOffer
  <2>4. \A a \in Assignment : HasRow(a)' =>
            /\ HasRow(a)
            /\ assignment'[a].job = assignment[a].job
            /\ assignment'[a].rider = assignment[a].rider
            /\ assignment'[a].status \in Open
                  => a # b /\ assignment'[a].status = assignment[a].status
    BY <2>1, <2>2, <2>3 DEF HasRow, Open
  <2>5. CASE ~GivesBackJob(b)
    <3>1. UNCHANGED job BY <1>3, <2>5 DEF Reject
    <3>2. QED BY <2>4, <3>1, FewerOffers, SameJobs
  <2>6. CASE GivesBackJob(b)
    <3>1. /\ Move(o, job[o], Waiting, None) /\ assignment[b].status = "ACCEPTED"
          /\ job[o] \in JobRow
      BY <1>3, <2>2, <2>6, JobRowOf
         DEF Reject, Rejectable, GivesBackJob, HasStatus, Waiting
    <3>2. OneActiveJobPerRider'
      BY <2>2, <3>1, MoveOneJob DEF JobStatus, Waiting
    <3>3. \A p \in Order : p # o => job'[p] = job[p]
      BY <2>2, <3>1, MoveEffect DEF JobStatus, Waiting
    <3>4. OneOpenOffer'
      BY <2>4 DEF OfferInv, OneOpenOffer, HasRow, Open
    <3>5. ASSUME NEW a \in Assignment, HasRow(a)',
                 assignment'[a].status = "ACCEPTED"
          PROVE  /\ HasRow(a) /\ assignment[a].status = "ACCEPTED"
                 /\ assignment'[a].job = assignment[a].job
                 /\ assignment'[a].rider = assignment[a].rider
                 /\ assignment[a].job \in Order \ {o}
      <4>1. /\ HasRow(a) /\ a # b /\ assignment[a].status = "ACCEPTED"
            /\ assignment'[a].job = assignment[a].job
            /\ assignment'[a].rider = assignment[a].rider
        BY <2>4, <3>5 DEF Open
      <4>2. assignment[a].job # o
        BY <2>1, <3>1, <4>1, OneOpen DEF OfferInv, Open
      <4>3. assignment[a].job \in Order
        BY <4>1, RowOf DEF HasRow, AssignmentRow
      <4>4. QED BY <4>1, <4>2, <4>3
    <3>6. AcceptedMatchesJob'
      BY <3>3, <3>5 DEF OfferInv, AcceptedMatchesJob, HasRow
    <3>7. QED BY <3>2, <3>4, <3>6 DEF OfferInv
  <2>7. QED BY <2>5, <2>6
<1>4. ASSUME NEW b \in Assignment, Tick(b)
      PROVE  OfferInv' /\ OneActiveJobPerRider'
  <2> DEFINE row == [assignment[b] EXCEPT !.overdue = TRUE]
  <2>1. /\ HasRow(b) /\ assignment[b] \in AssignmentRow
        /\ assignment' = [assignment EXCEPT ![b] = row] /\ UNCHANGED job
    BY <1>4, RowOf DEF Tick, HasRow
  <2>2. /\ row \in AssignmentRow /\ row.status = assignment[b].status
        /\ row.job = assignment[b].job /\ row.rider = assignment[b].rider
    BY <2>1 DEF AssignmentRow
  <2>3. /\ assignment'[b] = row
        /\ \A a \in Assignment : a # b => assignment'[a] = assignment[a]
    BY <2>1, <2>2, SetOffer
  <2>4. QED
    BY <2>1, <2>2, <2>3, FewerOffers, SameJobs DEF HasRow
<1>5. ASSUME NEW r \in Rider, ExpireByRead(r)
      PROVE  OfferInv' /\ OneActiveJobPerRider'
  <2>1. PICK as : assignment' = Expired(as) /\ UNCHANGED job
    BY <1>5 DEF ExpireByRead
  <2>2. QED BY <2>1, ExpiredType, FewerOffers, SameJobs DEF HasRow, Open
<1>6. QED BY <1>1, <1>2, <1>3, <1>4, <1>5 DEF OfferStep

-----------------------------------------------------------------------------
(* The other steps, and the theorems *)

LEMMA WorkerStepOfferInv ==
    ASSUME TypeInv, OfferInv, OneActiveJobPerRider,
           NEW w \in Worker, WorkerStep(w)
    PROVE  OfferInv' /\ OneActiveJobPerRider'
<1>1. UNCHANGED job
  BY DEF WorkerStep, WorkerFind, WorkerExpire, WorkerRecord, WorkerFindMissing,
     WorkerBackfill, WorkerDone, WorkerCrash, Rows
<1>2. CASE UNCHANGED assignment
  BY <1>1, <1>2, FewerOffers, SameJobs DEF HasRow
<1>3. ASSUME NEW b \in worker[w].todo,
             assignment' = [assignment EXCEPT ![b].status = "EXPIRED"]
      PROVE  OfferInv' /\ OneActiveJobPerRider'
  <2> DEFINE row == [assignment[b] EXCEPT !.status = "EXPIRED"]
  <2>1. b \in Assignment /\ HasRow(b) /\ assignment[b] \in AssignmentRow
    BY <1>3, WorkerType, RowOf DEF TypeInv, BatchFits, HasRow
  <2>2. /\ row \in AssignmentRow /\ row.status = "EXPIRED"
        /\ row.job = assignment[b].job /\ row.rider = assignment[b].rider
    BY <2>1 DEF AssignmentRow, AssignmentStatus
  <2>3. /\ assignment'[b] = row
        /\ \A a \in Assignment : a # b => assignment'[a] = assignment[a]
    <3>1. assignment' = [assignment EXCEPT ![b] = row] BY <1>3
    <3>2. QED BY <2>1, <2>2, <3>1, SetOffer DEF TypeInv
  <2>4. QED
    BY <1>1, <2>1, <2>2, <2>3, FewerOffers, SameJobs DEF HasRow, Open
<1>4. QED
  BY <1>2, <1>3 DEF WorkerStep, WorkerFind, WorkerExpire, WorkerRecord,
     WorkerFindMissing, WorkerBackfill, WorkerDone, WorkerCrash

\* The endpoints of orders, riders and tracking write neither jobs nor offers.
LEMMA RequestStepFrame ==
    ASSUME RequestStep
    PROVE  UNCHANGED <<job, assignment>>
BY DEF RequestStep, ReadStatus, ReadCancel, ReadForceCancel, ReadReassign,
   ReadPing, ReadSetStatus, SetAnyStatus, CommitStatus, CommitCancel,
   CommitForceCancel, CommitReassign, CommitRiderStatus, Drop, Begin, Untouched

SafetyInv == TypeInv /\ OfferInv /\ OneActiveJobPerRider

LEMMA NextSafetyInv == SafetyInv /\ [Next]_vars => SafetyInv'
<1> SUFFICES ASSUME SafetyInv, [Next]_vars PROVE SafetyInv'
  OBVIOUS
<1> USE DEF SafetyInv
<1>1. TypeInv' BY NextTypeInv
<1>2. CASE UNCHANGED <<job, assignment>>
  <2>1. OfferInv' BY <1>2, FewerOffers DEF HasRow
  <2>2. QED BY <1>1, <1>2, <2>1, SameJobs
<1>3. QED
  BY <1>1, <1>2, OfferStepOfferInv, WorkerStepOfferInv, JobStepOfferInv,
     RequestStepFrame DEF Next, vars

LEMMA SafetyInvariant == Spec => []SafetyInv
<1>1. Init => SafetyInv BY InitTypeInv, InitOfferInv DEF SafetyInv
<1>2. QED BY <1>1, NextSafetyInv, PTL DEF Spec

\* A delivery job never has two offers open, for any number of dispatchers,
\* workers and reads that expire offers.
THEOREM OneOffer == Spec => []OneOpenOffer
<1>1. SafetyInv => OneOpenOffer BY DEF SafetyInv, OfferInv
<1>2. QED BY <1>1, SafetyInvariant, PTL

\* An accepted assignment and its job name the same rider, the job is out of the
\* queue, and no rider is the rider of two unfinished deliveries, whatever is
\* done to the order behind them.
THEOREM RidersMatch == Spec => []RidersMatchJobs
<1>1. SafetyInv => RidersMatchJobs BY DEF SafetyInv, OfferInv, RidersMatchJobs
<1>2. QED BY <1>1, SafetyInvariant, PTL

-----------------------------------------------------------------------------
(***************************************************************************)
(* Nothing but the dispatch handlers: Endpoints = {}                       *)
(***************************************************************************)

\* The only request in flight packs an order that is still CONFIRMED.
OnlyPacking ==
    request # None =>
        /\ request.op = "status" /\ request.next = "PACKED"
        /\ request.rider = None
        /\ order[request.order].status = "CONFIRMED"

\* An order has no rider before it has a job.
NoJobNoRider ==
    \A o \in Order : job[o] = None =>
        order[o].status \in {"CONFIRMED", "PACKED"} /\ order[o].rider = None

OrderInv == OnlyPacking /\ NoJobNoRider /\ OrderFollowsJob

AcceptedFor(a, o) ==
    HasRow(a) /\ assignment[a].job = o /\ assignment[a].status = "ACCEPTED"

LeftQueue == JobStatus \ {Waiting}

\* A job that has left the queue was accepted: ActiveJobIsAccepted without the
\* uniqueness, which is OneOpenOffer's, and for finished jobs as well.
SomeAccepted ==
    \A o \in Order : HasStatus(o, LeftQueue)
        => \E a \in Assignment : AcceptedFor(a, o)

AloneInv == OrderInv /\ SomeAccepted /\ BusyMeansDelivering

LEMMA InitAloneInv == Init => AloneInv /\ ParcelIsWithRider
BY DEF Init, AloneInv, OrderInv, OnlyPacking, NoJobNoRider, OrderFollowsJob,
   SomeAccepted, BusyMeansDelivering, ParcelIsWithRider, HasStatus

-----------------------------------------------------------------------------
(* What a step does to one job *)

Outside == {"PICKUP_VERIFIED", "OUT_FOR_DELIVERY", "RIDER_AT_CUSTOMER",
            "DELIVERY_FAILED", "RETURNING_TO_STORE", "RETURNED_TO_STORE",
            "DELIVERED"}

\* The proof of hand-over that goes out of the store with the parcel.
Carries(o, row, next) ==
    next \in Outside =>
        \/ job[o].status \in Outside /\ row.proof = job[o].proof
        \/ job[o].rider # None /\ row.proof = job[o].rider

\* A job in a rider's hands moves on with him.
Travels(o, row, next) ==
    /\ row \in JobRow /\ next \in JobStatus \ {Waiting}
    /\ job[o].status \in ACTIVE_JOB_STATUSES
    /\ Transition(o, row, next)
    /\ UNCHANGED assignment
    /\ FailureRoles \subseteq {"RIDER"} => Carries(o, row, next)

\* A failed job goes back to the queue.
Requeued(o) ==
    /\ job[o].status = "DELIVERY_FAILED" /\ Resolved(o) \in JobRow
    /\ Transition(o, Resolved(o), Waiting)
    /\ assignment' = Reassigned(o)

\* Only the decision on a failure changes.
Redecided(o, row) ==
    /\ row \in JobRow /\ row.status = job[o].status
    /\ row.rider = job[o].rider /\ row.proof = job[o].proof
    /\ job' = [job EXCEPT ![o] = row]
    /\ UNCHANGED <<order, riderStatus, assignment>>

\* The job steps other than CreateJob come down to these three.
LEMMA JobStepKinds ==
    ASSUME TypeOK, NEW o \in Order, JobStep(o), ~CreateJob(o)
    PROVE  /\ job[o] \in JobRow /\ UNCHANGED request
           /\ \/ \E row \in JobRow, next \in JobStatus : Travels(o, row, next)
              \/ Requeued(o)
              \/ \E row \in JobRow : Redecided(o, row)
<1> DEFINE Goal == /\ job[o] \in JobRow /\ UNCHANGED request
                   /\ \/ \E row \in JobRow, next \in JobStatus :
                            Travels(o, row, next)
                      \/ Requeued(o)
                      \/ \E row \in JobRow : Redecided(o, row)
<1>1. CASE RiderStep(o)
  <2>1. PICK next \in JobStatus : /\ <<job[o].status, next>> \in RiderSteps
                                  /\ Transition(o, job[o], next)
    BY <1>1 DEF RiderStep, StepsOf
  <2>2. job[o] \in JobRow /\ UNCHANGED <<assignment, request>>
    BY <1>1, JobRowOf DEF RiderStep, StepsOf
  <2>3. next # Waiting /\ job[o].status \in ACTIVE_JOB_STATUSES
    BY <2>1 DEF RiderSteps, Waiting, ACTIVE_JOB_STATUSES, JobStatus, Finished
  <2>4. Carries(o, job[o], next)
    BY <2>1 DEF Carries, RiderSteps, Outside
  <2>5. QED BY <2>1, <2>2, <2>3, <2>4 DEF Travels
<1>2. CASE VerifyPickup(o)
  <2> DEFINE proof == IF job[o].proof = None THEN job[o].rider ELSE job[o].proof
             row == [job[o] EXCEPT !.proof = proof]
  <2>1. job[o] \in JobRow /\ UNCHANGED <<assignment, request>>
    BY <1>2, JobRowOf DEF VerifyPickup, HasStatus
  <2>2. /\ job[o].status = "RIDER_AT_STORE" /\ job[o].rider # None
        /\ job[o].proof = None /\ Transition(o, row, "PICKUP_VERIFIED")
    BY <1>2 DEF VerifyPickup, HasStatus, FirstHandover
  <2>3. row \in JobRow /\ row.proof = job[o].rider
    BY <2>1, <2>2 DEF JobRow
  <2>4. Travels(o, row, "PICKUP_VERIFIED")
    <3> HIDE DEF row
    <3>1. QED
      BY <2>1, <2>2, <2>3
         DEF Travels, Carries, ACTIVE_JOB_STATUSES, JobStatus, Finished, Waiting
  <2>5. "PICKUP_VERIFIED" \in JobStatus BY DEF JobStatus
  <2>6. QED BY <2>1, <2>3, <2>4, <2>5
<1>3. CASE CompleteDelivery(o)
  <2>1. /\ job[o] \in JobRow /\ UNCHANGED <<assignment, request>>
        /\ job[o].status = "RIDER_AT_CUSTOMER"
        /\ Transition(o, job[o], "DELIVERED")
    BY <1>3, JobRowOf DEF CompleteDelivery, HasStatus
  <2>2. Travels(o, job[o], "DELIVERED")
    BY <2>1 DEF Travels, Carries, Outside, ACTIVE_JOB_STATUSES, JobStatus,
       Finished, Waiting
  <2>3. QED BY <2>1, <2>2 DEF JobStatus
<1>4. CASE RecordFailure(o)
  <2>1. PICK role \in FailureRoles, action \in Policy :
            /\ HasStatus(o, FailsFrom(role))
            /\ Transition(o, [job[o] EXCEPT !.decision = action],
                          "DELIVERY_FAILED")
    BY <1>4 DEF RecordFailure
  <2> DEFINE row == [job[o] EXCEPT !.decision = action]
  <2>2. job[o] \in JobRow /\ UNCHANGED <<assignment, request>>
    BY <1>4, <2>1, JobRowOf DEF RecordFailure, HasStatus
  <2>3. row \in JobRow /\ row.proof = job[o].proof
    BY <2>2 DEF JobRow, Action
  <2>4. /\ job[o].status \in ACTIVE_JOB_STATUSES
        /\ role = "RIDER" => job[o].status \in Outside
    BY <2>1 DEF HasStatus, FailsFrom, Outside, ACTIVE_JOB_STATUSES, JobStatus,
       Finished
  <2>5. Travels(o, row, "DELIVERY_FAILED")
    <3>1. Transition(o, row, "DELIVERY_FAILED") BY <2>1
    <3> HIDE DEF row
    <3>2. FailureRoles \subseteq {"RIDER"} => Carries(o, row, "DELIVERY_FAILED")
      BY <2>3, <2>4 DEF Carries
    <3>3. QED BY <2>2, <2>3, <2>4, <3>1, <3>2 DEF Travels, JobStatus, Waiting
  <2>6. "DELIVERY_FAILED" \in JobStatus BY DEF JobStatus
  <2>7. QED BY <2>2, <2>3, <2>5, <2>6
<1>5. ASSUME HasStatus(o, {"DELIVERY_FAILED"}), UNCHANGED <<assignment, request>>,
             NEW next \in {"OUT_FOR_DELIVERY", "RETURNING_TO_STORE", "CANCELLED"},
             Transition(o, Resolved(o), next)
      PROVE  Goal
  <2>1. /\ job[o] \in JobRow /\ Resolved(o) \in JobRow
        /\ Resolved(o).proof = job[o].proof
    BY <1>5, JobRowOf DEF HasStatus, Resolved, JobRow
  <2>2. Travels(o, Resolved(o), next)
    BY <1>5, <2>1 DEF Travels, Carries, HasStatus, Outside, ACTIVE_JOB_STATUSES,
       JobStatus, Finished, Waiting
  <2>3. next \in JobStatus BY DEF JobStatus
  <2>4. QED BY <1>5, <2>1, <2>2, <2>3
<1>6. CASE StartReturn(o)
  BY <1>5, <1>6 DEF StartReturn
<1>7. CASE ConfirmReturn(o)
  <2>1. /\ job[o] \in JobRow /\ UNCHANGED <<assignment, request>>
        /\ job[o].status = "RETURNING_TO_STORE"
        /\ Transition(o, job[o], "RETURNED_TO_STORE")
    BY <1>7, JobRowOf DEF ConfirmReturn, HasStatus
  <2>2. Travels(o, job[o], "RETURNED_TO_STORE")
    BY <2>1 DEF Travels, Carries, Outside, ACTIVE_JOB_STATUSES, JobStatus,
       Finished, Waiting
  <2>3. QED BY <2>1, <2>2 DEF JobStatus
<1>8. ASSUME NEW action \in Action, ResolveFailure(o, action)
      PROVE  Goal
  <2>1. /\ HasStatus(o, {"DELIVERY_FAILED"}) /\ UNCHANGED request
        /\ job[o] \in JobRow /\ Resolved(o) \in JobRow
    BY <1>8, JobRowOf DEF ResolveFailure, HasStatus, Resolved, JobRow
  <2>2. CASE action = "ESCALATE_TO_ADMIN"
    <3> DEFINE row == [job[o] EXCEPT !.decision = action]
    <3>1. /\ job' = [job EXCEPT ![o] = row]
          /\ UNCHANGED <<order, riderStatus, assignment>>
      BY <1>8, <2>2 DEF ResolveFailure
    <3>2. /\ row \in JobRow /\ row.status = job[o].status
          /\ row.rider = job[o].rider /\ row.proof = job[o].proof
      BY <2>1 DEF JobRow
    <3>3. Redecided(o, row) BY <3>1, <3>2 DEF Redecided
    <3>4. QED BY <2>1, <3>2, <3>3
  <2>3. CASE action = "REASSIGN_RIDER"
    <3>1. Requeued(o)
      BY <1>8, <2>1, <2>3 DEF ResolveFailure, Requeued, HasStatus, Waiting
    <3>2. QED BY <2>1, <3>1
  <2>4. CASE action \notin {"ESCALATE_TO_ADMIN", "REASSIGN_RIDER"}
    <3>1. \E next \in {"OUT_FOR_DELIVERY", "RETURNING_TO_STORE", "CANCELLED"} :
              Transition(o, Resolved(o), next)
      BY <1>8, <2>4 DEF ResolveFailure, Action, Policy
    <3>2. UNCHANGED <<assignment, request>>
      BY <1>8, <2>4 DEF ResolveFailure
    <3>3. QED BY <1>5, <2>1, <3>1, <3>2
  <2>5. QED BY <2>2, <2>3, <2>4
<1>9. QED
  BY <1>1, <1>2, <1>3, <1>4, <1>6, <1>7, <1>8 DEF JobStep

-----------------------------------------------------------------------------
(* The order follows its job *)

LEMMA LegacyStatus ==
    ASSUME NEW status \in JobStatus
    PROVE  /\ legacyOrderStatus(status) # "CONFIRMED"
           /\ legacyOrderStatus(status) = "PACKED" <=> status = Waiting
BY DEF legacyOrderStatus, JobStatus, Waiting

\* A transition writes the order that its job asks for, and no other.
LEMMA MoveOrderInv ==
    ASSUME TypeInv, OrderInv, NEW o \in Order, NEW row \in JobRow,
           job[o] \in JobRow, NEW next \in JobStatus,
           NEW assigned \in Rider \cup {None},
           Move(o, row, next, assigned), UNCHANGED request
    PROVE  OrderInv'
<1> DEFINE status == legacyOrderStatus(next)
           effective == IF assigned # None THEN assigned ELSE job[o].rider
           rider == IF status = "PACKED" THEN None
                    ELSE IF effective # None THEN effective ELSE order[o].rider
<1>1. TypeOK /\ job[o] # None BY JobIsNotNone DEF TypeInv
<1>2. /\ order[o].rider = job[o].rider
      /\ order[o].status # "CONFIRMED"
  <2>1. job[o].status \in JobStatus BY DEF JobRow
  <2>2. QED BY <1>1, <2>1, LegacyStatus DEF OrderInv, OrderFollowsJob
<1>3. order' = [order EXCEPT ![o] = [status |-> status, rider |-> rider]]
  BY <1>1 DEF Move, MayMove, TypeOK
<1>4. rider = JobRider(o, next, assigned)
  BY <1>2, LegacyStatus DEF JobRider, Waiting
<1>5. /\ order'[o].status = status
      /\ order'[o].rider = JobRider(o, next, assigned)
      /\ \A p \in Order : p # o => order'[p] = order[p]
  <2> HIDE DEF status, rider
  <2>1. QED BY <1>1, <1>3, <1>4 DEF TypeOK
<1>6. /\ job'[o] # None /\ job'[o].status = next
      /\ job'[o].rider = JobRider(o, next, assigned)
      /\ \A p \in Order : p # o => job'[p] = job[p]
  BY <1>1, MoveEffect
<1>7. OrderFollowsJob' /\ NoJobNoRider'
  <2> HIDE DEF status
  <2>1. status = legacyOrderStatus(next) BY DEF status
  <2>2. QED BY <1>5, <1>6, <2>1 DEF OrderInv, OrderFollowsJob, NoJobNoRider
<1>8. OnlyPacking'
  <2> SUFFICES ASSUME request # None
               PROVE  /\ request.op = "status" /\ request.next = "PACKED"
                      /\ request.rider = None
                      /\ order'[request.order].status = "CONFIRMED"
    BY DEF OnlyPacking
  <2>1. request.order \in Order /\ request.order # o
    BY <1>2 DEF OrderInv, OnlyPacking, TypeInv, RequestFits
  <2>2. QED BY <1>5, <2>1 DEF OrderInv, OnlyPacking
<1>9. QED BY <1>7, <1>8 DEF OrderInv

LEMMA SameOrders ==
    ASSUME OrderInv, UNCHANGED <<order, job, request>>
    PROVE  OrderInv'
BY DEF OrderInv, OnlyPacking, NoJobNoRider, OrderFollowsJob

LEMMA CreateJobEffect ==
    ASSUME TypeInv, OrderInv, NEW o \in Order, CreateJob(o)
    PROVE  /\ order[o].status = "PACKED" /\ order[o].rider = None
           /\ job[o] = None /\ job'[o] # None
           /\ job'[o].status = Waiting /\ job'[o].rider = None
           /\ \A p \in Order : p # o => job'[p] = job[p]
           /\ UNCHANGED <<order, assignment, riderStatus, request>>
<1> DEFINE row == [status |-> Waiting, rider |-> None,
                   proof |-> None, decision |-> None]
<1>1. order[o].status = "PACKED" /\ order[o].rider = None
  BY DEF CreateJob, OrderInv, NoJobNoRider
<1>2. initialStatus(order[o].status) = Waiting
  BY <1>1 DEF initialStatus, Waiting
<1>3. job' = [job EXCEPT ![o] = row]
  BY <1>1, <1>2 DEF CreateJob
<1>4. row \in JobRow /\ row.status = Waiting /\ row.rider = None
  BY DEF JobRow, JobStatus, Waiting
<1>5. row # None BY <1>4, JobIsNotNone
<1>6. job'[o] = row /\ \A p \in Order : p # o => job'[p] = job[p]
  <2> HIDE DEF row
  <2>1. QED BY <1>3 DEF TypeInv, TypeOK
<1>7. QED BY <1>1, <1>4, <1>5, <1>6 DEF CreateJob

LEMMA RedecidedEffect ==
    ASSUME TypeOK, NEW o \in Order, job[o] \in JobRow, NEW row \in JobRow,
           Redecided(o, row)
    PROVE  \A p \in Order :
              /\ job'[p] # None <=> job[p] # None
              /\ job[p] # None => /\ job'[p].status = job[p].status
                                  /\ job'[p].rider = job[p].rider
                                  /\ job'[p].proof = job[p].proof
<1>1. row # None /\ job[o] # None BY JobIsNotNone
<1>2. job'[o] = row /\ \A p \in Order : p # o => job'[p] = job[p]
  BY DEF Redecided, TypeOK
<1>3. QED BY <1>1, <1>2 DEF Redecided

LEMMA JobStepOrderInv ==
    ASSUME TypeInv, OrderInv, NEW o \in Order, JobStep(o)
    PROVE  OrderInv'
<1>1. CASE CreateJob(o)
  <2>1. legacyOrderStatus(Waiting) = "PACKED" BY DEF legacyOrderStatus, Waiting
  <2>2. QED
    BY <1>1, <2>1, CreateJobEffect
       DEF OrderInv, OnlyPacking, NoJobNoRider, OrderFollowsJob
<1>2. CASE ~CreateJob(o)
  <2>1. job[o] \in JobRow /\ UNCHANGED request
    BY <1>2, JobStepKinds DEF TypeInv
  <2>2. ASSUME NEW row \in JobRow, NEW next \in JobStatus, Travels(o, row, next)
        PROVE  OrderInv'
    BY <2>1, <2>2, MoveOrderInv DEF Travels, Transition
  <2>3. CASE Requeued(o)
    BY <2>1, <2>3, MoveOrderInv DEF Requeued, Transition, JobStatus, Waiting
  <2>4. ASSUME NEW row \in JobRow, Redecided(o, row)
        PROVE  OrderInv'
    <3>1. UNCHANGED order BY <2>4 DEF Redecided
    <3>2. NoJobNoRider' /\ OrderFollowsJob'
      BY <2>1, <2>4, <3>1, RedecidedEffect
         DEF TypeInv, OrderInv, NoJobNoRider, OrderFollowsJob
    <3>3. OnlyPacking' BY <2>1, <3>1 DEF OrderInv, OnlyPacking
    <3>4. QED BY <3>2, <3>3 DEF OrderInv
  <2>5. QED BY <1>2, <2>2, <2>3, <2>4, JobStepKinds DEF TypeInv
<1>3. QED BY <1>1, <1>2

LEMMA OfferStepOrderInv ==
    ASSUME TypeInv, OrderInv, OfferStep
    PROVE  OrderInv'
<1>1. CASE UNCHANGED <<order, job, request>>
  BY <1>1, SameOrders
<1>2. ASSUME NEW a \in Assignment, Accept(a)
      PROVE  OrderInv'
  <2> DEFINE o == assignment[a].job
             r == assignment[a].rider
  <2>1. assignment[a] \in AssignmentRow
    BY <1>2, RowOf DEF Accept, MayAccept, InTime, TypeInv
  <2>2. o \in Order /\ r \in Rider BY <2>1 DEF AssignmentRow
  <2>3. job[o] # None /\ Move(o, job[o], "RIDER_ASSIGNED", r) /\ UNCHANGED request
    BY <1>2 DEF Accept, MayAccept, InTime, HasStatus
  <2>4. job[o] \in JobRow BY <2>2, <2>3, JobRowOf DEF TypeInv
  <2>5. "RIDER_ASSIGNED" \in JobStatus BY DEF JobStatus
  <2>6. QED BY <2>2, <2>3, <2>4, <2>5, MoveOrderInv
<1>3. ASSUME NEW a \in Assignment, Reject(a), GivesBackJob(a)
      PROVE  OrderInv'
  <2> DEFINE o == assignment[a].job
  <2>1. assignment[a] \in AssignmentRow
    BY <1>3, RowOf DEF Reject, TypeInv
  <2>2. o \in Order BY <2>1 DEF AssignmentRow
  <2>3. job[o] # None /\ Move(o, job[o], Waiting, None) /\ UNCHANGED request
    BY <1>3 DEF Reject, Rejectable, GivesBackJob, HasStatus, Waiting
  <2>4. job[o] \in JobRow BY <2>2, <2>3, JobRowOf DEF TypeInv
  <2>5. Waiting \in JobStatus BY DEF JobStatus, Waiting
  <2>6. QED BY <2>2, <2>3, <2>4, <2>5, MoveOrderInv
<1>4. QED
  BY <1>1, <1>2, <1>3 DEF OfferStep, Offer, MayOffer, Reject, Tick, ExpireByRead

\* With no other endpoint called, the requests only pack CONFIRMED orders.
LEMMA QuietRequests ==
    ASSUME Endpoints = {}, OrderInv, RequestStep
    PROVE  \/ \E o \in Order : /\ order[o].status = "CONFIRMED"
                               /\ Begin("status", o, None, "PACKED")
           \/ CommitStatus
           \/ Drop
<1>1. ASSUME NEW o \in Order, ReadStatus(o)
      PROVE  /\ order[o].status = "CONFIRMED"
             /\ Begin("status", o, None, "PACKED")
  <2>1. PICK next \in NextStatuses[order[o].status], r \in Rider \cup {None} :
            next = "PACKED" /\ r = None /\ Begin("status", o, r, next)
    BY <1>1 DEF ReadStatus
  <2>2. order[o].status \in OrderStatus
    BY DEF OrderInv, NoJobNoRider, OrderFollowsJob, OrderStatus,
       legacyOrderStatus
  <2>3. order[o].status = "CONFIRMED"
    BY <2>1, <2>2 DEF NextStatuses, OrderStatus
  <2>4. QED BY <2>1, <2>3
<1>2. QED
  BY <1>1 DEF RequestStep, ReadCancel, ReadForceCancel, ReadReassign, ReadPing,
     ReadSetStatus, SetAnyStatus, CommitCancel, CommitForceCancel,
     CommitReassign, CommitRiderStatus, Asked, OrderInv, OnlyPacking

LEMMA RequestStepOrderInv ==
    ASSUME Endpoints = {}, TypeInv, OrderInv, RequestStep
    PROVE  OrderInv' /\ UNCHANGED riderStatus
<1>1. ASSUME NEW o \in Order, order[o].status = "CONFIRMED",
             Begin("status", o, None, "PACKED")
      PROVE  OrderInv' /\ UNCHANGED riderStatus
  BY <1>1 DEF Begin, OrderInv, OnlyPacking, NoJobNoRider, OrderFollowsJob
<1>2. CASE CommitStatus
  <2> DEFINE o == request.order
             row == [order[o] EXCEPT !.status = request.next,
                        !.rider = IF request.rider # None THEN request.rider
                                                          ELSE @]
  <2>1. /\ request # None /\ o \in Order /\ request.next = "PACKED"
        /\ request.rider = None /\ order[o].status = "CONFIRMED"
    BY <1>2 DEF CommitStatus, Asked, OrderInv, OnlyPacking, TypeInv, RequestFits
  <2>2. row.status = "PACKED" /\ row.rider = order[o].rider
    BY <2>1 DEF TypeInv, TypeOK, OrderRow
  <2>3. /\ order' = [order EXCEPT ![o] = row]
        /\ request' = None /\ UNCHANGED <<job, riderStatus>>
    BY <1>2, <2>1 DEF CommitStatus, Asked
  <2>4. order'[o] = row /\ \A p \in Order : p # o => order'[p] = order[p]
    <3> HIDE DEF row
    <3>1. QED BY <2>1, <2>3 DEF TypeInv, TypeOK
  <2>5. job[o] = None /\ order[o].rider = None
    <3>1. job[o] = None
      <4> SUFFICES ASSUME job[o] # None PROVE FALSE
        OBVIOUS
      <4>1. job[o].status \in JobStatus
        BY <2>1, JobRowOf DEF TypeInv, JobRow
      <4>2. QED BY <2>1, <4>1, LegacyStatus DEF OrderInv, OrderFollowsJob
    <3>2. QED BY <2>1, <3>1 DEF OrderInv, NoJobNoRider
  <2>6. NoJobNoRider' /\ OrderFollowsJob'
    <3> HIDE DEF row, o
    <3>1. QED
      BY <2>2, <2>3, <2>4, <2>5 DEF OrderInv, NoJobNoRider, OrderFollowsJob
  <2>7. QED BY <2>3, <2>6 DEF OrderInv, OnlyPacking
<1>3. CASE Drop
  BY <1>3 DEF Drop, OrderInv, OnlyPacking, NoJobNoRider, OrderFollowsJob
<1>4. QED BY <1>1, <1>2, <1>3, QuietRequests

-----------------------------------------------------------------------------
(* An active job has its accepted assignment, a BUSY rider has a job *)

ActiveAt(o, r) == HasStatus(o, ACTIVE_JOB_STATUSES) /\ job[o].rider = r

LEMMA ActiveIs ==
    ASSUME NEW status \in JobStatus
    PROVE  status \in ACTIVE_JOB_STATUSES <=>
               status \notin Finished \cup {Waiting}
BY DEF ACTIVE_JOB_STATUSES, Waiting

\* A transition frees the rider when the job leaves him, and nobody else.
LEMMA TransitionBusy ==
    ASSUME TypeOK, BusyMeansDelivering, NEW o \in Order, NEW row \in JobRow,
           job[o] \in JobRow, NEW next \in JobStatus, Transition(o, row, next)
    PROVE  BusyMeansDelivering'
<1>1. /\ job'[o] # None /\ job'[o].status = next
      /\ job'[o].rider = JobRider(o, next, None)
      /\ \A p \in Order : p # o => job'[p] = job[p]
  BY MoveEffect DEF Transition
<1>2. SUFFICES ASSUME NEW r \in Rider, riderStatus'[r] = "BUSY"
               PROVE  \E p \in Order : ActiveAt(p, r)'
  BY DEF BusyMeansDelivering, HasActiveJob, ActiveAt
<1>3. /\ riderStatus[r] = "BUSY"
      /\ next \in Finished \cup {"WAITING_FOR_DISPATCH"} => r # job[o].rider
  BY <1>2 DEF Transition, Freed
<1>4. PICK p \in Order : ActiveAt(p, r)
  BY <1>3 DEF BusyMeansDelivering, HasActiveJob, ActiveAt
<1>5. CASE p # o
  BY <1>1, <1>4, <1>5 DEF ActiveAt, HasStatus
<1>6. CASE p = o
  <2>1. next \in ACTIVE_JOB_STATUSES /\ next # Waiting
    BY <1>3, <1>4, <1>6, ActiveIs DEF ActiveAt, Waiting
  <2>2. job'[o].rider = r
    BY <1>1, <1>4, <1>6, <2>1 DEF JobRider, ActiveAt, Waiting
  <2>3. ActiveAt(o, r)'
    BY <1>1, <2>1, <2>2 DEF ActiveAt, HasStatus
  <2>4. QED BY <2>3
<1>7. QED BY <1>5, <1>6

\* Jobs that keep their status and rider keep their riders busy.
LEMMA SameBusy ==
    ASSUME BusyMeansDelivering, UNCHANGED riderStatus,
           \A p \in Order : /\ job[p] # None => job'[p] # None
                            /\ job[p] # None => /\ job'[p].status = job[p].status
                                                /\ job'[p].rider = job[p].rider
    PROVE  BusyMeansDelivering'
<1>1. SUFFICES ASSUME NEW r \in Rider, riderStatus[r] = "BUSY"
               PROVE  \E p \in Order : ActiveAt(p, r)'
  BY DEF BusyMeansDelivering, HasActiveJob, ActiveAt
<1>2. PICK p \in Order : ActiveAt(p, r)
  BY <1>1 DEF BusyMeansDelivering, HasActiveJob, ActiveAt
<1>3. ActiveAt(p, r)'
  BY <1>2 DEF ActiveAt, HasStatus
<1>4. QED BY <1>3

\* Every job is as it was, or stays in work, and no accepted offer is lost.
LEMMA SameAccepted ==
    ASSUME SomeAccepted,
           \A a \in Assignment, o \in Order : AcceptedFor(a, o) => AcceptedFor(a, o)',
           \A o \in Order : HasStatus(o, LeftQueue)'
                                => HasStatus(o, LeftQueue)
    PROVE  SomeAccepted'
<1>1. SUFFICES ASSUME NEW o \in Order, HasStatus(o, LeftQueue)'
               PROVE  \E a \in Assignment : AcceptedFor(a, o)'
  BY DEF SomeAccepted
<1>2. HasStatus(o, LeftQueue)
  BY <1>1
<1>3. PICK a \in Assignment : AcceptedFor(a, o)
  BY <1>2 DEF SomeAccepted
<1>4. AcceptedFor(a, o)'
  BY <1>3
<1>5. QED BY <1>4

LEMMA JobStepAlone ==
    ASSUME TypeInv, AloneInv, NEW o \in Order, JobStep(o)
    PROVE  SomeAccepted' /\ BusyMeansDelivering'
<1> USE DEF TypeInv
<1>1. CASE CreateJob(o)
  <2>1. /\ job[o] = None /\ job'[o].status = Waiting
        /\ \A p \in Order : p # o => job'[p] = job[p]
        /\ UNCHANGED <<assignment, riderStatus>>
    BY <1>1, CreateJobEffect DEF AloneInv
  <2>2. BusyMeansDelivering'
    BY <2>1, SameBusy DEF AloneInv
  <2>3. \A p \in Order : HasStatus(p, LeftQueue)'
                            => HasStatus(p, LeftQueue)
    BY <2>1 DEF HasStatus, LeftQueue, Waiting
  <2>4. \A a \in Assignment, p \in Order : AcceptedFor(a, p) => AcceptedFor(a, p)'
    BY <2>1 DEF AcceptedFor, HasRow
  <2>5. QED BY <2>2, <2>3, <2>4, SameAccepted DEF AloneInv
<1>2. CASE ~CreateJob(o)
  <2>1. job[o] \in JobRow /\ job[o] # None
    BY <1>2, JobStepKinds, JobIsNotNone
  <2>2. ASSUME NEW row \in JobRow, NEW next \in JobStatus, Travels(o, row, next)
        PROVE  SomeAccepted' /\ BusyMeansDelivering'
    <3>1. BusyMeansDelivering'
      BY <2>1, <2>2, TransitionBusy DEF AloneInv, Travels
    <3>2. \A p \in Order : p # o => job'[p] = job[p]
      BY <2>1, <2>2, MoveEffect DEF Travels, Transition
    <3>3. \A p \in Order : HasStatus(p, LeftQueue)'
                              => HasStatus(p, LeftQueue)
      BY <2>1, <2>2, <3>2
         DEF Travels, HasStatus, LeftQueue, ACTIVE_JOB_STATUSES, Waiting
    <3>4. \A a \in Assignment, p \in Order :
              AcceptedFor(a, p) => AcceptedFor(a, p)'
      BY <2>2 DEF Travels, AcceptedFor, HasRow
    <3>5. QED BY <3>1, <3>3, <3>4, SameAccepted DEF AloneInv
  <2>3. CASE Requeued(o)
    <3>1. Waiting \in JobStatus BY DEF Waiting, JobStatus
    <3>2. BusyMeansDelivering'
      BY <2>1, <2>3, <3>1, TransitionBusy DEF AloneInv, Requeued
    <3>3. /\ job'[o].status = Waiting
          /\ \A p \in Order : p # o => job'[p] = job[p]
      BY <2>1, <2>3, <3>1, MoveEffect DEF Requeued, Transition
    <3>4. \A a \in Assignment, p \in Order :
              p # o /\ AcceptedFor(a, p) => AcceptedFor(a, p)'
      BY <2>3 DEF Requeued, Reassigned, Offers, AcceptedFor, HasRow
    <3>5. ASSUME NEW p \in Order, HasStatus(p, LeftQueue)'
          PROVE  \E a \in Assignment : AcceptedFor(a, p)'
      <4>1. p # o
        BY <3>3, <3>5 DEF HasStatus, LeftQueue, Waiting
      <4>2. HasStatus(p, LeftQueue)
        BY <3>3, <3>5, <4>1 DEF HasStatus
      <4>3. PICK a \in Assignment : AcceptedFor(a, p)
        BY <4>2 DEF AloneInv, SomeAccepted
      <4>4. AcceptedFor(a, p)' BY <3>4, <4>1, <4>3
      <4>5. QED BY <4>4
    <3>6. QED BY <3>2, <3>5 DEF SomeAccepted
  <2>4. ASSUME NEW row \in JobRow, Redecided(o, row)
        PROVE  SomeAccepted' /\ BusyMeansDelivering'
    <3>1. \A p \in Order :
              /\ job'[p] # None <=> job[p] # None
              /\ job[p] # None => /\ job'[p].status = job[p].status
                                  /\ job'[p].rider = job[p].rider
      BY <2>1, <2>4, RedecidedEffect
    <3>2. UNCHANGED <<riderStatus, assignment>> BY <2>4 DEF Redecided
    <3>3. BusyMeansDelivering' BY <3>1, <3>2, SameBusy DEF AloneInv
    <3>4. \A p \in Order : HasStatus(p, LeftQueue)'
                              => HasStatus(p, LeftQueue)
      BY <3>1 DEF HasStatus
    <3>5. \A a \in Assignment, p \in Order :
              AcceptedFor(a, p) => AcceptedFor(a, p)'
      BY <3>2 DEF AcceptedFor, HasRow
    <3>6. QED BY <3>3, <3>4, <3>5, SameAccepted DEF AloneInv
  <2>5. QED BY <1>2, <2>2, <2>3, <2>4, JobStepKinds
<1>3. QED BY <1>1, <1>2

\* A step on offers that leaves jobs, riders and accepted offers alone.
LEMMA QuietOffers ==
    ASSUME AloneInv, UNCHANGED <<job, riderStatus>>,
           \A a \in Assignment : HasRow(a) /\ assignment[a].status = "ACCEPTED"
               => assignment'[a] = assignment[a]
    PROVE  SomeAccepted' /\ BusyMeansDelivering'
<1>1. BusyMeansDelivering' BY SameBusy DEF AloneInv
<1>2. \A a \in Assignment, o \in Order : AcceptedFor(a, o) => AcceptedFor(a, o)'
  BY DEF AcceptedFor, HasRow
<1>3. \A p \in Order : HasStatus(p, LeftQueue)'
                          => HasStatus(p, LeftQueue)
  BY DEF HasStatus
<1>4. QED BY <1>1, <1>2, <1>3, SameAccepted DEF AloneInv

LEMMA OfferStepAlone ==
    ASSUME SafetyInv, AloneInv, OfferStep
    PROVE  SomeAccepted' /\ BusyMeansDelivering'
<1> USE DEF SafetyInv, TypeInv
<1>1. ASSUME NEW o \in Order, NEW r \in Rider, NEW b \in Assignment,
             Offer(o, r, b)
      PROVE  SomeAccepted' /\ BusyMeansDelivering'
  <2> DEFINE row == [job |-> o, rider |-> r, status |-> "OFFERED",
                     overdue |-> FALSE]
             expired == Expired(Offers(o, {"OFFERED"}))
  <2>1. /\ assignment' = [expired EXCEPT ![b] = row]
        /\ assignment[b] = None /\ UNCHANGED <<job, riderStatus>>
    BY <1>1 DEF Offer, MayOffer
  <2>2. \A a \in Assignment : a # b => assignment'[a] = expired[a]
    <3> HIDE DEF row
    <3>1. QED BY <2>1, ExpiredType
  <2>3. \A a \in Assignment : HasRow(a) /\ assignment[a].status = "ACCEPTED"
            => assignment'[a] = assignment[a]
    BY <2>1, <2>2, ExpiredType DEF HasRow
  <2>4. QED BY <2>1, <2>3, QuietOffers
<1>2. ASSUME NEW b \in Assignment, Accept(b)
      PROVE  SomeAccepted' /\ BusyMeansDelivering'
  <2> DEFINE row == [assignment[b] EXCEPT !.status = "ACCEPTED"]
  <2>0. HasRow(b) /\ assignment[b] \in AssignmentRow
    BY <1>2, RowOf DEF Accept, MayAccept, InTime, HasRow
  <2> PICK o \in Order, r \in Rider :
          assignment[b].job = o /\ assignment[b].rider = r
    BY <2>0 DEF AssignmentRow
  <2>1. /\ assignment[b].status = "OFFERED"
        /\ HasStatus(o, {Waiting}) /\ Move(o, job[o], "RIDER_ASSIGNED", r)
        /\ assignment' = [assignment EXCEPT ![b] = row]
        /\ riderStatus' = [riderStatus EXCEPT ![r] = "BUSY"]
    BY <1>2 DEF Accept, MayAccept, InTime, Waiting
  <2>2. /\ row \in AssignmentRow /\ row.status = "ACCEPTED"
        /\ row.job = o /\ row.rider = r
    BY <2>0 DEF AssignmentRow, AssignmentStatus
  <2>3. /\ HasRow(b)' /\ assignment'[b] = row
        /\ \A a \in Assignment : a # b => assignment'[a] = assignment[a]
    BY <2>0, <2>1, <2>2, SetOffer
  <2>4. job[o] \in JobRow /\ job[o].status = Waiting
    BY <2>1, <2>2, JobRowOf DEF HasStatus
  <2>5. /\ job'[o] # None /\ job'[o].status = "RIDER_ASSIGNED"
        /\ job'[o].rider = r
        /\ \A p \in Order : p # o => job'[p] = job[p]
    <3>1. r # None BY <2>2, DispatchAssumption
    <3>2. JobRider(o, "RIDER_ASSIGNED", r) = r BY <3>1 DEF JobRider
    <3>3. QED BY <2>1, <2>2, <2>4, <3>2, MoveEffect DEF JobStatus
  <2>6. BusyMeansDelivering'
    <3>1. SUFFICES ASSUME NEW q \in Rider, riderStatus'[q] = "BUSY"
                   PROVE  \E p \in Order : ActiveAt(p, q)'
      BY DEF BusyMeansDelivering, HasActiveJob, ActiveAt
    <3>2. CASE q = r
      <4>1. ActiveAt(o, r)'
        BY <2>5 DEF ActiveAt, HasStatus, ACTIVE_JOB_STATUSES, JobStatus, Finished
      <4>2. QED BY <2>2, <3>2, <4>1
    <3>3. CASE q # r
      <4>1. riderStatus[q] = "BUSY" BY <2>1, <2>2, <3>1, <3>3 DEF TypeOK
      <4>2. PICK p \in Order : ActiveAt(p, q)
        BY <4>1 DEF AloneInv, BusyMeansDelivering, HasActiveJob, ActiveAt
      <4>3. p # o
        BY <2>4, <4>2 DEF ActiveAt, HasStatus, ACTIVE_JOB_STATUSES, Waiting
      <4>4. ActiveAt(p, q)' BY <2>5, <4>2, <4>3 DEF ActiveAt, HasStatus
      <4>5. QED BY <4>4
    <3>4. QED BY <3>2, <3>3
  <2>7. SomeAccepted'
    <3>1. SUFFICES ASSUME NEW p \in Order, HasStatus(p, LeftQueue)'
                   PROVE  \E a \in Assignment : AcceptedFor(a, p)'
      BY DEF SomeAccepted
    <3>2. CASE p = o
      <4>1. AcceptedFor(b, o)' BY <2>2, <2>3 DEF AcceptedFor
      <4>2. QED BY <3>2, <4>1
    <3>3. CASE p # o
      <4>1. HasStatus(p, LeftQueue) BY <2>5, <3>1, <3>3 DEF HasStatus
      <4>2. PICK a \in Assignment : AcceptedFor(a, p)
        BY <4>1 DEF AloneInv, SomeAccepted
      <4>3. a # b BY <2>1, <4>2 DEF AcceptedFor
      <4>4. AcceptedFor(a, p)' BY <2>3, <4>2, <4>3 DEF AcceptedFor, HasRow
      <4>5. QED BY <4>4
    <3>4. QED BY <3>2, <3>3
  <2>8. QED BY <2>6, <2>7
<1>3. ASSUME NEW b \in Assignment, Reject(b)
      PROVE  SomeAccepted' /\ BusyMeansDelivering'
  <2> DEFINE o == assignment[b].job
             row == [assignment[b] EXCEPT !.status = "REJECTED"]
  <2>1. /\ HasRow(b) /\ assignment[b] \in AssignmentRow
        /\ assignment' = [assignment EXCEPT ![b] = row]
    BY <1>3, RowOf DEF Reject, HasRow
  <2>2. row \in AssignmentRow /\ o \in Order /\ assignment[b].rider \in Rider
    BY <2>1 DEF AssignmentRow, AssignmentStatus
  <2>3. \A a \in Assignment : a # b => assignment'[a] = assignment[a]
    BY <2>1, <2>2, SetOffer
  <2>4. CASE ~GivesBackJob(b)
    <3>1. UNCHANGED <<job, riderStatus>> BY <1>3, <2>4 DEF Reject
    <3>2. QED BY <2>3, <2>4, <3>1, QuietOffers DEF GivesBackJob
  <2>5. CASE GivesBackJob(b)
    <3>1. /\ Move(o, job[o], Waiting, None) /\ job[o] \in JobRow
          /\ riderStatus' = [Freed(o, Waiting) EXCEPT
                                ![assignment[b].rider] = "ONLINE"]
      BY <1>3, <2>2, <2>5, JobRowOf
         DEF Reject, Rejectable, GivesBackJob, HasStatus, Waiting
    <3>2. Waiting \in JobStatus BY DEF JobStatus, Waiting
    <3>3. /\ job'[o].status = Waiting
          /\ \A p \in Order : p # o => job'[p] = job[p]
      BY <2>2, <3>1, <3>2, MoveEffect
    <3>4. BusyMeansDelivering'
      <4>1. SUFFICES ASSUME NEW q \in Rider, riderStatus'[q] = "BUSY"
                     PROVE  \E p \in Order : ActiveAt(p, q)'
        BY DEF BusyMeansDelivering, HasActiveJob, ActiveAt
      <4>2. Freed(o, Waiting)[q] = "BUSY"
        BY <2>2, <3>1, <4>1 DEF Freed
      <4>3. riderStatus[q] = "BUSY" /\ q # job[o].rider
        BY <4>2 DEF Freed, Waiting
      <4>4. PICK p \in Order : ActiveAt(p, q)
        BY <4>3 DEF AloneInv, BusyMeansDelivering, HasActiveJob, ActiveAt
      <4>5. ActiveAt(p, q)' BY <3>3, <4>3, <4>4 DEF ActiveAt, HasStatus
      <4>6. QED BY <4>5
    <3>5. SomeAccepted'
      <4>1. SUFFICES ASSUME NEW p \in Order, HasStatus(p, LeftQueue)'
                     PROVE  \E a \in Assignment : AcceptedFor(a, p)'
        BY DEF SomeAccepted
      <4>2. p # o
        BY <3>3, <4>1 DEF HasStatus, LeftQueue, Waiting
      <4>3. HasStatus(p, LeftQueue) BY <3>3, <4>1, <4>2 DEF HasStatus
      <4>4. PICK a \in Assignment : AcceptedFor(a, p)
        BY <4>3 DEF AloneInv, SomeAccepted
      <4>5. a # b BY <4>2, <4>4 DEF AcceptedFor
      <4>6. AcceptedFor(a, p)' BY <2>3, <4>4, <4>5 DEF AcceptedFor, HasRow
      <4>7. QED BY <4>6
    <3>6. QED BY <3>4, <3>5
  <2>6. QED BY <2>4, <2>5
<1>4. ASSUME NEW b \in Assignment, Tick(b)
      PROVE  SomeAccepted' /\ BusyMeansDelivering'
  BY <1>4, QuietOffers DEF Tick, TypeOK
<1>5. ASSUME NEW r \in Rider, ExpireByRead(r)
      PROVE  SomeAccepted' /\ BusyMeansDelivering'
  BY <1>5, QuietOffers, ExpiredType DEF ExpireByRead, HasRow
<1>6. QED BY <1>1, <1>2, <1>3, <1>4, <1>5 DEF OfferStep

LEMMA WorkerStepAlone ==
    ASSUME TypeInv, AloneInv, NEW w \in Worker, WorkerStep(w)
    PROVE  AloneInv'
<1>1. UNCHANGED Rows
  BY DEF WorkerStep, WorkerFind, WorkerExpire, WorkerRecord, WorkerFindMissing,
     WorkerBackfill, WorkerDone, WorkerCrash
<1>2. OrderInv' BY <1>1, SameOrders DEF Rows, AloneInv
<1>3. CASE UNCHANGED assignment
  BY <1>1, <1>2, <1>3, QuietOffers DEF AloneInv, Rows
<1>4. ASSUME NEW b \in worker[w].todo, StillOverdue(b),
             assignment' = [assignment EXCEPT ![b].status = "EXPIRED"]
      PROVE  AloneInv'
  <2>1. assignment[b].status = "OFFERED" BY <1>4 DEF StillOverdue, Overdue
  <2>2. \A a \in Assignment : a # b => assignment'[a] = assignment[a]
    BY <1>4 DEF TypeInv, TypeOK
  <2>3. SomeAccepted' /\ BusyMeansDelivering'
    BY <1>1, <2>1, <2>2, QuietOffers DEF Rows
  <2>4. QED BY <1>2, <2>3 DEF AloneInv
<1>5. QED
  BY <1>3, <1>4 DEF WorkerStep, WorkerFind, WorkerExpire, WorkerRecord,
     WorkerFindMissing, WorkerBackfill, WorkerDone, WorkerCrash

LEMMA NextAloneInv ==
    ASSUME Endpoints = {}, SafetyInv, AloneInv, [Next]_vars
    PROVE  AloneInv'
<1> USE DEF SafetyInv
<1>1. ASSUME UNCHANGED <<job, assignment, riderStatus>>
      PROVE  SomeAccepted' /\ BusyMeansDelivering'
  BY <1>1, QuietOffers
<1>2. CASE UNCHANGED vars
  BY <1>1, <1>2, SameOrders DEF vars, AloneInv
<1>3. CASE RequestStep
  BY <1>1, <1>3, RequestStepOrderInv, RequestStepFrame DEF AloneInv
<1>4. CASE OfferStep
  BY <1>4, OfferStepOrderInv, OfferStepAlone DEF AloneInv
<1>5. ASSUME NEW o \in Order, JobStep(o) PROVE AloneInv'
  BY <1>5, JobStepOrderInv, JobStepAlone DEF AloneInv
<1>6. QED BY <1>2, <1>3, <1>4, <1>5, WorkerStepAlone DEF Next

-----------------------------------------------------------------------------
(* The parcel *)

LEMMA SameParcels ==
    ASSUME ParcelIsWithRider, UNCHANGED job
    PROVE  ParcelIsWithRider'
BY DEF ParcelIsWithRider, HasStatus

\* The job a transition leaves, with the proof its caller put in it.
LEMMA MoveParcel ==
    ASSUME TypeOK, ParcelIsWithRider, NEW o \in Order, NEW row \in JobRow,
           job[o] \in JobRow, NEW next \in JobStatus,
           NEW assigned \in Rider \cup {None},
           Move(o, row, next, assigned),
           next \in Outside => assigned = None /\ Carries(o, row, next)
    PROVE  ParcelIsWithRider'
<1> DEFINE r == JobRider(o, next, assigned)
           moved == [row EXCEPT !.status = next, !.rider = r]
<1>1. job[o] # None BY JobIsNotNone
<1>2. r \in Rider \cup {None} BY DEF JobRider, JobRow
<1>3. moved \in JobRow /\ moved.status = next /\ moved.rider = r
      /\ moved.proof = row.proof
  <2> HIDE DEF r
  <2>1. QED BY <1>2 DEF JobRow
<1>4. job' = [job EXCEPT ![o] = moved] BY DEF Move, MayMove
<1>5. job'[o] = moved /\ \A p \in Order : p # o => job'[p] = job[p]
  <2> HIDE DEF moved
  <2>1. QED BY <1>4 DEF TypeOK
<1>6. ASSUME next \in Outside
      PROVE  moved.proof # None /\ moved.proof = moved.rider
  <2>1. r = job[o].rider
    BY <1>6 DEF JobRider, Outside
  <2>2. CASE job[o].status \in Outside /\ row.proof = job[o].proof
    <3>1. job[o].proof # None /\ job[o].proof = job[o].rider
      BY <1>1, <2>2 DEF ParcelIsWithRider, HasStatus, Outside
    <3> HIDE DEF moved, r
    <3>2. QED BY <1>3, <2>1, <2>2, <3>1
  <2>3. CASE job[o].rider # None /\ row.proof = job[o].rider
    <3> HIDE DEF moved, r
    <3>1. QED BY <1>3, <2>1, <2>3
  <2>4. QED BY <1>6, <2>2, <2>3 DEF Carries
<1>7. SUFFICES ASSUME NEW p \in Order, job'[p] # None, job'[p].status \in Outside
               PROVE  job'[p].proof # None /\ job'[p].proof = job'[p].rider
  BY DEF ParcelIsWithRider, HasStatus, Outside
<1>8. CASE p = o
  <2> HIDE DEF moved
  <2>1. QED BY <1>3, <1>5, <1>6, <1>7, <1>8
<1>9. CASE p # o
  BY <1>5, <1>7, <1>9 DEF ParcelIsWithRider, HasStatus, Outside
<1>10. QED BY <1>8, <1>9

LEMMA NextParcel ==
    ASSUME FailureRoles \subseteq {"RIDER"}, TypeInv, OrderInv,
           ParcelIsWithRider, [Next]_vars
    PROVE  ParcelIsWithRider'
<1> USE DEF TypeInv
<1>1. CASE UNCHANGED job
  BY <1>1, SameParcels
<1>2. ASSUME NEW o \in Order, JobStep(o) PROVE ParcelIsWithRider'
  <2>1. CASE CreateJob(o)
    <3>1. /\ job'[o].status = Waiting
          /\ \A p \in Order : p # o => job'[p] = job[p]
      BY <2>1, CreateJobEffect
    <3>2. QED BY <3>1 DEF ParcelIsWithRider, HasStatus, Waiting
  <2>2. CASE ~CreateJob(o)
    <3>1. job[o] \in JobRow BY <1>2, <2>2, JobStepKinds
    <3>2. ASSUME NEW row \in JobRow, NEW next \in JobStatus,
                 Travels(o, row, next)
          PROVE  ParcelIsWithRider'
      BY <3>1, <3>2, MoveParcel DEF Travels, Transition
    <3>3. CASE Requeued(o)
      <4>1. Waiting \in JobStatus \ Outside BY DEF Waiting, JobStatus, Outside
      <4>2. QED BY <3>1, <3>3, <4>1, MoveParcel DEF Requeued, Transition
    <3>4. ASSUME NEW row \in JobRow, Redecided(o, row)
          PROVE  ParcelIsWithRider'
      BY <3>1, <3>4, RedecidedEffect DEF ParcelIsWithRider, HasStatus
    <3>5. QED BY <1>2, <2>2, <3>2, <3>3, <3>4, JobStepKinds
  <2>3. QED BY <2>1, <2>2
<1>3. ASSUME NEW a \in Assignment, Accept(a) PROVE ParcelIsWithRider'
  <2> DEFINE o == assignment[a].job
             r == assignment[a].rider
  <2>1. assignment[a] \in AssignmentRow BY <1>3, RowOf DEF Accept, MayAccept, InTime
  <2>2. o \in Order /\ r \in Rider BY <2>1 DEF AssignmentRow
  <2>3. job[o] # None /\ Move(o, job[o], "RIDER_ASSIGNED", r)
    BY <1>3 DEF Accept, MayAccept, InTime, HasStatus
  <2>4. job[o] \in JobRow BY <2>2, <2>3, JobRowOf
  <2>5. "RIDER_ASSIGNED" \in JobStatus \ Outside BY DEF JobStatus, Outside
  <2>6. QED BY <2>2, <2>3, <2>4, <2>5, MoveParcel
<1>4. ASSUME NEW a \in Assignment, Reject(a) PROVE ParcelIsWithRider'
  <2> DEFINE o == assignment[a].job
  <2>1. CASE ~GivesBackJob(a)
    BY <1>1, <1>4, <2>1 DEF Reject
  <2>2. CASE GivesBackJob(a)
    <3>1. assignment[a] \in AssignmentRow BY <1>4, RowOf DEF Reject
    <3>2. o \in Order BY <3>1 DEF AssignmentRow
    <3>3. job[o] # None /\ Move(o, job[o], Waiting, None)
      BY <1>4, <2>2 DEF Reject, Rejectable, GivesBackJob, HasStatus, Waiting
    <3>4. job[o] \in JobRow BY <3>2, <3>3, JobRowOf
    <3>5. Waiting \in JobStatus \ Outside BY DEF Waiting, JobStatus, Outside
    <3>6. QED BY <3>2, <3>3, <3>4, <3>5, MoveParcel
  <2>3. QED BY <2>1, <2>2
<1>5. CASE RequestStep
  BY <1>1, <1>5, RequestStepFrame
<1>6. ASSUME NEW w \in Worker, WorkerStep(w) PROVE ParcelIsWithRider'
  BY <1>1, <1>6 DEF WorkerStep, WorkerFind, WorkerExpire, WorkerRecord,
     WorkerFindMissing, WorkerBackfill, WorkerDone, WorkerCrash, Rows
<1>7. CASE OfferStep
  BY <1>1, <1>3, <1>4, <1>7 DEF OfferStep, Offer, MayOffer, Tick, ExpireByRead
<1>8. QED
  BY <1>1, <1>2, <1>5, <1>6, <1>7 DEF Next, vars

-----------------------------------------------------------------------------
(* The theorems *)

\* One accepted offer, because there is one and there are never two.
LEMMA AcceptedIsOne ==
    ASSUME OneOpenOffer, SomeAccepted
    PROVE  ActiveJobIsAccepted
<1>1. SUFFICES ASSUME NEW o \in Order, HasStatus(o, ACTIVE_JOB_STATUSES)
               PROVE  Cardinality(Offers(o, {"ACCEPTED"})) = 1
  BY DEF ActiveJobIsAccepted
<1>2. PICK a \in Assignment : AcceptedFor(a, o)
  BY <1>1 DEF SomeAccepted, HasStatus, LeftQueue, ACTIVE_JOB_STATUSES, Waiting
<1>3. ASSUME NEW b \in Offers(o, {"ACCEPTED"}) PROVE b = a
  BY <1>2, OneOpen DEF Offers, AcceptedFor, HasRow, Open
<1>4. a \in Offers(o, {"ACCEPTED"})
  BY <1>2 DEF Offers, AcceptedFor, HasRow
<1>5. Offers(o, {"ACCEPTED"}) = {a} BY <1>3, <1>4
<1>6. QED BY <1>5, FS_Singleton

\* As long as nobody edits orders or riders behind dispatch, the order row
\* shows the status and rider of its delivery job, and a delivery in progress
\* has exactly one accepted offer: for any number of orders, riders, offers and
\* workers (transitionWithinTransaction and its callers).
THEOREM RecordsFollow ==
    ASSUME Endpoints = {}
    PROVE  Spec => []RecordsFollowJob
<1> DEFINE Inv == SafetyInv /\ AloneInv
<1>1. Init => Inv
  BY InitTypeInv, InitOfferInv, InitAloneInv DEF SafetyInv
<1>2. Inv /\ [Next]_vars => Inv' BY NextSafetyInv, NextAloneInv
<1>3. Inv => RecordsFollowJob
  BY AcceptedIsOne DEF SafetyInv, OfferInv, AloneInv, OrderInv, RecordsFollowJob
<1>4. QED BY <1>1, <1>2, <1>3, PTL DEF Spec

\* If failures are reported by riders alone, who cannot report one before the
\* hand-over, the riders follow the jobs as well: whoever is BUSY has a
\* delivery, and a parcel out of the store is with the rider it was handed to.
THEOREM AllFollow ==
    ASSUME Endpoints = {}, FailureRoles \subseteq {"RIDER"}
    PROVE  Spec => []AllFollowJob
<1> DEFINE Inv == SafetyInv /\ AloneInv /\ ParcelIsWithRider
<1>1. Init => Inv
  BY InitTypeInv, InitOfferInv, InitAloneInv DEF SafetyInv
<1>2. Inv /\ [Next]_vars => Inv'
  BY NextSafetyInv, NextAloneInv, NextParcel DEF SafetyInv, AloneInv
<1>3. Inv => AllFollowJob
  BY AcceptedIsOne
     DEF SafetyInv, OfferInv, AloneInv, OrderInv, AllFollowJob,
         RecordsFollowJob, RiderFollowsJob
<1>4. QED BY <1>1, <1>2, <1>3, PTL DEF Spec

-----------------------------------------------------------------------------
(***************************************************************************)
(* Dispatch implements OfferBook.  A step is told by the jobs it touches:  *)
(* elsewhere job and offers are as before, so the book's pages are, and    *)
(* at the job it touches only the pages before and after have to be read.  *)
(***************************************************************************)

\* Offer a stands open for the job of o.
OfferFor(a, o) ==
    HasRow(a) /\ assignment[a].job = o /\ assignment[a].status = "OFFERED"

NoOffer(o) == \A a \in Assignment : ~OfferFor(a, o)

\* A job with an open offer is in the queue and nobody's.
InQueue(o) == HasStatus(o, {Waiting}) /\ job[o].rider = None
WaitsAt(o) == \A a \in Assignment : OfferFor(a, o) => InQueue(o)
OfferedWaits == \A o \in Order : WaitsAt(o)

BookInv == SafetyInv /\ OfferedWaits

SameOfferAt(o, a) ==
    /\ OfferFor(a, o)' <=> OfferFor(a, o)
    /\ OfferFor(a, o) => /\ assignment'[a].rider = assignment[a].rider
                         /\ assignment'[a].overdue = assignment[a].overdue

SameJobAt(o) ==
    /\ job'[o] = None <=> job[o] = None
    /\ job[o] # None => /\ job'[o].status = job[o].status
                        /\ job'[o].rider = job[o].rider

Elsewhere(group) ==
    \A o \in Order \ group :
        SameJobAt(o) /\ \A a \in Assignment : SameOfferAt(o, a)

InHands(o) == HasStatus(o, ACTIVE_JOB_STATUSES)

\* What the steps do to the job they touch.
Entered(o) ==
    Elsewhere({o}) /\ job[o] = None /\ job'[o] # None /\ NoOffer(o)'

Moved(o) ==
    /\ Elsewhere({o}) /\ InHands(o) /\ NoOffer(o)'
    /\ HasStatus(o, JobStatus \ {Waiting})' /\ job'[o].rider = job[o].rider

GivenBack(o) ==
    Elsewhere({o}) /\ InHands(o) /\ InQueue(o)' /\ NoOffer(o)'

Published(o, r, b) ==
    /\ Elsewhere({o}) /\ InQueue(o) /\ InQueue(o)'
    /\ \A a \in Assignment : OfferFor(a, o) => assignment[a].overdue
    /\ OfferFor(b, o)' /\ assignment'[b].rider = r /\ assignment'[b].overdue = FALSE

Lapsed(o, b) ==
    /\ Elsewhere({o}) /\ InQueue(o)'
    /\ OfferFor(b, o) /\ ~assignment[b].overdue /\ OfferFor(b, o)'
    /\ assignment'[b].rider = assignment[b].rider /\ assignment'[b].overdue = TRUE

Taken(o, b) ==
    /\ Elsewhere({o}) /\ OfferFor(b, o) /\ ~assignment[b].overdue
    /\ InHands(o)' /\ job'[o].rider = assignment[b].rider /\ NoOffer(o)'

Declined(o, b) ==
    Elsewhere({o}) /\ OfferFor(b, o) /\ InQueue(o)' /\ NoOffer(o)'

Withdrawn(group) ==
    /\ Elsewhere(group)
    /\ \A o \in group : /\ InQueue(o)' /\ NoOffer(o)'
                        /\ \E a \in Assignment : OfferFor(a, o) /\ assignment[a].overdue

BookEffect ==
    \/ Elsewhere({})
    \/ \E o \in Order : Entered(o) \/ Moved(o) \/ GivenBack(o)
    \/ \E o \in Order, b \in Assignment :
          Lapsed(o, b) \/ Taken(o, b) \/ Declined(o, b)
    \/ \E o \in Order, r \in Rider, b \in Assignment : Published(o, r, b)
    \/ \E group \in SUBSET Order : Withdrawn(group)

LEMMA InitOfferedWaits == Init => OfferedWaits
BY DEF Init, OfferedWaits, WaitsAt, OfferFor, HasRow

LEMMA WaitsElsewhere ==
    ASSUME OfferedWaits, NEW group, Elsewhere(group),
           \A o \in Order \cap group : WaitsAt(o)'
    PROVE  OfferedWaits'
<1> SUFFICES ASSUME NEW o \in Order \ group PROVE WaitsAt(o)'
  BY DEF OfferedWaits
<1>1. SameJobAt(o) /\ \A a \in Assignment : SameOfferAt(o, a)
  BY DEF Elsewhere
<1>2. WaitsAt(o)
  BY DEF OfferedWaits
<1>3. QED
  BY <1>1, <1>2 DEF WaitsAt, InQueue, HasStatus, SameJobAt, SameOfferAt

LEMMA EffectWaits ==
    ASSUME OfferedWaits, BookEffect
    PROVE  OfferedWaits'
<1>1. ASSUME NEW o \in Order, InQueue(o)' \/ NoOffer(o)'
      PROVE  WaitsAt(o)'
  BY <1>1 DEF WaitsAt, NoOffer
<1>2. CASE Elsewhere({})
  BY <1>2, WaitsElsewhere
<1>3. ASSUME NEW o \in Order, Elsewhere({o}), InQueue(o)' \/ NoOffer(o)'
      PROVE  OfferedWaits'
  <2>1. \A p \in Order \cap {o} : WaitsAt(p)' BY <1>1, <1>3
  <2>2. QED BY <1>3, <2>1, WaitsElsewhere
<1>4. ASSUME NEW group \in SUBSET Order, Withdrawn(group)
      PROVE  OfferedWaits'
  <2>1. \A p \in Order \cap group : WaitsAt(p)' BY <1>1, <1>4 DEF Withdrawn
  <2>2. QED BY <1>4, <2>1, WaitsElsewhere DEF Withdrawn
<1>5. QED
  BY <1>2, <1>3, <1>4 DEF BookEffect, Entered, Moved, GivenBack, Lapsed, Taken,
     Declined, Published

-----------------------------------------------------------------------------
(* The pages *)

Entry(place, r, late) == [place |-> place, rider |-> r, late |-> late]

\* What each page shows.
PageShows(o) ==
    /\ job[o] = None => Page(o) = Entry("absent", None, FALSE)
    /\ job[o] # None => job[o].status \in JobStatus
                        /\ job[o].rider \in Rider \cup {None}
    /\ HasStatus(o, Finished) => Page(o) = Entry("closed", job[o].rider, FALSE)
    /\ InHands(o) => Page(o) = Entry("held", job[o].rider, FALSE)
    /\ HasStatus(o, {Waiting}) /\ NoOffer(o) =>
          Page(o) = Entry("queue", job[o].rider, FALSE)
    /\ \A a \in Assignment : OfferFor(a, o) =>
          Page(o) = Entry("offered", assignment[a].rider, assignment[a].overdue)

LEMMA PagesShow == BookInv => \A o \in Order : PageShows(o)
<1> SUFFICES ASSUME BookInv, NEW o \in Order PROVE PageShows(o)
  OBVIOUS
<1> DEFINE open == Offers(o, {"OFFERED"})
<1>1. \A a : a \in open <=> a \in Assignment /\ OfferFor(a, o)
  BY DEF Offers, OfferFor, HasRow
<1>2. job[o] # None => /\ job[o].status \in JobStatus
                       /\ job[o].rider \in Rider \cup {None}
  BY JobRowOf DEF BookInv, SafetyInv, TypeInv, JobRow
<1>3. job[o] = None => Page(o) = Entry("absent", None, FALSE)
  BY DEF Page, Entry, HasStatus
<1>4. HasStatus(o, Finished) => Page(o) = Entry("closed", job[o].rider, FALSE)
  BY DEF Page, Entry, HasStatus, Finished, ACTIVE_JOB_STATUSES
<1>5. InHands(o) => Page(o) = Entry("held", job[o].rider, FALSE)
  BY DEF Page, Entry, InHands, HasStatus, ACTIVE_JOB_STATUSES
<1>6. ASSUME HasStatus(o, {Waiting})
      PROVE  /\ job[o] # None /\ ~HasStatus(o, Finished)
             /\ ~HasStatus(o, ACTIVE_JOB_STATUSES)
  BY <1>6 DEF HasStatus, Finished, ACTIVE_JOB_STATUSES, Waiting
<1>7. ASSUME HasStatus(o, {Waiting}), NoOffer(o)
      PROVE  Page(o) = Entry("queue", job[o].rider, FALSE)
  <2>1. open = {} BY <1>1, <1>7 DEF NoOffer
  <2>2. QED BY <1>6, <1>7, <2>1 DEF Page, Entry, Waiting
<1>8. ASSUME NEW a \in Assignment, OfferFor(a, o)
      PROVE  Page(o) = Entry("offered", assignment[a].rider,
                             assignment[a].overdue)
  <2>1. a \in open /\ HasStatus(o, {Waiting})
    BY <1>1, <1>8 DEF BookInv, OfferedWaits, WaitsAt, InQueue
  <2>2. \A b \in open : b = a
    BY <1>1, <1>8, OneOpen DEF BookInv, SafetyInv, OfferInv, OfferFor, Open
  <2>3. (CHOOSE b \in open : TRUE) = a
    BY <2>1, <2>2
  <2>4. open # {} BY <2>1
  <2>5. QED
    <3> HIDE DEF open
    <3>1. Page(o) = LET b == CHOOSE b \in open : TRUE
                    IN Entry("offered", assignment[b].rider,
                             assignment[b].overdue)
      BY <1>6, <2>1, <2>4 DEF Page, Entry, Waiting, open
    <3>2. QED BY <2>3, <3>1
<1>9. QED BY <1>2, <1>3, <1>4, <1>5, <1>7, <1>8 DEF PageShows

\* The same of the pages after a step.
LEMMA PagesShowAfter == (BookInv => \A o \in Order : PageShows(o))'
BY PagesShow, PTL

LEMMA PagesElsewhere ==
    ASSUME BookInv, BookInv', NEW group, Elsewhere(group),
           NEW o \in Order \ group
    PROVE  Page(o)' = Page(o)
<1>1. PageShows(o) /\ PageShows(o)'
  BY PagesShow, PagesShowAfter
<1>2. SameJobAt(o) /\ \A a \in Assignment : SameOfferAt(o, a)
  BY DEF Elsewhere
<1>3. CASE job[o] = None
  BY <1>1, <1>2, <1>3 DEF PageShows, SameJobAt
<1>4. CASE job[o] # None /\ job[o].status \in Finished
  BY <1>1, <1>2, <1>4 DEF PageShows, SameJobAt, HasStatus
<1>5. CASE InHands(o)
  BY <1>1, <1>2, <1>5 DEF PageShows, SameJobAt, HasStatus, InHands
<1>6. CASE HasStatus(o, {Waiting}) /\ NoOffer(o)
  BY <1>1, <1>2, <1>6
     DEF PageShows, SameJobAt, SameOfferAt, NoOffer, HasStatus
<1>7. CASE \E a \in Assignment : OfferFor(a, o)
  BY <1>1, <1>2, <1>7 DEF PageShows, SameOfferAt
<1>8. job[o] # None => job[o].status \in Finished \cup ACTIVE_JOB_STATUSES
                                            \cup {Waiting}
  BY <1>1 DEF PageShows, ACTIVE_JOB_STATUSES, Waiting
<1>9. QED
  BY <1>3, <1>4, <1>5, <1>6, <1>7, <1>8 DEF NoOffer, InHands, HasStatus

\* The book with one page written.
LEMMA OnePage ==
    ASSUME BookInv, BookInv', NEW o \in Order, Elsewhere({o}), NEW e,
           Page(o)' = e
    PROVE  Book!Write(o, e)
<1>1. \A p \in Order : p # o => Page(p)' = Page(p)
  BY PagesElsewhere
<1>2. QED BY <1>1 DEF Book!Write

LEMMA PageIs ==
    ASSUME BookInv, NEW o \in Order, NEW place, NEW r, NEW late,
           Page(o) = Entry(place, r, late)
    PROVE  /\ Book!Is(o, place)
           /\ [p \in Order |-> Page(p)][o] = Book!Entry(place, r, late)
           /\ [p \in Order |-> Page(p)][o].late = late
           /\ [p \in Order |-> Page(p)][o].rider = r
BY DEF Entry, Book!Is, Book!Entry

LEMMA EffectIsBookStep ==
    ASSUME BookInv, BookInv', BookEffect
    PROVE  [Book!BookNext]_([p \in Order |-> Page(p)])
<1> DEFINE book == [p \in Order |-> Page(p)]
<1> USE DEF Entry, Book!Entry, Book!Queued, Book!Absent
<1>1. \A o \in Order : PageShows(o) /\ PageShows(o)'
  BY PagesShow, PagesShowAfter
<1>2. CASE Elsewhere({})
  <2>1. \A o \in Order : Page(o)' = Page(o) BY <1>2, PagesElsewhere
  <2>2. QED BY <2>1
<1>3. ASSUME NEW o \in Order, Entered(o) PROVE Book!Enter(o)
  <2>1. Page(o) = Entry("absent", None, FALSE)
    BY <1>1, <1>3 DEF Entered, PageShows
  <2>2. PICK place \in {"queue", "held", "closed"}, r \in Rider \cup {None} :
            Page(o)' = Entry(place, r, FALSE)
    BY <1>1, <1>3
       DEF Entered, PageShows, HasStatus, InHands, ACTIVE_JOB_STATUSES, Waiting
  <2>3. Book!Write(o, Entry(place, r, FALSE))
    BY <1>3, <2>2, OnePage DEF Entered
  <2>4. QED BY <2>1, <2>3 DEF Book!Enter, Book!Places
<1>4. ASSUME NEW o \in Order, Moved(o)
      PROVE  Book!Close(o) \/ book' = book
  <2>1. Page(o) = Entry("held", job[o].rider, FALSE)
    BY <1>1, <1>4 DEF Moved, PageShows
  <2>2. CASE InHands(o)'
    <3>1. Page(o)' = Page(o) BY <1>1, <1>4, <2>1, <2>2 DEF Moved, PageShows
    <3>2. \A p \in Order : Page(p)' = Page(p)
      BY <1>4, <3>1, PagesElsewhere DEF Moved
    <3>3. QED BY <3>2
  <2>3. CASE HasStatus(o, Finished)'
    <3>1. Page(o)' = Entry("closed", job[o].rider, FALSE)
      BY <1>1, <1>4, <2>3 DEF Moved, PageShows
    <3>2. Book!Write(o, Entry("closed", job[o].rider, FALSE))
      BY <1>4, <3>1, OnePage DEF Moved
    <3>3. book[o].rider = job[o].rider /\ Book!Is(o, "held")
      BY <2>1, PageIs
    <3>4. Book!Write(o, Entry("closed", book[o].rider, FALSE))
      BY <3>2, <3>3
    <3>5. QED BY <3>3, <3>4 DEF Book!Close
  <2>4. QED
    BY <1>4, <2>2, <2>3 DEF Moved, InHands, HasStatus, ACTIVE_JOB_STATUSES, Waiting
<1>5. ASSUME NEW o \in Order, GivenBack(o) PROVE Book!GiveBack(o)
  <2>1. Page(o) = Entry("held", job[o].rider, FALSE)
    BY <1>1, <1>5 DEF GivenBack, PageShows
  <2>2. Page(o)' = Entry("queue", None, FALSE)
    BY <1>1, <1>5 DEF GivenBack, PageShows, InQueue
  <2>3. Book!Is(o, "held") BY <2>1, PageIs
  <2>4. Book!Write(o, Book!Queued) BY <1>5, <2>2, OnePage DEF GivenBack
  <2>5. QED BY <2>3, <2>4 DEF Book!GiveBack
<1>6. ASSUME NEW o \in Order, NEW b \in Assignment, OfferFor(b, o)
      PROVE  Page(o) = Entry("offered", assignment[b].rider, assignment[b].overdue)
  BY <1>1, <1>6 DEF PageShows
<1>7. ASSUME NEW o \in Order, NEW b \in Assignment, Lapsed(o, b)
      PROVE  Book!Lapse(o)
  <2>1. Page(o) = Entry("offered", assignment[b].rider, FALSE)
    BY <1>1, <1>7 DEF Lapsed, PageShows
  <2>2. Page(o)' = Entry("offered", assignment[b].rider, TRUE)
    BY <1>1, <1>7 DEF Lapsed, PageShows
  <2>3. /\ book[o].rider = assignment[b].rider /\ ~book[o].late
        /\ Book!Is(o, "offered")
    BY <2>1, PageIs
  <2>4. Page(o)' = Entry("offered", book[o].rider, TRUE) BY <2>2, <2>3
  <2>5. Book!Write(o, Entry("offered", book[o].rider, TRUE))
    BY <1>7, <2>4, OnePage DEF Lapsed
  <2>6. QED BY <2>3, <2>5 DEF Book!Lapse
<1>8. ASSUME NEW o \in Order, NEW b \in Assignment, Taken(o, b)
      PROVE  Book!TakeUp(o)
  <2>1. Page(o) = Entry("offered", assignment[b].rider, FALSE)
    BY <1>6, <1>8 DEF Taken
  <2>2. Page(o)' = Entry("held", assignment[b].rider, FALSE)
    BY <1>1, <1>8 DEF Taken, PageShows
  <2>3. /\ book[o].rider = assignment[b].rider /\ ~book[o].late
        /\ Book!Is(o, "offered")
    BY <2>1, PageIs
  <2>4. Page(o)' = Entry("held", book[o].rider, FALSE) BY <2>2, <2>3
  <2>5. Book!Write(o, Entry("held", book[o].rider, FALSE))
    BY <1>8, <2>4, OnePage DEF Taken
  <2>6. QED BY <2>3, <2>5 DEF Book!TakeUp
<1>9. ASSUME NEW o \in Order, InQueue(o)', NoOffer(o)'
      PROVE  Page(o)' = Entry("queue", None, FALSE)
  BY <1>1, <1>9 DEF PageShows, InQueue
<1>10. ASSUME NEW o \in Order, NEW b \in Assignment, Declined(o, b)
       PROVE  Book!Decline(o)
  <2>1. Book!Is(o, "offered") BY <1>6, <1>10, PageIs DEF Declined
  <2>2. Book!Write(o, Book!Queued) BY <1>9, <1>10, OnePage DEF Declined
  <2>3. QED BY <2>1, <2>2 DEF Book!Decline
<1>11. ASSUME NEW o \in Order, NEW r \in Rider, NEW b \in Assignment,
              Published(o, r, b)
       PROVE  Book!Publish(o, r)
  <2>1. Page(o)' = Entry("offered", r, FALSE)
    BY <1>1, <1>11 DEF Published, PageShows
  <2>2. Book!Write(o, Entry("offered", r, FALSE))
    BY <1>11, <2>1, OnePage DEF Published
  <2>3. CASE NoOffer(o)
    <3>1. Page(o) = Entry("queue", None, FALSE)
      BY <1>1, <1>11, <2>3 DEF Published, PageShows, InQueue
    <3>2. QED BY <2>2, <3>1 DEF Book!Publish
  <2>4. CASE ~NoOffer(o)
    <3>1. PICK a \in Assignment : OfferFor(a, o) BY <2>4 DEF NoOffer
    <3>2. Page(o) = Entry("offered", assignment[a].rider, assignment[a].overdue)
          /\ assignment[a].overdue
      BY <1>6, <1>11, <3>1 DEF Published
    <3>3. QED BY <2>2, <3>2, PageIs DEF Book!Publish
  <2>5. QED BY <2>3, <2>4
<1>12. ASSUME NEW group \in SUBSET Order, Withdrawn(group)
       PROVE  Book!Expire(group)
  <2>1. ASSUME NEW o \in group
        PROVE  /\ Book!Is(o, "offered") /\ book[o].late
               /\ Page(o)' = Entry("queue", None, FALSE)
    <3>1. PICK a \in Assignment : OfferFor(a, o) /\ assignment[a].overdue
      BY <1>12 DEF Withdrawn
    <3>2. QED BY <1>6, <1>9, <1>12, <3>1, PageIs DEF Withdrawn
  <2>2. \A o \in Order \ group : Page(o)' = Page(o)
    BY <1>12, PagesElsewhere DEF Withdrawn
  <2>3. book' = [o \in Order |-> IF o \in group THEN Book!Queued ELSE book[o]]
    BY <2>1, <2>2
  <2>4. QED BY <2>1, <2>3 DEF Book!Expire
<1>13. QED
  BY <1>2, <1>3, <1>4, <1>5, <1>7, <1>8, <1>10, <1>11, <1>12
     DEF BookEffect, Book!BookNext

-----------------------------------------------------------------------------
(* What the steps do to the book *)

LEMMA ElsewhereBy ==
    ASSUME NEW group,
           \A o \in Order \ group : SameJobAt(o),
           \A a \in Assignment :
              \/ assignment'[a] = assignment[a]
              \/ \A o \in Order \ group : ~OfferFor(a, o) /\ ~OfferFor(a, o)'
    PROVE  Elsewhere(group)
BY DEF Elsewhere, SameOfferAt, OfferFor, HasRow

\* A job out of the queue has no offer.
LEMMA NoOfferOutOfQueue ==
    ASSUME OfferedWaits, NEW o \in Order, ~HasStatus(o, {Waiting})
    PROVE  NoOffer(o)
BY DEF OfferedWaits, WaitsAt, InQueue, NoOffer

LEMMA JobStepEffect ==
    ASSUME BookInv, TypeOK', NEW o \in Order, JobStep(o)
    PROVE  BookEffect
<1> USE DEF BookInv, SafetyInv, TypeInv
<1>1. CASE CreateJob(o)
  <2> DEFINE row == [status |-> initialStatus(order[o].status),
                     rider |-> order[o].rider,
                     proof |-> None, decision |-> None]
  <2>1. job[o] = None /\ job' = [job EXCEPT ![o] = row] /\ UNCHANGED assignment
    BY <1>1 DEF CreateJob
  <2>2. row \in JobRow
    BY DEF JobRow, initialStatus, TypeOK, OrderRow, OrderStatus, JobStatus
  <2>3. row # None BY <2>2, JobIsNotNone
  <2>4. job'[o] # None /\ \A p \in Order : p # o => job'[p] = job[p]
    <3> HIDE DEF row
    <3>1. QED BY <2>1, <2>3 DEF TypeOK
  <2>5. NoOffer(o)
    BY <2>1, NoOfferOutOfQueue DEF HasStatus
  <2>6. NoOffer(o)'
    BY <2>1, <2>5 DEF NoOffer, OfferFor, HasRow
  <2>7. Elsewhere({o})
    BY <2>1, <2>4, ElsewhereBy DEF SameJobAt
  <2>8. QED BY <2>1, <2>4, <2>6, <2>7 DEF BookEffect, Entered
<1>2. ASSUME NEW row \in JobRow, NEW next \in JobStatus, job[o] \in JobRow,
             Travels(o, row, next)
      PROVE  BookEffect
  <2>1. /\ next # Waiting /\ InHands(o) /\ UNCHANGED assignment
        /\ Move(o, row, next, None)
    BY <1>2, JobIsNotNone DEF Travels, Transition, InHands, HasStatus
  <2>2. /\ job'[o] # None /\ job'[o].status = next
        /\ job'[o].rider = job[o].rider
        /\ \A p \in Order : p # o => job'[p] = job[p]
    BY <1>2, <2>1, MoveEffect DEF JobRider, Waiting
  <2>3. NoOffer(o)
    BY <2>1, NoOfferOutOfQueue DEF InHands, HasStatus, ACTIVE_JOB_STATUSES, Waiting
  <2>4. NoOffer(o)'
    BY <2>1, <2>3 DEF NoOffer, OfferFor, HasRow
  <2>5. Elsewhere({o})
    BY <2>1, <2>2, ElsewhereBy DEF SameJobAt
  <2>6. Moved(o)
    BY <2>1, <2>2, <2>4, <2>5 DEF Moved, HasStatus
  <2>7. QED BY <2>6 DEF BookEffect
<1>3. ASSUME job[o] \in JobRow, Requeued(o)
      PROVE  BookEffect
  <2>1. /\ InHands(o) /\ Move(o, Resolved(o), Waiting, None)
        /\ assignment' = Reassigned(o) /\ Resolved(o) \in JobRow
    BY <1>3, JobIsNotNone
       DEF Requeued, Transition, InHands, HasStatus, ACTIVE_JOB_STATUSES,
           JobStatus, Finished
  <2>2. /\ job'[o] # None /\ job'[o].status = Waiting /\ job'[o].rider = None
        /\ \A p \in Order : p # o => job'[p] = job[p]
    BY <1>3, <2>1, MoveEffect DEF JobRider, Waiting, JobStatus
  <2>3. ASSUME NEW a \in Assignment
        PROVE  \/ assignment'[a] = assignment[a]
               \/ \A p \in Order : ~OfferFor(a, p) /\ ~OfferFor(a, p)'
    <3>1. CASE a \in Offers(o, {"ACCEPTED"})
      <4>1. assignment[a] \in AssignmentRow /\ assignment[a].status = "ACCEPTED"
        BY <3>1, RowOf DEF Offers
      <4>2. assignment'[a] = [assignment[a] EXCEPT !.status = "REASSIGNED"]
        BY <2>1, <3>1 DEF Reassigned
      <4>3. assignment'[a].status = "REASSIGNED"
        BY <4>1, <4>2 DEF AssignmentRow
      <4>4. QED BY <4>1, <4>3 DEF OfferFor
    <3>2. CASE a \notin Offers(o, {"ACCEPTED"})
      BY <2>1, <3>2 DEF Reassigned
    <3>3. QED BY <3>1, <3>2
  <2>4. NoOffer(o)
    BY <2>1, NoOfferOutOfQueue DEF InHands, HasStatus, ACTIVE_JOB_STATUSES, Waiting
  <2>5. NoOffer(o)'
    BY <2>3, <2>4 DEF NoOffer, OfferFor, HasRow
  <2>6. Elsewhere({o})
    BY <2>2, <2>3, ElsewhereBy DEF SameJobAt
  <2>7. GivenBack(o)
    BY <2>1, <2>2, <2>5, <2>6 DEF GivenBack, InQueue, HasStatus
  <2>8. QED BY <2>7 DEF BookEffect
<1>4. ASSUME NEW row \in JobRow, job[o] \in JobRow, Redecided(o, row)
      PROVE  BookEffect
  <2>1. \A p \in Order : SameJobAt(p)
    BY <1>4, RedecidedEffect DEF SameJobAt
  <2>2. UNCHANGED assignment BY <1>4 DEF Redecided
  <2>3. Elsewhere({}) BY <2>1, <2>2, ElsewhereBy
  <2>4. QED BY <2>3 DEF BookEffect
<1>5. QED BY <1>1, <1>2, <1>3, <1>4, JobStepKinds

\* Answering the only open offer of a job.
LEMMA OfferAnswered ==
    ASSUME BookInv, NEW b \in Assignment, NEW o \in Order, OfferFor(b, o),
           NEW row \in AssignmentRow, row.status # "OFFERED", row.job = o,
           assignment' = [assignment EXCEPT ![b] = row]
    PROVE  /\ NoOffer(o)'
           /\ \A a \in Assignment :
                 \/ assignment'[a] = assignment[a]
                 \/ \A p \in Order \ {o} : ~OfferFor(a, p) /\ ~OfferFor(a, p)'
<1>1. /\ assignment'[b] = row
      /\ \A a \in Assignment : a # b => assignment'[a] = assignment[a]
  BY SetOffer DEF BookInv, SafetyInv, TypeInv, OfferFor
<1>2. \A a \in Assignment : a # b => ~OfferFor(a, o)
  BY OneOpen DEF BookInv, SafetyInv, OfferInv, OfferFor, Open
<1>3. ~OfferFor(b, o)' BY <1>1 DEF OfferFor
<1>4. NoOffer(o)'
  BY <1>1, <1>2, <1>3 DEF NoOffer, OfferFor, HasRow
<1>5. QED BY <1>1, <1>4 DEF OfferFor

LEMMA OfferEffect ==
    ASSUME BookInv, NEW o \in Order, NEW r \in Rider, NEW b \in Assignment,
           Offer(o, r, b)
    PROVE  Published(o, r, b)
<1> USE DEF BookInv, SafetyInv, TypeInv
<1> DEFINE row == [job |-> o, rider |-> r, status |-> "OFFERED",
                   overdue |-> FALSE]
           as == Offers(o, {"OFFERED"})
<1>1. /\ assignment' = [Expired(as) EXCEPT ![b] = row]
      /\ assignment[b] = None /\ ~OpenOffer(o) /\ UNCHANGED job /\ InQueue(o)
  BY DEF Offer, MayOffer, InQueue, Waiting
<1>2. row \in AssignmentRow /\ row # None
  <2>1. row \in AssignmentRow BY DEF AssignmentRow, AssignmentStatus
  <2>2. QED BY <2>1, RowIsNotNone
<1>3. /\ assignment'[b] = row
      /\ \A a \in Assignment : a # b => assignment'[a] = Expired(as)[a]
  <2> HIDE DEF row
  <2>1. QED BY <1>1, ExpiredType
<1>4. OfferFor(b, o)' /\ assignment'[b].rider = r /\ assignment'[b].overdue = FALSE
  BY <1>2, <1>3 DEF OfferFor, HasRow
<1>5. \A a \in Assignment : OfferFor(a, o) => assignment[a].overdue
  BY <1>1 DEF OpenOffer, Offers, OfferFor, HasRow, Overdue
<1>6. ASSUME NEW a \in Assignment
      PROVE  \/ assignment'[a] = assignment[a]
             \/ \A p \in Order \ {o} : ~OfferFor(a, p) /\ ~OfferFor(a, p)'
  <2>1. CASE a = b
    BY <1>1, <1>3, <2>1 DEF OfferFor, HasRow
  <2>2. CASE a # b /\ a \notin as
    BY <1>3, <2>2 DEF Expired
  <2>3. CASE a # b /\ a \in as
    <3>1. assignment[a].job = o BY <2>3 DEF Offers
    <3>2. assignment'[a] = Expired(as)[a] BY <1>3, <2>3
    <3>3. Expired(as)[a] = assignment[a] \/ Expired(as)[a].job = o
      BY <3>1, ExpiredType
    <3>4. QED BY <3>1, <3>2, <3>3 DEF OfferFor
  <2>4. QED BY <2>1, <2>2, <2>3
<1>7. Elsewhere({o})
  BY <1>1, <1>6, ElsewhereBy DEF SameJobAt
<1>8. InQueue(o)' BY <1>1 DEF InQueue, HasStatus
<1>9. QED BY <1>1, <1>4, <1>5, <1>7, <1>8 DEF Published

LEMMA AcceptEffect ==
    ASSUME BookInv, NEW b \in Assignment, Accept(b)
    PROVE  \E o \in Order : Taken(o, b)
<1> USE DEF BookInv, SafetyInv, TypeInv
<1>0. PICK o \in Order : assignment[b].job = o
  BY RowOf DEF Accept, MayAccept, InTime, AssignmentRow
<1> DEFINE r == assignment[b].rider
           row == [assignment[b] EXCEPT !.status = "ACCEPTED"]
<1>1. /\ HasRow(b) /\ assignment[b] \in AssignmentRow
      /\ assignment[b].status = "OFFERED" /\ ~assignment[b].overdue
      /\ HasStatus(o, {Waiting}) /\ Move(o, job[o], "RIDER_ASSIGNED", r)
      /\ assignment' = [assignment EXCEPT ![b] = row]
  BY <1>0, RowOf DEF Accept, MayAccept, InTime, HasRow, Waiting
<1>2. /\ row \in AssignmentRow /\ row.status = "ACCEPTED"
      /\ row.job = o /\ r \in Rider
  BY <1>0, <1>1 DEF AssignmentRow, AssignmentStatus
<1>3. OfferFor(b, o) BY <1>0, <1>1 DEF OfferFor
<1>4. job[o] \in JobRow BY <1>1, <1>2, JobRowOf DEF HasStatus
<1>5. /\ job'[o] # None /\ job'[o].status = "RIDER_ASSIGNED"
      /\ job'[o].rider = r
      /\ \A p \in Order : p # o => job'[p] = job[p]
  <2>1. r # None BY <1>2, DispatchAssumption
  <2>2. JobRider(o, "RIDER_ASSIGNED", r) = r BY <2>1 DEF JobRider
  <2>3. QED BY <1>1, <1>2, <1>4, <2>2, MoveEffect DEF JobStatus
<1> HIDE DEF row, BookInv, SafetyInv, TypeInv
<1>6. /\ NoOffer(o)'
      /\ \A a \in Assignment :
            \/ assignment'[a] = assignment[a]
            \/ \A p \in Order \ {o} : ~OfferFor(a, p) /\ ~OfferFor(a, p)'
  BY <1>1, <1>2, <1>3, OfferAnswered
<1>7. Elsewhere({o}) BY <1>5, <1>6, ElsewhereBy DEF SameJobAt
<1>8. InHands(o)'
  BY <1>5 DEF InHands, HasStatus, ACTIVE_JOB_STATUSES, JobStatus, Finished
<1>9. QED BY <1>1, <1>2, <1>3, <1>5, <1>6, <1>7, <1>8 DEF Taken

LEMMA RejectEffect ==
    ASSUME BookInv, NEW b \in Assignment, Reject(b)
    PROVE  \E o \in Order : Declined(o, b) \/ GivenBack(o)
<1> USE DEF BookInv, SafetyInv, TypeInv
<1>0. PICK o \in Order : assignment[b].job = o
  BY RowOf DEF Reject, AssignmentRow
<1> DEFINE row == [assignment[b] EXCEPT !.status = "REJECTED"]
<1>1. /\ HasRow(b) /\ assignment[b] \in AssignmentRow
      /\ assignment' = [assignment EXCEPT ![b] = row]
  BY RowOf DEF Reject, HasRow
<1>2. /\ row \in AssignmentRow /\ row.status = "REJECTED" /\ row.job = o
  BY <1>0, <1>1 DEF AssignmentRow, AssignmentStatus
<1> HIDE DEF row
<1>3. CASE ~GivesBackJob(b)
  <2>1. assignment[b].status = "OFFERED" /\ UNCHANGED job
    BY <1>3 DEF Reject, Rejectable, GivesBackJob
  <2>2. OfferFor(b, o) BY <1>0, <1>1, <2>1 DEF OfferFor
  <2>3. /\ NoOffer(o)'
        /\ \A a \in Assignment :
              \/ assignment'[a] = assignment[a]
              \/ \A p \in Order \ {o} : ~OfferFor(a, p) /\ ~OfferFor(a, p)'
    <3> HIDE DEF BookInv, SafetyInv, TypeInv
    <3>1. QED BY <1>1, <1>2, <2>2, OfferAnswered
  <2>4. Elsewhere({o}) BY <2>1, <2>3, ElsewhereBy DEF SameJobAt
  <2>5. InQueue(o)'
    BY <1>2, <2>1, <2>2 DEF OfferedWaits, WaitsAt, InQueue, HasStatus
  <2>6. QED BY <1>2, <2>2, <2>3, <2>4, <2>5 DEF Declined
<1>4. CASE GivesBackJob(b)
  <2>1. /\ Move(o, job[o], Waiting, None) /\ assignment[b].status = "ACCEPTED"
        /\ job[o] \in JobRow /\ job[o].status = "RIDER_ASSIGNED"
    BY <1>0, <1>2, <1>4, JobRowOf
       DEF Reject, Rejectable, GivesBackJob, HasStatus, Waiting
  <2>2. /\ job'[o] # None /\ job'[o].status = Waiting /\ job'[o].rider = None
        /\ \A p \in Order : p # o => job'[p] = job[p]
    BY <1>2, <2>1, MoveEffect DEF JobRider, Waiting, JobStatus
  <2>3. InHands(o)
    BY <2>1, JobIsNotNone
       DEF InHands, HasStatus, ACTIVE_JOB_STATUSES, JobStatus, Finished
  <2>4. NoOffer(o)
    BY <1>2, <2>3, NoOfferOutOfQueue
       DEF InHands, HasStatus, ACTIVE_JOB_STATUSES, Waiting
  <2>5. /\ assignment'[b] = row
        /\ \A a \in Assignment : a # b => assignment'[a] = assignment[a]
    BY <1>1, <1>2, SetOffer
  <2>6. NoOffer(o)'
    BY <1>2, <2>4, <2>5 DEF NoOffer, OfferFor, HasRow
  <2>7. \A p \in Order : ~OfferFor(b, p) /\ ~OfferFor(b, p)'
    BY <1>2, <2>1, <2>5 DEF OfferFor
  <2>8. Elsewhere({o})
    BY <2>2, <2>5, <2>7, ElsewhereBy DEF SameJobAt
  <2>9. InQueue(o)' BY <2>2 DEF InQueue, HasStatus
  <2>10. QED BY <1>2, <2>3, <2>6, <2>8, <2>9 DEF GivenBack
<1>5. QED BY <1>3, <1>4

LEMMA TickEffect ==
    ASSUME BookInv, NEW b \in Assignment, Tick(b)
    PROVE  \E o \in Order : Lapsed(o, b)
<1> USE DEF BookInv, SafetyInv, TypeInv
<1>0. PICK o \in Order : assignment[b].job = o
  BY RowOf DEF Tick, AssignmentRow
<1> DEFINE row == [assignment[b] EXCEPT !.overdue = TRUE]
<1>1. /\ HasRow(b) /\ assignment[b] \in AssignmentRow
      /\ assignment[b].status = "OFFERED" /\ ~assignment[b].overdue
      /\ assignment' = [assignment EXCEPT ![b] = row] /\ UNCHANGED job
  BY RowOf DEF Tick, HasRow
<1>2. /\ row \in AssignmentRow /\ row.status = "OFFERED" /\ row.job = o
      /\ row.rider = assignment[b].rider /\ row.overdue = TRUE
  BY <1>0, <1>1 DEF AssignmentRow
<1> HIDE DEF row
<1>3. /\ assignment'[b] = row /\ HasRow(b)'
      /\ \A a \in Assignment : a # b => assignment'[a] = assignment[a]
  BY <1>1, <1>2, SetOffer
<1>4. OfferFor(b, o) /\ OfferFor(b, o)'
  BY <1>0, <1>1, <1>2, <1>3 DEF OfferFor
<1>5. \A p \in Order \ {o} : ~OfferFor(b, p) /\ ~OfferFor(b, p)'
  BY <1>0, <1>2, <1>3 DEF OfferFor
<1>6. Elsewhere({o})
  BY <1>1, <1>3, <1>5, ElsewhereBy DEF SameJobAt
<1>7. InQueue(o)'
  BY <1>1, <1>2, <1>4 DEF OfferedWaits, WaitsAt, InQueue, HasStatus
<1>8. QED BY <1>1, <1>2, <1>3, <1>4, <1>6, <1>7 DEF Lapsed

\* Expiring the late offers among `as` clears the pages of their jobs.
LEMMA ExpireEffect ==
    ASSUME BookInv, NEW as, assignment' = Expired(as), UNCHANGED job
    PROVE  \E group \in SUBSET Order : Withdrawn(group)
<1> USE DEF BookInv, SafetyInv, TypeInv
<1> DEFINE late(a, o) == a \in as /\ OfferFor(a, o) /\ assignment[a].overdue
           group == {o \in Order : \E a \in Assignment : late(a, o)}
<1>1. ASSUME NEW a \in Assignment, NEW o \in Order, late(a, o)
      PROVE  assignment'[a].status = "EXPIRED"
  <2>1. assignment'[a] = [assignment[a] EXCEPT !.status = "EXPIRED"]
    BY <1>1 DEF Expired, OfferFor, HasRow, Overdue
  <2>2. assignment[a] \in AssignmentRow BY <1>1, RowOf DEF OfferFor, HasRow
  <2>3. QED BY <2>1, <2>2 DEF AssignmentRow
<1>2. ASSUME NEW a \in Assignment, assignment'[a] # assignment[a]
      PROVE  assignment[a].job \in group /\ ~\E o : OfferFor(a, o)'
  <2>1. HasRow(a) /\ a \in as /\ Overdue(a)
    BY <1>2 DEF Expired, HasRow
  <2>2. assignment[a].job \in Order
    BY <2>1, RowOf DEF HasRow, AssignmentRow
  <2>3. late(a, assignment[a].job) BY <2>1 DEF Overdue, OfferFor
  <2>4. assignment'[a].status = "EXPIRED" BY <1>1, <2>2, <2>3
  <2>5. QED BY <2>2, <2>3, <2>4 DEF OfferFor
<1>3. \A a \in Assignment :
         \/ assignment'[a] = assignment[a]
         \/ \A o \in Order \ group : ~OfferFor(a, o) /\ ~OfferFor(a, o)'
  <2> HIDE DEF group
  <2>1. QED BY <1>2 DEF OfferFor
<1>4. Elsewhere(group)
  BY <1>3, ElsewhereBy DEF SameJobAt
<1>5. ASSUME NEW o \in group
      PROVE  /\ InQueue(o)' /\ NoOffer(o)'
             /\ \E a \in Assignment : OfferFor(a, o) /\ assignment[a].overdue
  <2>1. PICK a \in Assignment : late(a, o) OBVIOUS
  <2>2. InQueue(o)'
    BY <2>1 DEF OfferedWaits, WaitsAt, InQueue, HasStatus
  <2>3. \A c \in Assignment : OfferFor(c, o) => c = a
    BY <2>1, OneOpen DEF OfferInv, OfferFor, Open
  <2>4. \A c \in Assignment : ~OfferFor(c, o)'
    <3> SUFFICES ASSUME NEW c \in Assignment, OfferFor(c, o)' PROVE FALSE
      OBVIOUS
    <3>1. assignment'[c] = assignment[c] BY <1>2
    <3>2. c = a BY <2>3, <3>1 DEF OfferFor, HasRow
    <3>3. assignment'[a].status = "EXPIRED" BY <1>1, <2>1
    <3>4. QED BY <3>2, <3>3 DEF OfferFor
  <2>5. QED BY <2>1, <2>2, <2>4 DEF NoOffer
<1>6. Withdrawn(group)
  <2> HIDE DEF group
  <2>1. QED BY <1>4, <1>5 DEF Withdrawn
<1>7. QED BY <1>6

LEMMA WorkerStepEffect ==
    ASSUME BookInv, NEW w \in Worker, WorkerStep(w)
    PROVE  BookEffect
<1> USE DEF BookInv, SafetyInv, TypeInv
<1>1. UNCHANGED job
  BY DEF WorkerStep, WorkerFind, WorkerExpire, WorkerRecord, WorkerFindMissing,
     WorkerBackfill, WorkerDone, WorkerCrash, Rows
<1>2. CASE UNCHANGED assignment
  BY <1>1, <1>2, ElsewhereBy DEF SameJobAt, BookEffect
<1>3. ASSUME NEW b \in worker[w].todo, Overdue(b),
             assignment' = [assignment EXCEPT ![b].status = "EXPIRED"]
      PROVE  BookEffect
  <2>1. b \in Assignment /\ HasRow(b)
    BY WorkerType DEF BatchFits
  <2>2. assignment' = Expired({b})
    BY <1>3, <2>1 DEF Expired, HasRow, TypeOK
  <2>3. QED BY <1>1, <2>2, ExpireEffect DEF BookEffect
<1>4. QED
  BY <1>2, <1>3 DEF WorkerStep, WorkerFind, WorkerExpire, WorkerRecord,
     WorkerFindMissing, WorkerBackfill, WorkerDone, WorkerCrash, StillOverdue

LEMMA NextEffect == BookInv /\ TypeOK' /\ [Next]_vars => BookEffect
<1> SUFFICES ASSUME BookInv, TypeOK', [Next]_vars PROVE BookEffect
  OBVIOUS
<1>1. CASE UNCHANGED <<job, assignment>>
  BY <1>1, ElsewhereBy DEF SameJobAt, BookEffect
<1>2. CASE OfferStep
  <2>1. ASSUME NEW r \in Rider, ExpireByRead(r) PROVE BookEffect
    BY <2>1, ExpireEffect DEF ExpireByRead, BookEffect
  <2>2. QED
    BY <1>2, <2>1, OfferEffect, AcceptEffect, RejectEffect, TickEffect
       DEF OfferStep, BookEffect
<1>3. QED
  BY <1>1, <1>2, WorkerStepEffect, JobStepEffect, RequestStepFrame DEF Next, vars

LEMMA NextBookInv == BookInv /\ [Next]_vars => BookInv'
<1> SUFFICES ASSUME BookInv, [Next]_vars PROVE BookInv'
  OBVIOUS
<1>1. SafetyInv' BY NextSafetyInv DEF BookInv
<1>2. TypeOK' BY <1>1 DEF SafetyInv, TypeInv
<1>3. QED BY <1>1, <1>2, NextEffect, EffectWaits DEF BookInv

LEMMA InitBook == Init => BookInv /\ Book!BookInit
<1> SUFFICES ASSUME Init PROVE BookInv /\ Book!BookInit
  OBVIOUS
<1>1. BookInv
  BY InitTypeInv, InitOfferInv, InitOfferedWaits DEF BookInv, SafetyInv
<1>2. \A o \in Order : Page(o) = Entry("absent", None, FALSE)
  BY <1>1, PagesShow DEF Init, PageShows
<1>3. QED BY <1>1, <1>2 DEF Book!BookInit, Book!Absent, Book!Entry, Entry

\* Dispatch implements OfferBook, for any number of orders, riders, offers and
\* workers and under every endpoint: a job is in one place at a time, comes into
\* a rider's hands only by an offer he took up in time, leaves them only for the
\* queue or closed, and stays closed (offer, accept, reject, the expiry of offers,
\* transitionWithinTransaction).
THEOREM DispatchKeepsBook == Spec => KeepsBook
<1>1. Init => BookInv /\ Book!BookInit
  BY InitBook
<1>2. BookInv /\ [Next]_vars => BookInv'
  BY NextBookInv
<1>3. BookInv /\ [Next]_vars => [Book!BookNext]_([o \in Order |-> Page(o)])
  <2>1. BookInv' => TypeOK' BY DEF BookInv, SafetyInv, TypeInv
  <2>2. QED BY <1>2, <2>1, NextEffect, EffectIsBookStep
<1>4. QED
  BY <1>1, <1>2, <1>3, PTL DEF Spec, KeepsBook, Book!BookSpec

-----------------------------------------------------------------------------
(***************************************************************************)
(* The screens agree with the server, when no order and no rider is edited *)
(* behind dispatch and riders report the failures.                         *)
(***************************************************************************)

\* Beyond the records that follow their job: a job in the queue is nobody's,
\* whoever has one in work is BUSY, and no rider is ever OFFLINE.
QueueIsFree == \A o \in Order : HasStatus(o, {Waiting}) => job[o].rider = None
Occupied == \A o \in Order : InHands(o) => riderStatus[job[o].rider] = "BUSY"
NobodyOffline == \A r \in Rider : riderStatus[r] # "OFFLINE"

RiderInv == QueueIsFree /\ Occupied /\ NobodyOffline

LEMMA InitRiderInv == Init => RiderInv
BY DEF Init, RiderInv, QueueIsFree, Occupied, NobodyOffline, InHands, HasStatus

\* A job that left the queue has its rider, from the offer that was accepted.
LEMMA HolderIsRider ==
    ASSUME SafetyInv, SomeAccepted, NEW o \in Order, HasStatus(o, LeftQueue)
    PROVE  /\ job[o].rider \in Rider /\ job[o].rider # None
           /\ \E a \in Assignment : /\ AcceptedFor(a, o)
                                    /\ assignment[a].rider = job[o].rider
<1>1. PICK a \in Assignment : AcceptedFor(a, o) BY DEF SomeAccepted
<1>2. assignment[a].rider \in Rider
  BY <1>1, RowOf DEF AcceptedFor, HasRow, SafetyInv, TypeInv, AssignmentRow
<1>3. assignment[a].rider = job[o].rider
  BY <1>1 DEF AcceptedFor, HasRow, SafetyInv, OfferInv, AcceptedMatchesJob
<1>4. QED BY <1>1, <1>2, <1>3, DispatchAssumption

LEMMA InHandsLeftQueue ==
    ASSUME NEW o, InHands(o)
    PROVE  HasStatus(o, LeftQueue)
BY DEF InHands, HasStatus, LeftQueue, ACTIVE_JOB_STATUSES, Waiting

\* Jobs that keep status and rider, or enter the queue as nobody's, leave the
\* riders as they were.
LEMMA SameRiders ==
    ASSUME RiderInv, UNCHANGED riderStatus,
           \A o \in Order :
              \/ SameJobAt(o)
              \/ job'[o] # None /\ job'[o].status = Waiting /\ job'[o].rider = None
    PROVE  RiderInv'
<1>1. QueueIsFree'
  BY DEF RiderInv, QueueIsFree, SameJobAt, HasStatus
<1>2. Occupied'
  BY DEF RiderInv, Occupied, InHands, SameJobAt, HasStatus, ACTIVE_JOB_STATUSES,
     Waiting
<1>3. QED BY <1>1, <1>2 DEF RiderInv, NobodyOffline

\* A transition frees nobody but the rider the job leaves, who had no other.
LEMMA TransitionRiders ==
    ASSUME SafetyInv, SomeAccepted, RiderInv, NEW o \in Order, NEW row \in JobRow,
           job[o] \in JobRow, NEW next \in JobStatus, Transition(o, row, next),
           job[o].status \in ACTIVE_JOB_STATUSES
    PROVE  RiderInv'
<1> USE DEF SafetyInv, TypeInv
<1>1. /\ job'[o] # None /\ job'[o].status = next
      /\ job'[o].rider = JobRider(o, next, None)
      /\ \A p \in Order : p # o => job'[p] = job[p]
  BY MoveEffect DEF Transition
<1>2. job[o] # None /\ InHands(o) /\ job[o].rider \in Rider /\ job[o].rider # None
  BY JobIsNotNone, HolderIsRider, InHandsLeftQueue DEF InHands, HasStatus
<1>3. riderStatus' = Freed(o, next)
  BY DEF Transition
<1>4. QueueIsFree'
  BY <1>1 DEF RiderInv, QueueIsFree, HasStatus, JobRider, Waiting
<1>5. NobodyOffline'
  BY <1>3 DEF RiderInv, NobodyOffline, Freed
<1>6. ASSUME NEW p \in Order, InHands(p)'
      PROVE  riderStatus'[job'[p].rider] = "BUSY"
  <2>1. CASE p = o
    <3>1. next \notin Finished \cup {"WAITING_FOR_DISPATCH"}
      BY <1>1, <1>6, <2>1 DEF InHands, HasStatus, ACTIVE_JOB_STATUSES
    <3>2. job'[o].rider = job[o].rider
      BY <1>1, <3>1 DEF JobRider
    <3>3. riderStatus[job[o].rider] = "BUSY"
      BY <1>2 DEF RiderInv, Occupied
    <3>4. QED BY <1>2, <1>3, <2>1, <3>1, <3>2, <3>3 DEF Freed
  <2>2. CASE p # o
    <3>1. InHands(p) /\ job'[p] = job[p]
      BY <1>1, <1>6, <2>2 DEF InHands, HasStatus
    <3>2. job[p].rider \in Rider /\ job[p].rider # None
      BY <3>1, HolderIsRider, InHandsLeftQueue
    <3>3. job[p].rider # job[o].rider
      BY <1>2, <2>2, <3>1, <3>2
         DEF OneActiveJobPerRider, InHands, HasStatus, ACTIVE_JOB_STATUSES
    <3>4. riderStatus[job[p].rider] = "BUSY"
      BY <3>1 DEF RiderInv, Occupied
    <3>5. QED BY <1>3, <3>1, <3>2, <3>3, <3>4 DEF Freed
  <2>3. QED BY <2>1, <2>2
<1>7. QED BY <1>4, <1>5, <1>6 DEF RiderInv, Occupied

LEMMA JobStepRiders ==
    ASSUME SafetyInv, AloneInv, RiderInv, NEW o \in Order, JobStep(o)
    PROVE  RiderInv'
<1> USE DEF SafetyInv, TypeInv
<1>1. CASE CreateJob(o)
  <2>1. /\ job'[o] # None /\ job'[o].status = Waiting /\ job'[o].rider = None
        /\ \A p \in Order : p # o => job'[p] = job[p]
        /\ UNCHANGED riderStatus
    BY <1>1, CreateJobEffect DEF AloneInv
  <2>2. QED BY <2>1, SameRiders DEF SameJobAt
<1>2. CASE ~CreateJob(o)
  <2>1. job[o] \in JobRow BY <1>2, JobStepKinds
  <2>2. ASSUME NEW row \in JobRow, NEW next \in JobStatus, Travels(o, row, next)
        PROVE  RiderInv'
    BY <2>1, <2>2, TransitionRiders DEF Travels, AloneInv
  <2>3. CASE Requeued(o)
    <3>1. Waiting \in JobStatus /\ job[o].status \in ACTIVE_JOB_STATUSES
      BY <2>3 DEF Requeued, Waiting, JobStatus, ACTIVE_JOB_STATUSES, Finished
    <3>2. QED BY <2>1, <2>3, <3>1, TransitionRiders DEF Requeued, AloneInv
  <2>4. ASSUME NEW row \in JobRow, Redecided(o, row)
        PROVE  RiderInv'
    <3>1. \A p \in Order : SameJobAt(p)
      BY <2>1, <2>4, RedecidedEffect DEF SameJobAt
    <3>2. UNCHANGED riderStatus BY <2>4 DEF Redecided
    <3>3. QED BY <3>1, <3>2, SameRiders
  <2>5. QED BY <1>2, <2>2, <2>3, <2>4, JobStepKinds
<1>3. QED BY <1>1, <1>2

LEMMA OfferStepRiders ==
    ASSUME SafetyInv, AloneInv, RiderInv, OfferStep
    PROVE  RiderInv'
<1> USE DEF SafetyInv, TypeInv
<1>1. CASE UNCHANGED <<job, riderStatus>>
  BY <1>1, SameRiders DEF SameJobAt
<1>2. ASSUME NEW b \in Assignment, Accept(b)
      PROVE  RiderInv'
  <2>0. HasRow(b) /\ assignment[b] \in AssignmentRow
    BY <1>2, RowOf DEF Accept, MayAccept, HasRow
  <2> PICK o \in Order, r \in Rider :
          assignment[b].job = o /\ assignment[b].rider = r
    BY <2>0 DEF AssignmentRow
  <2>1. /\ HasStatus(o, {Waiting}) /\ Move(o, job[o], "RIDER_ASSIGNED", r)
        /\ riderStatus' = [riderStatus EXCEPT ![r] = "BUSY"]
    BY <1>2 DEF Accept, MayAccept, Waiting
  <2>2. job[o] \in JobRow BY <2>1, JobRowOf DEF HasStatus
  <2>3. /\ job'[o] # None /\ job'[o].status = "RIDER_ASSIGNED"
        /\ job'[o].rider = r
        /\ \A p \in Order : p # o => job'[p] = job[p]
    <3>1. r # None BY DispatchAssumption
    <3>2. JobRider(o, "RIDER_ASSIGNED", r) = r BY <3>1 DEF JobRider
    <3>3. QED BY <2>1, <2>2, <3>2, MoveEffect DEF JobStatus
  <2>4. QueueIsFree'
    BY <2>3 DEF RiderInv, QueueIsFree, HasStatus, Waiting
  <2>5. NobodyOffline'
    BY <2>1 DEF RiderInv, NobodyOffline, TypeOK
  <2>6. ASSUME NEW p \in Order, InHands(p)'
        PROVE  riderStatus'[job'[p].rider] = "BUSY"
    <3>1. CASE p = o BY <2>1, <2>3, <3>1 DEF TypeOK
    <3>2. CASE p # o
      <4>1. InHands(p) /\ job'[p] = job[p]
        BY <2>3, <2>6, <3>2 DEF InHands, HasStatus
      <4>2. job[p].rider \in Rider
        BY <4>1, HolderIsRider, InHandsLeftQueue DEF AloneInv
      <4>3. riderStatus[job[p].rider] = "BUSY" BY <4>1 DEF RiderInv, Occupied
      <4>4. QED BY <2>1, <4>1, <4>2, <4>3 DEF TypeOK
    <3>3. QED BY <3>1, <3>2
  <2>7. QED BY <2>4, <2>5, <2>6 DEF RiderInv, Occupied
<1>3. ASSUME NEW b \in Assignment, Reject(b), GivesBackJob(b)
      PROVE  RiderInv'
  <2>0. HasRow(b) /\ assignment[b] \in AssignmentRow
    BY <1>3, RowOf DEF Reject, HasRow
  <2> PICK o \in Order, r \in Rider :
          assignment[b].job = o /\ assignment[b].rider = r
    BY <2>0 DEF AssignmentRow
  <2>1. /\ Move(o, job[o], Waiting, None) /\ HasStatus(o, {"RIDER_ASSIGNED"})
        /\ riderStatus' = [Freed(o, Waiting) EXCEPT ![r] = "ONLINE"]
    BY <1>3 DEF Reject, Rejectable, GivesBackJob, Waiting
  <2>2. job[o].rider = r
    BY <1>3, <2>0 DEF GivesBackJob, HasRow, OfferInv, AcceptedMatchesJob
  <2>3. riderStatus' = Freed(o, Waiting)
    BY <2>1, <2>2 DEF Freed, Waiting
  <2>4. job[o] \in JobRow /\ Waiting \in JobStatus
        /\ job[o].status \in ACTIVE_JOB_STATUSES
    BY <2>1, JobRowOf
       DEF HasStatus, Waiting, JobStatus, ACTIVE_JOB_STATUSES, Finished
  <2>5. Transition(o, job[o], Waiting) BY <2>1, <2>3 DEF Transition
  <2>6. QED BY <2>4, <2>5, TransitionRiders DEF AloneInv
<1>4. QED
  BY <1>1, <1>2, <1>3 DEF OfferStep, Offer, Reject, Tick, ExpireByRead

LEMMA NextRiderInv ==
    ASSUME Endpoints = {}, SafetyInv, AloneInv, RiderInv, [Next]_vars
    PROVE  RiderInv'
<1>1. ASSUME UNCHANGED <<job, riderStatus>> PROVE RiderInv'
  BY <1>1, SameRiders DEF SameJobAt
<1>2. CASE UNCHANGED vars BY <1>1, <1>2 DEF vars
<1>3. CASE RequestStep
  BY <1>1, <1>3, RequestStepOrderInv, RequestStepFrame
     DEF AloneInv, SafetyInv
<1>4. ASSUME NEW w \in Worker, WorkerStep(w) PROVE RiderInv'
  BY <1>1, <1>4 DEF WorkerStep, WorkerFind, WorkerExpire, WorkerRecord,
     WorkerFindMissing, WorkerBackfill, WorkerDone, WorkerCrash, Rows
<1>5. QED BY <1>2, <1>3, <1>4, OfferStepRiders, JobStepRiders DEF Next

-----------------------------------------------------------------------------
(* The screens, one by one *)

ScreenInv == SafetyInv /\ AloneInv /\ OfferedWaits /\ RiderInv

\* Where a job can be, and what that says of its rider.
LEMMA JobPlaces ==
    ASSUME ScreenInv, NEW o \in Order, job[o] # None
    PROVE  /\ job[o].status \in JobStatus
           /\ \/ /\ HasStatus(o, {Waiting}) /\ job[o].rider = None
                 /\ ~InHands(o) /\ ~HasStatus(o, LeftQueue)
              \/ /\ ~HasStatus(o, {Waiting}) /\ HasStatus(o, LeftQueue)
                 /\ job[o].rider \in Rider /\ job[o].rider # None
                 /\ InHands(o) <=> job[o].status \notin Finished
                 /\ InHands(o) => riderStatus[job[o].rider] = "BUSY"
<1>1. job[o].status \in JobStatus
  BY JobRowOf DEF ScreenInv, SafetyInv, TypeInv, JobRow
<1>2. CASE job[o].status = Waiting
  BY <1>1, <1>2
     DEF ScreenInv, RiderInv, QueueIsFree, HasStatus, InHands, LeftQueue,
         ACTIVE_JOB_STATUSES, Waiting
<1>3. CASE job[o].status # Waiting
  <2>1. HasStatus(o, LeftQueue) /\ ~HasStatus(o, {Waiting})
    BY <1>1, <1>3 DEF HasStatus, LeftQueue
  <2>2. job[o].rider \in Rider /\ job[o].rider # None
    BY <2>1, HolderIsRider DEF ScreenInv, AloneInv
  <2>3. InHands(o) <=> job[o].status \notin Finished
    BY <1>1, <1>3, ActiveIs DEF InHands, HasStatus
  <2>4. InHands(o) => riderStatus[job[o].rider] = "BUSY"
    BY DEF ScreenInv, RiderInv, Occupied
  <2>5. QED BY <1>1, <2>1, <2>2, <2>3, <2>4
<1>4. QED BY <1>2, <1>3

LEMMA NoActiveJobs ==
    ASSUME NEW r
    PROVE  ActiveJobs(r) = {} <=> ~HasActiveJob(r, {})
BY DEF ActiveJobs, HasActiveJob

\* A rider is BUSY exactly while he has a delivery.
LEMMA BusyIffActive ==
    ASSUME ScreenInv, NEW r \in Rider
    PROVE  /\ riderStatus[r] = "BUSY" <=> HasActiveJob(r, {})
           /\ riderStatus[r] = "BUSY" \/ riderStatus[r] = "ONLINE"
<1>1. riderStatus[r] = "BUSY" => HasActiveJob(r, {})
  BY DEF ScreenInv, AloneInv, BusyMeansDelivering
<1>2. HasActiveJob(r, {}) => riderStatus[r] = "BUSY"
  BY DEF HasActiveJob, ScreenInv, RiderInv, Occupied, InHands
<1>3. riderStatus[r] \in RiderStatus /\ riderStatus[r] # "OFFLINE"
  BY DEF ScreenInv, SafetyInv, TypeInv, TypeOK, RiderInv, NobodyOffline
<1>4. QED BY <1>1, <1>2, <1>3 DEF RiderStatus

LEMMA WaitingHasNoAccepted ==
    ASSUME ScreenInv, NEW o \in Order, HasStatus(o, {Waiting}),
           NEW a \in Assignment
    PROVE  ~AcceptedFor(a, o)
BY DEF ScreenInv, SafetyInv, OfferInv, AcceptedMatchesJob, AcceptedFor, HasRow,
   HasStatus, Waiting

LEMMA BoardAgrees == ScreenInv => BoardMatchesServer
<1> SUFFICES ASSUME ScreenInv, backfill = {}
             PROVE  /\ getBoard.waitingJobs \subseteq unassignedQueue
                    /\ unassignedQueue \cap getBoard.activeJobs = {}
                    /\ \A o \in Order, r \in Rider :
                          /\ r \in OfferForm(o) => MayOffer(o, r)
                          /\ MayOffer(o, r) => r \in OfferForm(o) \/ openOffer(o)
  BY DEF BoardMatchesServer
<1>1. ASSUME NEW o \in Order, HasStatus(o, {Waiting})
      PROVE  o \in unassignedQueue
  <2>1. job[o] # None /\ job[o].status = Waiting BY <1>1 DEF HasStatus
  <2>2. job[o].rider = None BY <1>1 DEF ScreenInv, RiderInv, QueueIsFree
  <2>3. legacyOrderStatus(Waiting) = "PACKED" BY DEF legacyOrderStatus, Waiting
  <2>4. order[o].status = "PACKED" /\ order[o].rider = None
    BY <2>1, <2>2, <2>3 DEF ScreenInv, AloneInv, OrderInv, OrderFollowsJob
  <2>5. QED BY <2>4 DEF unassignedQueue
<1>2. ASSUME NEW o \in Order, InHands(o)
      PROVE  o \notin unassignedQueue
  <2>1. job[o] # None BY <1>2 DEF InHands, HasStatus
  <2>2. job[o].rider # None BY <1>2, <2>1, JobPlaces
  <2>3. order[o].rider = job[o].rider
    BY <2>1 DEF ScreenInv, AloneInv, OrderInv, OrderFollowsJob
  <2>4. QED BY <2>2, <2>3 DEF unassignedQueue
<1>3. ASSUME NEW o \in Order, NEW r \in Rider, r \in OfferForm(o)
      PROVE  MayOffer(o, r)
  <2>1. HasStatus(o, {Waiting}) /\ ~openOffer(o) /\ riderStatus[r] = "ONLINE"
        /\ ActiveJobs(r) = {}
    BY <1>3 DEF OfferForm, getBoard, availableRiders, available, Waiting
  <2>2. job[o].rider = None BY <2>1 DEF ScreenInv, RiderInv, QueueIsFree
  <2>3. ~HasActiveJob(r, {}) BY <2>1, NoActiveJobs
  <2>4. ~OpenOffer(o)
    BY <2>1, WaitingHasNoAccepted
       DEF OpenOffer, openOffer, Offers, AcceptedFor, HasRow
  <2>5. QED BY <2>1, <2>2, <2>3, <2>4 DEF MayOffer, Waiting
<1>4. ASSUME NEW o \in Order, NEW r \in Rider, MayOffer(o, r)
      PROVE  r \in OfferForm(o) \/ openOffer(o)
  <2>1. HasStatus(o, {Waiting}) /\ riderStatus[r] = "ONLINE"
        /\ ActiveJobs(r) = {}
    BY <1>4, NoActiveJobs DEF MayOffer, Waiting
  <2>2. r \in availableRiders
    BY <2>1 DEF availableRiders, available, getBoard
  <2>3. QED BY <2>1, <2>2 DEF OfferForm, getBoard, Waiting
<1>5. getBoard.waitingJobs = {o \in Order : HasStatus(o, {Waiting})}
      /\ getBoard.activeJobs = {o \in Order : InHands(o)}
  BY DEF getBoard, Waiting, InHands
<1>6. QED BY <1>1, <1>2, <1>3, <1>4, <1>5

\* The jobs a rider holds beside one that is nobody's or in his hands are done.
LEMMA MayHold ==
    ASSUME ScreenInv, NEW o \in Order, NEW r \in Rider, NEW status,
           \/ ~HasActiveJob(r, {})
           \/ InHands(o) /\ job[o].rider = r
    PROVE  RiderMayHold(o, status, r)
<1> SUFFICES ASSUME NEW p \in Order \ {o}, job[p] # None, job[p].rider = r
             PROVE  job[p].status \in Finished
  BY DEF RiderMayHold
<1>1. r # None BY DispatchAssumption
<1>2. InHands(p) <=> job[p].status \notin Finished BY <1>1, JobPlaces
<1>3. CASE ~HasActiveJob(r, {}) BY <1>2, <1>3 DEF HasActiveJob, InHands
<1>4. CASE InHands(o) /\ job[o].rider = r
  <2>1. job[o] # None /\ job[o].status \notin Finished
    BY <1>4, JobPlaces DEF InHands, HasStatus, ACTIVE_JOB_STATUSES
  <2>2. QED
    BY <1>1, <1>4, <2>1 DEF ScreenInv, SafetyInv, OneActiveJobPerRider
<1>5. QED BY <1>3, <1>4

\* An offer that is open in time is taken unless its rider has a delivery.
LEMMA TakenOffers ==
    ASSUME ScreenInv, NEW a \in Assignment
    PROVE  HasRow(a) /\ AcceptTaken(a) <=>
              /\ HasRow(a) /\ InTime(a)
              /\ ~HasActiveJob(assignment[a].rider, {})
<1> SUFFICES ASSUME HasRow(a), InTime(a)
             PROVE  AcceptTaken(a) <=> ~HasActiveJob(assignment[a].rider, {})
  BY DEF AcceptTaken, MayAccept, HasRow
<1>1. PICK o \in Order, r \in Rider :
          assignment[a].job = o /\ assignment[a].rider = r
  BY RowOf DEF HasRow, ScreenInv, SafetyInv, TypeInv, AssignmentRow
<1>2. HasStatus(o, {Waiting}) /\ job[o].rider = None
  BY <1>1 DEF ScreenInv, OfferedWaits, WaitsAt, OfferFor, InQueue, InTime
<1>3. job[o] # None /\ job[o].status = Waiting /\ ~InHands(o)
  BY <1>2, JobPlaces DEF HasStatus
<1>4. HasActiveJob(r, {o}) <=> HasActiveJob(r, {})
  BY <1>3 DEF HasActiveJob, InHands
<1>5. MayAccept(a) <=> ~HasActiveJob(r, {})
  BY <1>1, <1>2, <1>4 DEF MayAccept, HasRow, Waiting
<1>6. ~HasActiveJob(r, {}) => MayMove(o, "RIDER_ASSIGNED", r)
  <2>1. r # None BY DispatchAssumption
  <2>2. JobRider(o, "RIDER_ASSIGNED", r) = r BY <2>1 DEF JobRider
  <2>3. "RIDER_ASSIGNED" \in TRANSITIONS[job[o].status]
    BY <1>3 DEF TRANSITIONS, Waiting
  <2>4. QED BY <2>2, <2>3, MayHold DEF MayMove
<1>7. QED BY <1>1, <1>5, <1>6 DEF AcceptTaken

\* The next steps of a delivery, and the statuses the app has a button in.
LEMMA StepsFromHands ==
    ASSUME ScreenInv, NEW o \in Order, InHands(o)
    PROVE  StepTaken(o) <=> job[o].status \in NextActions
<1>1. /\ job[o] # None /\ job[o].status \in JobStatus
      /\ job[o].rider \in Rider /\ job[o].rider # None
  BY JobPlaces DEF InHands, HasStatus
<1>2. ASSUME NEW next \in JobStatus, <<job[o].status, next>> \in RiderSteps
      PROVE  MayMove(o, next, None)
  <2>1. next \in TRANSITIONS[job[o].status] /\ next # "WAITING_FOR_DISPATCH"
    BY <1>2 DEF RiderSteps, TRANSITIONS
  <2>2. JobRider(o, next, None) = job[o].rider BY <2>1 DEF JobRider
  <2>3. QED BY <1>1, <2>1, <2>2, MayHold DEF MayMove
<1>3. StepTaken(o) <=> \E next \in JobStatus : <<job[o].status, next>> \in RiderSteps
  BY <1>1, <1>2 DEF StepTaken, StepsOf
<1>4. ASSUME NEW next \in JobStatus, <<job[o].status, next>> \in RiderSteps
      PROVE  job[o].status \in NextActions
  BY <1>4 DEF RiderSteps, NextActions
<1>5. ASSUME job[o].status \in NextActions
      PROVE  \E next \in JobStatus : <<job[o].status, next>> \in RiderSteps
  <2> {"RIDER_EN_ROUTE_TO_STORE", "RIDER_AT_STORE", "OUT_FOR_DELIVERY",
       "RIDER_AT_CUSTOMER"} \subseteq JobStatus BY DEF JobStatus
  <2>1. CASE job[o].status = "RIDER_ASSIGNED" BY <2>1 DEF RiderSteps
  <2>2. CASE job[o].status = "RIDER_EN_ROUTE_TO_STORE" BY <2>2 DEF RiderSteps
  <2>3. CASE job[o].status = "PICKUP_VERIFIED" BY <2>3 DEF RiderSteps
  <2>4. CASE job[o].status = "OUT_FOR_DELIVERY" BY <2>4 DEF RiderSteps
  <2>5. QED BY <1>5, <2>1, <2>2, <2>3, <2>4 DEF NextActions
<1>6. QED BY <1>3, <1>4, <1>5

LEMMA RiderScreensAgree == ScreenInv => RiderScreensMatchServer
<1> SUFFICES ASSUME ScreenInv, NEW r \in Rider
             PROVE  /\ OfferCards(r) =
                          {a \in Assignment : /\ assignment[a] # None
                                              /\ assignment[a].rider = r
                                              /\ AcceptTaken(a)}
                    /\ \A a \in OffersPage(r) :
                          /\ RejectTaken(a)
                          /\ AcceptTaken(a) \/ HasActiveJob(r, {})
                    /\ CurrentDelivery(r) = {o \in ActiveJobs(r) : StepTaken(o)}
                    /\ "OFFLINE" \in HomeSwitch(r) <=> ~HasActiveJob(r, {})
                    /\ goOffline(r) <=> ~HasActiveJob(r, {})
  BY DEF RiderScreensMatchServer
<1>1. \A a \in Assignment : a \in PendingOffers(r) <=>
          HasRow(a) /\ assignment[a].rider = r /\ InTime(a)
  BY DEF PendingOffers, HasRow, InTime
<1>2. PendingOffers(r) \subseteq Assignment BY DEF PendingOffers
<1>3. OfferCards(r) = IF HasActiveJob(r, {}) THEN {} ELSE PendingOffers(r)
  BY NoActiveJobs DEF OfferCards, getRiderWorkspace
<1>4. OfferCards(r) = {a \in Assignment : /\ assignment[a] # None
                                          /\ assignment[a].rider = r
                                          /\ AcceptTaken(a)}
  BY <1>1, <1>2, <1>3, TakenOffers DEF HasRow
<1>5. ASSUME NEW a \in OffersPage(r)
      PROVE  RejectTaken(a) /\ (AcceptTaken(a) \/ HasActiveJob(r, {}))
  <2>1. a \in Assignment /\ HasRow(a) /\ assignment[a].rider = r /\ InTime(a)
    BY <1>1, <1>2, <1>5 DEF OffersPage
  <2>2. RejectTaken(a)
    BY <2>1 DEF RejectTaken, Rejectable, GivesBackJob, InTime
  <2>3. QED BY <2>1, <2>2, TakenOffers
<1>6. CurrentDelivery(r) = {o \in ActiveJobs(r) : StepTaken(o)}
  <2>1. \A o \in ActiveJobs(r) : o \in Order /\ InHands(o)
    BY DEF ActiveJobs, InHands
  <2>2. CurrentDelivery(r) = {o \in ActiveJobs(r) : job[o].status \in NextActions}
    BY DEF CurrentDelivery, getRiderWorkspace
  <2>3. QED BY <2>1, <2>2, StepsFromHands
<1>7. "OFFLINE" \in HomeSwitch(r) <=> ~HasActiveJob(r, {})
  BY BusyIffActive DEF HomeSwitch
<1>8. goOffline(r) <=> ~HasActiveJob(r, {})
  BY BusyIffActive, NoActiveJobs DEF goOffline, isOnline, getRiderWorkspace
<1>9. QED BY <1>4, <1>5, <1>6, <1>7, <1>8

\* A rider has one delivery at a time.
LEMMA OnlyActiveJob ==
    ASSUME ScreenInv, NEW o \in Order, InHands(o)
    PROVE  ActiveJobs(job[o].rider) = {o}
<1>1. job[o].rider \in Rider /\ job[o].rider # None
      /\ job[o] # None /\ job[o].status \notin Finished
  BY JobPlaces DEF InHands, HasStatus
<1>2. ASSUME NEW p \in ActiveJobs(job[o].rider)
      PROVE  p = o
  <2>1. p \in Order /\ InHands(p) /\ job[p].rider = job[o].rider
    BY <1>2 DEF ActiveJobs, InHands
  <2>2. job[p] # None /\ job[p].status \notin Finished
    BY <2>1, JobPlaces DEF InHands, HasStatus
  <2>3. QED
    BY <1>1, <2>1, <2>2 DEF ScreenInv, SafetyInv, OneActiveJobPerRider
<1>3. o \in ActiveJobs(job[o].rider) BY DEF ActiveJobs, InHands
<1>4. QED BY <1>2, <1>3

LEMMA TrackingFollows == ScreenInv => RidersAreTracked
<1> SUFFICES ASSUME ScreenInv, NEW o \in Order, InHands(o)
             PROVE  job[o].rider # None /\ Tracked(job[o].rider) = {o}
  BY DEF RidersAreTracked, InHands
<1>1. job[o].rider \in Rider /\ job[o].rider # None
      /\ riderStatus[job[o].rider] = "BUSY"
  BY JobPlaces DEF InHands, HasStatus
<1>2. job[o].status \in TRACKABLE_STATUSES
  BY DEF InHands, HasStatus, ACTIVE_JOB_STATUSES, JobStatus, Finished,
     TRACKABLE_STATUSES
<1>3. Tracked(job[o].rider) = {o}
  BY <1>1, <1>2, OnlyActiveJob DEF Tracked, getRiderWorkspace, isOnline
<1>4. QED BY <1>1, <1>3

\* The orders the pages draw a map for, and the ones they call delivered.
LEMMA LiveStatus ==
    ASSUME NEW status \in JobStatus
    PROVE  /\ legacyOrderStatus(status) \in {"RIDER_ASSIGNED", "OUT_FOR_DELIVERY"}
                 <=> status \in ACTIVE_JOB_STATUSES \cup {"RETURNED_TO_STORE"}
           /\ legacyOrderStatus(status) = "DELIVERED" <=> status = "DELIVERED"
           /\ legacyOrderStatus(status) \in OrderStatus
BY DEF legacyOrderStatus, JobStatus, OrderStatus, ACTIVE_JOB_STATUSES, Finished

LEMMA TrackingState ==
    ASSUME NEW o \in Order, NEW position \in Positions,
           order[o].rider = None =>
              order[o].status \notin {"RIDER_ASSIGNED", "OUT_FOR_DELIVERY"},
           order[o].rider # None =>
              order[o].status \notin {"CONFIRMED", "PACKED"},
           order[o].status \in OrderStatus
    PROVE  LET live == order[o].status \in {"RIDER_ASSIGNED", "OUT_FOR_DELIVERY"}
               state == computeTrackingState(o, position)
           IN /\ live => state \in {"LIVE", "STALE", "ASSIGNED_NO_LOCATION"}
              /\ ~live => \/ state = "NOT_ASSIGNED"
                          \/ state = order[o].status
                             /\ state \in {"DELIVERED", "CANCELLED"}
<1>1. CASE order[o].status \in {"DELIVERED", "CANCELLED"}
  BY <1>1 DEF computeTrackingState
<1>2. CASE /\ order[o].status \notin {"DELIVERED", "CANCELLED"}
           /\ order[o].rider = None
  BY <1>2 DEF computeTrackingState
<1>3. CASE /\ order[o].status \in {"RIDER_ASSIGNED", "OUT_FOR_DELIVERY"}
           /\ order[o].rider # None
  BY <1>3 DEF computeTrackingState
<1>4. QED BY <1>1, <1>2, <1>3 DEF OrderStatus

LEMMA Banner ==
    ASSUME NEW state
    PROVE  TrackingStateBanner(state) = "delivered"
               <=> state \in {"DELIVERED", "STOPPED"}
BY DEF TrackingStateBanner

LEMMA CustomersAgree == ScreenInv => CustomersSeeTheRider
<1> SUFFICES ASSUME ScreenInv, NEW o \in Order, NEW position \in Positions
             PROVE  LET tracking == getTracking(o, position)
                        state == tracking.trackingState
                    IN /\ showTrackingMap(state) <=>
                             HasStatus(o, ACTIVE_JOB_STATUSES
                                             \cup {"RETURNED_TO_STORE"})
                       /\ showTrackingMap(state) <=>
                             tracking.isLive /\ tracking.rider # None
                       /\ LiveTrackingCard(state) <=> showTrackingMap(state)
                       /\ TrackingStateBanner(state) = "delivered" =>
                             HasStatus(o, {"DELIVERED"})
  BY DEF CustomersSeeTheRider
<1> DEFINE live == order[o].status \in {"RIDER_ASSIGNED", "OUT_FOR_DELIVERY"}
           state == computeTrackingState(o, position)
<1>1. /\ live <=> HasStatus(o, ACTIVE_JOB_STATUSES \cup {"RETURNED_TO_STORE"})
      /\ live => order[o].rider # None
      /\ order[o].rider # None => order[o].status \notin {"CONFIRMED", "PACKED"}
      /\ order[o].status \in OrderStatus
      /\ order[o].status = "DELIVERED" => HasStatus(o, {"DELIVERED"})
  <2>1. CASE job[o] = None
    BY <2>1 DEF ScreenInv, AloneInv, OrderInv, NoJobNoRider, HasStatus, OrderStatus
  <2>2. CASE job[o] # None
    <3>1. job[o].status \in JobStatus
          /\ (job[o].status = Waiting <=> job[o].rider = None)
      BY <2>2, JobPlaces DEF HasStatus
    <3>2. order[o].status = legacyOrderStatus(job[o].status)
          /\ order[o].rider = job[o].rider
      BY <2>2 DEF ScreenInv, AloneInv, OrderInv, OrderFollowsJob
    <3>3. live <=> job[o].status \in ACTIVE_JOB_STATUSES \cup {"RETURNED_TO_STORE"}
      BY <3>1, <3>2, LiveStatus
    <3>4. live => job[o].status # Waiting
      BY <3>3 DEF ACTIVE_JOB_STATUSES, Waiting
    <3>5. order[o].rider # None => order[o].status \notin {"CONFIRMED", "PACKED"}
      BY <3>1, <3>2, LegacyStatus
    <3>6. /\ order[o].status \in OrderStatus
          /\ order[o].status = "DELIVERED" => job[o].status = "DELIVERED"
      BY <3>1, <3>2, LiveStatus
    <3>7. QED BY <2>2, <3>1, <3>2, <3>3, <3>4, <3>5, <3>6 DEF HasStatus
  <2>3. QED BY <2>1, <2>2
<1>2. /\ live => state \in {"LIVE", "STALE", "ASSIGNED_NO_LOCATION"}
      /\ ~live => \/ state = "NOT_ASSIGNED"
                  \/ state = order[o].status /\ state \in {"DELIVERED", "CANCELLED"}
  BY <1>1, TrackingState
<1>3. /\ getTracking(o, position).trackingState = state
      /\ getTracking(o, position).isLive <=> live
      /\ getTracking(o, position).rider = order[o].rider
  BY Zenon DEF getTracking
<1> HIDE DEF state, live
<1>4. /\ showTrackingMap(state) <=> live
      /\ LiveTrackingCard(state) <=> live
      /\ TrackingStateBanner(state) = "delivered" => order[o].status = "DELIVERED"
  BY <1>2, Banner DEF showTrackingMap, LiveTrackingCard
<1>5. QED BY <1>1, <1>3, <1>4

-----------------------------------------------------------------------------
(* What the portals count *)

LEMMA DisjointParts ==
    ASSUME NEW S, IsFiniteSet(S), NEW A \in SUBSET S, NEW B \in SUBSET S,
           NEW C \in SUBSET S,
           A \cap B = {}, A \cap C = {}, B \cap C = {}
    PROVE  Cardinality(A) + Cardinality(B) + Cardinality(C) <= Cardinality(S)
<1>1. IsFiniteSet(A) /\ IsFiniteSet(B) /\ IsFiniteSet(C) BY FS_Subset
<1>2. /\ IsFiniteSet(A \cup B)
      /\ Cardinality(A \cup B)
            = Cardinality(A) + Cardinality(B) - Cardinality(A \cap B)
  BY <1>1, FS_Union
<1>3. /\ (A \cup B) \cup C \in SUBSET S /\ (A \cup B) \cap C = {}
      /\ Cardinality((A \cup B) \cup C)
            = Cardinality(A \cup B) + Cardinality(C)
                 - Cardinality((A \cup B) \cap C)
  BY <1>1, <1>2, FS_Union
<1>4. Cardinality((A \cup B) \cup C) <= Cardinality(S) BY <1>3, FS_Subset
<1>5. Cardinality(A \cap B) = 0 /\ Cardinality((A \cup B) \cap C) = 0
  BY <1>3, FS_EmptySet
<1>6. /\ Cardinality(A) \in Nat /\ Cardinality(B) \in Nat /\ Cardinality(C) \in Nat
      /\ Cardinality(S) \in Nat /\ Cardinality(A \cup B) \in Nat
  BY <1>1, <1>2, FS_CardinalityType
<1>7. QED BY <1>2, <1>3, <1>4, <1>5, <1>6

\* Riders in a delivery and deliveries are one to one, and every other rider is
\* available.
LEMMA BoardCounts ==
    ASSUME ScreenInv, IsFiniteSet(Order), IsFiniteSet(Rider)
    PROVE  BoardAddsUp
<1> DEFINE active == {o \in Order : InHands(o)}
           busy == {r \in Rider : riderStatus[r] = "BUSY"}
           waiting == {o \in Order : HasStatus(o, {Waiting})}
           offered == {o \in waiting : openOffer(o)}
           holder == [o \in active |-> job[o].rider]
<1>1. getBoard.riders = Rider /\ getBoard.activeJobs = active
      /\ getBoard.waitingJobs = waiting
  BY DEF getBoard, ScreenInv, RiderInv, NobodyOffline, InHands, Waiting
<1>2. \A r \in Rider : available(r) <=> r \notin busy
  <2> SUFFICES ASSUME NEW r \in Rider PROVE available(r) <=> riderStatus[r] # "BUSY"
    OBVIOUS
  <2>1. QED BY BusyIffActive, NoActiveJobs DEF available
<1>3. availableRiders = Rider \ busy
  BY <1>1, <1>2 DEF availableRiders
<1>4. holder \in Bijection(active, busy)
  <2>1. ASSUME NEW o \in active PROVE job[o].rider \in busy
    <3>1. o \in Order /\ InHands(o) /\ job[o] # None
      BY <2>1 DEF InHands, HasStatus
    <3>2. job[o].rider \in Rider /\ riderStatus[job[o].rider] = "BUSY"
      BY <3>1, JobPlaces DEF HasStatus, InHands, ACTIVE_JOB_STATUSES, Waiting
    <3>3. QED BY <3>2
  <2>2. ASSUME NEW o \in active, NEW p \in active, job[o].rider = job[p].rider
        PROVE  o = p
    <3>1. /\ o \in Order /\ InHands(o) /\ p \in Order /\ InHands(p)
      BY <2>2
    <3>2. ActiveJobs(job[o].rider) = {o} /\ ActiveJobs(job[p].rider) = {p}
      BY <3>1, OnlyActiveJob
    <3>3. QED BY <2>2, <3>2
  <2>3. ASSUME NEW r \in busy PROVE \E o \in active : job[o].rider = r
    BY <2>3, BusyIffActive DEF HasActiveJob, InHands
  <2> HIDE DEF active, busy
  <2>4. holder \in [active -> busy] BY <2>1
  <2>5. holder \in Injection(active, busy) BY <2>2, <2>4 DEF Injection, IsInjective
  <2>6. holder \in Surjection(active, busy) BY <2>3, <2>4 DEF Surjection
  <2>7. QED BY <2>5, <2>6 DEF Bijection
<1>5. IsFiniteSet(active) /\ IsFiniteSet(busy) /\ IsFiniteSet(Rider \ busy)
      /\ IsFiniteSet(waiting) /\ IsFiniteSet(offered)
      /\ Cardinality(offered) <= Cardinality(waiting)
  <2>1. IsFiniteSet(active) /\ IsFiniteSet(busy) /\ IsFiniteSet(Rider \ busy)
        /\ IsFiniteSet(waiting)
    <3> active \in SUBSET Order /\ busy \in SUBSET Rider
        /\ Rider \ busy \in SUBSET Rider /\ waiting \in SUBSET Order
      OBVIOUS
    <3> HIDE DEF active, busy, waiting
    <3>1. QED BY FS_Subset
  <2>2. offered \in SUBSET waiting OBVIOUS
  <2> HIDE DEF offered, waiting
  <2>3. QED BY <2>1, <2>2, FS_Subset
<1>6. Cardinality(active) = Cardinality(busy)
  <2> HIDE DEF active, busy, holder
  <2>1. ExistsBijection(active, busy) BY <1>4 DEF ExistsBijection
  <2>2. QED BY <1>5, <2>1, FS_Bijection
<1>7. Cardinality(Rider \ busy) + Cardinality(busy) = Cardinality(Rider)
  <2>1. (Rider \ busy) \cup busy = Rider /\ (Rider \ busy) \cap busy = {}
    OBVIOUS
  <2> HIDE DEF busy
  <2>2. Cardinality((Rider \ busy) \cup busy)
           = Cardinality(Rider \ busy) + Cardinality(busy)
                - Cardinality((Rider \ busy) \cap busy)
    BY <1>5, FS_Union
  <2>3. Cardinality((Rider \ busy) \cap busy) = 0 BY <2>1, FS_EmptySet
  <2>4. Cardinality(Rider \ busy) \in Nat /\ Cardinality(busy) \in Nat
    BY <1>5, FS_CardinalityType
  <2>5. Cardinality((Rider \ busy) \cup busy) = Cardinality(Rider) BY <2>1
  <2>6. QED BY <2>2, <2>3, <2>4, <2>5
<1>8. /\ BoardCounters.available = Cardinality(Rider \ busy)
      /\ BoardCounters.active = Cardinality(active)
      /\ BoardCounters.offered = Cardinality(offered)
      /\ BoardCounters.waiting = Cardinality(waiting)
  <2> HIDE DEF active, busy
  <2>1. QED BY <1>1, <1>3 DEF BoardCounters
<1> HIDE DEF active, busy, waiting, offered, holder
<1>9. QED BY <1>1, <1>5, <1>6, <1>7, <1>8 DEF BoardAddsUp

\* Each delivery in a rider's portal is there by an offer he accepted.
LEMMA WorkWasAccepted ==
    ASSUME ScreenInv, IsFiniteSet(Assignment), NEW r \in Rider,
           NEW work \in SUBSET Order,
           \A o \in work : job[o] # None /\ job[o].rider = r
    PROVE  Cardinality(work) <= Cardinality(
              {a \in Assignment : /\ HasRow(a) /\ assignment[a].rider = r
                                  /\ assignment[a].status = "ACCEPTED"})
<1> DEFINE accepted == {a \in Assignment :
                           /\ HasRow(a) /\ assignment[a].rider = r
                           /\ assignment[a].status = "ACCEPTED"}
           by(o) == CHOOSE a \in accepted : assignment[a].job = o
           offer == [o \in work |-> by(o)]
<1>1. ASSUME NEW o \in work
      PROVE  by(o) \in accepted /\ assignment[by(o)].job = o
  <2>1. r # None BY DispatchAssumption
  <2>2. o \in Order /\ job[o] # None /\ job[o].rider = r BY <1>1
  <2>3. HasStatus(o, LeftQueue) BY <2>1, <2>2, JobPlaces
  <2>4. PICK a \in Assignment : AcceptedFor(a, o) /\ assignment[a].rider = r
    BY <2>2, <2>3, HolderIsRider DEF ScreenInv, AloneInv
  <2>5. a \in accepted /\ assignment[a].job = o
    BY <2>4 DEF AcceptedFor
  <2> HIDE DEF accepted
  <2>6. QED BY <2>5
<1>2. IsFiniteSet(accepted)
  <2>1. accepted \in SUBSET Assignment OBVIOUS
  <2> HIDE DEF accepted
  <2>2. QED BY <2>1, FS_Subset
<1> HIDE DEF accepted, by
<1>3. offer \in [work -> accepted] BY <1>1
<1>4. \A o, p \in work : offer[o] = offer[p] => o = p
  <2> SUFFICES ASSUME NEW o \in work, NEW p \in work, by(o) = by(p)
               PROVE  o = p
    OBVIOUS
  <2>1. QED BY <1>1
<1> HIDE DEF offer
<1>5. offer \in Injection(work, accepted)
  BY <1>3, <1>4 DEF Injection, IsInjective
<1>6. Cardinality(work) <= Cardinality(accepted)
  BY <1>2, <1>5, FS_Injection
<1>7. QED BY <1>6 DEF accepted

LEMMA RidersWork ==
    ASSUME ScreenInv, IsFiniteSet(Order), IsFiniteSet(Assignment)
    PROVE  RidersSeeTheirWork
<1> SUFFICES ASSUME NEW r \in Rider
    PROVE
        LET past == UNION {history(r, status) : status \in Outcomes \ {"ALL"}}
            work == ActiveJobs(r) \cup past
            counts == performance(r)
        IN /\ work = {o \in Order : job[o] # None /\ job[o].rider = r}
           /\ past = history(r, "ALL")
           /\ ActiveJobs(r) \cap past = history(r, "DELIVERY_FAILED")
           /\ \A o \in work : \E a \in Offers(o, {"ACCEPTED"}) :
                 assignment[a].rider = r
           /\ Cardinality(work) + counts.rejected + HomeCards(r).pendingOffers
                 <= counts.offersReceived
           /\ counts.completed + counts.failed + counts.returned
                 <= Cardinality(work)
           /\ HomeCards(r).activeJob => HomeSwitch(r) = {}
  BY DEF RidersSeeTheirWork
<1> DEFINE past == UNION {history(r, status) : status \in Outcomes \ {"ALL"}}
           work == ActiveJobs(r) \cup past
           ended(status) == {o \in Order : /\ job[o] # None /\ job[o].rider = r
                                           /\ job[o].status = status}
           mine == {o \in Order : job[o] # None /\ job[o].rider = r}
           made == {a \in Assignment : assignment[a] # None
                                        /\ assignment[a].rider = r}
           accepted == {a \in Assignment :
                           /\ HasRow(a) /\ assignment[a].rider = r
                           /\ assignment[a].status = "ACCEPTED"}
           rejected == {a \in made : assignment[a].status = "REJECTED"}
<1>1. \A status \in Outcomes \ {"ALL"} : history(r, status) = ended(status)
  BY DEF history, Outcomes
<1>2. history(r, "ALL") = {o \in mine : job[o].status \in TERMINAL_STATUSES}
  BY DEF history
<1>3. past = {o \in mine : job[o].status \in TERMINAL_STATUSES}
  <2>1. Outcomes \ {"ALL"} = TERMINAL_STATUSES
    BY DEF Outcomes, TERMINAL_STATUSES
  <2>2. \A o : o \in past <=> \E status \in TERMINAL_STATUSES : o \in ended(status)
    BY <1>1, <2>1
  <2> HIDE DEF past
  <2>3. QED BY <2>2
<1>4. ActiveJobs(r) = {o \in mine : job[o].status \in ACTIVE_JOB_STATUSES}
  BY DEF ActiveJobs, HasStatus
<1>5. \A o \in mine : job[o].status \in LeftQueue
  <2>1. r # None BY DispatchAssumption
  <2>2. QED BY <2>1, JobPlaces DEF HasStatus
<1>6. /\ LeftQueue = ACTIVE_JOB_STATUSES \cup TERMINAL_STATUSES
      /\ ACTIVE_JOB_STATUSES \cap TERMINAL_STATUSES = {"DELIVERY_FAILED"}
  BY DEF LeftQueue, ACTIVE_JOB_STATUSES, JobStatus, Waiting, Finished,
     TERMINAL_STATUSES
<1>7. ended("DELIVERY_FAILED") = history(r, "DELIVERY_FAILED")
      /\ ended("DELIVERED") = history(r, "DELIVERED")
      /\ ended("RETURNED_TO_STORE") = history(r, "RETURNED_TO_STORE")
  BY <1>1 DEF Outcomes
<1>8. ActiveJobs(r) \cap past = history(r, "DELIVERY_FAILED")
  <2>1. \A o : o \in ActiveJobs(r) \cap past
                  <=> o \in mine /\ job[o].status = "DELIVERY_FAILED"
    <3> HIDE DEF past, mine
    <3>1. QED BY <1>3, <1>4, <1>6
  <2>2. \A o : o \in ended("DELIVERY_FAILED")
                  <=> o \in mine /\ job[o].status = "DELIVERY_FAILED"
    OBVIOUS
  <2> HIDE DEF past, mine, ended
  <2>3. QED BY <1>7, <2>1, <2>2
<1>9. work = mine
  <2> HIDE DEF past, mine
  <2>1. QED BY <1>3, <1>4, <1>5, <1>6
<1>10. ASSUME NEW o \in mine
       PROVE  \E a \in Offers(o, {"ACCEPTED"}) : assignment[a].rider = r
  <2>1. o \in Order /\ HasStatus(o, LeftQueue) /\ job[o].rider = r
    BY <1>5, <1>10 DEF HasStatus
  <2>2. PICK a \in Assignment : AcceptedFor(a, o) /\ assignment[a].rider = r
    BY <2>1, HolderIsRider DEF ScreenInv, AloneInv
  <2>3. a \in Offers(o, {"ACCEPTED"})
    BY <2>2 DEF Offers, AcceptedFor, HasRow
  <2>4. QED BY <2>2, <2>3
<1>11. IsFiniteSet(mine) /\ IsFiniteSet(made)
  <2>1. mine \in SUBSET Order /\ made \in SUBSET Assignment OBVIOUS
  <2> HIDE DEF mine, made
  <2>2. QED BY <2>1, FS_Subset
<1>12. Cardinality(mine) + Cardinality(rejected) + Cardinality(PendingOffers(r))
          <= Cardinality(made)
  <2>1. /\ accepted \in SUBSET made /\ rejected \in SUBSET made
        /\ PendingOffers(r) \in SUBSET made
        /\ accepted \cap rejected = {} /\ accepted \cap PendingOffers(r) = {}
        /\ rejected \cap PendingOffers(r) = {}
    BY DEF PendingOffers, HasRow
  <2>2. Cardinality(mine) <= Cardinality(accepted)
    <3>1. mine \in SUBSET Order /\ \A o \in mine : job[o] # None /\ job[o].rider = r
      OBVIOUS
    <3> HIDE DEF mine
    <3>2. QED BY <3>1, WorkWasAccepted
  <2> HIDE DEF accepted, rejected, made, mine
  <2>3. Cardinality(accepted) + Cardinality(rejected) + Cardinality(PendingOffers(r))
           <= Cardinality(made)
    BY <1>11, <2>1, DisjointParts
  <2>4. /\ Cardinality(mine) \in Nat /\ Cardinality(accepted) \in Nat
        /\ Cardinality(rejected) \in Nat /\ Cardinality(PendingOffers(r)) \in Nat
        /\ Cardinality(made) \in Nat
    BY <1>11, <2>1, FS_Subset, FS_CardinalityType
  <2>5. QED BY <2>2, <2>3, <2>4
<1>13. Cardinality(history(r, "DELIVERED")) + Cardinality(history(r, "DELIVERY_FAILED"))
          + Cardinality(history(r, "RETURNED_TO_STORE")) <= Cardinality(mine)
  <2>1. /\ ended("DELIVERED") \in SUBSET mine
        /\ ended("DELIVERY_FAILED") \in SUBSET mine
        /\ ended("RETURNED_TO_STORE") \in SUBSET mine
        /\ ended("DELIVERED") \cap ended("DELIVERY_FAILED") = {}
        /\ ended("DELIVERED") \cap ended("RETURNED_TO_STORE") = {}
        /\ ended("DELIVERY_FAILED") \cap ended("RETURNED_TO_STORE") = {}
    OBVIOUS
  <2> HIDE DEF ended, mine
  <2>2. QED BY <1>7, <1>11, <2>1, DisjointParts
<1>14. /\ performance(r).offersReceived = Cardinality(made)
       /\ performance(r).rejected = Cardinality(rejected)
       /\ performance(r).completed = Cardinality(history(r, "DELIVERED"))
       /\ performance(r).failed = Cardinality(history(r, "DELIVERY_FAILED"))
       /\ performance(r).returned = Cardinality(history(r, "RETURNED_TO_STORE"))
       /\ HomeCards(r).pendingOffers = Cardinality(PendingOffers(r))
       /\ HomeCards(r).activeJob <=> ActiveJobs(r) # {}
  BY DEF performance, HomeCards
<1>15. ActiveJobs(r) # {} => HomeSwitch(r) = {}
  BY BusyIffActive, NoActiveJobs DEF HomeSwitch
<1>16. past = history(r, "ALL") BY <1>2, <1>3
<1> HIDE DEF past, work, mine, made, accepted, rejected, ended
<1>17. Cardinality(work) + performance(r).rejected + HomeCards(r).pendingOffers
          <= performance(r).offersReceived
  BY <1>9, <1>12, <1>14
<1>18. performance(r).completed + performance(r).failed + performance(r).returned
          <= Cardinality(work)
  BY <1>9, <1>13, <1>14
<1>19. work = {o \in Order : job[o] # None /\ job[o].rider = r}
  BY <1>9 DEF mine
<1>20. \A o \in work : \E a \in Offers(o, {"ACCEPTED"}) : assignment[a].rider = r
  BY <1>9, <1>10
<1>21. HomeCards(r).activeJob => HomeSwitch(r) = {}
  BY <1>14, <1>15
<1>22. QED
  BY <1>8, <1>16, <1>17, <1>18, <1>19, <1>20, <1>21 DEF work, past

\* The screens of dispatchers, riders and customers agree with the server, as
\* long as nobody edits orders or riders behind dispatch: a screen just loaded
\* offers what the handlers take and shows whose delivery it is, and what the
\* portals count adds up, for any finite number of orders, riders and offers
\* (dispatch.service.ts, the pages of the portals, RiderDashboard.tsx).
THEOREM ScreensMatch ==
    ASSUME Endpoints = {}, IsFiniteSet(Order), IsFiniteSet(Rider),
           IsFiniteSet(Assignment)
    PROVE  Spec => []ScreensMatchServer
<1>1. Init => ScreenInv
  BY InitTypeInv, InitOfferInv, InitAloneInv, InitOfferedWaits, InitRiderInv
     DEF ScreenInv, SafetyInv
<1>2. ScreenInv /\ [Next]_vars => ScreenInv'
  BY NextSafetyInv, NextAloneInv, NextBookInv, NextRiderInv DEF ScreenInv, BookInv
<1>3. ScreenInv => ScreensMatchServer
  BY BoardAgrees, RiderScreensAgree, TrackingFollows, CustomersAgree,
     BoardCounts, RidersWork DEF ScreensMatchServer
<1>4. QED BY <1>1, <1>2, <1>3, PTL DEF Spec
=============================================================================
