---------------------------- MODULE OutboxProofs ----------------------------
(***************************************************************************)
(* Type correctness of Outbox, the bounds on claims, pushes and owners,    *)
(* the refinement of NotificationContract, and what the notification pages *)
(* show, for every number of events, users, devices and workers, of        *)
(* crashes and of late leases.                                             *)
(*                                                                         *)
(* A worker writes by key into rows it read several statements ago, so     *)
(* types alone are not inductive: what it holds must still be there.  Rows *)
(* are never deleted (RowsPersist), so it is enough that a worker takes up *)
(* only what exists.                                                       *)
(***************************************************************************)
EXTENDS NotificationScreens, FiniteSetTheorems, TLAPS

\* What a worker with the locals h relies on in the rows ev of events, no of
\* notifications, re of recipients and su of subscriptions.
HandFits(h, ev, no, re, su) ==
    /\ \A c \in h.todo : ev[c.key] # None /\ c.attempts < MaxAttempts
    /\ \A e \in h.batch : ev[e] # None
    /\ h.step \in {"recipients", "deliver", "push"} =>
          h.key \in Event /\ ev[h.key] # None /\ no[h.key] # None
    /\ h.step \notin {"deliver", "push"} => h.left = {}
    /\ \A u \in h.left : re[<<h.key, u>>] # None
    /\ h.step = "push" => h.user \in User /\ re[<<h.key, h.user>>] # None
    /\ \A t \in h.tokens : su[t] # None
    /\ h.sent # None => su[h.sent.token] # None

HandsFit ==
    \A w \in Worker :
       HandFits(worker[w], event, notification, recipient, subscription)

\* A notification is written with the rows of its recipients.
AudienceHasRows ==
    \A e \in Event : notification[e] # None =>
        \A u \in notification[e] : recipient[<<e, u>>] # None

OpeningFits ==
    \A u \in User : opening[u] # None => recipient[<<opening[u].key, u>>] # None

OutboxInv ==
    TypeOK /\ HandsFit /\ AudienceHasRows /\ OpeningFits /\ AttemptsBounded

-----------------------------------------------------------------------------

\* No step deletes a row.
RowsPersist ==
    /\ \A e \in Event : event[e] # None => event'[e] # None
    /\ \A e \in Event : notification[e] # None =>
                           notification'[e] = notification[e]
    /\ \A k \in Message, u \in User :
          recipient[<<k, u>>] # None => recipient'[<<k, u>>] # None
    /\ \A t \in Token : subscription[t] # None => subscription'[t] # None

LEMMA InitOutboxInv == Init => OutboxInv
<1> SUFFICES ASSUME Init PROVE OutboxInv
  OBVIOUS
<1> USE OutboxAssumption DEF Init
<1>1. Idle \in Hand
  BY DEF Idle, Hand, Step
<1>2. TypeOK
  BY <1>1 DEF TypeOK
<1>3. HandsFit
  BY DEF HandsFit, HandFits, Idle
<1>4. AudienceHasRows /\ OpeningFits /\ AttemptsBounded
  BY DEF AudienceHasRows, OpeningFits, AttemptsBounded
<1> QED
  BY <1>2, <1>3, <1>4 DEF OutboxInv

\* What a worker relies on stays there while others work.
LEMMA HandFitsPersists ==
  ASSUME RowsPersist, NEW h \in Hand,
         HandFits(h, event, notification, recipient, subscription)
  PROVE  HandFits(h, event', notification', recipient', subscription')
<1>1. \A c \in h.todo : event'[c.key] # None /\ c.attempts < MaxAttempts
  BY DEF HandFits, RowsPersist, Hand, Candidate
<1>2. \A e \in h.batch : event'[e] # None
  BY DEF HandFits, RowsPersist, Hand
<1>3. h.step \in {"recipients", "deliver", "push"} =>
         h.key \in Event /\ event'[h.key] # None /\ notification'[h.key] # None
  BY DEF HandFits, RowsPersist
<1>4. ASSUME NEW u \in h.left PROVE recipient'[<<h.key, u>>] # None
  <2>1. h.step \in {"deliver", "push"} /\ u \in User
    BY <1>4 DEF HandFits, Hand
  <2>2. h.key \in Message
    BY <2>1 DEF HandFits, Message
  <2> QED
    BY <1>4, <2>1, <2>2 DEF HandFits, RowsPersist
<1>5. h.step = "push" => h.user \in User /\ recipient'[<<h.key, h.user>>] # None
  BY DEF HandFits, RowsPersist, Message
<1>6. \A t \in h.tokens : subscription'[t] # None
  BY DEF HandFits, RowsPersist, Hand
<1>7. h.sent # None => subscription'[h.sent.token] # None
  BY DEF HandFits, RowsPersist, Hand, Push
<1> QED
  BY <1>1, <1>2, <1>3, <1>4, <1>5, <1>6, <1>7 DEF HandFits

\* A step of one worker: only its own hand is to be looked at.
LEMMA OneHandMoves ==
  ASSUME TypeOK, HandsFit, RowsPersist, NEW w \in Worker, NEW h \in Hand,
         worker' = [worker EXCEPT ![w] = h],
         HandFits(h, event', notification', recipient', subscription')
  PROVE  worker' \in [Worker -> Hand] /\ HandsFit'
<1>1. worker \in [Worker -> Hand]
  BY DEF TypeOK
<1>2. ASSUME NEW v \in Worker
      PROVE HandFits(worker'[v], event', notification', recipient', subscription')
  <2>1. CASE v = w
    BY <1>1, <2>1
  <2>2. CASE v # w
    <3>1. worker'[v] = worker[v] /\ worker[v] \in Hand
      BY <1>1, <2>2
    <3>2. HandFits(worker[v], event, notification, recipient, subscription)
      BY DEF HandsFit
    <3>3. HandFits(worker[v], event', notification', recipient', subscription')
      BY <3>1, <3>2, HandFitsPersists
    <3> QED
      BY <3>1, <3>3
  <2> QED
    BY <2>1, <2>2
<1> QED
  BY <1>1, <1>2 DEF HandsFit

\* A step that leaves the workers alone.
LEMMA NoHandMoves ==
  ASSUME TypeOK, HandsFit, RowsPersist, worker' = worker
  PROVE  HandsFit'
<1>1. ASSUME NEW v \in Worker
      PROVE HandFits(worker[v], event', notification', recipient', subscription')
  <2>1. worker[v] \in Hand
    BY DEF TypeOK
  <2>2. HandFits(worker[v], event, notification, recipient, subscription)
    BY DEF HandsFit
  <2> QED
    BY <2>1, <2>2, HandFitsPersists
<1> QED
  BY <1>1 DEF HandsFit

\* A step that writes no notification and opens nothing.
LEMMA RecipientsKept ==
  ASSUME TypeOK, AudienceHasRows, OpeningFits, RowsPersist,
         notification' = notification, opening' = opening
  PROVE  AudienceHasRows' /\ OpeningFits'
<1>1. AudienceHasRows'
  BY DEF TypeOK, AudienceHasRows, RowsPersist, Message
<1>2. OpeningFits'
  BY DEF TypeOK, OpeningFits, RowsPersist
<1> QED
  BY <1>1, <1>2

-----------------------------------------------------------------------------
(* The steps of a worker *)

LEMMA NoneIsNoRow ==
  /\ None \notin EventRow /\ None \notin RecipientRow /\ None \notin Preference
  /\ None \notin Event /\ None \notin User /\ None \notin Push
  /\ MaxAttempts \in Nat
BY OutboxAssumption

\* What a step of w has to show, once its new hand h is known.
LEMMA WorkerStepKeeps ==
  ASSUME OutboxInv, RowsPersist, NEW w \in Worker, NEW h \in Hand,
         worker' = [worker EXCEPT ![w] = h],
         HandFits(h, event', notification', recipient', subscription'),
         UNCHANGED <<notification, opening, preference, crashes, late>>,
         event' \in [Event -> EventRow \cup {None}],
         recipient' \in [Message \X User -> RecipientRow \cup {None}],
         attempt' \in [Event \X User \X Token -> Nat],
         pushed' \in [Event \X User \X Token -> Nat],
         subscription' \in
            [Token -> [user : User, active : BOOLEAN] \cup {None}],
         AttemptsBounded'
  PROVE  OutboxInv'
<1>1. worker' \in [Worker -> Hand] /\ HandsFit'
  BY OneHandMoves DEF OutboxInv
<1>2. TypeOK'
  BY <1>1 DEF OutboxInv, TypeOK
<1>3. AudienceHasRows' /\ OpeningFits'
  BY RecipientsKept DEF OutboxInv
<1> QED
  BY <1>1, <1>2, <1>3 DEF OutboxInv

LEMMA RecoverStaleKeeps ==
  ASSUME OutboxInv, NEW w \in Worker, RecoverStale(w)
  PROVE  OutboxInv'
<1> DEFINE h == [worker[w] EXCEPT !.step = "find"]
<1>0. worker[w] \in Hand
  BY DEF OutboxInv, TypeOK
<1>1. worker[w] \in Hand /\ h \in Hand
  BY <1>0 DEF Hand, Step
<1>2. worker' = [worker EXCEPT ![w] = h]
  BY DEF RecoverStale, OutboxInv, TypeOK
<1>a. ASSUME NEW e \in Event, event[e] # None
      PROVE /\ event[e] \in EventRow
            /\ [event[e] EXCEPT !.status = "FAILED", !.due = TRUE,
                               !.lease = "none"] \in EventRow
            /\ event'[e] \in EventRow /\ event'[e].attempts = event[e].attempts
  <2>1. event[e] \in EventRow
    BY <1>a DEF OutboxInv, TypeOK
  <2>2. [event[e] EXCEPT !.status = "FAILED", !.due = TRUE, !.lease = "none"]
           \in EventRow
    BY <2>1 DEF EventRow, EventStatus, Lease
  <2>3. event'[e] = IF Stale(event[e])
                    THEN [event[e] EXCEPT !.status = "FAILED", !.due = TRUE,
                                          !.lease = "none"]
                    ELSE event[e]
    BY <1>a DEF RecoverStale
  <2> QED
    BY <2>1, <2>2, <2>3 DEF EventRow
<1>b. ASSUME NEW e \in Event, event[e] = None PROVE event'[e] = None
  BY <1>b DEF RecoverStale
<1>3. event' \in [Event -> EventRow \cup {None}]
  <2>1. event' = [e \in Event |-> event'[e]]
    BY DEF RecoverStale
  <2> QED
    BY <1>a, <1>b, <2>1
<1>4. RowsPersist
  BY <1>a, NoneIsNoRow DEF RecoverStale, RowsPersist
<1>5. AttemptsBounded'
  BY <1>a, <1>b DEF OutboxInv, AttemptsBounded
<1>6. HandFits(h, event', notification', recipient', subscription')
  <2>1. HandFits(worker[w], event', notification', recipient', subscription')
    BY <1>1, <1>4, HandFitsPersists DEF OutboxInv, HandsFit
  <2>2. worker[w].step = "idle"
    BY DEF RecoverStale
  <2> QED
    BY <1>1, <2>1, <2>2 DEF HandFits, Hand
<1> HIDE DEF h
<1> QED
  BY <1>1, <1>2, <1>3, <1>4, <1>5, <1>6, WorkerStepKeeps
     DEF RecoverStale, OutboxInv, TypeOK

LEMMA FindCandidatesKeeps ==
  ASSUME OutboxInv, NEW w \in Worker, FindCandidates(w)
  PROVE  OutboxInv'
<1> DEFINE found == {e \in Event : IsCandidate(e)}
           todo == {[key |-> e, attempts |-> event[e].attempts] : e \in found}
           h == [worker[w] EXCEPT !.step = IF found = {} THEN "idle" ELSE "claim",
                                  !.todo = todo]
<1>1. todo \in SUBSET Candidate
  BY DEF OutboxInv, TypeOK, Candidate, IsCandidate, EventRow
<1>0. worker[w] \in Hand
  BY DEF OutboxInv, TypeOK
<1>2. worker[w] \in Hand /\ h \in Hand
  BY <1>0, <1>1 DEF Hand, Step
<1>3. worker' = [worker EXCEPT ![w] = h]
  BY DEF FindCandidates, OutboxInv, TypeOK
<1>4. RowsPersist
  BY DEF FindCandidates, RowsPersist
<1>5. AttemptsBounded'
  BY DEF FindCandidates, OutboxInv, AttemptsBounded
<1>6. HandFits(h, event', notification', recipient', subscription')
  <2>1. HandFits(worker[w], event', notification', recipient', subscription')
    BY <1>2, <1>4, HandFitsPersists DEF OutboxInv, HandsFit
  <2>2. worker[w].step = "find" /\ event' = event
    BY DEF FindCandidates
  <2>3. \A c \in todo : event[c.key] # None /\ c.attempts < MaxAttempts
    BY DEF IsCandidate
  <2> QED
    BY <1>2, <2>1, <2>2, <2>3 DEF HandFits, Hand
<1> HIDE DEF h
<1> QED
  BY <1>2, <1>3, <1>4, <1>5, <1>6, WorkerStepKeeps
     DEF FindCandidates, OutboxInv, TypeOK

LEMMA ClaimedRow ==
  ASSUME NEW row \in EventRow
  PROVE  Claimed(row) \in EventRow /\ Claimed(row).attempts = row.attempts + 1
<1> DEFINE started == [row EXCEPT !.status = "PROCESSING"]
           n == started.attempts + 1
<1>1. started \in EventRow /\ started.attempts = row.attempts
  BY DEF EventRow, EventStatus
<1>2. n \in Nat /\ n = row.attempts + 1
  BY <1>1 DEF EventRow
<1>3. Claimed(row) = [started EXCEPT !.attempts = n, !.lease = "fresh"]
  BY DEF Claimed
<1> HIDE DEF started, n
<1> QED
  BY <1>1, <1>2, <1>3 DEF EventRow, Lease

LEMMA ClaimKeeps ==
  ASSUME OutboxInv, NEW w \in Worker, Claim(w)
  PROVE  OutboxInv'
<1>1. PICK c \in worker[w].todo :
        /\ event' = IF ClaimSucceeds(c)
                    THEN [event EXCEPT ![c.key] = Claimed(@)] ELSE event
        /\ worker' = [worker EXCEPT
              ![w].todo = @ \ {c},
              ![w].batch = IF ClaimSucceeds(c) THEN @ \cup {c.key} ELSE @,
              ![w].step = IF worker[w].todo = {c} THEN "work" ELSE @]
  BY DEF Claim
<1> DEFINE h == [worker[w] EXCEPT
              !.todo = @ \ {c},
              !.batch = IF ClaimSucceeds(c) THEN @ \cup {c.key} ELSE @,
              !.step = IF worker[w].todo = {c} THEN "work" ELSE @]
<1>2. worker[w] \in Hand /\ worker[w].step = "claim"
  BY DEF OutboxInv, TypeOK, Claim
<1>3. c \in Candidate /\ event[c.key] # None /\ c.attempts < MaxAttempts
  BY <1>2 DEF OutboxInv, HandsFit, HandFits, Hand
<1>4. c.key \in Event /\ event[c.key] \in EventRow
  BY <1>3 DEF Candidate, OutboxInv, TypeOK
<1>5. Claimed(event[c.key]) \in EventRow
      /\ (ClaimSucceeds(c) => Claimed(event[c.key]).attempts <= MaxAttempts)
  <2>1. event[c.key].attempts \in Nat /\ c.attempts \in Nat
    BY <1>3, <1>4 DEF EventRow, Candidate
  <2>2. Claimed(event[c.key]) \in EventRow
    BY <1>4, ClaimedRow
  <2>3. Claimed(event[c.key]).attempts = event[c.key].attempts + 1
    BY <1>4, ClaimedRow
  <2>4. ClaimSucceeds(c) => event[c.key].attempts = c.attempts
    BY DEF ClaimSucceeds
  <2> QED
    BY <1>3, <2>1, <2>2, <2>3, <2>4, NoneIsNoRow
<1>6. h \in Hand
  BY <1>2, <1>4 DEF Hand, Step
<1>7. worker' = [worker EXCEPT ![w] = h]
  BY <1>1 DEF OutboxInv, TypeOK
<1>8. /\ event' \in [Event -> EventRow \cup {None}]
      /\ \A e \in Event : event[e] # None => event'[e] # None
      /\ AttemptsBounded'
  <2>1. CASE ClaimSucceeds(c)
    BY <1>1, <1>4, <1>5, <2>1, NoneIsNoRow DEF OutboxInv, TypeOK, AttemptsBounded
  <2>2. CASE ~ClaimSucceeds(c)
    BY <1>1, <2>2 DEF OutboxInv, TypeOK, AttemptsBounded
  <2> QED
    BY <2>1, <2>2
<1>9. RowsPersist
  BY <1>8 DEF Claim, RowsPersist
<1>10. HandFits(h, event', notification', recipient', subscription')
  <2>1. HandFits(worker[w], event', notification', recipient', subscription')
    BY <1>2, <1>9, HandFitsPersists DEF OutboxInv, HandsFit
  <2>2. event'[c.key] # None
    BY <1>3, <1>4, <1>8
  <2> QED
    BY <1>2, <2>1, <2>2 DEF HandFits, Hand
<1> HIDE DEF h
<1> QED
  BY <1>6, <1>7, <1>8, <1>9, <1>10, WorkerStepKeeps DEF Claim, OutboxInv, TypeOK

LEMMA ReadRecipientsKeeps ==
  ASSUME OutboxInv, NEW w \in Worker, ReadRecipients(w)
  PROVE  OutboxInv'
<1> DEFINE h == [worker[w] EXCEPT !.step = "deliver", !.failed = FALSE,
                                  !.left = Undelivered(worker[w].key)]
           e == worker[w].key
<1>1. worker[w] \in Hand /\ worker[w].step = "recipients"
  BY DEF OutboxInv, TypeOK, ReadRecipients
<1>2. e \in Event /\ notification[e] # None
  BY <1>1 DEF OutboxInv, HandsFit, HandFits
<1>3. notification[e] \in SUBSET User
  BY <1>2 DEF OutboxInv, TypeOK
<1>4. Undelivered(e) \in SUBSET User
      /\ \A u \in Undelivered(e) : recipient[<<e, u>>] # None
  BY <1>2, <1>3 DEF Undelivered, OutboxInv, AudienceHasRows
<1>5. h \in Hand
  BY <1>1, <1>4 DEF Hand, Step
<1>6. worker' = [worker EXCEPT ![w] = h]
  BY DEF ReadRecipients, OutboxInv, TypeOK
<1>7. RowsPersist
  BY DEF ReadRecipients, RowsPersist
<1>8. HandFits(h, event', notification', recipient', subscription')
  <2>1. HandFits(worker[w], event', notification', recipient', subscription')
    BY <1>1, <1>7, HandFitsPersists DEF OutboxInv, HandsFit
  <2>2. recipient' = recipient
    BY DEF ReadRecipients
  <2> QED
    BY <1>1, <1>4, <2>1, <2>2 DEF HandFits, Hand
<1>9. AttemptsBounded'
  BY DEF ReadRecipients, OutboxInv, AttemptsBounded
<1> HIDE DEF h
<1> QED
  BY <1>5, <1>6, <1>7, <1>8, <1>9, WorkerStepKeeps
     DEF ReadRecipients, OutboxInv, TypeOK

LEMMA StartRecipientKeeps ==
  ASSUME OutboxInv, NEW w \in Worker, StartRecipient(w)
  PROVE  OutboxInv'
<1> DEFINE e == worker[w].key
<1>1. PICK u \in worker[w].left :
        worker' = IF recipient[<<e, u>>].status \in {"READ", "OPENED"}
                  THEN [worker EXCEPT ![w].left = @ \ {u}]
                  ELSE [worker EXCEPT ![w].step = "push",
                                      ![w].left = @ \ {u},
                                      ![w].user = u,
                                      ![w].tokens = PushTargets(e, u),
                                      ![w].ok = PushTargets(e, u) = {}]
  BY DEF StartRecipient
<1> DEFINE skip == [worker[w] EXCEPT !.left = @ \ {u}]
           start == [worker[w] EXCEPT !.step = "push", !.left = @ \ {u},
                       !.user = u, !.tokens = PushTargets(e, u),
                       !.ok = PushTargets(e, u) = {}]
           read == recipient[<<e, u>>].status \in {"READ", "OPENED"}
           h == IF read THEN skip ELSE start
<1>2. worker[w] \in Hand /\ worker[w].step = "deliver" /\ u \in User
  BY DEF OutboxInv, TypeOK, StartRecipient, Hand
<1>3. PushTargets(e, u) \in SUBSET Token
      /\ \A t \in PushTargets(e, u) : subscription[t] # None
  BY DEF PushTargets, ActiveTokens
<1>4. h \in Hand
  <2>1. skip \in Hand
    BY <1>2 DEF Hand
  <2>2. start \in Hand
    BY <1>2, <1>3 DEF Hand, Step
  <2> QED
    BY <2>1, <2>2
<1>5. worker' = [worker EXCEPT ![w] = h]
  BY <1>1 DEF OutboxInv, TypeOK
<1>6. RowsPersist
  BY DEF StartRecipient, RowsPersist
<1>7. HandFits(h, event', notification', recipient', subscription')
  <2>1. HandFits(worker[w], event', notification', recipient', subscription')
    BY <1>2, <1>6, HandFitsPersists DEF OutboxInv, HandsFit
  <2>2. recipient' = recipient /\ subscription' = subscription
    BY DEF StartRecipient
  <2>3. recipient[<<e, u>>] # None
    BY DEF OutboxInv, HandsFit, HandFits
  <2>4. HandFits(skip, event', notification', recipient', subscription')
    BY <1>2, <2>1 DEF HandFits, Hand
  <2>5. HandFits(start, event', notification', recipient', subscription')
    BY <1>2, <1>3, <2>1, <2>2, <2>3 DEF HandFits, Hand
  <2> QED
    BY <2>4, <2>5
<1>8. AttemptsBounded'
  BY DEF StartRecipient, OutboxInv, AttemptsBounded
<1> HIDE DEF h
<1> QED
  BY <1>4, <1>5, <1>6, <1>7, <1>8, WorkerStepKeeps
     DEF StartRecipient, OutboxInv, TypeOK

LEMMA SendPushKeeps ==
  ASSUME OutboxInv, NEW w \in Worker, SendPush(w)
  PROVE  OutboxInv'
<1>1. PICK t \in worker[w].tokens, outcome \in Outcomes :
        LET a == <<worker[w].key, worker[w].user, t>>
        IN /\ pushed' = [pushed EXCEPT ![a] = @ + 1]
           /\ worker' = [worker EXCEPT ![w].tokens = @ \ {t},
                 ![w].sent = [token |-> t, number |-> attempt[a] + 1,
                              outcome |-> outcome]]
  BY DEF SendPush
<1> DEFINE a == <<worker[w].key, worker[w].user, t>>
           sent == [token |-> t, number |-> attempt[a] + 1,
                    outcome |-> outcome]
           h == [worker[w] EXCEPT !.tokens = @ \ {t}, !.sent = sent]
<1>2. worker[w] \in Hand /\ worker[w].step = "push" /\ t \in Token
  BY DEF OutboxInv, TypeOK, SendPush, Hand
<1>3. a \in Event \X User \X Token
  BY <1>2 DEF OutboxInv, HandsFit, HandFits
<1>4. attempt[a] \in Nat /\ pushed' \in [Event \X User \X Token -> Nat]
  BY <1>1, <1>3 DEF OutboxInv, TypeOK
<1>5. sent \in Push
  BY <1>2, <1>4 DEF Push
<1>6. h \in Hand
  BY <1>2, <1>5 DEF Hand
<1>7. worker' = [worker EXCEPT ![w] = h]
  BY <1>1 DEF OutboxInv, TypeOK
<1>8. RowsPersist
  BY DEF SendPush, RowsPersist
<1>9. HandFits(h, event', notification', recipient', subscription')
  <2>1. HandFits(worker[w], event', notification', recipient', subscription')
    BY <1>2, <1>8, HandFitsPersists DEF OutboxInv, HandsFit
  <2>2. subscription'[t] # None
    BY <2>1 DEF HandFits
  <2> QED
    BY <1>2, <2>1, <2>2 DEF HandFits, Hand
<1>10. AttemptsBounded'
  BY DEF SendPush, OutboxInv, AttemptsBounded
<1> HIDE DEF h
<1> QED
  BY <1>4, <1>6, <1>7, <1>8, <1>9, <1>10, WorkerStepKeeps
     DEF SendPush, OutboxInv, TypeOK

LEMMA RecordAttemptKeeps ==
  ASSUME OutboxInv, NEW w \in Worker, RecordAttempt(w)
  PROVE  OutboxInv'
<1> DEFINE sent == worker[w].sent
           a == <<worker[w].key, worker[w].user, sent.token>>
           h == [worker[w] EXCEPT !.sent = None,
                                  !.ok = @ \/ sent.outcome = "sent"]
<1>1. worker[w] \in Hand /\ worker[w].step = "push" /\ sent \in Push
  BY DEF OutboxInv, TypeOK, RecordAttempt, Hand
<1>2. a \in Event \X User \X Token /\ subscription[sent.token] # None
  BY <1>1, NoneIsNoRow DEF OutboxInv, HandsFit, HandFits, Push
<1>3. attempt' \in [Event \X User \X Token -> Nat]
  BY <1>2 DEF RecordAttempt, OutboxInv, TypeOK
<1>4. /\ subscription' \in
            [Token -> [user : User, active : BOOLEAN] \cup {None}]
      /\ \A t \in Token : subscription[t] # None => subscription'[t] # None
  <2> DEFINE closed == [subscription[sent.token] EXCEPT !.active = FALSE]
  <2>1. sent.token \in Token
    BY <1>1 DEF Push
  <2>2. subscription[sent.token] \in [user : User, active : BOOLEAN]
    BY <1>2, <2>1 DEF OutboxInv, TypeOK
  <2>3. closed \in [user : User, active : BOOLEAN] /\ closed # None
    BY <2>2, OutboxAssumption
  <2>4. subscription' = IF sent.outcome = "invalid"
                        THEN [subscription EXCEPT ![sent.token] = closed]
                        ELSE subscription
    BY DEF RecordAttempt, OutboxInv, TypeOK
  <2> HIDE DEF closed
  <2> QED
    BY <2>1, <2>3, <2>4 DEF OutboxInv, TypeOK
<1>5. h \in Hand
  BY <1>1 DEF Hand
<1>6. worker' = [worker EXCEPT ![w] = h]
  BY DEF RecordAttempt, OutboxInv, TypeOK
<1>7. RowsPersist
  BY <1>4 DEF RecordAttempt, RowsPersist
<1>8. HandFits(h, event', notification', recipient', subscription')
  <2>1. HandFits(worker[w], event', notification', recipient', subscription')
    BY <1>1, <1>7, HandFitsPersists DEF OutboxInv, HandsFit
  <2> QED
    BY <1>1, <2>1 DEF HandFits, Hand
<1>9. AttemptsBounded'
  BY DEF RecordAttempt, OutboxInv, AttemptsBounded
<1> HIDE DEF h
<1> QED
  BY <1>3, <1>4, <1>5, <1>6, <1>7, <1>8, <1>9, WorkerStepKeeps
     DEF RecordAttempt, OutboxInv, TypeOK

LEMMA AttemptCollidesKeeps ==
  ASSUME OutboxInv, NEW w \in Worker, AttemptCollides(w)
  PROVE  OutboxInv'
<1> DEFINE h == [worker[w] EXCEPT !.step = "deliver", !.failed = TRUE,
                    !.user = None, !.tokens = {}, !.sent = None, !.ok = FALSE]
<1>1. worker[w] \in Hand /\ worker[w].step = "push"
  BY DEF OutboxInv, TypeOK, AttemptCollides
<1>2. h \in Hand
  BY <1>1 DEF Hand, Step
<1>3. worker' = [worker EXCEPT ![w] = h]
  BY DEF AttemptCollides, OutboxInv, TypeOK
<1>4. RowsPersist
  BY DEF AttemptCollides, RowsPersist
<1>5. HandFits(h, event', notification', recipient', subscription')
  <2>1. HandFits(worker[w], event', notification', recipient', subscription')
    BY <1>1, <1>4, HandFitsPersists DEF OutboxInv, HandsFit
  <2> QED
    BY <1>1, <2>1 DEF HandFits, Hand
<1>6. AttemptsBounded'
  BY DEF AttemptCollides, OutboxInv, AttemptsBounded
<1> HIDE DEF h
<1> QED
  BY <1>2, <1>3, <1>4, <1>5, <1>6, WorkerStepKeeps
     DEF AttemptCollides, OutboxInv, TypeOK

LEMMA RecordRecipientKeeps ==
  ASSUME OutboxInv, NEW w \in Worker, RecordRecipient(w)
  PROVE  OutboxInv'
<1> DEFINE r == <<worker[w].key, worker[w].user>>
           ok == worker[w].ok
           row == [recipient[r] EXCEPT !.status = IF ok THEN "SENT" ELSE "FAILED",
                                       !.sentAt = @ \/ ok]
           h == [worker[w] EXCEPT !.step = "deliver", !.failed = @ \/ ~ok,
                                  !.user = None, !.ok = FALSE]
<1>1. worker[w] \in Hand /\ worker[w].step = "push"
  BY DEF OutboxInv, TypeOK, RecordRecipient
<1>2. r \in Message \X User /\ recipient[r] # None
  BY <1>1 DEF OutboxInv, HandsFit, HandFits, Message
<1>3. recipient[r] \in RecipientRow
  BY <1>2 DEF OutboxInv, TypeOK
<1>4. row \in RecipientRow
  BY <1>1, <1>3 DEF RecipientRow, RecipientStatus, Hand
<1>5. recipient' = [recipient EXCEPT ![r] = row]
  BY DEF RecordRecipient, OutboxInv, TypeOK
<1>6. h \in Hand
  BY <1>1 DEF Hand, Step
<1>7. worker' = [worker EXCEPT ![w] = h]
  BY DEF RecordRecipient, OutboxInv, TypeOK
<1> HIDE DEF row, h
<1>8. /\ recipient' \in [Message \X User -> RecipientRow \cup {None}]
      /\ \A q \in Message \X User : recipient[q] # None => recipient'[q] # None
  BY <1>2, <1>4, <1>5, NoneIsNoRow DEF OutboxInv, TypeOK
<1>9. RowsPersist
  BY <1>8 DEF RecordRecipient, RowsPersist
<1>10. HandFits(h, event', notification', recipient', subscription')
  <2>1. HandFits(worker[w], event', notification', recipient', subscription')
    BY <1>1, <1>9, HandFitsPersists DEF OutboxInv, HandsFit
  <2> QED
    BY <1>1, <2>1 DEF HandFits, Hand, h
<1>11. AttemptsBounded'
  BY DEF RecordRecipient, OutboxInv, AttemptsBounded
<1> QED
  BY <1>6, <1>7, <1>8, <1>9, <1>10, <1>11, WorkerStepKeeps
     DEF RecordRecipient, OutboxInv, TypeOK

LEMMA MarkedRow ==
  ASSUME NEW row \in EventRow, NEW failed \in BOOLEAN
  PROVE  Marked(row, failed) \in EventRow
         /\ Marked(row, failed).attempts = row.attempts
BY DEF Marked, EventRow, EventStatus, Lease

LEMMA MarkEventKeeps ==
  ASSUME OutboxInv, NEW w \in Worker, MarkEvent(w)
  PROVE  OutboxInv'
<1> DEFINE e == worker[w].key
           row == Marked(event[e], worker[w].failed)
           h == [worker[w] EXCEPT !.step = "work", !.key = None, !.failed = FALSE]
<1>1. worker[w] \in Hand /\ worker[w].step = "deliver" /\ worker[w].left = {}
  BY DEF OutboxInv, TypeOK, MarkEvent
<1>2. e \in Event /\ event[e] # None
  BY <1>1 DEF OutboxInv, HandsFit, HandFits
<1>3. event[e] \in EventRow /\ worker[w].failed \in BOOLEAN
  BY <1>1, <1>2 DEF OutboxInv, TypeOK, Hand
<1>4. row \in EventRow /\ row.attempts = event[e].attempts
  BY <1>3, MarkedRow
<1>5. event' = [event EXCEPT ![e] = row]
  BY DEF MarkEvent
<1>6. h \in Hand
  BY <1>1 DEF Hand, Step
<1>7. worker' = [worker EXCEPT ![w] = h]
  BY DEF MarkEvent, OutboxInv, TypeOK
<1> HIDE DEF row, h
<1>8. /\ event' \in [Event -> EventRow \cup {None}]
      /\ \A d \in Event : event[d] # None => event'[d] # None
      /\ AttemptsBounded'
  BY <1>2, <1>4, <1>5, NoneIsNoRow DEF OutboxInv, TypeOK, AttemptsBounded
<1>9. RowsPersist
  BY <1>8 DEF MarkEvent, RowsPersist
<1>10. HandFits(h, event', notification', recipient', subscription')
  <2>1. HandFits(worker[w], event', notification', recipient', subscription')
    BY <1>1, <1>9, HandFitsPersists DEF OutboxInv, HandsFit
  <2> QED
    BY <1>1, <2>1 DEF HandFits, Hand, h
<1> QED
  BY <1>6, <1>7, <1>8, <1>9, <1>10, WorkerStepKeeps
     DEF MarkEvent, OutboxInv, TypeOK

LEMMA EndBatchKeeps ==
  ASSUME OutboxInv, NEW w \in Worker, EndBatch(w)
  PROVE  OutboxInv'
<1> DEFINE h == [worker[w] EXCEPT !.step = "idle"]
<1>1. worker[w] \in Hand /\ worker[w].step = "work"
  BY DEF OutboxInv, TypeOK, EndBatch
<1>2. h \in Hand
  BY <1>1 DEF Hand, Step
<1>3. worker' = [worker EXCEPT ![w] = h]
  BY DEF EndBatch, OutboxInv, TypeOK
<1>4. RowsPersist
  BY DEF EndBatch, RowsPersist
<1>5. HandFits(h, event', notification', recipient', subscription')
  <2>1. HandFits(worker[w], event', notification', recipient', subscription')
    BY <1>1, <1>4, HandFitsPersists DEF OutboxInv, HandsFit
  <2> QED
    BY <1>1, <2>1 DEF HandFits, Hand
<1>6. AttemptsBounded'
  BY DEF EndBatch, OutboxInv, AttemptsBounded
<1> HIDE DEF h
<1> QED
  BY <1>2, <1>3, <1>4, <1>5, <1>6, WorkerStepKeeps DEF EndBatch, OutboxInv, TypeOK

LEMMA CrashKeeps ==
  ASSUME OutboxInv, NEW w \in Worker, Crash(w)
  PROVE  OutboxInv'
<1>1. Idle \in Hand /\ HandFits(Idle, event', notification', recipient', subscription')
  BY DEF Idle, Hand, Step, HandFits
<1>2. worker' = [worker EXCEPT ![w] = Idle]
  BY DEF Crash
<1>3. RowsPersist
  BY DEF Crash, RowsPersist
<1>4. worker' \in [Worker -> Hand] /\ HandsFit'
  BY <1>1, <1>2, <1>3, OneHandMoves DEF OutboxInv
<1>5. TypeOK'
  BY <1>4 DEF Crash, OutboxInv, TypeOK
<1>6. AudienceHasRows' /\ OpeningFits'
  BY <1>3, RecipientsKept DEF Crash, OutboxInv
<1>7. AttemptsBounded'
  BY DEF Crash, OutboxInv, AttemptsBounded
<1> QED
  BY <1>4, <1>5, <1>6, <1>7 DEF OutboxInv

LEMMA EffectiveType ==
  ASSUME TypeOK, NEW u \in User, NEW e \in Event
  PROVE  Effective(u, EventType[e]) \in Preference
<1>1. EventType[e] \in Scope /\ "*" \in Scope
  BY DEF Scope
<1>2. \A scope \in Scope : preference[<<u, scope>>] \in Preference \cup {None}
  BY DEF TypeOK
<1>3. [push |-> TRUE, inApp |-> TRUE] \in Preference
  BY DEF Preference
<1> QED
  BY <1>1, <1>2, <1>3 DEF Effective

LEMMA MaterializeKeeps ==
  ASSUME OutboxInv, NEW w \in Worker, Materialize(w)
  PROVE  OutboxInv'
<1>1. PICK e \in worker[w].batch :
        /\ IF notification[e] = None
           THEN /\ notification' = [notification EXCEPT ![e] = Addressed(e)]
                /\ recipient' = [r \in Message \X User |->
                      IF r[1] = e /\ r[2] \in Addressed(e)
                      THEN Queued(Effective(r[2], EventType[e]))
                      ELSE recipient[r]]
           ELSE UNCHANGED <<notification, recipient>>
        /\ worker' = [worker EXCEPT ![w].step = "recipients",
                                    ![w].key = e, ![w].batch = @ \ {e}]
  BY DEF Materialize
<1> DEFINE h == [worker[w] EXCEPT !.step = "recipients", !.key = e,
                                  !.batch = @ \ {e}]
<1>2. worker[w] \in Hand /\ worker[w].step = "work" /\ e \in Event
  BY DEF OutboxInv, TypeOK, Materialize, Hand
<1>3. h \in Hand
  BY <1>2 DEF Hand, Step
<1>4. worker' = [worker EXCEPT ![w] = h]
  BY <1>1 DEF OutboxInv, TypeOK
<1>5. Addressed(e) \in SUBSET User /\ Addressed(e) # None
  BY OutboxAssumption DEF Addressed, route
<1>6. ASSUME NEW u \in User
      PROVE Queued(Effective(u, EventType[e])) \in RecipientRow
  <2>1. Effective(u, EventType[e]) \in Preference
    BY <1>2, EffectiveType DEF OutboxInv
  <2> QED
    BY <2>1 DEF Queued, Preference, RecipientRow, RecipientStatus
<1>7. /\ notification' \in [Event -> {None} \cup (SUBSET User)]
      /\ notification'[e] # None
      /\ \A d \in Event : d # e \/ notification[e] # None
                              => notification'[d] = notification[d]
  BY <1>1, <1>2, <1>5 DEF OutboxInv, TypeOK
<1>8. /\ recipient' \in [Message \X User -> RecipientRow \cup {None}]
      /\ \A q \in Message \X User : recipient[q] # None => recipient'[q] # None
      /\ notification[e] = None =>
            notification'[e] = Addressed(e)
            /\ \A u \in Addressed(e) : recipient'[<<e, u>>] # None
  <2>1. CASE notification[e] = None
    <3>1. \A q \in Message \X User :
             recipient'[q] \in RecipientRow \cup {None}
             /\ (recipient[q] # None => recipient'[q] # None)
      BY <1>1, <1>6, <2>1, NoneIsNoRow DEF OutboxInv, TypeOK
    <3>2. recipient' = [q \in Message \X User |-> recipient'[q]]
      BY <1>1, <2>1
    <3>3. \A u \in Addressed(e) : recipient'[<<e, u>>] # None
      BY <1>1, <1>2, <1>5, <1>6, <2>1, NoneIsNoRow DEF Message
    <3>4. notification'[e] = Addressed(e)
      BY <1>1, <1>2, <2>1 DEF OutboxInv, TypeOK
    <3> QED
      BY <3>1, <3>2, <3>3, <3>4
  <2>2. CASE notification[e] # None
    BY <1>1, <2>2 DEF OutboxInv, TypeOK
  <2> QED
    BY <2>1, <2>2
<1>9. RowsPersist
  BY <1>7, <1>8 DEF Materialize, RowsPersist
<1>10. HandFits(h, event', notification', recipient', subscription')
  <2>1. HandFits(worker[w], event', notification', recipient', subscription')
    BY <1>2, <1>9, HandFitsPersists DEF OutboxInv, HandsFit
  <2> QED
    BY <1>1, <1>2, <1>7, <2>1 DEF HandFits, Hand
<1> HIDE DEF h
<1>11. worker' \in [Worker -> Hand] /\ HandsFit'
  BY <1>3, <1>4, <1>9, <1>10, OneHandMoves DEF OutboxInv
<1>12. TypeOK'
  BY <1>7, <1>8, <1>11 DEF Materialize, OutboxInv, TypeOK
<1>13. AudienceHasRows'
  <2> SUFFICES ASSUME NEW d \in Event, notification'[d] # None,
                      NEW u \in notification'[d]
               PROVE  recipient'[<<d, u>>] # None
    BY DEF AudienceHasRows
  <2>1. CASE d = e /\ notification[e] = None
    BY <1>8, <2>1
  <2>2. CASE d # e \/ notification[e] # None
    <3>1. notification'[d] = notification[d]
      BY <1>7, <2>2
    <3>2. <<d, u>> \in Message \X User /\ recipient[<<d, u>>] # None
      BY <3>1 DEF OutboxInv, TypeOK, AudienceHasRows, Message
    <3> QED
      BY <1>8, <3>2
  <2> QED
    BY <2>1, <2>2
<1>14. OpeningFits'
  BY <1>9 DEF Materialize, OutboxInv, TypeOK, OpeningFits, RowsPersist
<1>15. AttemptsBounded'
  BY DEF Materialize, OutboxInv, AttemptsBounded
<1> QED
  BY <1>11, <1>12, <1>13, <1>14, <1>15 DEF OutboxInv

-----------------------------------------------------------------------------
(* The steps of the outbox, of time and of the users *)

\* What a step that leaves the workers alone has to show.
LEMMA OtherStepKeeps ==
  ASSUME OutboxInv, RowsPersist, worker' = worker,
         UNCHANGED <<notification, attempt, pushed>>,
         event' \in [Event -> EventRow \cup {None}],
         recipient' \in [Message \X User -> RecipientRow \cup {None}],
         preference' \in [User \X Scope -> Preference \cup {None}],
         subscription' \in
            [Token -> [user : User, active : BOOLEAN] \cup {None}],
         opening' \in [User -> [key : Message, readAt : BOOLEAN] \cup {None}],
         crashes' \in Nat, late' \in Nat,
         OpeningFits', AttemptsBounded'
  PROVE  OutboxInv'
<1>1. HandsFit'
  BY NoHandMoves DEF OutboxInv
<1>2. TypeOK'
  BY DEF OutboxInv, TypeOK
<1>3. AudienceHasRows'
  BY DEF OutboxInv, TypeOK, AudienceHasRows, RowsPersist, Message
<1> QED
  BY <1>1, <1>2, <1>3 DEF OutboxInv

\* A step that writes one event's row and nothing else but the late leases.
LEMMA EventStepKeeps ==
  ASSUME OutboxInv, NEW e \in Event, NEW row \in EventRow,
         row.attempts <= MaxAttempts, event' = [event EXCEPT ![e] = row],
         UNCHANGED <<notification, recipient, attempt, pushed, preference,
                     subscription, worker, opening, crashes>>,
         late' \in Nat
  PROVE  OutboxInv'
<1>1. /\ event' \in [Event -> EventRow \cup {None}]
      /\ \A d \in Event : event[d] # None => event'[d] # None
      /\ AttemptsBounded'
  BY NoneIsNoRow DEF OutboxInv, TypeOK, AttemptsBounded
<1>2. RowsPersist
  BY <1>1 DEF RowsPersist
<1>3. OpeningFits'
  BY DEF OutboxInv, OpeningFits
<1> QED
  BY <1>1, <1>2, <1>3, OtherStepKeeps DEF OutboxInv, TypeOK

LEMMA EnqueueKeeps ==
  ASSUME OutboxInv, NEW e \in Event, enqueueOutboxEvent(e)
  PROVE  OutboxInv'
<1> DEFINE row == [status |-> "PENDING", attempts |-> 0, due |-> TRUE,
                   lease |-> "none"]
<1>1. row \in EventRow /\ row.attempts <= MaxAttempts
  BY NoneIsNoRow DEF EventRow, EventStatus, Lease
<1>2. event' = [event EXCEPT ![e] = row]
  BY DEF enqueueOutboxEvent
<1> HIDE DEF row
<1> QED
  BY <1>1, <1>2, EventStepKeeps DEF enqueueOutboxEvent, OutboxInv, TypeOK

LEMMA DelayPassesKeeps ==
  ASSUME OutboxInv, NEW e \in Event, DelayPasses(e)
  PROVE  OutboxInv'
<1> DEFINE row == [event[e] EXCEPT !.due = TRUE]
<1>1. event[e] \in EventRow /\ event[e].attempts <= MaxAttempts
  BY DEF DelayPasses, OutboxInv, TypeOK, AttemptsBounded
<1>2. row \in EventRow /\ row.attempts <= MaxAttempts
  BY <1>1 DEF EventRow
<1>3. event' = [event EXCEPT ![e] = row]
  BY DEF DelayPasses, OutboxInv, TypeOK
<1> HIDE DEF row
<1> QED
  BY <1>2, <1>3, EventStepKeeps DEF DelayPasses, OutboxInv, TypeOK

LEMMA LeaseExpiresKeeps ==
  ASSUME OutboxInv, NEW e \in Event, LeaseExpires(e)
  PROVE  OutboxInv'
<1> DEFINE row == [event[e] EXCEPT !.lease = "stale"]
<1>1. event[e] \in EventRow /\ event[e].attempts <= MaxAttempts
  BY DEF LeaseExpires, OutboxInv, TypeOK, AttemptsBounded
<1>2. row \in EventRow /\ row.attempts <= MaxAttempts
  BY <1>1 DEF EventRow, Lease
<1>3. event' = [event EXCEPT ![e] = row]
  BY DEF LeaseExpires, OutboxInv, TypeOK
<1>4. late' \in Nat
  BY DEF LeaseExpires, OutboxInv, TypeOK
<1> HIDE DEF row
<1> QED
  BY <1>2, <1>3, <1>4, EventStepKeeps DEF LeaseExpires

\* A step that writes one recipient row; an opening may end with it.
LEMMA RecipientStepKeeps ==
  ASSUME OutboxInv, NEW r \in Message \X User, NEW row \in RecipientRow,
         recipient' = [recipient EXCEPT ![r] = row],
         UNCHANGED <<event, notification, attempt, pushed, preference,
                     subscription, worker, crashes, late>>,
         NEW done \in SUBSET User,
         opening' = [v \in User |-> IF v \in done THEN None ELSE opening[v]]
  PROVE  OutboxInv'
<1>1. /\ recipient' \in [Message \X User -> RecipientRow \cup {None}]
      /\ \A q \in Message \X User : recipient[q] # None => recipient'[q] # None
  BY NoneIsNoRow DEF OutboxInv, TypeOK
<1>2. RowsPersist
  BY <1>1 DEF RowsPersist
<1>3. opening' \in [User -> [key : Message, readAt : BOOLEAN] \cup {None}]
  BY DEF OutboxInv, TypeOK
<1>4. OpeningFits'
  BY <1>2 DEF OutboxInv, TypeOK, OpeningFits, RowsPersist
<1>5. AttemptsBounded'
  BY DEF OutboxInv, AttemptsBounded
<1> QED
  BY <1>1, <1>2, <1>3, <1>4, <1>5, OtherStepKeeps DEF OutboxInv, TypeOK

LEMMA MarkReadKeeps ==
  ASSUME OutboxInv, NEW k \in Message, NEW u \in User, markRead(k, u)
  PROVE  OutboxInv'
<1> DEFINE r == <<k, u>>
           row == IF recipient[r] = None THEN Read
                  ELSE [recipient[r] EXCEPT !.status = "READ", !.readAt = TRUE,
                                            !.openedAt = TRUE]
<1>1. r \in Message \X User /\ recipient[r] \in RecipientRow \cup {None}
  BY DEF OutboxInv, TypeOK
<1>2. row \in RecipientRow
  BY <1>1 DEF Read, RecipientRow, RecipientStatus
<1>3. recipient' = [recipient EXCEPT ![r] = row]
  BY DEF markRead, OutboxInv, TypeOK
<1> DEFINE done == {}
<1>4. done \in SUBSET User
      /\ opening' = [v \in User |-> IF v \in done THEN None ELSE opening[v]]
  BY DEF markRead, OutboxInv, TypeOK
<1>5. UNCHANGED <<event, notification, attempt, pushed, preference,
                  subscription, worker, crashes, late>>
  BY DEF markRead
<1> HIDE DEF r, row, done
<1> QED
  BY <1>1, <1>2, <1>3, <1>4, <1>5, RecipientStepKeeps

LEMMA OpenWriteKeeps ==
  ASSUME OutboxInv, NEW u \in User, OpenWrite(u)
  PROVE  OutboxInv'
<1> DEFINE r == <<opening[u].key, u>>
           status == IF opening[u].readAt THEN "READ" ELSE "OPENED"
           row == [recipient[r] EXCEPT !.status = status, !.openedAt = TRUE]
<1>1. opening[u] \in [key : Message, readAt : BOOLEAN]
  BY DEF OpenWrite, OutboxInv, TypeOK
<1>2. r \in Message \X User /\ recipient[r] \in RecipientRow
  BY <1>1 DEF OpenWrite, OutboxInv, TypeOK, OpeningFits
<1>3. row \in RecipientRow
  BY <1>2 DEF RecipientRow, RecipientStatus
<1>4. recipient' = [recipient EXCEPT ![r] = row]
  BY DEF OpenWrite, OutboxInv, TypeOK
<1>5. opening' = [v \in User |-> IF v \in {u} THEN None ELSE opening[v]]
  BY DEF OpenWrite, OutboxInv, TypeOK
<1>6. UNCHANGED <<event, notification, attempt, pushed, preference,
                  subscription, worker, crashes, late>>
  BY DEF OpenWrite
<1> HIDE DEF r, row
<1> QED
  BY <1>2, <1>3, <1>4, <1>5, <1>6, RecipientStepKeeps

LEMMA OpenReadKeeps ==
  ASSUME OutboxInv, NEW k \in Message, NEW u \in User, OpenRead(k, u)
  PROVE  OutboxInv'
<1> DEFINE read == [key |-> k, readAt |-> recipient[<<k, u>>].readAt]
<1>1. recipient[<<k, u>>] \in RecipientRow
  BY DEF OpenRead, OutboxInv, TypeOK
<1>2. read \in [key : Message, readAt : BOOLEAN]
  BY <1>1 DEF RecipientRow
<1>3. opening' = [opening EXCEPT ![u] = read]
  BY DEF OpenRead
<1>4. opening' \in [User -> [key : Message, readAt : BOOLEAN] \cup {None}]
  BY <1>2, <1>3 DEF OutboxInv, TypeOK
<1>5. ASSUME NEW v \in User, opening'[v] # None
      PROVE recipient'[<<opening'[v].key, v>>] # None
  <2>1. CASE v = u
    BY <1>3, <2>1 DEF OpenRead, OutboxInv, TypeOK
  <2>2. CASE v # u
    BY <1>3, <1>5, <2>2 DEF OpenRead, OutboxInv, TypeOK, OpeningFits
  <2> QED
    BY <2>1, <2>2
<1>6. OpeningFits'
  BY <1>5 DEF OpeningFits
<1>7. RowsPersist
  BY DEF OpenRead, RowsPersist
<1>8. AttemptsBounded'
  BY DEF OpenRead, OutboxInv, AttemptsBounded
<1> QED
  BY <1>4, <1>6, <1>7, <1>8, OtherStepKeeps DEF OpenRead, OutboxInv, TypeOK

LEMMA UpdatePreferenceKeeps ==
  ASSUME OutboxInv, NEW u \in User, NEW scope \in Scope,
         NEW input \in PreferenceInputs, updatePreference(u, scope, input)
  PROVE  OutboxInv'
<1>1. preference' \in [User \X Scope -> Preference \cup {None}]
  BY OutboxAssumption DEF updatePreference, OutboxInv, TypeOK
<1>2. RowsPersist
  BY DEF updatePreference, RowsPersist
<1>3. OpeningFits' /\ AttemptsBounded'
  BY DEF updatePreference, OutboxInv, OpeningFits, AttemptsBounded
<1> QED
  BY <1>1, <1>2, <1>3, OtherStepKeeps DEF updatePreference, OutboxInv, TypeOK

\* A step that writes one subscription.
LEMMA SubscriptionStepKeeps ==
  ASSUME OutboxInv, NEW t \in Token, NEW row \in [user : User, active : BOOLEAN],
         subscription' = [subscription EXCEPT ![t] = row],
         UNCHANGED <<event, notification, recipient, attempt, pushed,
                     preference, worker, opening, crashes, late>>
  PROVE  OutboxInv'
<1>1. /\ subscription' \in
            [Token -> [user : User, active : BOOLEAN] \cup {None}]
      /\ \A s \in Token : subscription[s] # None => subscription'[s] # None
  BY OutboxAssumption DEF OutboxInv, TypeOK
<1>2. RowsPersist
  BY <1>1 DEF RowsPersist
<1>3. OpeningFits' /\ AttemptsBounded'
  BY DEF OutboxInv, OpeningFits, AttemptsBounded
<1> QED
  BY <1>1, <1>2, <1>3, OtherStepKeeps DEF OutboxInv, TypeOK

LEMMA RegisterKeeps ==
  ASSUME OutboxInv, NEW u \in User, NEW t \in Token, register(u, t)
  PROVE  OutboxInv'
<1> DEFINE row == [user |-> u, active |-> TRUE]
<1>1. row \in [user : User, active : BOOLEAN]
  OBVIOUS
<1>2. subscription' = [subscription EXCEPT ![t] = row]
  BY DEF register
<1> HIDE DEF row
<1> QED
  BY <1>1, <1>2, SubscriptionStepKeeps DEF register

LEMMA DisableKeeps ==
  ASSUME OutboxInv, NEW t \in Token, disable(t)
  PROVE  OutboxInv'
<1> DEFINE row == [subscription[t] EXCEPT !.active = FALSE]
<1>1. row \in [user : User, active : BOOLEAN]
  BY DEF disable, OutboxInv, TypeOK
<1>2. subscription' = [subscription EXCEPT ![t] = row]
  BY DEF disable, OutboxInv, TypeOK
<1> HIDE DEF row
<1> QED
  BY <1>1, <1>2, SubscriptionStepKeeps DEF disable

LEMMA StutterKeeps ==
  ASSUME OutboxInv, UNCHANGED vars
  PROVE  OutboxInv'
BY DEF vars, OutboxInv, TypeOK, HandsFit, HandFits, AudienceHasRows,
       OpeningFits, AttemptsBounded

LEMMA WorkerKeeps ==
  ASSUME OutboxInv, NEW w \in Worker, WorkerStep(w)
  PROVE  OutboxInv'
BY RecoverStaleKeeps, FindCandidatesKeeps, ClaimKeeps, MaterializeKeeps,
   ReadRecipientsKeeps, StartRecipientKeeps, SendPushKeeps, RecordAttemptKeeps,
   AttemptCollidesKeeps, RecordRecipientKeeps, MarkEventKeeps, EndBatchKeeps
   DEF WorkerStep

LEMMA UserKeeps ==
  ASSUME OutboxInv, NEW u \in User, UserStep(u)
  PROVE  OutboxInv'
BY MarkReadKeeps, OpenReadKeeps, OpenWriteKeeps, UpdatePreferenceKeeps,
   RegisterKeeps DEF UserStep

LEMMA NextKeeps == OutboxInv /\ [Next]_vars => OutboxInv'
<1> SUFFICES ASSUME OutboxInv, [Next]_vars PROVE OutboxInv'
  OBVIOUS
<1>1. CASE \E e \in Event :
             enqueueOutboxEvent(e) \/ DelayPasses(e) \/ LeaseExpires(e)
  BY <1>1, EnqueueKeeps, DelayPassesKeeps, LeaseExpiresKeeps
<1>2. CASE \E w \in Worker : WorkerStep(w) \/ Crash(w)
  BY <1>2, WorkerKeeps, CrashKeeps
<1>3. CASE \E u \in User : UserStep(u)
  BY <1>3, UserKeeps
<1>4. CASE \E t \in Token : disable(t)
  BY <1>4, DisableKeeps
<1>5. CASE UNCHANGED vars
  BY <1>5, StutterKeeps
<1> QED
  BY <1>1, <1>2, <1>3, <1>4, <1>5 DEF Next

-----------------------------------------------------------------------------

\* The strengthened invariant holds of every behaviour: whatever crashes and
\* whichever leases expire, a worker writes only to rows that exist
\* (processBatch, deliverRecipient).
THEOREM OutboxCorrect == Spec => []OutboxInv
<1>1. Init => OutboxInv
  BY InitOutboxInv
<1>2. OutboxInv /\ [Next]_vars => OutboxInv'
  BY NextKeeps
<1> QED
  BY <1>1, <1>2, PTL DEF Spec

\* Every variable of the outbox keeps its type: rows are complete, counters are
\* natural numbers and no update by key invents a row (outbox.service.ts,
\* notification-delivery.service.ts).
THEOREM OutboxTypeCorrect == Spec => []TypeOK
BY OutboxCorrect, PTL DEF OutboxInv

\* No event is claimed more than MaxAttempts times, for every number of workers,
\* crashes and late leases: the claim compares the attempts it read, which were
\* below the limit (claimBatch).
THEOREM ClaimsBounded == Spec => []AttemptsBounded
BY OutboxCorrect, PTL DEF OutboxInv

-----------------------------------------------------------------------------
(***************************************************************************)
(* Outbox implements NotificationContract.  A worker that finishes an      *)
(* event looks at its own locals, not at the rows: the proof has to say    *)
(* that what it dropped from its list of recipients was told (Reached),    *)
(* and that nobody else has its event unless a lease was lost (Exclusive). *)
(***************************************************************************)

\* A status never claims more than the stamps of its row.
StatusIsTrue ==
    \A e \in Event, u \in User : recipient[<<e, u>>] # None =>
       /\ recipient[<<e, u>>].status = "SENT" => recipient[<<e, u>>].sentAt
       /\ recipient[<<e, u>>].status \in {"READ", "OPENED"} =>
             recipient[<<e, u>>].openedAt

\* Only the audience of an event has rows for it.
RowsAreOfAudience ==
    \A e \in Event, u \in User : recipient[<<e, u>>] # None =>
       notification[e] # None /\ u \in notification[e]

\* A worker with the locals h that did not fail is done only with users it told.
HandReached(h, no, to) ==
    h.step \in {"deliver", "push"} /\ ~h.failed =>
       \A u \in no[h.key] : \/ u \in h.left
                            \/ h.step = "push" /\ u = h.user
                            \/ <<h.key, u>> \in to

Reached == \A w \in Worker : HandReached(worker[w], notification, Told)

\* As long as no lease is lost, an event in work is marked so, and has one owner.
Exclusive ==
    late = 0 =>
       \A w \in Worker, e \in Event : Owns(w, e) =>
          /\ event[e] # None
          /\ event[e].status = "PROCESSING" /\ event[e].lease = "fresh"
          /\ ~(e \in worker[w].batch /\ e = worker[w].key)
          /\ \A v \in Worker : Owns(v, e) => v = w

RefinementInv ==
    OutboxInv /\ StatusIsTrue /\ RowsAreOfAudience /\ Reached /\ Exclusive

LEMMA InitRefinementInv == Init => RefinementInv
<1> SUFFICES ASSUME Init PROVE RefinementInv
  OBVIOUS
<1>1. OutboxInv
  BY InitOutboxInv
<1>2. StatusIsTrue /\ RowsAreOfAudience
  BY DEF Init, StatusIsTrue, RowsAreOfAudience, Message
<1>3. Reached
  BY DEF Init, Idle, Reached, HandReached
<1>4. Exclusive
  BY NoneIsNoRow DEF Init, Idle, Exclusive, Owns
<1> QED
  BY <1>1, <1>2, <1>3, <1>4 DEF RefinementInv

-----------------------------------------------------------------------------
(* The rows of notifications and recipients *)

\* Whoever was told stays told, and an audience stays as it is.
NothingIsTakenBack ==
    /\ Told \subseteq Told'
    /\ \A e \in Event : notification[e] # None =>
                           notification'[e] = notification[e]

\* The steps that write a notification or a recipient.
LEMMA RowFrame ==
  ASSUME [Next]_vars
  PROVE  \/ UNCHANGED <<notification, recipient>>
         \/ \E w \in Worker : Materialize(w) \/ RecordRecipient(w)
         \/ \E u \in User :
               OpenWrite(u) \/ \E k \in Message : markRead(k, u)
<1>1. CASE \E e \in Event :
             enqueueOutboxEvent(e) \/ DelayPasses(e) \/ LeaseExpires(e)
  BY <1>1 DEF enqueueOutboxEvent, DelayPasses, LeaseExpires
<1>2. CASE \E w \in Worker : WorkerStep(w) \/ Crash(w)
  <2>1. PICK w \in Worker : WorkerStep(w) \/ Crash(w)
    BY <1>2
  <2>2. CASE Materialize(w) \/ RecordRecipient(w)
    BY <2>2
  <2>3. CASE RecoverStale(w) \/ FindCandidates(w) \/ Claim(w) \/ Crash(w)
    BY <2>3 DEF RecoverStale, FindCandidates, Claim, Crash
  <2>4. CASE ReadRecipients(w) \/ StartRecipient(w) \/ SendPush(w)
    BY <2>4 DEF ReadRecipients, StartRecipient, SendPush
  <2>5. CASE RecordAttempt(w) \/ AttemptCollides(w) \/ MarkEvent(w) \/ EndBatch(w)
    BY <2>5 DEF RecordAttempt, AttemptCollides, MarkEvent, EndBatch
  <2> QED
    BY <2>1, <2>2, <2>3, <2>4, <2>5 DEF WorkerStep
<1>3. CASE \E u \in User : UserStep(u)
  BY <1>3 DEF UserStep, OpenRead, updatePreference, register
<1>4. CASE \E t \in Token : disable(t)
  BY <1>4 DEF disable
<1>5. CASE UNCHANGED vars
  BY <1>5 DEF vars
<1> QED
  BY <1>1, <1>2, <1>3, <1>4, <1>5 DEF Next

\* A step that writes the row of one recipient, which exists already or belongs
\* to the order history.
LEMMA RowWritten ==
  ASSUME OutboxInv, StatusIsTrue, RowsAreOfAudience,
         NEW k \in Message, NEW u \in User, NEW row \in RecipientRow,
         recipient' = [recipient EXCEPT ![<<k, u>>] = row],
         notification' = notification,
         recipient[<<k, u>>] # None \/ k \notin Event,
         row.status = "SENT" => row.sentAt,
         row.status \in {"READ", "OPENED"} => row.openedAt,
         recipient[<<k, u>>] # None =>
            (recipient[<<k, u>>].sentAt \/ recipient[<<k, u>>].openedAt =>
                row.sentAt \/ row.openedAt)
  PROVE  /\ StatusIsTrue' /\ RowsAreOfAudience' /\ NothingIsTakenBack
         /\ \/ Told' = Told
            \/ k \in Event /\ recipient[<<k, u>>] # None
                 /\ Told' = Told \cup {<<k, u>>}
<1>1. recipient \in [Message \X User -> RecipientRow \cup {None}]
  BY DEF OutboxInv, TypeOK
<1>2. /\ recipient'[<<k, u>>] = row
      /\ \A e \in Event, v \in User :
            <<e, v>> # <<k, u>> => recipient'[<<e, v>>] = recipient[<<e, v>>]
  BY <1>1 DEF Message
<1>3. StatusIsTrue'
  <2> SUFFICES ASSUME NEW e \in Event, NEW v \in User, recipient'[<<e, v>>] # None
               PROVE  /\ recipient'[<<e, v>>].status = "SENT" =>
                            recipient'[<<e, v>>].sentAt
                      /\ recipient'[<<e, v>>].status \in {"READ", "OPENED"} =>
                            recipient'[<<e, v>>].openedAt
    BY DEF StatusIsTrue
  <2>1. CASE <<e, v>> = <<k, u>>
    BY <1>2, <2>1
  <2>2. CASE <<e, v>> # <<k, u>>
    BY <1>2, <2>2 DEF StatusIsTrue
  <2> QED
    BY <2>1, <2>2
<1>4. RowsAreOfAudience'
  <2> SUFFICES ASSUME NEW e \in Event, NEW v \in User, recipient'[<<e, v>>] # None
               PROVE  notification[e] # None /\ v \in notification[e]
    BY DEF RowsAreOfAudience
  <2>1. recipient[<<e, v>>] # None
    BY <1>2
  <2> QED
    BY <2>1 DEF RowsAreOfAudience
<1>5. \A r \in Event \X User : r # <<k, u>> => (r \in Told' <=> r \in Told)
  BY <1>2 DEF Told
<1>6. <<k, u>> \in Told => <<k, u>> \in Told'
  BY <1>2, NoneIsNoRow DEF Told
<1>7. Told \subseteq Event \X User /\ Told' \subseteq Event \X User
  BY DEF Told
<1>8. \/ Told' = Told
      \/ k \in Event /\ recipient[<<k, u>>] # None /\ Told' = Told \cup {<<k, u>>}
  BY <1>5, <1>6, <1>7
<1> QED
  BY <1>3, <1>4, <1>8 DEF NothingIsTakenBack

LEMMA MarkReadTells ==
  ASSUME RefinementInv, NEW u \in User, NEW k \in Message, markRead(k, u)
  PROVE  /\ StatusIsTrue' /\ RowsAreOfAudience' /\ NothingIsTakenBack
         /\ \/ Told' = Told
            \/ k \in Event /\ recipient[<<k, u>>] # None
                 /\ Told' = Told \cup {<<k, u>>}
<1> DEFINE old == recipient[<<k, u>>]
           row == IF old = None THEN Read
                  ELSE [old EXCEPT !.status = "READ", !.readAt = TRUE,
                                   !.openedAt = TRUE]
<1>1. old \in RecipientRow \cup {None}
  BY DEF RefinementInv, OutboxInv, TypeOK
<1>2. row \in RecipientRow /\ row.status = "READ" /\ row.openedAt
  BY <1>1 DEF Read, RecipientRow, RecipientStatus
<1>3. recipient' = [recipient EXCEPT ![<<k, u>>] = row]
  BY DEF markRead, RefinementInv, OutboxInv, TypeOK
<1>4. old # None \/ k \notin Event
  BY OutboxAssumption DEF markRead, LegacyRows
<1> HIDE DEF row
<1> QED
  BY <1>2, <1>3, <1>4, RowWritten DEF markRead, RefinementInv

LEMMA OpenWriteTells ==
  ASSUME RefinementInv, NEW u \in User, OpenWrite(u)
  PROVE  /\ StatusIsTrue' /\ RowsAreOfAudience' /\ NothingIsTakenBack
         /\ \/ Told' = Told
            \/ \E e \in Event : recipient[<<e, u>>] # None
                 /\ Told' = Told \cup {<<e, u>>}
<1>1. opening[u] \in [key : Message, readAt : BOOLEAN]
  BY DEF OpenWrite, RefinementInv, OutboxInv, TypeOK
<1>2. PICK k \in Message : k = opening[u].key
  BY <1>1
<1> DEFINE status == IF opening[u].readAt THEN "READ" ELSE "OPENED"
           old == recipient[<<k, u>>]
           row == [old EXCEPT !.status = status, !.openedAt = TRUE]
<1>3. old \in RecipientRow /\ old # None
  BY <1>2, NoneIsNoRow
     DEF OpenWrite, RefinementInv, OutboxInv, TypeOK, OpeningFits
<1>4. row \in RecipientRow /\ row.status \in {"READ", "OPENED"} /\ row.openedAt
  BY <1>3 DEF RecipientRow, RecipientStatus
<1>5. recipient' = [recipient EXCEPT ![<<k, u>>] = row]
  BY <1>2 DEF OpenWrite, RefinementInv, OutboxInv, TypeOK
<1>6. notification' = notification
  BY DEF OpenWrite
<1> HIDE DEF row
<1> QED
  BY <1>3, <1>4, <1>5, <1>6, RowWritten DEF RefinementInv

LEMMA RecordRecipientTells ==
  ASSUME RefinementInv, NEW w \in Worker, RecordRecipient(w)
  PROVE  /\ StatusIsTrue' /\ RowsAreOfAudience' /\ NothingIsTakenBack
         /\ \E e \in Event, u \in User :
               /\ e = worker[w].key /\ u = worker[w].user
               /\ \/ Told' = Told
                  \/ recipient[<<e, u>>] # None /\ Told' = Told \cup {<<e, u>>}
               /\ worker[w].ok => <<e, u>> \in Told'
<1>1. worker[w] \in Hand /\ worker[w].step = "push"
  BY DEF RefinementInv, OutboxInv, TypeOK, RecordRecipient
<1>2. PICK e \in Event, u \in User : e = worker[w].key /\ u = worker[w].user
  BY <1>1 DEF RefinementInv, OutboxInv, HandsFit, HandFits
<1> DEFINE ok == worker[w].ok
           old == recipient[<<e, u>>]
           row == [old EXCEPT !.status = IF ok THEN "SENT" ELSE "FAILED",
                              !.sentAt = @ \/ ok]
<1>3. old \in RecipientRow /\ old # None /\ <<e, u>> \in Message \X User
  BY <1>1, <1>2, NoneIsNoRow
     DEF RefinementInv, OutboxInv, TypeOK, HandsFit, HandFits, Message
<1>4. /\ row \in RecipientRow /\ (row.status = "SENT" => row.sentAt)
      /\ row.status \notin {"READ", "OPENED"}
      /\ (old.sentAt \/ old.openedAt => row.sentAt \/ row.openedAt)
      /\ (ok => row.sentAt)
  BY <1>1, <1>3 DEF RecipientRow, RecipientStatus, Hand
<1>5. recipient' = [recipient EXCEPT ![<<e, u>>] = row]
  BY <1>2 DEF RecordRecipient, RefinementInv, OutboxInv, TypeOK
<1>6. notification' = notification
  BY DEF RecordRecipient
<1> HIDE DEF row
<1>7. /\ StatusIsTrue' /\ RowsAreOfAudience' /\ NothingIsTakenBack
      /\ \/ Told' = Told
         \/ recipient[<<e, u>>] # None /\ Told' = Told \cup {<<e, u>>}
  BY <1>3, <1>4, <1>5, <1>6, RowWritten DEF RefinementInv, Message
<1>8. ok => <<e, u>> \in Told'
  BY <1>3, <1>4, <1>5, NoneIsNoRow DEF RefinementInv, OutboxInv, TypeOK, Told
<1> QED
  BY <1>2, <1>7, <1>8

\* A row is made only together with the notification.
LEMMA MaterializeTells ==
  ASSUME RefinementInv, NEW w \in Worker, Materialize(w)
  PROVE  StatusIsTrue' /\ RowsAreOfAudience' /\ NothingIsTakenBack /\ Told' = Told
<1>1. PICK e \in worker[w].batch :
        IF notification[e] = None
        THEN /\ notification' = [notification EXCEPT ![e] = Addressed(e)]
             /\ recipient' = [r \in Message \X User |->
                   IF r[1] = e /\ r[2] \in Addressed(e)
                   THEN Queued(Effective(r[2], EventType[e]))
                   ELSE recipient[r]]
        ELSE UNCHANGED <<notification, recipient>>
  BY DEF Materialize
<1>2. e \in Event
  BY DEF RefinementInv, OutboxInv, TypeOK, Hand
<1>3. CASE notification[e] # None
  BY <1>1, <1>3 DEF RefinementInv, StatusIsTrue, RowsAreOfAudience,
                    NothingIsTakenBack, Told
<1>4. CASE notification[e] = None
  <2>1. \A d \in Event, u \in User :
           recipient'[<<d, u>>] =
              IF d = e /\ u \in Addressed(e)
              THEN Queued(Effective(u, EventType[e])) ELSE recipient[<<d, u>>]
    BY <1>1, <1>4 DEF Message
  <2>2. \A u \in User : recipient[<<e, u>>] = None
    BY <1>2, <1>4 DEF RefinementInv, RowsAreOfAudience
  <2>3. \A setting : /\ Queued(setting).status = "QUEUED"
                     /\ ~Queued(setting).sentAt /\ ~Queued(setting).openedAt
    BY DEF Queued
  <2>4. /\ notification'[e] = Addressed(e)
        /\ \A d \in Event : d # e => notification'[d] = notification[d]
    BY <1>1, <1>2, <1>4 DEF RefinementInv, OutboxInv, TypeOK
  <2>5. Addressed(e) # None
    BY OutboxAssumption DEF Addressed, route
  <2>6. StatusIsTrue'
    BY <2>1, <2>3 DEF RefinementInv, StatusIsTrue
  <2>7. RowsAreOfAudience'
    BY <2>1, <2>2, <2>4, <2>5 DEF RefinementInv, RowsAreOfAudience
  <2>8. Told' = Told
    BY <2>1, <2>2, <2>3 DEF Told
  <2> QED
    BY <1>4, <2>4, <2>6, <2>7, <2>8 DEF NothingIsTakenBack
<1> QED
  BY <1>3, <1>4

LEMMA RowsKeep ==
  ASSUME RefinementInv, [Next]_vars
  PROVE  StatusIsTrue' /\ RowsAreOfAudience' /\ NothingIsTakenBack
<1>1. CASE UNCHANGED <<notification, recipient>>
  BY <1>1 DEF RefinementInv, StatusIsTrue, RowsAreOfAudience,
              NothingIsTakenBack, Told
<1> QED
  BY <1>1, RowFrame, MaterializeTells, RecordRecipientTells, OpenWriteTells,
     MarkReadTells

-----------------------------------------------------------------------------
(* What a worker reached *)

LEMMA ReachPersists ==
  ASSUME RefinementInv, NothingIsTakenBack, NEW w \in Worker
  PROVE  HandReached(worker[w], notification', Told')
<1> SUFFICES ASSUME worker[w].step \in {"deliver", "push"}, ~worker[w].failed
             PROVE  \A u \in notification'[worker[w].key] :
                       \/ u \in worker[w].left
                       \/ worker[w].step = "push" /\ u = worker[w].user
                       \/ <<worker[w].key, u>> \in Told'
  BY DEF HandReached
<1>1. worker[w].key \in Event /\ notification[worker[w].key] # None
  BY DEF RefinementInv, OutboxInv, HandsFit, HandFits
<1> QED
  BY <1>1 DEF RefinementInv, Reached, HandReached, NothingIsTakenBack

\* A step of one worker: only its own hand is to be looked at.
LEMMA OneHandReaches ==
  ASSUME RefinementInv, NothingIsTakenBack, NEW w \in Worker,
         \A v \in Worker : v # w => worker'[v] = worker[v],
         HandReached(worker'[w], notification', Told')
  PROVE  Reached'
BY ReachPersists DEF Reached

LEMMA NoHandReaches ==
  ASSUME RefinementInv, NothingIsTakenBack, worker' = worker
  PROVE  Reached'
BY ReachPersists DEF Reached

LEMMA ReadRecipientsReaches ==
  ASSUME RefinementInv, NothingIsTakenBack, NEW w \in Worker, ReadRecipients(w)
  PROVE  Reached'
<1> DEFINE e == worker[w].key
<1>1. worker \in [Worker -> Hand] /\ worker[w].step = "recipients"
  BY DEF ReadRecipients, RefinementInv, OutboxInv, TypeOK
<1>2. e \in Event /\ notification[e] \in SUBSET User /\ notification[e] # None
  BY <1>1 DEF RefinementInv, OutboxInv, TypeOK, HandsFit, HandFits
<1>3. ASSUME NEW u \in notification[e], u \notin Undelivered(e)
      PROVE <<e, u>> \in Told
  <2>1. recipient[<<e, u>>] \in RecipientRow /\ recipient[<<e, u>>] # None
    BY <1>2 DEF RefinementInv, OutboxInv, TypeOK, AudienceHasRows, Message
  <2>2. recipient[<<e, u>>].status \in {"SENT", "READ", "OPENED"}
    BY <1>3, <2>1 DEF Undelivered, RecipientRow, RecipientStatus
  <2> QED
    BY <1>2, <2>1, <2>2 DEF RefinementInv, StatusIsTrue, Told
<1>4. /\ worker'[w].key = e /\ worker'[w].left = Undelivered(e)
      /\ \A v \in Worker : v # w => worker'[v] = worker[v]
  BY <1>1 DEF ReadRecipients, Hand
<1>5. HandReached(worker'[w], notification', Told')
  BY <1>2, <1>3, <1>4 DEF HandReached, NothingIsTakenBack
<1> QED
  BY <1>4, <1>5, OneHandReaches

LEMMA StartRecipientReaches ==
  ASSUME RefinementInv, NothingIsTakenBack, NEW w \in Worker, StartRecipient(w)
  PROVE  Reached'
<1> DEFINE e == worker[w].key
<1>1. worker[w] \in Hand /\ worker[w].step = "deliver"
  BY DEF StartRecipient, RefinementInv, OutboxInv, TypeOK
<1>2. PICK u \in worker[w].left :
        worker' = IF recipient[<<e, u>>].status \in {"READ", "OPENED"}
                  THEN [worker EXCEPT ![w].left = @ \ {u}]
                  ELSE [worker EXCEPT ![w].step = "push",
                                      ![w].left = @ \ {u},
                                      ![w].user = u,
                                      ![w].tokens = PushTargets(e, u),
                                      ![w].ok = PushTargets(e, u) = {}]
  BY DEF StartRecipient
<1>3. e \in Event /\ u \in User /\ recipient[<<e, u>>] # None
  BY <1>1 DEF RefinementInv, OutboxInv, HandsFit, HandFits, Hand
<1>4. \A v \in Worker : v # w => worker'[v] = worker[v]
  BY <1>2 DEF RefinementInv, OutboxInv, TypeOK
<1>5. HandReached(worker[w], notification', Told')
  BY ReachPersists
<1>6. CASE recipient[<<e, u>>].status \in {"READ", "OPENED"}
  <2>1. <<e, u>> \in Told'
    BY <1>3, <1>6 DEF RefinementInv, StatusIsTrue, Told, NothingIsTakenBack
  <2>2. worker'[w] = [worker[w] EXCEPT !.left = @ \ {u}]
    BY <1>2, <1>6 DEF RefinementInv, OutboxInv, TypeOK
  <2>3. HandReached(worker'[w], notification', Told')
    BY <1>1, <1>5, <2>1, <2>2 DEF HandReached, Hand
  <2> QED
    BY <1>4, <2>3, OneHandReaches
<1>7. CASE recipient[<<e, u>>].status \notin {"READ", "OPENED"}
  <2>1. worker'[w] = [worker[w] EXCEPT !.step = "push", !.left = @ \ {u},
                        !.user = u, !.tokens = PushTargets(e, u),
                        !.ok = PushTargets(e, u) = {}]
    BY <1>2, <1>7 DEF RefinementInv, OutboxInv, TypeOK
  <2>2. HandReached(worker'[w], notification', Told')
    BY <1>1, <1>5, <2>1 DEF HandReached, Hand
  <2> QED
    BY <1>4, <2>2, OneHandReaches
<1> QED
  BY <1>6, <1>7

LEMMA RecordRecipientReaches ==
  ASSUME RefinementInv, NEW w \in Worker, RecordRecipient(w)
  PROVE  Reached'
<1>1. NothingIsTakenBack
  BY RecordRecipientTells
<1>2. worker[w] \in Hand /\ worker[w].step = "push"
  BY DEF RecordRecipient, RefinementInv, OutboxInv, TypeOK
<1>3. worker[w].ok => <<worker[w].key, worker[w].user>> \in Told'
  BY RecordRecipientTells
<1>4. worker' = [worker EXCEPT ![w].step = "deliver",
                    ![w].failed = @ \/ ~worker[w].ok,
                    ![w].user = None, ![w].ok = FALSE]
  BY DEF RecordRecipient
<1>5. worker'[w] = [worker[w] EXCEPT !.step = "deliver",
                       !.failed = @ \/ ~worker[w].ok, !.user = None, !.ok = FALSE]
      /\ \A v \in Worker : v # w => worker'[v] = worker[v]
  BY <1>4 DEF RefinementInv, OutboxInv, TypeOK
<1>6. HandReached(worker[w], notification', Told')
  BY <1>1, ReachPersists
<1>7. HandReached(worker'[w], notification', Told')
  BY <1>2, <1>3, <1>5, <1>6 DEF HandReached, Hand
<1> QED
  BY <1>1, <1>5, <1>7, OneHandReaches

\* The steps that leave the recipients in hand as they are, or drop them all.
LEMMA OtherWorkerReaches ==
  ASSUME RefinementInv, NothingIsTakenBack, NEW w \in Worker,
         \/ RecoverStale(w) \/ FindCandidates(w) \/ Claim(w) \/ Materialize(w)
         \/ SendPush(w) \/ RecordAttempt(w) \/ AttemptCollides(w)
         \/ MarkEvent(w) \/ EndBatch(w) \/ Crash(w)
  PROVE  Reached'
<1>1. worker \in [Worker -> Hand] /\ worker[w] \in Hand
  BY DEF RefinementInv, OutboxInv, TypeOK
<1>2. HandReached(worker[w], notification', Told')
  BY ReachPersists
<1>3. CASE RecoverStale(w)
  BY <1>1, <1>3, OneHandReaches DEF RecoverStale, HandReached, Hand
<1>4. CASE FindCandidates(w)
  BY <1>1, <1>4, OneHandReaches DEF FindCandidates, HandReached, Hand
<1>5. CASE Claim(w)
  <2>1. /\ worker'[w].step \in {"claim", "work"}
        /\ \A v \in Worker : v # w => worker'[v] = worker[v]
    <3>1. PICK c \in worker[w].todo :
            worker' = [worker EXCEPT
                ![w].todo = @ \ {c},
                ![w].batch = IF ClaimSucceeds(c) THEN @ \cup {c.key} ELSE @,
                ![w].step = IF worker[w].todo = {c} THEN "work" ELSE @]
      BY <1>5 DEF Claim
    <3>2. worker'[w] = [worker[w] EXCEPT
                !.todo = @ \ {c},
                !.batch = IF ClaimSucceeds(c) THEN @ \cup {c.key} ELSE @,
                !.step = IF worker[w].todo = {c} THEN "work" ELSE @]
          /\ \A v \in Worker : v # w => worker'[v] = worker[v]
      BY <1>1, <3>1
    <3>3. worker[w].step = "claim"
      BY <1>5 DEF Claim
    <3> QED
      BY <1>1, <3>2, <3>3 DEF Hand
  <2>2. HandReached(worker'[w], notification', Told')
    BY <2>1 DEF HandReached
  <2> QED
    BY <2>1, <2>2, OneHandReaches
<1>6. CASE Materialize(w)
  <2>1. /\ worker'[w].step = "recipients"
        /\ \A v \in Worker : v # w => worker'[v] = worker[v]
    <3>1. PICK e \in worker[w].batch :
            worker' = [worker EXCEPT ![w].step = "recipients",
                                     ![w].key = e, ![w].batch = @ \ {e}]
      BY <1>6 DEF Materialize
    <3>2. worker'[w] = [worker[w] EXCEPT !.step = "recipients", !.key = e,
                                         !.batch = @ \ {e}]
          /\ \A v \in Worker : v # w => worker'[v] = worker[v]
      BY <1>1, <3>1
    <3> QED
      BY <1>1, <3>2 DEF Hand
  <2>2. HandReached(worker'[w], notification', Told')
    BY <2>1 DEF HandReached
  <2> QED
    BY <2>1, <2>2, OneHandReaches
<1>7. CASE SendPush(w)
  <2>1. /\ \A v \in Worker : v # w => worker'[v] = worker[v]
        /\ worker'[w].step = worker[w].step /\ worker'[w].key = worker[w].key
        /\ worker'[w].left = worker[w].left /\ worker'[w].user = worker[w].user
        /\ worker'[w].failed = worker[w].failed
    <3>1. PICK t \in worker[w].tokens, outcome \in Outcomes :
            worker' = [worker EXCEPT ![w].tokens = @ \ {t},
               ![w].sent = [token |-> t,
                  number |-> attempt[<<worker[w].key, worker[w].user, t>>] + 1,
                  outcome |-> outcome]]
      BY <1>7 DEF SendPush
    <3> DEFINE sent == [token |-> t,
                  number |-> attempt[<<worker[w].key, worker[w].user, t>>] + 1,
                  outcome |-> outcome]
    <3>2. worker' = [worker EXCEPT ![w].tokens = @ \ {t}, ![w].sent = sent]
      BY <3>1
    <3> HIDE DEF sent
    <3>3. worker'[w] = [worker[w] EXCEPT !.tokens = @ \ {t}, !.sent = sent]
          /\ \A v \in Worker : v # w => worker'[v] = worker[v]
      BY <1>1, <3>2
    <3> QED
      BY <1>1, <3>3 DEF Hand
  <2>2. HandReached(worker'[w], notification', Told')
    BY <1>2, <2>1 DEF HandReached
  <2> QED
    BY <2>1, <2>2, OneHandReaches
<1>8. CASE RecordAttempt(w)
  BY <1>1, <1>2, <1>8, OneHandReaches DEF RecordAttempt, HandReached, Hand
<1>9. CASE AttemptCollides(w)
  BY <1>1, <1>9, OneHandReaches DEF AttemptCollides, HandReached, Hand
<1>10. CASE MarkEvent(w)
  BY <1>1, <1>10, OneHandReaches DEF MarkEvent, HandReached, Hand
<1>11. CASE EndBatch(w)
  BY <1>1, <1>11, OneHandReaches DEF EndBatch, HandReached, Hand
<1>12. CASE Crash(w)
  BY <1>1, <1>12, OneHandReaches DEF Crash, Idle, HandReached
<1> QED
  BY <1>3, <1>4, <1>5, <1>6, <1>7, <1>8, <1>9, <1>10, <1>11, <1>12

LEMMA ReachedKeeps ==
  ASSUME RefinementInv, [Next]_vars
  PROVE  Reached'
<1>1. NothingIsTakenBack
  BY RowsKeep
<1>2. CASE \E w \in Worker : WorkerStep(w) \/ Crash(w)
  BY <1>1, <1>2, OtherWorkerReaches, ReadRecipientsReaches,
     StartRecipientReaches, RecordRecipientReaches DEF WorkerStep
<1>3. CASE \/ \E e \in Event :
                 enqueueOutboxEvent(e) \/ DelayPasses(e) \/ LeaseExpires(e)
           \/ \E u \in User : UserStep(u)
           \/ \E t \in Token : disable(t)
           \/ UNCHANGED vars
  <2>1. worker' = worker
    BY <1>3 DEF enqueueOutboxEvent, DelayPasses, LeaseExpires, UserStep,
       markRead, OpenRead, OpenWrite, updatePreference, register, disable, vars
  <2> QED
    BY <1>1, <2>1, NoHandReaches
<1> QED
  BY <1>2, <1>3 DEF Next

-----------------------------------------------------------------------------
(* Who has an event *)

\* A step that gives nobody an event, and leaves the status and the lease of
\* every event in work as they are.
LEMMA HoldingsShrink ==
  ASSUME RefinementInv, late' = 0 => late = 0,
         \A w \in Worker, e \in Event : Owns(w, e)' => Owns(w, e),
         \A w \in Worker, e \in Event :
            e \in worker'[w].batch /\ e = worker'[w].key =>
               e \in worker[w].batch /\ e = worker[w].key,
         \A w \in Worker, e \in Event :
            late' = 0 /\ Owns(w, e)' /\ event[e] # None =>
               event'[e] # None /\ event'[e].status = event[e].status
                 /\ event'[e].lease = event[e].lease
  PROVE  Exclusive'
<1> SUFFICES ASSUME late' = 0, NEW w \in Worker, NEW e \in Event, Owns(w, e)'
             PROVE  /\ event'[e] # None
                    /\ event'[e].status = "PROCESSING"
                    /\ event'[e].lease = "fresh"
                    /\ ~(e \in worker'[w].batch /\ e = worker'[w].key)
                    /\ \A v \in Worker : Owns(v, e)' => v = w
  BY DEF Exclusive
<1>1. late = 0 /\ Owns(w, e)
  OBVIOUS
<1>2. /\ event[e] # None
      /\ event[e].status = "PROCESSING" /\ event[e].lease = "fresh"
      /\ ~(e \in worker[w].batch /\ e = worker[w].key)
      /\ \A v \in Worker : Owns(v, e) => v = w
  BY <1>1 DEF RefinementInv, Exclusive
<1> QED
  BY <1>2

SameHoldings ==
    \A w \in Worker : worker'[w].batch = worker[w].batch
                         /\ worker'[w].key = worker[w].key

LEMMA HoldingsKept ==
  ASSUME RefinementInv, late' = 0 => late = 0, SameHoldings,
         \A w \in Worker, e \in Event :
            late' = 0 /\ Owns(w, e) /\ event[e] # None =>
               event'[e] # None /\ event'[e].status = event[e].status
                 /\ event'[e].lease = event[e].lease
  PROVE  Exclusive'
<1>1. \A w \in Worker, e \in Event : Owns(w, e)' <=> Owns(w, e)
  BY DEF Owns, SameHoldings
<1>2. \A w \in Worker, e \in Event :
         e \in worker'[w].batch /\ e = worker'[w].key =>
            e \in worker[w].batch /\ e = worker[w].key
  BY DEF SameHoldings
<1> QED
  BY <1>1, <1>2, HoldingsShrink

LEMMA EventStepExclusive ==
  ASSUME RefinementInv, NEW e \in Event,
         enqueueOutboxEvent(e) \/ DelayPasses(e) \/ LeaseExpires(e)
  PROVE  Exclusive'
<1>1. event \in [Event -> EventRow \cup {None}] /\ late \in Nat
  BY DEF RefinementInv, OutboxInv, TypeOK
<1>2. SameHoldings
  BY DEF enqueueOutboxEvent, DelayPasses, LeaseExpires, SameHoldings
<1>3. CASE enqueueOutboxEvent(e)
  <2>1. \A d \in Event : event[d] # None => event'[d] = event[d]
    BY <1>1, <1>3 DEF enqueueOutboxEvent
  <2> QED
    BY <1>2, <1>3, <2>1, HoldingsKept DEF enqueueOutboxEvent
<1>4. CASE DelayPasses(e)
  <2> DEFINE row == [event[e] EXCEPT !.due = TRUE]
  <2>1. event[e] \in EventRow
    BY <1>1, <1>4 DEF DelayPasses
  <2>2. row \in EventRow /\ row.status = event[e].status
        /\ row.lease = event[e].lease
    BY <2>1 DEF EventRow
  <2>3. event' = [event EXCEPT ![e] = row]
    BY <1>4 DEF DelayPasses
  <2> HIDE DEF row
  <2>4. \A d \in Event : event[d] # None =>
           event'[d] # None /\ event'[d].status = event[d].status
             /\ event'[d].lease = event[d].lease
    BY <1>1, <2>2, <2>3, NoneIsNoRow
  <2> QED
    BY <1>2, <1>4, <2>4, HoldingsKept DEF DelayPasses
<1>5. CASE LeaseExpires(e)
  <2>1. \A d \in Event : d # e => event'[d] = event[d]
    BY <1>1, <1>5 DEF LeaseExpires
  <2>2. late' = 0 => late = 0 /\ \A w \in Worker : ~Owns(w, e)
    BY <1>1, <1>5 DEF LeaseExpires
  <2> QED
    BY <1>2, <2>1, <2>2, HoldingsKept
<1> QED
  BY <1>3, <1>4, <1>5

LEMMA RecoverStaleExclusive ==
  ASSUME RefinementInv, NEW w \in Worker, RecoverStale(w)
  PROVE  Exclusive'
<1>1. SameHoldings
  BY DEF RecoverStale, SameHoldings, RefinementInv, OutboxInv, TypeOK, Hand
<1>2. late' = late
  BY DEF RecoverStale
<1>3. ASSUME NEW v \in Worker, NEW e \in Event, late' = 0, Owns(v, e)
      PROVE  event'[e] = event[e]
  <2>1. ~Stale(event[e])
    BY <1>2, <1>3 DEF RefinementInv, Exclusive, Stale
  <2> QED
    BY <2>1 DEF RecoverStale
<1> QED
  BY <1>1, <1>2, <1>3, HoldingsKept

LEMMA ClaimExclusive ==
  ASSUME RefinementInv, NEW w \in Worker, Claim(w)
  PROVE  Exclusive'
<1>1. PICK c \in worker[w].todo :
        /\ event' = IF ClaimSucceeds(c)
                    THEN [event EXCEPT ![c.key] = Claimed(@)] ELSE event
        /\ worker' = [worker EXCEPT
              ![w].todo = @ \ {c},
              ![w].batch = IF ClaimSucceeds(c) THEN @ \cup {c.key} ELSE @,
              ![w].step = IF worker[w].todo = {c} THEN "work" ELSE @]
  BY DEF Claim
<1>2. /\ worker \in [Worker -> Hand]
      /\ event \in [Event -> EventRow \cup {None}]
  BY DEF RefinementInv, OutboxInv, TypeOK
<1>3. c.key \in Event /\ event[c.key] # None
  BY <1>2 DEF RefinementInv, OutboxInv, HandsFit, HandFits, Hand, Candidate
<1>4. /\ worker'[w] = [worker[w] EXCEPT
              !.todo = @ \ {c},
              !.batch = IF ClaimSucceeds(c) THEN @ \cup {c.key} ELSE @,
              !.step = IF worker[w].todo = {c} THEN "work" ELSE @]
      /\ \A v \in Worker : v # w => worker'[v] = worker[v]
  BY <1>1, <1>2
<1>5. late' = late
  BY DEF Claim
<1>6. CASE ~ClaimSucceeds(c)
  <2>1. SameHoldings
    <3>1. worker[w] \in Hand /\ worker'[w].batch = worker[w].batch
            /\ worker'[w].key = worker[w].key
      BY <1>2, <1>4, <1>6 DEF Hand
    <3> QED
      BY <1>4, <3>1 DEF SameHoldings
  <2> QED
    BY <1>1, <1>5, <1>6, <2>1, HoldingsKept
<1>7. CASE ClaimSucceeds(c)
  <2> DEFINE e == c.key
  <2>1. late = 0 => \A v \in Worker : ~Owns(v, e)
    BY <1>3, <1>7 DEF RefinementInv, Exclusive, ClaimSucceeds, Claimable
  <2>2. /\ worker'[w].batch = worker[w].batch \cup {e}
        /\ worker'[w].key = worker[w].key
    BY <1>2, <1>4, <1>7 DEF Hand
  <2>3. event[e] \in EventRow
    BY <1>2, <1>3
  <2>4. /\ Claimed(event[e]) \in EventRow
        /\ Claimed(event[e]).status = "PROCESSING"
        /\ Claimed(event[e]).lease = "fresh"
    BY <2>3, ClaimedRow DEF Claimed, EventRow
  <2>5. /\ event'[e] # None
        /\ event'[e].status = "PROCESSING" /\ event'[e].lease = "fresh"
        /\ \A d \in Event : d # e => event'[d] = event[d]
    BY <1>1, <1>2, <1>3, <1>7, <2>4, NoneIsNoRow
  <2>6. \A v \in Worker, d \in Event :
           Owns(v, d)' <=> Owns(v, d) \/ (v = w /\ d = e)
    BY <1>4, <2>2 DEF Owns
  <2> HIDE DEF e
  <2>7. ASSUME late = 0, NEW v \in Worker, NEW d \in Event, Owns(v, d)'
        PROVE  /\ event'[d] # None
               /\ event'[d].status = "PROCESSING" /\ event'[d].lease = "fresh"
               /\ ~(d \in worker'[v].batch /\ d = worker'[v].key)
               /\ \A x \in Worker : Owns(x, d)' => x = v
    <3>1. CASE d = e
      BY <2>1, <2>2, <2>5, <2>6, <2>7, <3>1 DEF Owns
    <3>2. CASE d # e
      <4>1. Owns(v, d)
        BY <2>6, <2>7, <3>2
      <4>2. ~(d \in worker[v].batch /\ d = worker[v].key)
        BY <2>7, <4>1 DEF RefinementInv, Exclusive
      <4>3. ~(d \in worker'[v].batch /\ d = worker'[v].key)
        BY <1>4, <2>2, <3>2, <4>2
      <4> QED
        BY <2>5, <2>6, <2>7, <3>2, <4>1, <4>3 DEF RefinementInv, Exclusive
    <3> QED
      BY <3>1, <3>2
  <2> QED
    BY <1>5, <2>7 DEF Exclusive
<1> QED
  BY <1>6, <1>7

LEMMA MaterializeExclusive ==
  ASSUME RefinementInv, NEW w \in Worker, Materialize(w)
  PROVE  Exclusive'
<1>1. PICK e \in worker[w].batch :
        worker' = [worker EXCEPT ![w].step = "recipients",
                                 ![w].key = e, ![w].batch = @ \ {e}]
  BY DEF Materialize
<1>2. worker \in [Worker -> Hand] /\ e \in Event
  BY DEF RefinementInv, OutboxInv, TypeOK, Hand
<1>3. /\ worker'[w] = [worker[w] EXCEPT !.step = "recipients", !.key = e,
                                        !.batch = @ \ {e}]
      /\ \A v \in Worker : v # w => worker'[v] = worker[v]
  BY <1>1, <1>2
<1>4. worker'[w].key = e /\ worker'[w].batch = worker[w].batch \ {e}
  BY <1>2, <1>3 DEF Hand
<1>5. \A v \in Worker, d \in Event : Owns(v, d)' => Owns(v, d)
  BY <1>3, <1>4 DEF Owns
<1>6. \A v \in Worker, d \in Event :
         d \in worker'[v].batch /\ d = worker'[v].key =>
            d \in worker[v].batch /\ d = worker[v].key
  BY <1>3, <1>4
<1> QED
  BY <1>5, <1>6, HoldingsShrink DEF Materialize

LEMMA MarkEventExclusive ==
  ASSUME RefinementInv, NEW w \in Worker, MarkEvent(w)
  PROVE  Exclusive'
<1> DEFINE e == worker[w].key
<1>1. /\ worker \in [Worker -> Hand]
      /\ event \in [Event -> EventRow \cup {None}] /\ late' = late
  BY DEF MarkEvent, RefinementInv, OutboxInv, TypeOK
<1>2. /\ worker'[w] = [worker[w] EXCEPT !.step = "work", !.key = None,
                                        !.failed = FALSE]
      /\ \A v \in Worker : v # w => worker'[v] = worker[v]
  BY <1>1 DEF MarkEvent
<1>3. worker'[w].key = None /\ worker'[w].batch = worker[w].batch
  BY <1>1, <1>2 DEF Hand
<1>4. \A v \in Worker, d \in Event : Owns(v, d)' => Owns(v, d)
  BY <1>2, <1>3, NoneIsNoRow DEF Owns
<1>5. \A v \in Worker, d \in Event :
         d \in worker'[v].batch /\ d = worker'[v].key =>
            d \in worker[v].batch /\ d = worker[v].key
  BY <1>2, <1>3, NoneIsNoRow
<1>6. ASSUME NEW v \in Worker, NEW d \in Event, late' = 0, Owns(v, d)'
      PROVE  event'[d] = event[d]
  <2>1. e \in Event /\ Owns(w, e)
    BY DEF MarkEvent, RefinementInv, OutboxInv, HandsFit, HandFits, Owns
  <2>2. d # e
    <3> SUFFICES ASSUME d = e PROVE FALSE
      OBVIOUS
    <3>1. v = w /\ e \notin worker[w].batch
      BY <1>1, <1>4, <1>6, <2>1 DEF RefinementInv, Exclusive
    <3> QED
      BY <1>3, <1>6, <2>1, <3>1, NoneIsNoRow DEF Owns
  <2> QED
    BY <1>1, <2>2 DEF MarkEvent
<1> QED
  BY <1>1, <1>4, <1>5, <1>6, HoldingsShrink

LEMMA CrashExclusive ==
  ASSUME RefinementInv, NEW w \in Worker, Crash(w)
  PROVE  Exclusive'
<1>1. /\ worker'[w] = Idle
      /\ \A v \in Worker : v # w => worker'[v] = worker[v]
  BY DEF Crash, RefinementInv, OutboxInv, TypeOK
<1>2. \A v \in Worker, d \in Event : Owns(v, d)' => Owns(v, d)
  BY <1>1, NoneIsNoRow DEF Owns, Idle
<1>3. \A v \in Worker, d \in Event :
         d \in worker'[v].batch /\ d = worker'[v].key =>
            d \in worker[v].batch /\ d = worker[v].key
  BY <1>1 DEF Idle
<1> QED
  BY <1>2, <1>3, HoldingsShrink DEF Crash

\* The steps of a worker that neither take nor drop an event.
LEMMA DeliveryExclusive ==
  ASSUME RefinementInv, NEW w \in Worker,
         \/ FindCandidates(w) \/ ReadRecipients(w) \/ StartRecipient(w)
         \/ SendPush(w) \/ RecordAttempt(w) \/ AttemptCollides(w)
         \/ RecordRecipient(w) \/ EndBatch(w)
  PROVE  Exclusive'
<1>1. worker \in [Worker -> Hand]
  BY DEF RefinementInv, OutboxInv, TypeOK
<1>2. SameHoldings
  <2>1. CASE FindCandidates(w)
    BY <1>1, <2>1 DEF FindCandidates, SameHoldings, Hand
  <2>2. CASE ReadRecipients(w)
    BY <1>1, <2>2 DEF ReadRecipients, SameHoldings, Hand
  <2>3. CASE StartRecipient(w)
    <3>1. PICK u \in worker[w].left :
            \/ worker' = [worker EXCEPT ![w].left = @ \ {u}]
            \/ worker' = [worker EXCEPT ![w].step = "push",
                             ![w].left = @ \ {u}, ![w].user = u,
                             ![w].tokens = PushTargets(worker[w].key, u),
                             ![w].ok = PushTargets(worker[w].key, u) = {}]
      BY <2>3 DEF StartRecipient
    <3> QED
      BY <1>1, <3>1 DEF SameHoldings, Hand
  <2>4. CASE SendPush(w)
    <3>1. PICK t, sent :
            worker' = [worker EXCEPT ![w].tokens = @ \ {t}, ![w].sent = sent]
      BY <2>4 DEF SendPush
    <3> QED
      BY <1>1, <3>1 DEF SameHoldings, Hand
  <2>5. CASE RecordAttempt(w)
    BY <1>1, <2>5 DEF RecordAttempt, SameHoldings, Hand
  <2>6. CASE AttemptCollides(w)
    BY <1>1, <2>6 DEF AttemptCollides, SameHoldings, Hand
  <2>7. CASE RecordRecipient(w)
    BY <1>1, <2>7 DEF RecordRecipient, SameHoldings, Hand
  <2>8. CASE EndBatch(w)
    BY <1>1, <2>8 DEF EndBatch, SameHoldings, Hand
  <2> QED
    BY <2>1, <2>2, <2>3, <2>4, <2>5, <2>6, <2>7, <2>8
<1>3. UNCHANGED <<event, late>>
  BY DEF FindCandidates, ReadRecipients, StartRecipient, SendPush,
         RecordAttempt, AttemptCollides, RecordRecipient, EndBatch
<1> QED
  BY <1>2, <1>3, HoldingsKept

LEMMA ExclusiveKeeps ==
  ASSUME RefinementInv, [Next]_vars
  PROVE  Exclusive'
<1>1. CASE \E e \in Event :
             enqueueOutboxEvent(e) \/ DelayPasses(e) \/ LeaseExpires(e)
  BY <1>1, EventStepExclusive
<1>2. CASE \E w \in Worker : WorkerStep(w) \/ Crash(w)
  BY <1>2, RecoverStaleExclusive, ClaimExclusive, MaterializeExclusive,
     MarkEventExclusive, CrashExclusive, DeliveryExclusive DEF WorkerStep
<1>3. CASE \/ \E u \in User : UserStep(u)
           \/ \E t \in Token : disable(t)
           \/ UNCHANGED vars
  <2>1. UNCHANGED <<worker, event, late>>
    BY <1>3 DEF UserStep, markRead, OpenRead, OpenWrite, updatePreference,
                register, disable, vars
  <2> QED
    BY <2>1, HoldingsKept DEF SameHoldings
<1> QED
  BY <1>1, <1>2, <1>3 DEF Next

LEMMA RefinementInvKeeps == RefinementInv /\ [Next]_vars => RefinementInv'
<1> SUFFICES ASSUME RefinementInv, [Next]_vars PROVE RefinementInv'
  OBVIOUS
<1>1. OutboxInv'
  BY NextKeeps DEF RefinementInv
<1>2. StatusIsTrue' /\ RowsAreOfAudience'
  BY RowsKeep
<1>3. Reached' /\ Exclusive'
  BY ReachedKeeps, ExclusiveKeeps
<1> QED
  BY <1>1, <1>2, <1>3 DEF RefinementInv

-----------------------------------------------------------------------------
(* The steps of the contract *)

\* The contract's picture of the events.
States == [e \in Event |-> StateOf(e)]

LEMMA StateOfRow ==
  ASSUME OutboxInv, NEW e \in Event
  PROVE  /\ event[e] = None => StateOf(e) = "none"
         /\ event[e] # None =>
              /\ event[e].status \in {"PENDING", "FAILED"} <=>
                    StateOf(e) = "waiting"
              /\ event[e].status = "PROCESSING" <=> StateOf(e) = "taken"
              /\ event[e].status = "PROCESSED" <=> StateOf(e) = "done"
              /\ StateOf(e) # "none"
<1>1. event[e] \in EventRow \cup {None}
  BY DEF OutboxInv, TypeOK
<1> QED
  BY <1>1 DEF StateOf, EventRow, EventStatus

\* A step that writes one event's row.
LEMMA StateMoves ==
  ASSUME NEW e \in Event, \A d \in Event : d # e => event'[d] = event[d]
  PROVE  States' = [States EXCEPT ![e] = StateOf(e)']
<1>1. \A d \in Event : d # e => StateOf(d)' = StateOf(d)
  BY DEF StateOf
<1> QED
  BY <1>1 DEF States

LEMMA InitRefines == Init => Promise!ContractInit
<1> SUFFICES ASSUME Init PROVE Promise!ContractInit
  OBVIOUS
<1>1. [e \in Event |-> StateOf(e)] = [e \in Event |-> "none"]
  BY DEF Init, StateOf
<1>2. Told = {}
  BY DEF Init, Told, Message
<1> QED
  BY <1>1, <1>2 DEF Init, Promise!ContractInit

\* A step that changes nothing the contract sees.
LEMMA Unseen ==
  ASSUME UNCHANGED <<event, notification, recipient, late>>
  PROVE  UNCHANGED Promise!contractVars
BY DEF Promise!contractVars, StateOf, Told

LEMMA EnqueueRefines ==
  ASSUME RefinementInv, NEW e \in Event, enqueueOutboxEvent(e)
  PROVE  Promise!Submit(e)
<1>1. event \in [Event -> EventRow \cup {None}]
  BY DEF RefinementInv, OutboxInv, TypeOK
<1> DEFINE row == [status |-> "PENDING", attempts |-> 0, due |-> TRUE,
                   lease |-> "none"]
<1>2. row \in EventRow /\ row.status = "PENDING"
  BY DEF EventRow, EventStatus, Lease
<1>3. event' = [event EXCEPT ![e] = row]
  BY DEF enqueueOutboxEvent
<1> HIDE DEF row
<1>4. StateOf(e)' = "waiting"
  BY <1>1, <1>2, <1>3, NoneIsNoRow DEF StateOf
<1>5. States' = [States EXCEPT ![e] = "waiting"]
  BY <1>1, <1>3, <1>4, StateMoves
<1>6. StateOf(e) = "none"
  BY DEF enqueueOutboxEvent, StateOf
<1> QED
  BY <1>5, <1>6 DEF Promise!Submit, States, enqueueOutboxEvent, Told

LEMMA DelayPassesRefines ==
  ASSUME RefinementInv, NEW e \in Event, DelayPasses(e)
  PROVE  UNCHANGED Promise!contractVars
<1>1. event \in [Event -> EventRow \cup {None}]
  BY DEF RefinementInv, OutboxInv, TypeOK
<1> DEFINE row == [event[e] EXCEPT !.due = TRUE]
<1>2. event[e] \in EventRow /\ row \in EventRow /\ row.status = event[e].status
  BY <1>1 DEF DelayPasses, EventRow
<1>3. event' = [event EXCEPT ![e] = row]
  BY DEF DelayPasses
<1> HIDE DEF row
<1>4. \A d \in Event : StateOf(d)' = StateOf(d)
  BY <1>1, <1>2, <1>3, NoneIsNoRow DEF StateOf
<1> QED
  BY <1>4 DEF Promise!contractVars, DelayPasses, Told

LEMMA LeaseExpiresRefines ==
  ASSUME RefinementInv, NEW e \in Event, LeaseExpires(e)
  PROVE  Promise!Overtake \/ UNCHANGED Promise!contractVars
<1>1. event \in [Event -> EventRow \cup {None}] /\ late \in Nat
  BY DEF RefinementInv, OutboxInv, TypeOK
<1> DEFINE row == [event[e] EXCEPT !.lease = "stale"]
<1>2. event[e] \in EventRow /\ row \in EventRow /\ row.status = event[e].status
  BY <1>1 DEF LeaseExpires, EventRow, Lease
<1>3. event' = [event EXCEPT ![e] = row]
  BY DEF LeaseExpires
<1> HIDE DEF row
<1>4. \A d \in Event : StateOf(d)' = StateOf(d)
  BY <1>1, <1>2, <1>3, NoneIsNoRow DEF StateOf
<1>5. UNCHANGED <<[d \in Event |-> StateOf(d)], notification, Told>>
  BY <1>4 DEF LeaseExpires, Told
<1>6. CASE late' = late + 1
  <2>1. late' > 0
    BY <1>1, <1>6
  <2> QED
    BY <1>5, <2>1 DEF Promise!Overtake
<1>7. CASE late' = late
  BY <1>5, <1>7 DEF Promise!contractVars
<1> QED
  BY <1>6, <1>7 DEF LeaseExpires

LEMMA RecoverStaleRefines ==
  ASSUME RefinementInv, NEW w \in Worker, RecoverStale(w)
  PROVE  \E group \in SUBSET Event : Promise!GiveBack(group)
<1> DEFINE group == {e \in Event : event[e] # None /\ Stale(event[e])}
<1>1. event \in [Event -> EventRow \cup {None}]
  BY DEF RefinementInv, OutboxInv, TypeOK
<1>2. \A e \in group : StateOf(e) = "taken"
  BY StateOfRow DEF RefinementInv, Stale
<1>3. ASSUME NEW e \in Event
      PROVE  StateOf(e)' = IF e \in group THEN "waiting" ELSE StateOf(e)
  <2>1. CASE e \in group
    <3> DEFINE row == [event[e] EXCEPT !.status = "FAILED", !.due = TRUE,
                                       !.lease = "none"]
    <3>1. event'[e] = row
      BY <2>1 DEF RecoverStale
    <3>2. row \in EventRow /\ row.status = "FAILED"
      BY <1>1, <2>1 DEF EventRow, EventStatus, Lease
    <3> HIDE DEF row
    <3> QED
      BY <2>1, <3>1, <3>2, NoneIsNoRow DEF StateOf
  <2>2. CASE e \notin group
    <3>1. event'[e] = event[e]
      BY <2>2 DEF RecoverStale
    <3> QED
      BY <2>2, <3>1 DEF StateOf
  <2> QED
    BY <2>1, <2>2
<1>4. UNCHANGED <<notification, Told, late>>
  BY DEF RecoverStale, Told
<1> HIDE DEF group
<1>5. Promise!GiveBack(group)
  BY <1>2, <1>3, <1>4 DEF Promise!GiveBack, Promise!InHand, group
<1> QED
  BY <1>5 DEF group

LEMMA ClaimRefines ==
  ASSUME RefinementInv, NEW w \in Worker, Claim(w)
  PROVE  (\E e \in Event : Promise!Take(e)) \/ UNCHANGED Promise!contractVars
<1>1. PICK c \in worker[w].todo :
        event' = IF ClaimSucceeds(c)
                 THEN [event EXCEPT ![c.key] = Claimed(@)] ELSE event
  BY DEF Claim
<1>2. event \in [Event -> EventRow \cup {None}] /\ worker[w] \in Hand
  BY DEF RefinementInv, OutboxInv, TypeOK
<1>3. c.key \in Event /\ event[c.key] # None
  BY <1>2 DEF RefinementInv, OutboxInv, HandsFit, HandFits, Hand, Candidate
<1>4. UNCHANGED <<notification, recipient, late>>
  BY DEF Claim
<1>5. CASE ~ClaimSucceeds(c)
  BY <1>1, <1>4, <1>5, Unseen
<1>6. CASE ClaimSucceeds(c)
  <2>1. PICK e \in Event : e = c.key
    BY <1>3
  <2>2. event[e] \in EventRow
    BY <1>2, <1>3, <2>1
  <2>3. Claimed(event[e]) \in EventRow
        /\ Claimed(event[e]).status = "PROCESSING"
    BY <2>2, ClaimedRow DEF Claimed, EventRow
  <2>4. event' = [event EXCEPT ![e] = Claimed(event[e])]
    BY <1>1, <1>6, <2>1
  <2>5. StateOf(e)' = "taken"
    BY <1>2, <2>3, <2>4, NoneIsNoRow DEF StateOf
  <2>6. States' = [States EXCEPT ![e] = "taken"]
    BY <1>2, <2>4, <2>5, StateMoves
  <2>7. StateOf(e) = "waiting"
    BY <1>3, <1>6, <2>1, StateOfRow DEF RefinementInv, ClaimSucceeds, Claimable
  <2>8. Promise!Take(e)
    BY <1>4, <2>6, <2>7 DEF Promise!Take, States, Told
  <2> QED
    BY <2>8
<1> QED
  BY <1>5, <1>6

\* Until a lease is lost, an event a worker has is taken; after that it is at
\* least there.
LEMMA OwnedIsInHand ==
  ASSUME RefinementInv, NEW w \in Worker, NEW e \in Event, Owns(w, e),
         event[e] # None
  PROVE  Promise!InHand(e)
<1>1. late \in Nat
  BY DEF RefinementInv, OutboxInv, TypeOK
<1>2. CASE late = 0
  <2>1. StateOf(e) = "taken"
    BY <1>2, StateOfRow DEF RefinementInv, Exclusive
  <2> QED
    BY <2>1 DEF Promise!InHand
<1>3. CASE late > 0
  <2>1. StateOf(e) # "none"
    BY StateOfRow DEF RefinementInv
  <2> QED
    BY <1>3, <2>1 DEF Promise!InHand
<1> QED
  BY <1>1, <1>2, <1>3

LEMMA MaterializeRefines ==
  ASSUME RefinementInv, NEW w \in Worker, Materialize(w)
  PROVE  (\E e \in Event : \E group \in SUBSET User : Promise!Address(e, group))
         \/ UNCHANGED Promise!contractVars
<1>1. PICK e \in worker[w].batch :
        IF notification[e] = None
        THEN notification' = [notification EXCEPT ![e] = Addressed(e)]
        ELSE UNCHANGED <<notification, recipient>>
  BY DEF Materialize
<1>2. e \in Event /\ event[e] # None /\ Owns(w, e)
  BY DEF RefinementInv, OutboxInv, TypeOK, Hand, HandsFit, HandFits, Owns
<1>3. UNCHANGED <<event, late>>
  BY DEF Materialize
<1>4. CASE notification[e] # None
  BY <1>1, <1>3, <1>4, Unseen
<1>5. CASE notification[e] = None
  <2>1. Told' = Told
    BY MaterializeTells
  <2>2. Addressed(e) \in SUBSET User
    BY DEF Addressed, route
  <2>3. Promise!InHand(e)
    BY <1>2, OwnedIsInHand
  <2>4. UNCHANGED [d \in Event |-> StateOf(d)]
    BY <1>3 DEF StateOf
  <2>5. Promise!Address(e, Addressed(e))
    BY <1>1, <1>3, <1>5, <2>1, <2>3, <2>4 DEF Promise!Address
  <2> QED
    BY <1>2, <2>2, <2>5
<1> QED
  BY <1>4, <1>5

\* A row of an event that is written is of its audience.
LEMMA TellRefines ==
  ASSUME RefinementInv, NEW e \in Event, NEW u \in User,
         recipient[<<e, u>>] # None, Told' = Told \cup {<<e, u>>},
         UNCHANGED <<event, notification, late>>
  PROVE  Promise!Tell(e, u)
<1>1. notification[e] # None /\ u \in notification[e]
  BY DEF RefinementInv, RowsAreOfAudience
<1>2. UNCHANGED [d \in Event |-> StateOf(d)]
  BY DEF StateOf
<1> QED
  BY <1>1, <1>2 DEF Promise!Tell

LEMMA ToldUnchanged ==
  ASSUME Told' = Told, UNCHANGED <<event, notification, late>>
  PROVE  UNCHANGED Promise!contractVars
BY DEF Promise!contractVars, StateOf

Telling ==
    (\E e \in Event, u \in User : Promise!Tell(e, u))
    \/ UNCHANGED Promise!contractVars

LEMMA RecordRecipientRefines ==
  ASSUME RefinementInv, NEW w \in Worker, RecordRecipient(w)
  PROVE  Telling
<1>1. UNCHANGED <<event, notification, late>>
  BY DEF RecordRecipient
<1>2. \/ Told' = Told
      \/ \E e \in Event, u \in User :
            recipient[<<e, u>>] # None /\ Told' = Told \cup {<<e, u>>}
  BY RecordRecipientTells
<1> QED
  BY <1>1, <1>2, TellRefines, ToldUnchanged DEF Telling

LEMMA OpenWriteRefines ==
  ASSUME RefinementInv, NEW u \in User, OpenWrite(u)
  PROVE  Telling
<1>1. UNCHANGED <<event, notification, late>>
  BY DEF OpenWrite
<1> QED
  BY <1>1, OpenWriteTells, TellRefines, ToldUnchanged DEF Telling

LEMMA MarkReadRefines ==
  ASSUME RefinementInv, NEW u \in User, NEW k \in Message, markRead(k, u)
  PROVE  Telling
<1>1. UNCHANGED <<event, notification, late>>
  BY DEF markRead
<1> QED
  BY <1>1, MarkReadTells, TellRefines, ToldUnchanged DEF Telling

\* What was Reached is what Finish asks for.
LEMMA MarkEventRefines ==
  ASSUME RefinementInv, NEW w \in Worker, MarkEvent(w)
  PROVE  \E e \in Event : Promise!Finish(e) \/ Promise!GiveBack({e})
<1>1. /\ event \in [Event -> EventRow \cup {None}] /\ worker[w] \in Hand
      /\ worker[w].step = "deliver" /\ worker[w].left = {}
  BY DEF MarkEvent, RefinementInv, OutboxInv, TypeOK
<1>2. PICK e \in Event : e = worker[w].key
  BY <1>1 DEF RefinementInv, OutboxInv, HandsFit, HandFits
<1>3. event[e] # None /\ notification[e] # None /\ Owns(w, e)
  BY <1>1, <1>2 DEF RefinementInv, OutboxInv, HandsFit, HandFits, Owns
<1>4. event[e] \in EventRow /\ worker[w].failed \in BOOLEAN
  BY <1>1, <1>3 DEF Hand
<1> DEFINE row == Marked(event[e], worker[w].failed)
<1>5. row \in EventRow
      /\ row.status = IF worker[w].failed THEN "FAILED" ELSE "PROCESSED"
  BY <1>4, MarkedRow DEF Marked, EventRow
<1>6. event' = [event EXCEPT ![e] = row]
  BY <1>2 DEF MarkEvent
<1> HIDE DEF row
<1>7. StateOf(e)' = IF worker[w].failed THEN "waiting" ELSE "done"
  BY <1>1, <1>5, <1>6, NoneIsNoRow DEF StateOf
<1>8. States' = [States EXCEPT ![e] = StateOf(e)']
  BY <1>1, <1>6, StateMoves
<1>9. UNCHANGED <<notification, Told, late>>
  BY DEF MarkEvent, Told
<1>10. Promise!InHand(e)
  BY <1>3, OwnedIsInHand
<1>11. CASE worker[w].failed
  <2>1. \A d \in {e} : Promise!InHand(d)
    BY <1>10
  <2>2. States' = [d \in Event |-> IF d \in {e} THEN "waiting" ELSE States[d]]
    BY <1>7, <1>8, <1>11 DEF States
  <2>3. Promise!GiveBack({e})
    BY <1>9, <2>1, <2>2 DEF Promise!GiveBack, States
  <2> QED
    BY <2>3
<1>12. CASE ~worker[w].failed
  <2>1. \A u \in notification[e] : <<e, u>> \in Told
    BY <1>1, <1>2, <1>12 DEF RefinementInv, Reached, HandReached
  <2>2. Promise!Finish(e)
    BY <1>3, <1>7, <1>8, <1>9, <1>10, <1>12, <2>1 DEF Promise!Finish, States
  <2> QED
    BY <2>2
<1> QED
  BY <1>11, <1>12

LEMMA WorkerRefines ==
  ASSUME RefinementInv, NEW w \in Worker, WorkerStep(w) \/ Crash(w)
  PROVE  [Promise!ContractNext]_(Promise!contractVars)
<1>1. CASE \/ FindCandidates(w) \/ ReadRecipients(w) \/ StartRecipient(w)
           \/ SendPush(w) \/ RecordAttempt(w) \/ AttemptCollides(w)
           \/ EndBatch(w) \/ Crash(w)
  <2>1. UNCHANGED <<event, notification, recipient, late>>
    BY <1>1 DEF FindCandidates, ReadRecipients, StartRecipient, SendPush,
                RecordAttempt, AttemptCollides, EndBatch, Crash
  <2> QED
    BY <2>1, Unseen
<1>2. CASE RecoverStale(w)
  BY <1>2, RecoverStaleRefines DEF Promise!ContractNext
<1>3. CASE Claim(w)
  BY <1>3, ClaimRefines DEF Promise!ContractNext
<1>4. CASE Materialize(w)
  BY <1>4, MaterializeRefines DEF Promise!ContractNext
<1>5. CASE RecordRecipient(w)
  BY <1>5, RecordRecipientRefines DEF Promise!ContractNext, Telling
<1>6. CASE MarkEvent(w)
  <2>1. PICK e \in Event : Promise!Finish(e) \/ Promise!GiveBack({e})
    BY <1>6, MarkEventRefines
  <2>2. {e} \in SUBSET Event
    OBVIOUS
  <2> QED
    BY <2>1, <2>2 DEF Promise!ContractNext
<1> QED
  BY <1>1, <1>2, <1>3, <1>4, <1>5, <1>6 DEF WorkerStep

LEMMA UserRefines ==
  ASSUME RefinementInv, NEW u \in User, UserStep(u)
  PROVE  [Promise!ContractNext]_(Promise!contractVars)
<1>1. CASE (\E k \in Message : markRead(k, u)) \/ OpenWrite(u)
  <2>1. Telling
    BY <1>1, MarkReadRefines, OpenWriteRefines
  <2> QED
    BY <2>1 DEF Telling, Promise!ContractNext
<1>2. CASE \/ \E k \in Message : OpenRead(k, u)
           \/ \E scope \in Scope, input \in PreferenceInputs :
                 updatePreference(u, scope, input)
           \/ \E t \in Token : register(u, t)
  <2>1. UNCHANGED <<event, notification, recipient, late>>
    BY <1>2 DEF OpenRead, updatePreference, register
  <2> QED
    BY <2>1, Unseen
<1> QED
  BY <1>1, <1>2 DEF UserStep

LEMMA NextRefines ==
  ASSUME RefinementInv, [Next]_vars
  PROVE  [Promise!ContractNext]_(Promise!contractVars)
<1>1. CASE \E e \in Event :
             enqueueOutboxEvent(e) \/ DelayPasses(e) \/ LeaseExpires(e)
  BY <1>1, EnqueueRefines, DelayPassesRefines, LeaseExpiresRefines
     DEF Promise!ContractNext
<1>2. CASE \E w \in Worker : WorkerStep(w) \/ Crash(w)
  BY <1>2, WorkerRefines
<1>3. CASE \E u \in User : UserStep(u)
  BY <1>3, UserRefines
<1>4. CASE \/ \E t \in Token : disable(t)
           \/ UNCHANGED vars
  <2>1. UNCHANGED <<event, notification, recipient, late>>
    BY <1>4 DEF disable, vars
  <2> QED
    BY <2>1, Unseen
<1> QED
  BY <1>1, <1>2, <1>3, <1>4 DEF Next

-----------------------------------------------------------------------------

\* The outbox keeps its promise, for any number of events, users, devices and
\* workers and whatever crashes or comes late: an audience is fixed once, who was
\* told stays told, and an event is PROCESSED only when its whole audience has been
\* sent it or has opened it (processOutboxEvent, deliverRecipient).
THEOREM OutboxKeepsPromise == Spec => KeepsPromise
<1>1. Init => RefinementInv
  BY InitRefinementInv
<1>2. RefinementInv /\ [Next]_vars => RefinementInv'
  BY RefinementInvKeeps
<1>3. Init => Promise!ContractInit
  BY InitRefines
<1>4. RefinementInv /\ [Next]_vars => [Promise!ContractNext]_(Promise!contractVars)
  BY NextRefines
<1> QED
  BY <1>1, <1>2, <1>3, <1>4, PTL DEF Spec, KeepsPromise, Promise!Contract

\* No event has two owners until a lease is lost under a worker that is alive: no
\* crash and no race of claims makes one (claimBatch).
THEOREM OwnersAreExclusive == Spec => []Exclusive
<1>1. Init => RefinementInv
  BY InitRefinementInv
<1>2. RefinementInv /\ [Next]_vars => RefinementInv'
  BY RefinementInvKeeps
<1>3. RefinementInv => Exclusive
  BY DEF RefinementInv
<1> QED
  BY <1>1, <1>2, <1>3, PTL DEF Spec

-----------------------------------------------------------------------------
(***************************************************************************)
(* Claims, owners and pushes.  The bounds speak of what has happened; the  *)
(* induction needs what may yet happen: a worker with an event in hand may *)
(* still push once to each device, and that push is paid for by its claim. *)
(***************************************************************************)

\* A worker that is not at an event has none in hand; the one it is at is no
\* longer in its batch, and whom it is at no longer on its list.
HandTidy(h) ==
    /\ h.step \in {"idle", "find", "claim", "work"} => h.key = None
    /\ h.step \in {"idle", "find"} => h.batch = {}
    /\ h.key \notin h.batch
    /\ h.step = "push" => h.user \notin h.left
    /\ h.step = "recipients" => h.left = {}
    /\ h.step # "push" => h.tokens = {}

HandsTidy == \A w \in Worker : HandTidy(worker[w])

Has(h, e) == e \in h.batch \cup {h.key}

Owners(e) == {w \in Worker : Owns(w, e)}

\* Nobody holds the row under a fresh lease.
Free(row) == row = None \/ row.status # "PROCESSING" \/ row.lease # "fresh"

\* Whoever is more than the first to have an event has it over a lost lease, and
\* before a claim so has everybody.
OwnersCounted ==
    \A e \in Event :
        /\ IsFiniteSet(Owners(e)) /\ Cardinality(Owners(e)) <= 1 + late
        /\ Free(event[e]) => Cardinality(Owners(e)) <= late

\* With the hand h a worker may yet push e to the device t of u: once.
MayPush(h, e, u, t) ==
    \/ e \in h.batch
    \/ /\ h.key = e
       /\ \/ h.step = "recipients"
          \/ u \in h.left
          \/ h.step = "push" /\ h.user = u /\ t \in h.tokens

Pushers(e, u, t) == {w \in Worker : MayPush(worker[w], e, u, t)}

Claims(e) == IF event[e] = None THEN 0 ELSE event[e].attempts

\* The pushes made and the pushes to come are no more than the claims.
PushesBacked ==
    \A e \in Event, u \in User, t \in Token :
        /\ IsFiniteSet(Pushers(e, u, t))
        /\ pushed[<<e, u, t>>] + Cardinality(Pushers(e, u, t)) <= Claims(e)

ClaimInv == OutboxInv /\ HandsTidy /\ OwnersCounted /\ PushesBacked

LEMMA InitClaimInv == Init => ClaimInv
<1> SUFFICES ASSUME Init PROVE ClaimInv
  OBVIOUS
<1>1. OutboxInv
  BY InitOutboxInv
<1>2. HandsTidy
  BY DEF Init, Idle, HandsTidy, HandTidy
<1>3. \A e \in Event : Owners(e) = {}
  BY NoneIsNoRow DEF Init, Idle, Owners, Owns
<1>4. \A e \in Event, u \in User, t \in Token : Pushers(e, u, t) = {}
  BY NoneIsNoRow DEF Init, Idle, Pushers, MayPush
<1>5. IsFiniteSet({}) /\ Cardinality({}) = 0
  BY FS_EmptySet
<1>6. OwnersCounted
  <2>1. late = 0
    BY DEF Init
  <2> QED
    BY <1>3, <1>5, <2>1 DEF OwnersCounted
<1>7. PushesBacked
  <2>1. ASSUME NEW e \in Event, NEW u \in User, NEW t \in Token
        PROVE  pushed[<<e, u, t>>] = 0 /\ Claims(e) = 0
    BY DEF Init, Claims
  <2>2. ASSUME NEW e \in Event, NEW u \in User, NEW t \in Token
        PROVE  /\ IsFiniteSet(Pushers(e, u, t))
               /\ Cardinality(Pushers(e, u, t)) = 0
    BY <1>4, <1>5
  <2>3. ASSUME NEW e \in Event, NEW u \in User, NEW t \in Token
        PROVE  pushed[<<e, u, t>>] + Cardinality(Pushers(e, u, t)) <= Claims(e)
    BY <2>1, <2>2
  <2> QED
    BY <2>2, <2>3 DEF PushesBacked
<1> QED
  BY <1>1, <1>2, <1>6, <1>7 DEF ClaimInv

\* Counting what is left of a finite set.
LEMMA Fewer ==
  ASSUME NEW S, IsFiniteSet(S), NEW T \in SUBSET S
  PROVE  /\ IsFiniteSet(T) /\ Cardinality(T) \in Nat
         /\ Cardinality(S) \in Nat /\ Cardinality(T) <= Cardinality(S)
         /\ T # S => Cardinality(T) <= Cardinality(S) - 1
<1>1. IsFiniteSet(T) /\ Cardinality(T) <= Cardinality(S)
  BY FS_Subset
<1>2. Cardinality(T) \in Nat /\ Cardinality(S) \in Nat
  BY <1>1, FS_CardinalityType
<1>3. T # S => Cardinality(T) < Cardinality(S)
  BY <1>1, <1>2, FS_Subset
<1> QED
  BY <1>1, <1>2, <1>3

LEMMA OneMore ==
  ASSUME NEW S, IsFiniteSet(S), NEW x, NEW T, T \subseteq S \cup {x}
  PROVE  /\ IsFiniteSet(T) /\ Cardinality(T) \in Nat
         /\ Cardinality(S) \in Nat /\ Cardinality(T) <= Cardinality(S) + 1
<1>1. /\ IsFiniteSet(S \cup {x})
      /\ Cardinality(S \cup {x}) = IF x \in S THEN Cardinality(S)
                                   ELSE Cardinality(S) + 1
  BY FS_AddElement
<1>2. Cardinality(S) \in Nat
  BY FS_CardinalityType
<1> QED
  BY <1>1, <1>2, Fewer

-----------------------------------------------------------------------------
(* What a step takes in hand *)

\* The hand h has no event and no push that g has not.
NoMore(h, g) ==
    \A e \in Event :
        /\ Has(h, e) => Has(g, e)
        /\ \A u \in User, t \in Token : MayPush(h, e, u, t) => MayPush(g, e, u, t)

OthersStay(w) == \A v \in Worker : v # w => worker'[v] = worker[v]

\* Every step of a worker but the claim.
LEMMA QuietStep ==
  ASSUME OutboxInv, HandsTidy, NEW w \in Worker,
         \/ RecoverStale(w) \/ FindCandidates(w) \/ Materialize(w)
         \/ ReadRecipients(w) \/ StartRecipient(w) \/ SendPush(w)
         \/ RecordAttempt(w) \/ AttemptCollides(w) \/ RecordRecipient(w)
         \/ MarkEvent(w) \/ EndBatch(w) \/ Crash(w)
  PROVE  /\ HandTidy(worker'[w]) /\ NoMore(worker'[w], worker[w])
         /\ OthersStay(w)
<1>1. worker \in [Worker -> Hand] /\ worker[w] \in Hand /\ HandTidy(worker[w])
  BY DEF OutboxInv, TypeOK, HandsTidy
<1>2. CASE RecoverStale(w)
  BY <1>1, <1>2
     DEF RecoverStale, Hand, HandTidy, NoMore, Has, MayPush, OthersStay
<1>3. CASE FindCandidates(w)
  BY <1>1, <1>3
     DEF FindCandidates, Hand, HandTidy, NoMore, Has, MayPush, OthersStay
<1>4. CASE Materialize(w)
  <2>1. PICK e \in worker[w].batch :
          worker' = [worker EXCEPT ![w].step = "recipients",
                                   ![w].key = e, ![w].batch = @ \ {e}]
    BY <1>4 DEF Materialize
  <2>2. worker'[w] = [worker[w] EXCEPT !.step = "recipients", !.key = e,
                               !.batch = @ \ {e}]
        /\ OthersStay(w)
    BY <1>1, <2>1 DEF OthersStay
  <2>3. worker[w].left = {} /\ worker[w].tokens = {}
    BY <1>1, <1>4 DEF Materialize, OutboxInv, HandsFit, HandFits, HandTidy
  <2> QED
    BY <1>1, <2>2, <2>3 DEF Hand, HandTidy, NoMore, Has, MayPush
<1>5. CASE ReadRecipients(w)
  BY <1>1, <1>5
     DEF ReadRecipients, Hand, HandTidy, NoMore, Has, MayPush, OthersStay
<1>6. CASE StartRecipient(w)
  <2>1. PICK u \in worker[w].left :
          \/ worker' = [worker EXCEPT ![w].left = @ \ {u}]
          \/ worker' = [worker EXCEPT ![w].step = "push",
                           ![w].left = @ \ {u}, ![w].user = u,
                           ![w].tokens = PushTargets(worker[w].key, u),
                           ![w].ok = PushTargets(worker[w].key, u) = {}]
    BY <1>6 DEF StartRecipient
  <2>2. /\ OthersStay(w) /\ worker[w].step = "deliver"
        /\ \/ worker'[w] = [worker[w] EXCEPT !.left = @ \ {u}]
           \/ worker'[w] = [worker[w] EXCEPT !.step = "push", !.left = @ \ {u},
                               !.user = u, !.tokens = PushTargets(worker[w].key, u),
                               !.ok = PushTargets(worker[w].key, u) = {}]
    BY <1>1, <1>6, <2>1 DEF OthersStay, StartRecipient
  <2> QED
    BY <1>1, <2>1, <2>2 DEF Hand, HandTidy, NoMore, Has, MayPush
<1>7. CASE SendPush(w)
  <2>1. PICK t, sent :
          worker' = [worker EXCEPT ![w].tokens = @ \ {t}, ![w].sent = sent]
    BY <1>7 DEF SendPush
  <2>2. worker'[w] = [worker[w] EXCEPT !.tokens = @ \ {t}, !.sent = sent]
        /\ OthersStay(w)
    BY <1>1, <2>1 DEF OthersStay
  <2> QED
    BY <1>1, <2>2 DEF Hand, HandTidy, NoMore, Has, MayPush
<1>8. CASE RecordAttempt(w)
  BY <1>1, <1>8
     DEF RecordAttempt, Hand, HandTidy, NoMore, Has, MayPush, OthersStay
<1>9. CASE AttemptCollides(w)
  BY <1>1, <1>9
     DEF AttemptCollides, Hand, HandTidy, NoMore, Has, MayPush, OthersStay
<1>10. CASE RecordRecipient(w)
  BY <1>1, <1>10
     DEF RecordRecipient, Hand, HandTidy, NoMore, Has, MayPush, OthersStay
<1>11. CASE MarkEvent(w)
  BY <1>1, <1>11, NoneIsNoRow
     DEF MarkEvent, Hand, HandTidy, NoMore, Has, MayPush, OthersStay,
         OutboxInv, HandsFit, HandFits
<1>12. CASE EndBatch(w)
  BY <1>1, <1>12
     DEF EndBatch, Hand, HandTidy, NoMore, Has, MayPush, OthersStay
<1>13. CASE Crash(w)
  BY <1>1, <1>13, NoneIsNoRow
     DEF Crash, Idle, HandTidy, NoMore, Has, MayPush, OthersStay
<1> QED
  BY <1>2, <1>3, <1>4, <1>5, <1>6, <1>7, <1>8, <1>9, <1>10, <1>11, <1>12, <1>13

\* A claim that succeeds takes one event in hand.
LEMMA ClaimTakes ==
  ASSUME OutboxInv, HandsTidy, NEW w \in Worker, Claim(w)
  PROVE  \E c \in worker[w].todo :
            /\ c.key \in Event /\ event[c.key] # None
            /\ HandTidy(worker'[w]) /\ OthersStay(w)
            /\ IF ClaimSucceeds(c)
               THEN /\ event' = [event EXCEPT ![c.key] = Claimed(@)]
                    /\ worker'[w].batch = worker[w].batch \cup {c.key}
               ELSE event' = event /\ worker'[w].batch = worker[w].batch
            /\ worker'[w].key = worker[w].key
            /\ worker'[w].left = worker[w].left
            /\ worker'[w].step \in {"claim", "work"}
            /\ worker[w].step = "claim" /\ worker[w].key = None
<1>1. worker \in [Worker -> Hand] /\ worker[w] \in Hand /\ HandTidy(worker[w])
  BY DEF OutboxInv, TypeOK, HandsTidy
<1>2. PICK c \in worker[w].todo :
        /\ event' = IF ClaimSucceeds(c)
                    THEN [event EXCEPT ![c.key] = Claimed(@)] ELSE event
        /\ worker' = [worker EXCEPT
              ![w].todo = @ \ {c},
              ![w].batch = IF ClaimSucceeds(c) THEN @ \cup {c.key} ELSE @,
              ![w].step = IF worker[w].todo = {c} THEN "work" ELSE @]
  BY DEF Claim
<1>3. c.key \in Event /\ event[c.key] # None
  BY <1>1 DEF OutboxInv, HandsFit, HandFits, Hand, Candidate
<1>4. /\ worker'[w] = [worker[w] EXCEPT
              !.todo = @ \ {c},
              !.batch = IF ClaimSucceeds(c) THEN @ \cup {c.key} ELSE @,
              !.step = IF worker[w].todo = {c} THEN "work" ELSE @]
      /\ OthersStay(w)
  BY <1>1, <1>2 DEF OthersStay
<1>5. worker[w].step = "claim" /\ worker[w].key = None
  BY <1>1 DEF Claim, HandTidy
<1>6. /\ worker'[w].batch = IF ClaimSucceeds(c) THEN worker[w].batch \cup {c.key}
                            ELSE worker[w].batch
      /\ worker'[w].key = worker[w].key /\ worker'[w].left = worker[w].left
      /\ worker'[w].tokens = worker[w].tokens
      /\ worker'[w].step \in {"claim", "work"}
  BY <1>1, <1>4, <1>5 DEF Hand
<1>7. HandTidy(worker'[w])
  BY <1>1, <1>3, <1>5, <1>6, NoneIsNoRow DEF HandTidy
<1> QED
  BY <1>2, <1>3, <1>4, <1>5, <1>6, <1>7

-----------------------------------------------------------------------------
(* What a step does to the counts *)

LEMMA NoMoreHands ==
  ASSUME NEW w \in Worker, NoMore(worker'[w], worker[w]), OthersStay(w)
  PROVE  /\ \A e \in Event : Owners(e)' \subseteq Owners(e)
         /\ \A e \in Event, u \in User, t \in Token :
               Pushers(e, u, t)' \subseteq Pushers(e, u, t)
<1>1. ASSUME NEW e \in Event PROVE Owners(e)' \subseteq Owners(e)
  BY DEF NoMore, OthersStay, Owners, Owns, Has
<1>2. ASSUME NEW e \in Event, NEW u \in User, NEW t \in Token
      PROVE  Pushers(e, u, t)' \subseteq Pushers(e, u, t)
  BY DEF NoMore, OthersStay, Pushers
<1> QED
  BY <1>1, <1>2

LEMMA OthersStayTidy ==
  ASSUME HandsTidy, NEW w \in Worker, HandTidy(worker'[w]), OthersStay(w)
  PROVE  HandsTidy'
BY DEF HandsTidy, OthersStay

\* Who owns e after a step is at most who owned it, and a row becomes free only
\* as an owner lets go of it.
LEMMA FewerOwners ==
  ASSUME OwnersCounted, late \in Nat, late' = late,
         \A e \in Event :
            /\ Owners(e)' \subseteq Owners(e)
            /\ Free(event'[e]) => Free(event[e]) \/ Owners(e)' # Owners(e)
  PROVE  OwnersCounted'
<1> SUFFICES ASSUME NEW e \in Event
             PROVE  /\ IsFiniteSet(Owners(e)')
                    /\ Cardinality(Owners(e)') <= 1 + late'
                    /\ Free(event'[e]) => Cardinality(Owners(e)') <= late'
  BY DEF OwnersCounted
<1>1. /\ IsFiniteSet(Owners(e)) /\ Cardinality(Owners(e)) <= 1 + late
      /\ Free(event[e]) => Cardinality(Owners(e)) <= late
  BY DEF OwnersCounted
<1>2. /\ IsFiniteSet(Owners(e)') /\ Cardinality(Owners(e)') \in Nat
      /\ Cardinality(Owners(e)) \in Nat
      /\ Cardinality(Owners(e)') <= Cardinality(Owners(e))
      /\ Owners(e)' # Owners(e) =>
            Cardinality(Owners(e)') <= Cardinality(Owners(e)) - 1
  BY <1>1, Fewer
<1> QED
  BY <1>1, <1>2

LEMMA FewerPushers ==
  ASSUME PushesBacked, NEW e \in Event, NEW u \in User, NEW t \in Token,
         pushed[<<e, u, t>>] \in Nat, Claims(e) \in Nat, Claims(e)' \in Nat,
         Claims(e)' >= Claims(e), Pushers(e, u, t)' \subseteq Pushers(e, u, t),
         \/ pushed'[<<e, u, t>>] = pushed[<<e, u, t>>]
         \/ /\ pushed'[<<e, u, t>>] = pushed[<<e, u, t>>] + 1
            /\ Pushers(e, u, t)' # Pushers(e, u, t)
  PROVE  /\ IsFiniteSet(Pushers(e, u, t)')
         /\ pushed'[<<e, u, t>>] + Cardinality(Pushers(e, u, t)') <= Claims(e)'
<1>1. /\ IsFiniteSet(Pushers(e, u, t))
      /\ pushed[<<e, u, t>>] + Cardinality(Pushers(e, u, t)) <= Claims(e)
  BY DEF PushesBacked
<1>2. /\ IsFiniteSet(Pushers(e, u, t)')
      /\ Cardinality(Pushers(e, u, t)') \in Nat
      /\ Cardinality(Pushers(e, u, t)) \in Nat
      /\ Cardinality(Pushers(e, u, t)') <= Cardinality(Pushers(e, u, t))
      /\ Pushers(e, u, t)' # Pushers(e, u, t) =>
            Cardinality(Pushers(e, u, t)') <= Cardinality(Pushers(e, u, t)) - 1
  BY <1>1, Fewer
<1> QED
  BY <1>1, <1>2

LEMMA CountsAreNumbers ==
  ASSUME OutboxInv
  PROVE  /\ late \in Nat /\ \A e \in Event : Claims(e) \in Nat
         /\ \A e \in Event, u \in User, t \in Token : pushed[<<e, u, t>>] \in Nat
<1>1. TypeOK
  BY DEF OutboxInv
<1>2. ASSUME NEW e \in Event PROVE Claims(e) \in Nat
  BY <1>1 DEF TypeOK, EventRow, Claims
<1> QED
  BY <1>1, <1>2 DEF TypeOK

LEMMA CountsStayNumbers ==
  ASSUME OutboxInv'
  PROVE  /\ late' \in Nat /\ \A e \in Event : Claims(e)' \in Nat
<1>1. TypeOK'
  BY DEF OutboxInv
<1>2. ASSUME NEW e \in Event PROVE Claims(e)' \in Nat
  BY <1>1 DEF TypeOK, EventRow, Claims
<1> QED
  BY <1>1, <1>2 DEF TypeOK

\* The pushes stay backed when nobody has more to push, no claim is forgotten
\* and nothing is pushed.
LEMMA NothingPushed ==
  ASSUME PushesBacked, OutboxInv, OutboxInv', pushed' = pushed,
         \A e \in Event : Claims(e)' >= Claims(e),
         \A e \in Event, u \in User, t \in Token :
            Pushers(e, u, t)' \subseteq Pushers(e, u, t)
  PROVE  PushesBacked'
<1>1. ASSUME NEW e \in Event, NEW u \in User, NEW t \in Token
      PROVE  /\ IsFiniteSet(Pushers(e, u, t)')
             /\ pushed'[<<e, u, t>>] + Cardinality(Pushers(e, u, t)') <= Claims(e)'
  BY FewerPushers, CountsAreNumbers, CountsStayNumbers
<1> QED
  BY <1>1 DEF PushesBacked

\* A change of a row that is neither a claim nor a mark: it does not become
\* free, and its claims are kept.
RowSame(new, old) ==
    /\ Free(new) => Free(old)
    /\ old # None => new # None /\ new.attempts = old.attempts
    /\ old = None => new = None \/ new.attempts = 0

LEMMA RowSameKeepsClaims ==
  ASSUME OutboxInv, NEW e \in Event, RowSame(event'[e], event[e])
  PROVE  Claims(e)' >= Claims(e)
BY CountsAreNumbers DEF RowSame, Claims

LEMMA RowsSame ==
  ASSUME OutboxInv, NEW w \in Worker,
         \/ RecoverStale(w) \/ FindCandidates(w) \/ Materialize(w)
         \/ ReadRecipients(w) \/ StartRecipient(w) \/ SendPush(w)
         \/ RecordAttempt(w) \/ AttemptCollides(w) \/ RecordRecipient(w)
         \/ EndBatch(w) \/ Crash(w)
  PROVE  late' = late /\ \A e \in Event : RowSame(event'[e], event[e])
<1>1. CASE RecoverStale(w)
  <2>1. ASSUME NEW e \in Event PROVE RowSame(event'[e], event[e])
    <3>1. event[e] \in EventRow \cup {None} /\ None \notin EventRow
      BY OutboxAssumption DEF OutboxInv, TypeOK
    <3>2. event'[e] = IF event[e] # None /\ Stale(event[e])
                      THEN [event[e] EXCEPT !.status = "FAILED", !.due = TRUE,
                                            !.lease = "none"]
                      ELSE event[e]
      BY <1>1 DEF RecoverStale
    <3>3. CASE event[e] # None /\ Stale(event[e])
      <4>1. event'[e] \in EventRow /\ event'[e].attempts = event[e].attempts
        BY <3>1, <3>2, <3>3 DEF EventRow, EventStatus, Lease
      <4> QED
        BY <3>1, <3>3, <4>1 DEF RowSame, Free, Stale
    <3> QED
      BY <3>2, <3>3 DEF RowSame
  <2> QED
    BY <1>1, <2>1 DEF RecoverStale
<1>2. CASE \/ FindCandidates(w) \/ Materialize(w) \/ ReadRecipients(w)
           \/ StartRecipient(w) \/ SendPush(w) \/ RecordAttempt(w)
           \/ AttemptCollides(w) \/ RecordRecipient(w) \/ EndBatch(w) \/ Crash(w)
  <2>1. event' = event /\ late' = late
    BY <1>2 DEF FindCandidates, Materialize, ReadRecipients, StartRecipient,
                SendPush, RecordAttempt, AttemptCollides, RecordRecipient,
                EndBatch, Crash
  <2> QED
    BY <2>1 DEF RowSame
<1> QED
  BY <1>1, <1>2

-----------------------------------------------------------------------------
(* The steps *)

\* SendPush takes the device off the worker's list as it pushes to it.
LEMMA SendPushBacked ==
  ASSUME ClaimInv, OutboxInv', NEW w \in Worker, SendPush(w)
  PROVE  PushesBacked'
<1>1. /\ worker \in [Worker -> Hand] /\ worker[w] \in Hand
      /\ pushed \in [Event \X User \X Token -> Nat]
  BY DEF ClaimInv, OutboxInv, TypeOK
<1>2. NoMore(worker'[w], worker[w]) /\ OthersStay(w)
  BY QuietStep DEF ClaimInv
<1>3. \A e \in Event : Claims(e)' >= Claims(e)
  BY RowsSame, RowSameKeepsClaims DEF ClaimInv
<1>4. PICK t \in worker[w].tokens, outcome \in Outcomes :
        /\ pushed' = [pushed EXCEPT
                         ![<<worker[w].key, worker[w].user, t>>] = @ + 1]
        /\ worker' = [worker EXCEPT ![w].tokens = @ \ {t},
             ![w].sent = [token |-> t,
                number |-> attempt[<<worker[w].key, worker[w].user, t>>] + 1,
                outcome |-> outcome]]
  BY DEF SendPush
<1> DEFINE sent == [token |-> t,
                number |-> attempt[<<worker[w].key, worker[w].user, t>>] + 1,
                outcome |-> outcome]
<1>5. worker' = [worker EXCEPT ![w].tokens = @ \ {t}, ![w].sent = sent]
  BY <1>4
<1> HIDE DEF sent
<1>6. worker'[w] = [worker[w] EXCEPT !.tokens = @ \ {t}, !.sent = sent]
  BY <1>1, <1>5
<1>7. /\ worker[w].step = "push" /\ t \in Token
      /\ worker[w].key \in Event /\ worker[w].key \notin worker[w].batch
      /\ worker[w].user \in User /\ worker[w].user \notin worker[w].left
  BY <1>1 DEF SendPush, ClaimInv, OutboxInv, HandsFit, HandFits, HandsTidy,
              HandTidy, Hand
<1> PICK k \in Event, v \in User : k = worker[w].key /\ v = worker[w].user
  BY <1>7
<1>8. MayPush(worker[w], k, v, t) /\ ~MayPush(worker'[w], k, v, t)
  BY <1>1, <1>4, <1>6, <1>7 DEF MayPush, Hand
<1>9. Pushers(k, v, t)' # Pushers(k, v, t)
  BY <1>8 DEF Pushers
<1>10. ASSUME NEW e \in Event, NEW u \in User, NEW d \in Token
       PROVE  \/ pushed'[<<e, u, d>>] = pushed[<<e, u, d>>]
              \/ /\ pushed'[<<e, u, d>>] = pushed[<<e, u, d>>] + 1
                 /\ Pushers(e, u, d)' # Pushers(e, u, d)
  <2>1. CASE e = k /\ u = v /\ d = t
    BY <1>1, <1>4, <1>9, <2>1
  <2>2. CASE ~(e = k /\ u = v /\ d = t)
    <3>1. <<e, u, d>> # <<k, v, t>>
      BY <2>2
    <3> QED
      BY <1>1, <1>4, <3>1
  <2> QED
    BY <2>1, <2>2
<1>11. ASSUME NEW e \in Event, NEW u \in User, NEW d \in Token
       PROVE  /\ IsFiniteSet(Pushers(e, u, d)')
              /\ pushed'[<<e, u, d>>] + Cardinality(Pushers(e, u, d)')
                    <= Claims(e)'
  <2>1. Pushers(e, u, d)' \subseteq Pushers(e, u, d)
    BY <1>2, NoMoreHands
  <2>2. /\ pushed[<<e, u, d>>] \in Nat /\ Claims(e) \in Nat /\ Claims(e)' \in Nat
        /\ PushesBacked
    BY CountsAreNumbers, CountsStayNumbers DEF ClaimInv
  <2> QED
    BY <1>3, <1>10, <2>1, <2>2, FewerPushers
<1> QED
  BY <1>11 DEF PushesBacked

\* The steps of a worker that neither claim nor mark.
LEMMA QuietClaimInv ==
  ASSUME ClaimInv, OutboxInv', NEW w \in Worker,
         \/ RecoverStale(w) \/ FindCandidates(w) \/ Materialize(w)
         \/ ReadRecipients(w) \/ StartRecipient(w) \/ SendPush(w)
         \/ RecordAttempt(w) \/ AttemptCollides(w) \/ RecordRecipient(w)
         \/ EndBatch(w) \/ Crash(w)
  PROVE  ClaimInv'
<1>1. /\ HandTidy(worker'[w]) /\ NoMore(worker'[w], worker[w])
      /\ OthersStay(w)
  BY QuietStep DEF ClaimInv
<1>2. late' = late /\ \A e \in Event : RowSame(event'[e], event[e])
  BY RowsSame DEF ClaimInv
<1>3. HandsTidy'
  BY <1>1, OthersStayTidy DEF ClaimInv
<1>4. OwnersCounted'
  BY <1>1, <1>2, NoMoreHands, FewerOwners, CountsAreNumbers
     DEF ClaimInv, RowSame
<1>5. PushesBacked'
  <2>1. CASE SendPush(w)
    BY <2>1, SendPushBacked
  <2>2. CASE ~SendPush(w)
    <3>1. pushed' = pushed
      BY <2>2 DEF RecoverStale, FindCandidates, Materialize, ReadRecipients,
                  StartRecipient, RecordAttempt, AttemptCollides,
                  RecordRecipient, EndBatch, Crash
    <3>2. \A e \in Event : Claims(e)' >= Claims(e)
      BY <1>2, RowSameKeepsClaims DEF ClaimInv
    <3> QED
      BY <1>1, <3>1, <3>2, NoMoreHands, NothingPushed DEF ClaimInv
  <2> QED
    BY <2>1, <2>2
<1> QED
  BY <1>3, <1>4, <1>5 DEF ClaimInv

\* A mark frees the row as the worker lets go of it.
LEMMA MarkClaimInv ==
  ASSUME ClaimInv, OutboxInv', NEW w \in Worker, MarkEvent(w)
  PROVE  ClaimInv'
<1> PICK k : k = worker[w].key
  OBVIOUS
<1>1. /\ HandTidy(worker'[w]) /\ NoMore(worker'[w], worker[w])
      /\ OthersStay(w)
  BY QuietStep DEF ClaimInv
<1>2. /\ worker \in [Worker -> Hand] /\ worker[w] \in Hand
      /\ event \in [Event -> EventRow \cup {None}]
      /\ k \in Event /\ event[k] # None /\ k \notin worker[w].batch
  BY DEF MarkEvent, ClaimInv, OutboxInv, TypeOK, HandsFit, HandFits, HandsTidy,
         HandTidy
<1>3. /\ event' = [event EXCEPT ![k] = Marked(@, worker[w].failed)]
      /\ late' = late /\ pushed' = pushed
  BY DEF MarkEvent
<1>4. worker'[w].key = None /\ worker'[w].batch = worker[w].batch
  BY <1>2 DEF MarkEvent, Hand
<1>5. Owners(k)' # Owners(k)
  <2>1. Owns(w, k)
    BY DEF Owns
  <2>2. ~Owns(w, k)'
    BY <1>2, <1>4, NoneIsNoRow DEF Owns
  <2> QED
    BY <2>1, <2>2 DEF Owners
<1>6. ASSUME NEW e \in Event, e # k PROVE event'[e] = event[e]
  BY <1>2, <1>3, <1>6
<1>7. /\ event'[k].attempts = event[k].attempts /\ event'[k] # None
  <2>1. event[k] \in EventRow /\ event'[k] = Marked(event[k], worker[w].failed)
    BY <1>2, <1>3
  <2>2. event'[k] \in EventRow /\ event'[k].attempts = event[k].attempts
    BY <2>1 DEF Marked, EventRow, EventStatus, Lease
  <2> QED
    BY <2>2, OutboxAssumption
<1>8. OwnersCounted'
  BY <1>1, <1>3, <1>5, <1>6, NoMoreHands, FewerOwners, CountsAreNumbers
     DEF ClaimInv
<1>9. ASSUME NEW e \in Event PROVE Claims(e)' >= Claims(e)
  <2>1. Claims(e)' = Claims(e)
    BY <1>2, <1>6, <1>7 DEF Claims
  <2> QED
    BY <2>1, CountsAreNumbers DEF ClaimInv
<1>10. PushesBacked'
  BY <1>1, <1>3, <1>9, NoMoreHands, NothingPushed DEF ClaimInv
<1> QED
  BY <1>1, <1>8, <1>10, OthersStayTidy DEF ClaimInv

\* A claim finds the row free, so it adds an owner to those who have the event
\* over lost leases; the pushes it may make are backed by the claim it counts.
LEMMA ClaimClaimInv ==
  ASSUME ClaimInv, OutboxInv', NEW w \in Worker, Claim(w)
  PROVE  ClaimInv'
<1>1. OutboxInv /\ HandsTidy /\ OwnersCounted /\ PushesBacked
  BY DEF ClaimInv
<1>2. PICK c \in worker[w].todo :
        /\ c.key \in Event /\ event[c.key] # None
        /\ HandTidy(worker'[w]) /\ OthersStay(w)
        /\ IF ClaimSucceeds(c)
           THEN /\ event' = [event EXCEPT ![c.key] = Claimed(@)]
                /\ worker'[w].batch = worker[w].batch \cup {c.key}
           ELSE event' = event /\ worker'[w].batch = worker[w].batch
        /\ worker'[w].key = worker[w].key
        /\ worker'[w].left = worker[w].left
        /\ worker'[w].step \in {"claim", "work"}
        /\ worker[w].step = "claim" /\ worker[w].key = None
  BY <1>1, ClaimTakes
<1>3. late' = late /\ pushed' = pushed
  BY DEF Claim
<1>4. HandsTidy'
  BY <1>1, <1>2, OthersStayTidy
<1>5. CASE ~ClaimSucceeds(c)
  <2>1. NoMore(worker'[w], worker[w])
    BY <1>2, <1>5, NoneIsNoRow DEF NoMore, Has, MayPush
  <2>2. OwnersCounted'
    BY <1>1, <1>2, <1>3, <1>5, <2>1, NoMoreHands, FewerOwners, CountsAreNumbers
  <2>3. \A e \in Event : Claims(e)' >= Claims(e)
    BY <1>1, <1>2, <1>5, CountsAreNumbers DEF Claims
  <2>4. PushesBacked'
    BY <1>1, <1>2, <1>3, <2>1, <2>3, NoMoreHands, NothingPushed
  <2> QED
    BY <1>4, <2>2, <2>4 DEF ClaimInv
<1>6. CASE ClaimSucceeds(c)
  <2> PICK k \in Event : k = c.key
    BY <1>2
  <2>1. event[k] \in EventRow /\ event \in [Event -> EventRow \cup {None}]
    BY <1>1, <1>2 DEF OutboxInv, TypeOK
  <2>2. event'[k] = Claimed(event[k]) /\ \A e \in Event : e # k => event'[e] = event[e]
    BY <1>2, <1>6, <2>1
  <2>3. Free(event[k])
    BY <1>6 DEF ClaimSucceeds, Claimable, Free
  <2>4. event'[k] \in EventRow /\ event'[k].attempts = event[k].attempts + 1
    BY <2>1, <2>2, ClaimedRow
  <2>5. ~Free(event'[k])
    <3>1. event'[k].status = "PROCESSING" /\ event'[k].lease = "fresh"
      BY <2>1, <2>2 DEF Claimed, EventRow
    <3> QED
      BY <2>4, <3>1, NoneIsNoRow DEF Free
  <2>6. ASSUME NEW e \in Event
        PROVE  /\ e # k => Owners(e)' \subseteq Owners(e)
               /\ Owners(e)' \subseteq Owners(e) \cup {w}
    BY <1>2, <1>6 DEF OthersStay, Owners, Owns
  <2>7. ASSUME NEW e \in Event, NEW u \in User, NEW t \in Token
        PROVE  /\ e # k => Pushers(e, u, t)' \subseteq Pushers(e, u, t)
               /\ Pushers(e, u, t)' \subseteq Pushers(e, u, t) \cup {w}
    BY <1>2, <1>6, NoneIsNoRow DEF OthersStay, Pushers, MayPush
  <2>8. OwnersCounted'
    <3> SUFFICES ASSUME NEW e \in Event
                 PROVE  /\ IsFiniteSet(Owners(e)')
                        /\ Cardinality(Owners(e)') <= 1 + late'
                        /\ Free(event'[e]) => Cardinality(Owners(e)') <= late'
      BY DEF OwnersCounted
    <3>1. /\ IsFiniteSet(Owners(e)) /\ Cardinality(Owners(e)) <= 1 + late
          /\ Free(event[e]) => Cardinality(Owners(e)) <= late
          /\ late \in Nat
      BY <1>1, CountsAreNumbers DEF OwnersCounted
    <3>2. CASE e = k
      <4>1. /\ IsFiniteSet(Owners(e)') /\ Cardinality(Owners(e)') \in Nat
            /\ Cardinality(Owners(e)) \in Nat
            /\ Cardinality(Owners(e)') <= Cardinality(Owners(e)) + 1
        BY <2>6, <3>1, OneMore
      <4> QED
        BY <1>3, <2>3, <2>5, <3>1, <3>2, <4>1
    <3>3. CASE e # k
      <4>1. /\ IsFiniteSet(Owners(e)') /\ Cardinality(Owners(e)') \in Nat
            /\ Cardinality(Owners(e)) \in Nat
            /\ Cardinality(Owners(e)') <= Cardinality(Owners(e))
        BY <2>6, <3>1, <3>3, Fewer
      <4> QED
        BY <1>3, <2>2, <3>1, <3>3, <4>1
    <3> QED
      BY <3>2, <3>3
  <2>9. PushesBacked'
    <3> SUFFICES ASSUME NEW e \in Event, NEW u \in User, NEW t \in Token
                 PROVE  /\ IsFiniteSet(Pushers(e, u, t)')
                        /\ pushed'[<<e, u, t>>] + Cardinality(Pushers(e, u, t)')
                              <= Claims(e)'
      BY DEF PushesBacked
    <3>1. /\ IsFiniteSet(Pushers(e, u, t))
          /\ pushed[<<e, u, t>>] + Cardinality(Pushers(e, u, t)) <= Claims(e)
          /\ pushed[<<e, u, t>>] \in Nat /\ Claims(e) \in Nat
      BY <1>1, CountsAreNumbers DEF PushesBacked
    <3>2. CASE e = k
      <4>1. /\ IsFiniteSet(Pushers(e, u, t)')
            /\ Cardinality(Pushers(e, u, t)') \in Nat
            /\ Cardinality(Pushers(e, u, t)) \in Nat
            /\ Cardinality(Pushers(e, u, t)') <= Cardinality(Pushers(e, u, t)) + 1
        <5>1. Pushers(e, u, t)' \subseteq Pushers(e, u, t) \cup {w}
          BY <2>7
        <5> QED
          BY <3>1, <5>1, OneMore
      <4>2. Claims(e)' = Claims(e) + 1
        BY <2>1, <2>4, <3>2, NoneIsNoRow DEF Claims
      <4> QED
        BY <1>3, <3>1, <4>1, <4>2
    <3>3. CASE e # k
      <4>1. Claims(e)' = Claims(e)
        BY <2>2, <3>3 DEF Claims
      <4> QED
        BY <1>1, <1>3, <2>7, <3>1, <3>3, <4>1, FewerPushers
    <3> QED
      BY <3>2, <3>3
  <2> QED
    BY <1>4, <2>8, <2>9 DEF ClaimInv
<1> QED
  BY <1>5, <1>6

\* A lease that expires frees the row; if somebody has the event then, it is one
\* more lost lease.
LEMMA LeaseClaimInv ==
  ASSUME ClaimInv, OutboxInv', NEW k \in Event, LeaseExpires(k)
  PROVE  ClaimInv'
<1>1. OutboxInv /\ HandsTidy /\ OwnersCounted /\ PushesBacked
  BY DEF ClaimInv
<1>2. worker' = worker /\ pushed' = pushed
  BY DEF LeaseExpires
<1>3. event[k] \in EventRow /\ event \in [Event -> EventRow \cup {None}]
  BY <1>1 DEF LeaseExpires, OutboxInv, TypeOK
<1>4. /\ event'[k] = [event[k] EXCEPT !.lease = "stale"]
      /\ \A e \in Event : e # k => event'[e] = event[e]
  BY <1>3 DEF LeaseExpires
<1>5. \A e \in Event : Owners(e)' = Owners(e)
  BY <1>2 DEF Owners, Owns
<1>6. HandsTidy'
  BY <1>1, <1>2 DEF HandsTidy
<1>7. OwnersCounted'
  <2> SUFFICES ASSUME NEW e \in Event
               PROVE  /\ IsFiniteSet(Owners(e)')
                      /\ Cardinality(Owners(e)') <= 1 + late'
                      /\ Free(event'[e]) => Cardinality(Owners(e)') <= late'
    BY DEF OwnersCounted
  <2>1. /\ IsFiniteSet(Owners(e)) /\ Cardinality(Owners(e)) <= 1 + late
        /\ Free(event[e]) => Cardinality(Owners(e)) <= late
        /\ late \in Nat
    BY <1>1, CountsAreNumbers DEF OwnersCounted
  <2>2. Cardinality(Owners(e)) \in Nat
    BY <2>1, FS_CardinalityType
  <2>3. late' \in Nat /\ late' >= late
    BY <2>1 DEF LeaseExpires
  <2>4. CASE e = k
    <3>1. CASE \E w \in Worker : Owns(w, k)
      <4>1. late' = late + 1
        BY <3>1 DEF LeaseExpires
      <4> QED
        BY <1>5, <2>1, <2>2, <4>1
    <3>2. CASE ~\E w \in Worker : Owns(w, k)
      <4>1. Owners(e) = {} /\ Owners(e)' = {}
        BY <1>5, <2>4, <3>2 DEF Owners
      <4>2. IsFiniteSet({}) /\ Cardinality({}) = 0
        BY FS_EmptySet
      <4> QED
        BY <2>3, <4>1, <4>2
    <3> QED
      BY <3>1, <3>2
  <2>5. CASE e # k
    BY <1>4, <1>5, <2>1, <2>2, <2>3, <2>5
  <2> QED
    BY <2>4, <2>5
<1>8. PushesBacked'
  <2>1. \A e \in Event, u \in User, t \in Token :
           Pushers(e, u, t)' \subseteq Pushers(e, u, t)
    BY <1>2 DEF Pushers
  <2>2. ASSUME NEW e \in Event PROVE Claims(e)' >= Claims(e)
    <3>1. event'[k] \in EventRow /\ event'[k].attempts = event[k].attempts
      BY <1>3, <1>4 DEF EventRow, Lease
    <3>2. Claims(e)' = Claims(e)
      BY <1>3, <1>4, <3>1, NoneIsNoRow DEF Claims
    <3> QED
      BY <1>1, <3>2, CountsAreNumbers
  <2> QED
    BY <1>1, <1>2, <2>1, <2>2, NothingPushed
<1> QED
  BY <1>6, <1>7, <1>8 DEF ClaimInv

\* What moves no worker, frees no row and forgets no claim.
LEMMA NobodyMoves ==
  ASSUME ClaimInv, OutboxInv', UNCHANGED <<worker, pushed, late>>,
         \A e \in Event : RowSame(event'[e], event[e])
  PROVE  ClaimInv'
<1>1. HandsTidy'
  BY DEF ClaimInv, HandsTidy
<1>2. /\ \A e \in Event : Owners(e)' \subseteq Owners(e)
      /\ \A e \in Event, u \in User, t \in Token :
            Pushers(e, u, t)' \subseteq Pushers(e, u, t)
  BY DEF Owners, Owns, Pushers
<1>3. OwnersCounted'
  BY <1>2, FewerOwners, CountsAreNumbers DEF ClaimInv, RowSame
<1>4. \A e \in Event : Claims(e)' >= Claims(e)
  BY RowSameKeepsClaims DEF ClaimInv
<1>5. PushesBacked'
  BY <1>2, <1>4, NothingPushed DEF ClaimInv
<1> QED
  BY <1>1, <1>3, <1>5 DEF ClaimInv

LEMMA NextClaimInv == ClaimInv /\ [Next]_vars => ClaimInv'
<1> SUFFICES ASSUME ClaimInv, [Next]_vars PROVE ClaimInv'
  OBVIOUS
<1>1. OutboxInv'
  BY NextKeeps DEF ClaimInv
<1>2. event \in [Event -> EventRow \cup {None}] /\ None \notin EventRow
  BY NoneIsNoRow DEF ClaimInv, OutboxInv, TypeOK
<1>3. ASSUME NEW k \in Event, enqueueOutboxEvent(k) PROVE ClaimInv'
  <2>1. ASSUME NEW e \in Event PROVE RowSame(event'[e], event[e])
    <3>1. CASE e = k
      <4>1. event'[k] = [status |-> "PENDING", attempts |-> 0, due |-> TRUE,
                         lease |-> "none"]
        BY <1>2, <1>3 DEF enqueueOutboxEvent
      <4> QED
        BY <1>3, <3>1, <4>1 DEF enqueueOutboxEvent, RowSame, Free
    <3>2. CASE e # k
      BY <1>2, <1>3, <3>2 DEF enqueueOutboxEvent, RowSame
    <3> QED
      BY <3>1, <3>2
  <2> QED
    BY <1>1, <1>3, <2>1, NobodyMoves DEF enqueueOutboxEvent
<1>4. ASSUME NEW k \in Event, DelayPasses(k) PROVE ClaimInv'
  <2>1. ASSUME NEW e \in Event PROVE RowSame(event'[e], event[e])
    <3>1. CASE e = k
      <4>1. event[k] \in EventRow /\ event'[k] = [event[k] EXCEPT !.due = TRUE]
        BY <1>2, <1>4 DEF DelayPasses
      <4>2. /\ event'[k] \in EventRow /\ event'[k].attempts = event[k].attempts
            /\ event'[k].status = event[k].status
            /\ event'[k].lease = event[k].lease
        BY <4>1 DEF EventRow
      <4> QED
        BY <1>2, <3>1, <4>1, <4>2 DEF RowSame, Free
    <3>2. CASE e # k
      BY <1>2, <1>4, <3>2 DEF DelayPasses, RowSame
    <3> QED
      BY <3>1, <3>2
  <2> QED
    BY <1>1, <1>4, <2>1, NobodyMoves DEF DelayPasses
<1>5. ASSUME NEW k \in Event, LeaseExpires(k) PROVE ClaimInv'
  BY <1>1, <1>5, LeaseClaimInv
<1>6. ASSUME NEW w \in Worker, WorkerStep(w) \/ Crash(w) PROVE ClaimInv'
  BY <1>1, <1>6, QuietClaimInv, ClaimClaimInv, MarkClaimInv DEF WorkerStep
<1>7. ASSUME UNCHANGED <<event, worker, pushed, late>> PROVE ClaimInv'
  <2>1. \A e \in Event : RowSame(event'[e], event[e])
    BY <1>7 DEF RowSame
  <2> QED
    BY <1>1, <1>7, <2>1, NobodyMoves
<1>8. ASSUME NEW u \in User, UserStep(u) PROVE ClaimInv'
  BY <1>7, <1>8 DEF UserStep, markRead, OpenRead, OpenWrite, updatePreference,
                    register
<1>9. ASSUME NEW t \in Token, disable(t) PROVE ClaimInv'
  BY <1>7, <1>9 DEF disable
<1>10. CASE UNCHANGED vars
  BY <1>7, <1>10 DEF vars
<1> QED
  BY <1>3, <1>4, <1>5, <1>6, <1>8, <1>9, <1>10 DEF Next

\* However many workers, crashes and late leases there are: an event is claimed at
\* most MaxAttempts times, a device is pushed to at most once per claim, and an
\* event has one owner more than leases were lost (claimBatch, deliverRecipient).
THEOREM ClaimsCounted == Spec => []ClaimsAreCounted
<1>1. Init => ClaimInv
  BY InitClaimInv
<1>2. ClaimInv /\ [Next]_vars => ClaimInv'
  BY NextClaimInv
<1>3. ClaimInv => ClaimsAreCounted
  <2> SUFFICES ASSUME ClaimInv PROVE ClaimsAreCounted
    OBVIOUS
  <2>1. AttemptsBounded
    BY DEF ClaimInv, OutboxInv
  <2>2. OneOwner
    BY DEF ClaimInv, OwnersCounted, OneOwner, Owners
  <2>3. ASSUME NEW e \in Event, NEW u \in User, NEW t \in Token,
               pushed[<<e, u, t>>] > 0
        PROVE  event[e] # None /\ pushed[<<e, u, t>>] <= event[e].attempts
    <3>1. /\ IsFiniteSet(Pushers(e, u, t))
          /\ pushed[<<e, u, t>>] + Cardinality(Pushers(e, u, t)) <= Claims(e)
          /\ pushed[<<e, u, t>>] \in Nat /\ Claims(e) \in Nat
      BY CountsAreNumbers DEF ClaimInv, PushesBacked
    <3>2. Cardinality(Pushers(e, u, t)) \in Nat
      BY <3>1, FS_CardinalityType
    <3>3. pushed[<<e, u, t>>] <= Claims(e)
      BY <3>1, <3>2
    <3> QED
      BY <2>3, <3>1, <3>3 DEF Claims
  <2> QED
    BY <2>1, <2>2, <2>3 DEF ClaimsAreCounted, PushesCounted
<1> QED
  BY <1>1, <1>2, <1>3, PTL DEF Spec

-----------------------------------------------------------------------------
(***************************************************************************)
(* What the notification pages show.  A row says for good whether it is    *)
(* hidden and that it was read, and only two steps make one: the worker's, *)
(* by the settings of that moment, and the user's own, of a history row.   *)
(***************************************************************************)

\* What a step does to the row of u for k.
RowFollows(k, u) ==
    LET old == recipient[<<k, u>>]
        new == recipient'[<<k, u>>]
    IN IF old # None
       THEN new # None /\ new.hidden = old.hidden /\ (old.readAt => new.readAt)
       ELSE \/ new = None
            \/ k \in Event /\ new.hidden = ~Effective(u, EventType[k]).inApp
            \/ k \notin Event /\ k \in LegacyRows(u) /\ ~new.hidden

\* A step that writes one row, without hiding it or making it unread.
LEMMA OneRowFollows ==
  ASSUME OutboxInv, NEW k \in Message, NEW u \in User, NEW row \in RecipientRow,
         recipient' = [recipient EXCEPT ![<<k, u>>] = row],
         IF recipient[<<k, u>>] # None
         THEN /\ row.hidden = recipient[<<k, u>>].hidden
              /\ recipient[<<k, u>>].readAt => row.readAt
         ELSE k \notin Event /\ k \in LegacyRows(u) /\ ~row.hidden
  PROVE  \A i \in Message, v \in User : RowFollows(i, v)
<1> SUFFICES ASSUME NEW i \in Message, NEW v \in User PROVE RowFollows(i, v)
  OBVIOUS
<1>1. recipient \in [Message \X User -> RecipientRow \cup {None}]
  BY DEF OutboxInv, TypeOK
<1>2. CASE i = k /\ v = u
  BY <1>1, <1>2, NoneIsNoRow DEF RowFollows
<1>3. CASE ~(i = k /\ v = u)
  <2>1. recipient'[<<i, v>>] = recipient[<<i, v>>]
    BY <1>1, <1>3
  <2> QED
    BY <2>1 DEF RowFollows
<1> QED
  BY <1>2, <1>3

LEMMA RowsFollow ==
  ASSUME RefinementInv, [Next]_vars
  PROVE  \A k \in Message, u \in User : RowFollows(k, u)
<1>1. CASE UNCHANGED <<notification, recipient>>
  BY <1>1 DEF RowFollows
<1>2. ASSUME NEW w \in Worker, Materialize(w)
      PROVE  \A k \in Message, u \in User : RowFollows(k, u)
  <2>1. PICK e \in worker[w].batch :
          IF notification[e] = None
          THEN /\ notification' = [notification EXCEPT ![e] = Addressed(e)]
               /\ recipient' = [r \in Message \X User |->
                     IF r[1] = e /\ r[2] \in Addressed(e)
                     THEN Queued(Effective(r[2], EventType[e]))
                     ELSE recipient[r]]
          ELSE UNCHANGED <<notification, recipient>>
    BY <1>2 DEF Materialize
  <2>2. e \in Event
    BY DEF RefinementInv, OutboxInv, TypeOK, Hand
  <2>3. CASE notification[e] = None
    <3> SUFFICES ASSUME NEW k \in Message, NEW u \in User PROVE RowFollows(k, u)
      OBVIOUS
    <3>1. recipient'[<<k, u>>] =
             IF k = e /\ u \in Addressed(e)
             THEN Queued(Effective(u, EventType[e])) ELSE recipient[<<k, u>>]
      BY <2>1, <2>3
    <3>2. recipient[<<e, u>>] = None
      BY <2>2, <2>3 DEF RefinementInv, RowsAreOfAudience
    <3>3. \A setting : Queued(setting).hidden = ~setting.inApp
      BY DEF Queued
    <3> QED
      BY <2>2, <3>1, <3>2, <3>3 DEF RowFollows
  <2>4. CASE notification[e] # None
    BY <1>1, <2>1, <2>4
  <2> QED
    BY <2>3, <2>4
<1>3. ASSUME NEW w \in Worker, RecordRecipient(w)
      PROVE  \A k \in Message, u \in User : RowFollows(k, u)
  <2>1. worker[w] \in Hand /\ worker[w].step = "push"
    BY <1>3 DEF RefinementInv, OutboxInv, TypeOK, RecordRecipient
  <2>2. PICK e \in Event, u \in User : e = worker[w].key /\ u = worker[w].user
    BY <2>1 DEF RefinementInv, OutboxInv, HandsFit, HandFits
  <2> DEFINE ok == worker[w].ok
             old == recipient[<<e, u>>]
             row == [old EXCEPT !.status = IF ok THEN "SENT" ELSE "FAILED",
                                !.sentAt = @ \/ ok]
  <2>3. old \in RecipientRow /\ old # None /\ e \in Message
    BY <2>1, <2>2, NoneIsNoRow
       DEF RefinementInv, OutboxInv, TypeOK, HandsFit, HandFits, Message
  <2>4. row \in RecipientRow /\ row.hidden = old.hidden /\ row.readAt = old.readAt
    BY <2>1, <2>3 DEF RecipientRow, RecipientStatus, Hand
  <2>5. recipient' = [recipient EXCEPT ![<<e, u>>] = row]
    BY <1>3, <2>2 DEF RecordRecipient, RefinementInv, OutboxInv, TypeOK
  <2> HIDE DEF row
  <2> QED
    BY <2>3, <2>4, <2>5, OneRowFollows DEF RefinementInv
<1>4. ASSUME NEW u \in User, OpenWrite(u)
      PROVE  \A i \in Message, v \in User : RowFollows(i, v)
  <2>1. opening[u] \in [key : Message, readAt : BOOLEAN]
    BY <1>4 DEF OpenWrite, RefinementInv, OutboxInv, TypeOK
  <2>2. PICK k \in Message : k = opening[u].key
    BY <2>1
  <2> DEFINE status == IF opening[u].readAt THEN "READ" ELSE "OPENED"
             old == recipient[<<k, u>>]
             row == [old EXCEPT !.status = status, !.openedAt = TRUE]
  <2>3. old \in RecipientRow /\ old # None
    BY <1>4, <2>2, NoneIsNoRow
       DEF OpenWrite, RefinementInv, OutboxInv, TypeOK, OpeningFits
  <2>4. row \in RecipientRow /\ row.hidden = old.hidden /\ row.readAt = old.readAt
    BY <2>3 DEF RecipientRow, RecipientStatus
  <2>5. recipient' = [recipient EXCEPT ![<<k, u>>] = row]
    BY <1>4, <2>2 DEF OpenWrite, RefinementInv, OutboxInv, TypeOK
  <2> HIDE DEF row
  <2> QED
    BY <2>3, <2>4, <2>5, OneRowFollows DEF RefinementInv
<1>5. ASSUME NEW u \in User, NEW k \in Message, markRead(k, u)
      PROVE  \A i \in Message, v \in User : RowFollows(i, v)
  <2> DEFINE old == recipient[<<k, u>>]
             row == IF old = None THEN Read
                    ELSE [old EXCEPT !.status = "READ", !.readAt = TRUE,
                                     !.openedAt = TRUE]
  <2>1. old \in RecipientRow \cup {None}
    BY DEF RefinementInv, OutboxInv, TypeOK
  <2>2. /\ row \in RecipientRow
        /\ old = None => ~row.hidden
        /\ old # None => row.hidden = old.hidden /\ row.readAt
    BY <2>1 DEF Read, RecipientRow, RecipientStatus
  <2>3. recipient' = [recipient EXCEPT ![<<k, u>>] = row]
    BY <1>5 DEF markRead, RefinementInv, OutboxInv, TypeOK
  <2>4. old = None => k \notin Event /\ k \in LegacyRows(u)
    BY <1>5, OutboxAssumption DEF markRead, LegacyRows
  <2> HIDE DEF row
  <2> QED
    BY <2>2, <2>3, <2>4, OneRowFollows DEF RefinementInv
<1> QED
  BY <1>1, <1>2, <1>3, <1>4, <1>5, RowFrame

LEMMA EventPreferenceObeyed ==
  ASSUME NEW u, NEW type
  PROVE  eventPreference(u, type) = Effective(u, type)
BY DEF eventPreference, globalPreference, Effective

\* Everybody the worker may address has a switch for the message.
LEMMA EverybodyHasASwitch ==
  ASSUME NEW e \in Event, NEW u \in route(e)
  PROVE  Role[u] \in EVENTS(EventType[e])
<1>1. Role[u] \in {"CUSTOMER", "STORE_OWNER", "RIDER", "ADMIN"}
  BY OutboxAssumption DEF route
<1>2. CASE EventType[e] = "ADMIN_BROADCAST"
  BY <1>1, <1>2 DEF EVENTS
<1>3. CASE EventType[e] # "ADMIN_BROADCAST"
  <2>1. Role[u] \in RolesAddressed(EventType[e])
    BY <1>3 DEF route
  <2> QED
    BY <1>1, <2>1 DEF RolesAddressed, EVENTS
<1> QED
  BY <1>2, <1>3

\* The devices a worker takes up are those of a user who wants pushes.
LEMMA PushesAreWanted ==
  ASSUME ClaimInv, [Next]_vars, NEW w \in Worker,
         worker[w].step = "deliver", worker'[w].tokens # {}
  PROVE  eventPreference(worker'[w].user, EventType[worker[w].key]).push
<1>1. worker \in [Worker -> Hand] /\ worker[w] \in Hand /\ worker[w].tokens = {}
  BY DEF ClaimInv, OutboxInv, TypeOK, HandsTidy, HandTidy
<1>2. \/ worker' = worker
      \/ \E v \in Worker : WorkerStep(v) \/ Crash(v)
  <2>1. CASE \E e \in Event :
               enqueueOutboxEvent(e) \/ DelayPasses(e) \/ LeaseExpires(e)
    BY <2>1 DEF enqueueOutboxEvent, DelayPasses, LeaseExpires
  <2>2. CASE \E u \in User : UserStep(u)
    BY <2>2 DEF UserStep, markRead, OpenRead, OpenWrite, updatePreference, register
  <2>3. CASE \E t \in Token : disable(t)
    BY <2>3 DEF disable
  <2>4. CASE UNCHANGED vars
    BY <2>4 DEF vars
  <2> QED
    BY <2>1, <2>2, <2>3, <2>4 DEF Next
<1>3. PICK v \in Worker : WorkerStep(v) \/ Crash(v)
  BY <1>1, <1>2
<1>4. OthersStay(v)
  BY <1>3, QuietStep, ClaimTakes DEF ClaimInv, WorkerStep
<1>5. v = w
  BY <1>1, <1>4 DEF OthersStay
<1>6. StartRecipient(w) \/ MarkEvent(w) \/ Crash(w)
  BY <1>3, <1>5 DEF WorkerStep, RecoverStale, FindCandidates, Claim, Materialize,
       ReadRecipients, SendPush, RecordAttempt, AttemptCollides,
       RecordRecipient, EndBatch
<1>7. StartRecipient(w)
  <2>1. CASE MarkEvent(w)
    BY <1>1, <2>1 DEF MarkEvent, Hand
  <2>2. CASE Crash(w)
    BY <1>1, <2>2 DEF Crash, Idle
  <2> QED
    BY <1>6, <2>1, <2>2
<1>8. PICK u \in worker[w].left :
        \/ worker' = [worker EXCEPT ![w].left = @ \ {u}]
        \/ worker' = [worker EXCEPT ![w].step = "push",
                         ![w].left = @ \ {u}, ![w].user = u,
                         ![w].tokens = PushTargets(worker[w].key, u),
                         ![w].ok = PushTargets(worker[w].key, u) = {}]
  BY <1>7 DEF StartRecipient
<1>9. /\ worker'[w].user = u
      /\ worker'[w].tokens = PushTargets(worker[w].key, u)
  <2>1. CASE worker' = [worker EXCEPT ![w].left = @ \ {u}]
    BY <1>1, <2>1 DEF Hand
  <2>2. CASE worker' = [worker EXCEPT ![w].step = "push",
                         ![w].left = @ \ {u}, ![w].user = u,
                         ![w].tokens = PushTargets(worker[w].key, u),
                         ![w].ok = PushTargets(worker[w].key, u) = {}]
    BY <1>1, <2>2 DEF Hand
  <2> QED
    BY <1>8, <2>1, <2>2
<1> QED
  BY <1>9, EventPreferenceObeyed DEF PushTargets

LEMMA PagesStep ==
  ASSUME RefinementInv, ClaimInv, [Next]_vars
  PROVE  SettingsObeyed /\ BadgeFollowsNews /\ InboxStays
<1>1. \A k \in Message, u \in User : RowFollows(k, u)
  BY RowsFollow
<1>2. SettingsObeyed
  <2>1. ASSUME NEW e \in Event, NEW u \in route(e),
               recipient[<<e, u>>] = None, recipient'[<<e, u>>] # None
        PROVE  recipient'[<<e, u>>].hidden = ~eventPreference(u, EventType[e]).inApp
    <3>1. u \in User /\ e \in Message
      BY DEF route, Message
    <3>2. RowFollows(e, u)
      BY <1>1, <3>1
    <3> QED
      BY <2>1, <3>2, EventPreferenceObeyed DEF RowFollows
  <2> QED
    BY <2>1, EverybodyHasASwitch, PushesAreWanted DEF SettingsObeyed
<1>3. BadgeFollowsNews
  <2> SUFFICES ASSUME NEW u \in User, NEW k \in Unread(u)', k \notin Unread(u),
                      recipient[<<k, u>>] # None
               PROVE  FALSE
    BY DEF BadgeFollowsNews
  <2>1. k \in Message
    BY DEF Unread, listInbox
  <2>2. RowFollows(k, u)
    BY <1>1, <2>1
  <2>3. /\ recipient'[<<k, u>>] # None
        /\ ~recipient'[<<k, u>>].hidden /\ ~recipient'[<<k, u>>].readAt
    BY <2>2 DEF RowFollows, Unread, listInbox
  <2>4. recipient[<<k, u>>].hidden \/ recipient[<<k, u>>].readAt
    BY <2>1 DEF Unread, listInbox
  <2> QED
    BY <2>2, <2>3, <2>4 DEF RowFollows
<1>4. InboxStays
  <2> SUFFICES ASSUME NEW u \in User, NEW k \in listInbox(u)
               PROVE  k \in listInbox(u)'
    BY DEF InboxStays
  <2>1. k \in Message
    BY DEF listInbox
  <2>2. RowFollows(k, u)
    BY <1>1, <2>1
  <2>3. CASE recipient[<<k, u>>] # None
    BY <2>1, <2>2, <2>3 DEF RowFollows, listInbox
  <2>4. CASE recipient[<<k, u>>] = None
    <3>1. k \in LegacyRows(u) /\ k \notin Event
      BY <2>4, OutboxAssumption DEF listInbox, LegacyRows
    <3>2. recipient'[<<k, u>>] = None \/ ~recipient'[<<k, u>>].hidden
      BY <2>2, <2>4, <3>1 DEF RowFollows
    <3> QED
      BY <2>1, <3>1, <3>2 DEF listInbox, LegacyRows
  <2> QED
    BY <2>3, <2>4
<1> QED
  BY <1>2, <1>3, <1>4

\* The notification pages agree with the server in every step, whatever workers,
\* crashes and users do at once: a setting shown is the setting obeyed, the badge
\* rises only with a new message, and the inbox loses nothing (listInbox,
\* markRead, materializeOutboxEvent, deliverRecipient).
THEOREM PagesFollow == Spec => PagesFollowServer
<1>1. Init => RefinementInv /\ ClaimInv
  BY InitRefinementInv, InitClaimInv
<1>2. RefinementInv /\ ClaimInv /\ [Next]_vars => RefinementInv' /\ ClaimInv'
  BY RefinementInvKeeps, NextClaimInv
<1>3. RefinementInv /\ ClaimInv /\ [Next]_vars
         => SettingsObeyed /\ BadgeFollowsNews /\ InboxStays
  BY PagesStep
<1> QED
  BY <1>1, <1>2, <1>3, PTL DEF Spec, PagesFollowServer

=============================================================================
