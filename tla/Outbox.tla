------------------------------- MODULE Outbox -------------------------------
(***************************************************************************)
(* The transactional outbox and the delivery of notifications: workers     *)
(* claim events under a lease, turn an event into one notification with a  *)
(* recipient row per addressed user, push it to the registered devices and *)
(* mark the event processed or failed, to be claimed again.                *)
(*                                                                         *)
(* Every statement of the worker's loop is an action, so two workers, a    *)
(* crash, a lease that expires under a slow worker, a user who reads the   *)
(* message or a device that signs in elsewhere may come between any two.   *)
(* The clock is two bits per event: due (availableAt <= now) and the lease *)
(* (lockedAt more than five minutes ago).  All events fit one batch, and   *)
(* the reads that open deliverRecipient are one action.                    *)
(***************************************************************************)
EXTENDS Naturals, FiniteSets

CONSTANTS
    Event,        \* outbox idempotency keys
    User,
    Token,        \* push tokens, one per device
    Worker,       \* notification workers, one per API process
    None,
    Role,         \* Role[u]: the user's role
    EventType,    \* EventType[e]: type of the event with that key
    Party,        \* Party[e]: the order's customer, store owner and rider
    Audience,     \* Audience[e]: the roles a broadcast is for
    History,      \* order status rows from before the outbox existed
    Concerned,    \* Concerned[h]: the customer, store owner and rider of its order
    Ticket,       \* the rows that say a customer opened a support ticket
    MaxAttempts,  \* claims per event; 5 in the code
    LateLimit,    \* leases that expire under a worker that is still alive
    CrashLimit,   \* crashes of worker processes in one behaviour
    Endpoints,    \* what users do in this instance
    PreferenceInputs,  \* the [push, inApp] settings users choose from
    Outcomes      \* what the push provider may answer: "sent", "failed", "invalid"

EventStatus == {"PENDING", "PROCESSING", "PROCESSED", "FAILED"}
RecipientStatus == {"QUEUED", "SENT", "FAILED", "READ", "OPENED"}
Lease == {"none", "fresh", "stale"}
EventRow == [status : EventStatus, attempts : Nat, due : BOOLEAN,
             lease : Lease]
RecipientRow == [status : RecipientStatus, sentAt : BOOLEAN,
                 readAt : BOOLEAN, openedAt : BOOLEAN, hidden : BOOLEAN]
Message == Event \cup History
Preference == [push : BOOLEAN, inApp : BOOLEAN]
Scope == {"*"} \cup {EventType[e] : e \in Event}
Candidate == [key : Event, attempts : Nat]
Step == {"idle", "find", "claim", "work", "recipients", "deliver", "push"}
Push == [token : Token, number : Nat, outcome : Outcomes]
Hand == [step : Step, todo : SUBSET Candidate, batch : SUBSET Event,
         key : Event \cup {None}, left : SUBSET User, failed : BOOLEAN,
         user : User \cup {None}, tokens : SUBSET Token,
         sent : Push \cup {None}, ok : BOOLEAN]

ASSUME OutboxAssumption ==
    /\ None \notin Event \cup User \cup EventRow \cup RecipientRow
                   \cup Preference
    /\ None \notin [user : User, active : BOOLEAN]
    /\ \A group \in SUBSET User : None # group
    /\ None \notin [key : Message, readAt : BOOLEAN] \cup Push
    /\ MaxAttempts \in Nat /\ CrashLimit \in Nat /\ LateLimit \in Nat
    /\ PreferenceInputs \subseteq Preference
    /\ Endpoints \subseteq {"read", "opened", "preferences", "subscriptions"}
    /\ Outcomes \subseteq {"sent", "failed", "invalid"}
    /\ Role \in [User -> {"CUSTOMER", "STORE_OWNER", "RIDER", "ADMIN"}]
    /\ Party \in [Event -> SUBSET User]
    /\ History \cap Event = {} /\ None \notin History /\ Ticket \subseteq History
    /\ Concerned \in [History -> SUBSET User]

VARIABLES
    event,         \* event[e]: the OutboxEvent row, None before it is enqueued
    notification,  \* notification[e]: its Notification: the recipients, or None
    recipient,     \* recipient[<<k, u>>]: the NotificationRecipient row
    attempt,       \* attempt[<<e, u, t>>]: rows of NotificationDeliveryAttempt
    pushed,        \* history: pushed[<<e, u, t>>]: pushes sent
    preference,    \* preference[<<u, scope>>]: NotificationPreference
    subscription,  \* subscription[t]: PushSubscription
    worker,        \* worker[w]: the locals of its processBatch
    opening,       \* opening[u]: a markOpened between its read and its write
    crashes,       \* crashes so far
    late           \* leases that expired under a live worker so far

vars == <<event, notification, recipient, attempt, pushed, preference,
          subscription, worker, opening, crashes, late>>

TypeOK ==
    /\ event \in [Event -> EventRow \cup {None}]
    /\ notification \in [Event -> {None} \cup (SUBSET User)]
    /\ recipient \in [Message \X User -> RecipientRow \cup {None}]
    /\ attempt \in [Event \X User \X Token -> Nat]
    /\ pushed \in [Event \X User \X Token -> Nat]
    /\ preference \in [User \X Scope -> Preference \cup {None}]
    /\ subscription \in
          [Token -> [user : User, active : BOOLEAN] \cup {None}]
    /\ worker \in [Worker -> Hand]
    /\ opening \in [User -> [key : Message, readAt : BOOLEAN] \cup {None}]
    /\ crashes \in Nat
    /\ late \in Nat

Idle == [step |-> "idle", todo |-> {}, batch |-> {}, key |-> None,
         left |-> {}, failed |-> FALSE, user |-> None, tokens |-> {},
         sent |-> None, ok |-> FALSE]

Init ==
    /\ event = [e \in Event |-> None]
    /\ notification = [e \in Event |-> None]
    /\ recipient = [r \in Message \X User |-> None]
    /\ attempt = [a \in Event \X User \X Token |-> 0]
    /\ pushed = [a \in Event \X User \X Token |-> 0]
    /\ preference = [p \in User \X Scope |-> None]
    /\ subscription = [t \in Token |-> None]
    /\ worker = [w \in Worker |-> Idle]
    /\ opening = [u \in User |-> None]
    /\ crashes = 0
    /\ late = 0

-----------------------------------------------------------------------------
(* The event's row *)

enqueueOutboxEvent(e) ==
    /\ event[e] = None
    /\ event' = [event EXCEPT ![e] =
                    [status |-> "PENDING", attempts |-> 0, due |-> TRUE,
                     lease |-> "none"]]
    /\ UNCHANGED <<notification, recipient, attempt, pushed, preference,
                   subscription, worker, opening, crashes, late>>

\* The retry delay set by markFailed has passed.
DelayPasses(e) ==
    /\ event[e] # None /\ ~event[e].due
    /\ event' = [event EXCEPT ![e].due = TRUE]
    /\ UNCHANGED <<notification, recipient, attempt, pushed, preference,
                   subscription, worker, opening, crashes, late>>

Owns(w, e) == e \in worker[w].batch \cup {worker[w].key}

\* Five minutes have passed since the event was claimed.
LeaseExpires(e) ==
    /\ event[e] # None /\ event[e].lease = "fresh"
    /\ IF \E w \in Worker : Owns(w, e)
       THEN late < LateLimit /\ late' = late + 1 ELSE UNCHANGED late
    /\ event' = [event EXCEPT ![e].lease = "stale"]
    /\ UNCHANGED <<notification, recipient, attempt, pushed, preference,
                   subscription, worker, opening, crashes>>

-----------------------------------------------------------------------------
(* claimBatch *)

Claimable(row) == row.status \in {"PENDING", "FAILED"} /\ row.due

\* A mutant: an event on its last attempt is not recovered.
StaleAndRetryable(row) ==
    /\ row.status = "PROCESSING" /\ row.lease = "stale"
    /\ row.attempts < MaxAttempts

Stale(row) == row.status = "PROCESSING" /\ row.lease = "stale"

IsCandidate(e) ==
    event[e] # None /\ Claimable(event[e]) /\ event[e].attempts < MaxAttempts

\* The stale leases fall to this worker; one updateMany.
RecoverStale(w) ==
    /\ worker[w].step = "idle"
    /\ event' = [e \in Event |->
                    IF event[e] # None /\ Stale(event[e])
                    THEN [event[e] EXCEPT !.status = "FAILED", !.due = TRUE,
                                          !.lease = "none"]
                    ELSE event[e]]
    /\ worker' = [worker EXCEPT ![w].step = "find"]
    /\ UNCHANGED <<notification, recipient, attempt, pushed, preference,
                   subscription, opening, crashes, late>>

FindCandidates(w) ==
    /\ worker[w].step = "find"
    /\ LET found == {e \in Event : IsCandidate(e)}
       IN worker' = [worker EXCEPT
             ![w].step = IF found = {} THEN "idle" ELSE "claim",
             ![w].todo = {[key |-> e, attempts |-> event[e].attempts] :
                             e \in found}]
    /\ UNCHANGED <<event, notification, recipient, attempt, pushed,
                   preference, subscription, opening, crashes, late>>

\* A mutant: the claim does not compare the attempts it read.
ClaimSucceedsByStatus(c) == Claimable(event[c.key])

\* A mutant: the claim is an update by id.
ClaimSucceedsAlways(c) == c.attempts = c.attempts

\* The where clause of the claiming updateMany.
ClaimSucceeds(c) ==
    Claimable(event[c.key]) /\ event[c.key].attempts = c.attempts

\* A mutant: the claim does not count as an attempt.
ClaimedUncounted(row) ==
    [row EXCEPT !.status = "PROCESSING", !.lease = "fresh"]

Claimed(row) ==
    [row EXCEPT !.status = "PROCESSING", !.attempts = @ + 1, !.lease = "fresh"]

Claim(w) ==
    /\ worker[w].step = "claim"
    /\ \E c \in worker[w].todo :
          /\ event' = IF ClaimSucceeds(c)
                      THEN [event EXCEPT ![c.key] = Claimed(@)] ELSE event
          /\ worker' = [worker EXCEPT
                ![w].todo = @ \ {c},
                ![w].batch = IF ClaimSucceeds(c) THEN @ \cup {c.key} ELSE @,
                ![w].step = IF worker[w].todo = {c} THEN "work" ELSE @]
    /\ UNCHANGED <<notification, recipient, attempt, pushed, preference,
                   subscription, opening, crashes, late>>

-----------------------------------------------------------------------------
(* materializeOutboxEvent *)

\* The roles route() adds for each type of event.
RolesAddressed(type) ==
    CASE type \in {"ORDER_PLACED", "ASSIGNMENT_REJECTED", "ASSIGNMENT_EXPIRED",
                   "RIDER_EN_ROUTE_TO_STORE"} -> {"STORE_OWNER", "ADMIN"}
      [] type \in {"STORE_ACCEPTED_ORDER", "STORE_STARTED_PICKING",
                   "OUT_FOR_DELIVERY", "RIDER_AT_CUSTOMER"} -> {"CUSTOMER"}
      [] type \in {"ORDER_PACKED", "DISPATCH_JOB_CREATED"} -> {"ADMIN"}
      [] type = "ASSIGNMENT_OFFERED" -> {"RIDER"}
      [] type \in {"ASSIGNMENT_ACCEPTED", "DELIVERY_FAILED",
                   "DELIVERY_CANCELLED"} -> {"CUSTOMER", "STORE_OWNER", "ADMIN"}
      [] type = "RIDER_AT_STORE" -> {"STORE_OWNER"}
      [] type = "PICKUP_VERIFIED" -> {"CUSTOMER", "ADMIN"}
      [] OTHER -> {"CUSTOMER", "STORE_OWNER", "RIDER", "ADMIN"}

\* Administrators are addressed as a role, the others as parties to the order;
\* a broadcast goes to everybody of the roles it is for.
route(e) ==
    {u \in User :
        IF EventType[e] = "ADMIN_BROADCAST" THEN Role[u] \in Audience[e]
        ELSE /\ Role[u] \in RolesAddressed(EventType[e])
             /\ Role[u] = "ADMIN" \/ u \in Party[e]}

\* The setting for this type of event, else the one for "*", else both on.
Effective(u, type) ==
    IF preference[<<u, type>>] # None THEN preference[<<u, type>>]
    ELSE IF preference[<<u, "*">>] # None THEN preference[<<u, "*">>]
    ELSE [push |-> TRUE, inApp |-> TRUE]

Addressed(e) ==
    {u \in route(e) : Effective(u, EventType[e]).push
                         \/ Effective(u, EventType[e]).inApp}

\* A mutant: a recipient starts with the status of an outbox event.
QueuedAsPending(setting) ==
    [status |-> "PENDING", sentAt |-> FALSE, readAt |-> FALSE,
     openedAt |-> FALSE, hidden |-> ~setting.inApp]

\* Who wants no in-app messages is listed in the notification's data as hidden.
Queued(setting) ==
    [status |-> "QUEUED", sentAt |-> FALSE, readAt |-> FALSE,
     openedAt |-> FALSE, hidden |-> ~setting.inApp]

\* One transaction; the unique index on outboxEventId makes the loser of a race
\* take the notification of the winner.
Materialize(w) ==
    /\ worker[w].step = "work"
    /\ \E e \in worker[w].batch :
          /\ IF notification[e] = None
             THEN /\ notification' = [notification EXCEPT ![e] = Addressed(e)]
                  /\ recipient' = [r \in Message \X User |->
                        IF r[1] = e /\ r[2] \in Addressed(e)
                        THEN Queued(Effective(r[2], EventType[e]))
                        ELSE recipient[r]]
             ELSE UNCHANGED <<notification, recipient>>
          /\ worker' = [worker EXCEPT ![w].step = "recipients",
                                      ![w].key = e, ![w].batch = @ \ {e}]
    /\ UNCHANGED <<event, attempt, pushed, preference, subscription, opening,
                   crashes, late>>

-----------------------------------------------------------------------------
(* processOutboxEvent and deliverRecipient *)

\* A mutant: a retry leaves out the recipients that failed.
UndeliveredQueuedOnly(e) ==
    {u \in notification[e] : recipient[<<e, u>>].status = "QUEUED"}

Undelivered(e) ==
    {u \in notification[e] : recipient[<<e, u>>].status \in {"QUEUED", "FAILED"}}

ReadRecipients(w) ==
    /\ worker[w].step = "recipients"
    /\ worker' = [worker EXCEPT ![w].step = "deliver", ![w].failed = FALSE,
                                ![w].left = Undelivered(worker[w].key)]
    /\ UNCHANGED <<event, notification, recipient, attempt, pushed,
                   preference, subscription, opening, crashes, late>>

ActiveTokens(u) ==
    {t \in Token : subscription[t] # None /\ subscription[t].user = u
                      /\ subscription[t].active}

PushTargets(e, u) ==
    IF Effective(u, EventType[e]).push THEN ActiveTokens(u) ELSE {}

\* Reads the recipient, the active subscriptions and the preference.
StartRecipient(w) ==
    /\ worker[w].step = "deliver"
    /\ \E u \in worker[w].left :
          LET e == worker[w].key
              targets == PushTargets(e, u)
          IN worker' = IF recipient[<<e, u>>].status \in {"READ", "OPENED"}
                       THEN [worker EXCEPT ![w].left = @ \ {u}]
                       ELSE [worker EXCEPT ![w].step = "push",
                                           ![w].left = @ \ {u},
                                           ![w].user = u,
                                           ![w].tokens = targets,
                                           ![w].ok = targets = {}]
    /\ UNCHANGED <<event, notification, recipient, attempt, pushed,
                   preference, subscription, opening, crashes, late>>

\* Counts the attempts made so far, then calls the provider.  "sent" includes
\* the pushes the provider skips.
SendPush(w) ==
    /\ worker[w].step = "push" /\ worker[w].sent = None
    /\ \E t \in worker[w].tokens, outcome \in Outcomes :
          LET a == <<worker[w].key, worker[w].user, t>>
          IN /\ pushed' = [pushed EXCEPT ![a] = @ + 1]
             /\ worker' = [worker EXCEPT ![w].tokens = @ \ {t},
                   ![w].sent = [token |-> t, number |-> attempt[a] + 1,
                                outcome |-> outcome]]
    /\ UNCHANGED <<event, notification, recipient, attempt, preference,
                   subscription, opening, crashes, late>>

\* Attempt numbers are unique per recipient and subscription.
NumberTaken(w) ==
    attempt[<<worker[w].key, worker[w].user, worker[w].sent.token>>]
        >= worker[w].sent.number

\* The attempt's row; an invalid token is closed.
RecordAttempt(w) ==
    /\ worker[w].step = "push" /\ worker[w].sent # None /\ ~NumberTaken(w)
    /\ LET sent == worker[w].sent
       IN /\ attempt' = [attempt EXCEPT
                ![<<worker[w].key, worker[w].user, sent.token>>] = @ + 1]
          /\ subscription' = IF sent.outcome = "invalid"
                             THEN [subscription EXCEPT ![sent.token].active = FALSE]
                             ELSE subscription
          /\ worker' = [worker EXCEPT ![w].sent = None,
                                      ![w].ok = @ \/ sent.outcome = "sent"]
    /\ UNCHANGED <<event, notification, recipient, pushed, preference,
                   opening, crashes, late>>

\* Another worker used the number: the insert fails, the insert in the catch
\* block fails too, and deliverRecipient throws before it writes the recipient.
AttemptCollides(w) ==
    /\ worker[w].step = "push" /\ worker[w].sent # None /\ NumberTaken(w)
    /\ worker' = [worker EXCEPT ![w].step = "deliver", ![w].failed = TRUE,
                     ![w].user = None, ![w].tokens = {}, ![w].sent = None,
                     ![w].ok = FALSE]
    /\ UNCHANGED <<event, notification, recipient, attempt, pushed,
                   preference, subscription, opening, crashes, late>>

RecordRecipient(w) ==
    /\ worker[w].step = "push" /\ worker[w].tokens = {}
    /\ worker[w].sent = None
    /\ LET r == <<worker[w].key, worker[w].user>>
           ok == worker[w].ok
       IN /\ recipient' = [recipient EXCEPT
                ![r].status = IF ok THEN "SENT" ELSE "FAILED",
                ![r].sentAt = @ \/ ok]
          /\ worker' = [worker EXCEPT ![w].step = "deliver",
                           ![w].failed = @ \/ ~ok,
                           ![w].user = None, ![w].ok = FALSE]
    /\ UNCHANGED <<event, notification, attempt, pushed, preference,
                   subscription, opening, crashes, late>>

-----------------------------------------------------------------------------
(* The rest of processBatch *)

\* markProcessed and markFailed update by id, whatever the row holds by then.
Marked(row, failed) ==
    IF failed THEN [row EXCEPT !.status = "FAILED", !.due = FALSE,
                               !.lease = "none"]
    ELSE [row EXCEPT !.status = "PROCESSED", !.lease = "none"]

MarkEvent(w) ==
    /\ worker[w].step = "deliver" /\ worker[w].left = {}
    /\ event' = [event EXCEPT
                    ![worker[w].key] = Marked(@, worker[w].failed)]
    /\ worker' = [worker EXCEPT ![w].step = "work", ![w].key = None,
                                ![w].failed = FALSE]
    /\ UNCHANGED <<notification, recipient, attempt, pushed, preference,
                   subscription, opening, crashes, late>>

EndBatch(w) ==
    /\ worker[w].step = "work" /\ worker[w].batch = {}
    /\ worker' = [worker EXCEPT ![w].step = "idle"]
    /\ UNCHANGED <<event, notification, recipient, attempt, pushed,
                   preference, subscription, opening, crashes, late>>

\* The process dies, or a database error escapes processBatch.
Crash(w) ==
    /\ crashes < CrashLimit /\ worker[w].step # "idle"
    /\ worker' = [worker EXCEPT ![w] = Idle]
    /\ crashes' = crashes + 1
    /\ UNCHANGED <<event, notification, recipient, attempt, pushed,
                   preference, subscription, opening, late>>

-----------------------------------------------------------------------------
(* The users *)

\* The rows of the order history a user may read as messages.
LegacyRows(u) ==
    IF Role[u] = "ADMIN" THEN Ticket ELSE {h \in History : u \in Concerned[h]}

Read == [status |-> "READ", sentAt |-> TRUE, readAt |-> TRUE, openedAt |-> TRUE,
         hidden |-> FALSE]

\* A history row gets a recipient row when it is read for the first time.
markRead(k, u) ==
    /\ recipient[<<k, u>>] # None \/ k \in LegacyRows(u)
    /\ recipient' = [recipient EXCEPT ![<<k, u>>] =
          IF @ = None THEN Read
          ELSE [@ EXCEPT !.status = "READ", !.readAt = TRUE, !.openedAt = TRUE]]
    /\ UNCHANGED <<event, notification, attempt, pushed, preference,
                   subscription, worker, opening, crashes, late>>

\* markOpened reads the row ...
OpenRead(k, u) ==
    /\ recipient[<<k, u>>] # None /\ opening[u] = None
    /\ opening' = [opening EXCEPT ![u] =
                      [key |-> k, readAt |-> recipient[<<k, u>>].readAt]]
    /\ UNCHANGED <<event, notification, recipient, attempt, pushed,
                   preference, subscription, worker, crashes, late>>

\* ... and writes a status computed from what it read.
OpenWrite(u) ==
    /\ opening[u] # None
    /\ recipient' = [recipient EXCEPT
          ![<<opening[u].key, u>>] =
              [@ EXCEPT !.status = IF opening[u].readAt THEN "READ" ELSE "OPENED",
                        !.openedAt = TRUE]]
    /\ opening' = [opening EXCEPT ![u] = None]
    /\ UNCHANGED <<event, notification, attempt, pushed, preference,
                   subscription, worker, crashes, late>>

updatePreference(u, scope, input) ==
    /\ preference' = [preference EXCEPT ![<<u, scope>>] = input]
    /\ UNCHANGED <<event, notification, recipient, attempt, pushed,
                   subscription, worker, opening, crashes, late>>

\* A token belongs to whoever registered it last.
register(u, t) ==
    /\ subscription' = [subscription EXCEPT ![t] =
                           [user |-> u, active |-> TRUE]]
    /\ UNCHANGED <<event, notification, recipient, attempt, pushed,
                   preference, worker, opening, crashes, late>>

disable(t) ==
    /\ subscription[t] # None
    /\ subscription' = [subscription EXCEPT ![t].active = FALSE]
    /\ UNCHANGED <<event, notification, recipient, attempt, pushed,
                   preference, worker, opening, crashes, late>>

WorkerStep(w) ==
    \/ RecoverStale(w) \/ FindCandidates(w) \/ Claim(w) \/ Materialize(w)
    \/ ReadRecipients(w) \/ StartRecipient(w) \/ SendPush(w)
    \/ RecordAttempt(w) \/ AttemptCollides(w) \/ RecordRecipient(w) \/ MarkEvent(w) \/ EndBatch(w)

UserStep(u) ==
    \/ "read" \in Endpoints /\ \E k \in Message : markRead(k, u)
    \/ "opened" \in Endpoints /\ \E k \in Message : OpenRead(k, u)
    \/ OpenWrite(u)
    \/ /\ "preferences" \in Endpoints
       /\ \E scope \in Scope, input \in PreferenceInputs :
             updatePreference(u, scope, input)
    \/ "subscriptions" \in Endpoints /\ \E t \in Token : register(u, t)

Next ==
    \/ \E e \in Event :
          enqueueOutboxEvent(e) \/ DelayPasses(e) \/ LeaseExpires(e)
    \/ \E w \in Worker : WorkerStep(w) \/ Crash(w)
    \/ \E u \in User : UserStep(u)
    \/ "subscriptions" \in Endpoints /\ \E t \in Token : disable(t)

Spec == Init /\ [][Next]_vars

\* The timer calls processBatch every few seconds, each statement returns, and
\* time passes.
Fairness ==
    /\ \A w \in Worker : WF_vars(WorkerStep(w))
    /\ \A e \in Event : WF_vars(DelayPasses(e)) /\ WF_vars(LeaseExpires(e))

FairSpec == Spec /\ Fairness

-----------------------------------------------------------------------------
(* Properties *)

\* No event is claimed more than MaxAttempts times, however many workers read
\* it as a candidate and whenever its lease is taken from a slow one
\* (outbox.service.ts claimBatch).
AttemptsBounded ==
    \A e \in Event : event[e] # None => event[e].attempts <= MaxAttempts

\* A device gets a message at most once per claim of its event: retries and
\* recovered leases never push more often than attempts were counted
\* (deliverRecipient under claimBatch).
PushesCounted ==
    \A e \in Event, u \in User, t \in Token :
       pushed[<<e, u, t>>] > 0 =>
          event[e] # None /\ pushed[<<e, u, t>>] <= event[e].attempts

\* A second worker handles an event only if its lease expired under the first:
\* neither a crash nor a race of claims makes two owners (claimBatch).
OneOwner ==
    \A e \in Event : Cardinality({w \in Worker : Owns(w, e)}) <= 1 + late

\* The three bounds on claims: of attempts, of pushes and of owners.
ClaimsAreCounted == AttemptsBounded /\ PushesCounted /\ OneOwner

\* Every event is processed, or has used up its attempts, for good, whatever
\* crashes and failures come in between (notification-worker.service.ts).
Settled(e) ==
    event[e] # None
    /\ (event[e].status = "PROCESSED"
        \/ (event[e].status = "FAILED" /\ event[e].attempts >= MaxAttempts))

EventIsSettled ==
    \A e \in Event : event[e] # None ~> []Settled(e)

-----------------------------------------------------------------------------
(* The contract *)

StateOf(e) ==
    IF event[e] = None THEN "none"
    ELSE CASE event[e].status \in {"PENDING", "FAILED"} -> "waiting"
           [] event[e].status = "PROCESSING" -> "taken"
           [] OTHER -> "done"

Told == {r \in Event \X User :
            recipient[r] # None /\ (recipient[r].sentAt \/ recipient[r].openedAt)}

Promise == INSTANCE NotificationContract
              WITH Message <- Event, late <- late > 0,
                   state <- [e \in Event |-> StateOf(e)],
                   audience <- notification, told <- Told

\* The outbox keeps its promise: the audience of an event is fixed once, a user
\* once told stays told, and an event is PROCESSED only when every recipient
\* has been sent it or has opened it (processOutboxEvent, deliverRecipient).
KeepsPromise == Promise!Contract
=============================================================================
