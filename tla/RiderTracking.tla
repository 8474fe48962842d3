---------------------------- MODULE RiderTracking ----------------------------
(***************************************************************************)
(* The location pings of one rider's phone: captured, queued, stored, sent *)
(* over a network that loses requests and answers, and ingested.           *)
(*                                                                         *)
(* On platform "js" RiderTrackingManager does all of it, in the app; on    *)
(* "native" the app only starts and stops RiderTrackingService, whose      *)
(* queue and sequence outlive the app.  The app's calls of start and stop  *)
(* are taken one after the other: see the README for what overlapping ones *)
(* do.  Which statuses of a delivery are trackable, intervals and accuracy *)
(* are left out; Dispatch has what a ping does to its rider's status.      *)
(***************************************************************************)
EXTENDS Naturals, Sequences, SequencesExt, FiniteSetsExt

CONSTANTS
    Order, None,
    Phones,          \* kinds of phone: platform and MAX_QUEUE_SIZE, 200 in the code
    PingLimit, CrashLimit, LateLimit   \* bounds of the model

Phone == [platform : {"js", "native"}, limit : Nat \ {0}]
DeliveryState == {"elsewhere", "mine", "ended"}
Answer == {"ok", "rejected", "denied"}

Ping == [id : 1 .. PingLimit, order : Order, seq : 1 .. PingLimit]

\* created: how many pings had been captured when the row was inserted.
Row == [id : 1 .. PingLimit, seq : 1 .. PingLimit, created : 1 .. PingLimit]
Call == [op : {"start", "stop"}, order : Order \cup {None}]
Flight == [ping : Ping, answer : Answer \cup {None}]

ASSUME RiderTrackingAssumption ==
    /\ None \notin Order \cup Answer \cup Call \cup Flight
    /\ Phones \subseteq Phone
    /\ PingLimit \in Nat /\ CrashLimit \in Nat /\ LateLimit \in Nat

VARIABLES
    phone,      \* never changes
    delivery,   \* delivery[o]: the server's job of o, as this rider meets it
    rows,       \* rows[o]: RiderLocationPing of this rider, oldest first
    active,     \* snapshot.active
    current,    \* snapshot.orderId
    watching,   \* watchId # null
    call,       \* the call of start or stop that awaits the server
    sequence,
    queue,      \* pings in memory; native: those the running flush has left
    stored,     \* the queue in AsyncStorage or in the preferences
    flight,     \* the ping being sent and the answer on its way back
    service,    \* KEY_ACTIVE and KEY_ORDER_ID of the native service
    late,       \* requests given up by the phone that still reach the server
    captured,   \* pings captured so far
    settled,    \* ids the phone has a final answer for
    cut,        \* ids dropped from a full queue
    crashes

server == <<delivery, rows>>
app == <<active, current, watching, call>>
pings == <<sequence, queue, stored, flight, service>>
ghost == <<captured, settled, cut, crashes>>
vars == <<phone, server, app, pings, late, ghost>>

ids(q) == {q[i].id : i \in DOMAIN q}

\* The rows are well typed and no queue outgrows its limit.
TypeOK ==
    /\ phone \in Phones
    /\ delivery \in [Order -> DeliveryState]
    /\ rows \in [Order -> Seq(Row)]
    /\ active \in BOOLEAN /\ watching \in BOOLEAN
    /\ current \in Order \cup {None}
    /\ call \in Call \cup {None}
    /\ sequence \in 0 .. PingLimit
    /\ \A q \in {queue, stored} : q \in Seq(Ping) /\ Len(q) <= phone.limit
    /\ flight \in Flight \cup {None}
    /\ service \in [active : BOOLEAN, order : Order \cup {None}]
    /\ late \in SUBSET Ping
    /\ captured \in 0 .. PingLimit /\ crashes \in 0 .. CrashLimit
    /\ settled \cup cut \subseteq 1 .. captured

Init ==
    /\ phone \in Phones
    /\ delivery = [o \in Order |-> "elsewhere"]
    /\ rows = [o \in Order |-> <<>>]
    /\ active = FALSE /\ current = None /\ watching = FALSE /\ call = None
    /\ sequence = 0 /\ queue = <<>> /\ stored = <<>> /\ flight = None
    /\ service = [active |-> FALSE, order |-> None]
    /\ late = {} /\ captured = 0 /\ settled = {} /\ cut = {} /\ crashes = 0

-----------------------------------------------------------------------------
(* The server *)

\* Dispatch gives the rider one delivery at a time, ends it or takes it away.
DeliveryChanges(o) ==
    /\ \E to \in DeliveryState :
          /\ CASE delivery[o] = "elsewhere" ->
                     to = "mine" /\ \A d \in Order : delivery[d] # "mine"
               [] delivery[o] = "mine" -> to # "mine"
               [] OTHER -> FALSE
          /\ delivery' = [delivery EXCEPT ![o] = to]
    /\ UNCHANGED <<phone, rows, app, pings, late, ghost>>

\* startTracking
Startable(o) == delivery[o] = "mine"

Duplicate(p) == \E i \in DOMAIN rows[p.order] : rows[p.order][i].id = p.id

\* A mutant: a repeated sequence number is let through.
NotNewerButEqual(p) ==
    rows[p.order] # <<>> /\ p.seq < Last(rows[p.order]).seq

NotNewer(p) == rows[p.order] # <<>> /\ p.seq <= Last(rows[p.order]).seq

\* The age of a ping captured before the latest row was inserted counts as
\* one second: it depends on its place whether that is too fast.
MayJump(p) == rows[p.order] # <<>> /\ p.id <= Last(rows[p.order]).created

\* The checks in the order of the code: the first one that fails answers.
Replies(p) ==
    IF delivery[p.order] = "elsewhere" THEN {"denied"}
    ELSE IF delivery[p.order] = "ended" THEN {"rejected"}
    ELSE IF Duplicate(p) THEN {"ok"}
    ELSE IF NotNewer(p) THEN {"rejected"}
    ELSE IF MayJump(p) THEN {"ok", "rejected"} ELSE {"ok"}

\* ingestRiderLocation of a request for p that is answered so.
Ingested(p, answer) ==
    rows' = IF answer = "ok" /\ ~Duplicate(p)
            THEN [rows EXCEPT ![p.order] =
                    Append(@, [id |-> p.id, seq |-> p.seq, created |-> captured])]
            ELSE rows

Ingest ==
    /\ flight # None /\ flight.answer = None
    /\ \E answer \in Replies(flight.ping) :
          /\ Ingested(flight.ping, answer)
          /\ flight' = [flight EXCEPT !.answer = answer]
    /\ UNCHANGED <<phone, delivery, app, sequence, queue, stored, service,
                   late, ghost>>

IngestLate(p) ==
    /\ p \in late /\ late' = late \ {p}
    /\ \E answer \in Replies(p) : Ingested(p, answer)
    /\ UNCHANGED <<phone, delivery, app, pings, ghost>>

-----------------------------------------------------------------------------
(* Sending *)

Sending(q) == IF q = <<>> THEN None ELSE [ping |-> Head(q), answer |-> None]

\* The phone gives the request up; it may be lost or still under way.
Abandoned ==
    /\ late' \in {late} \cup
          (IF flight # None /\ flight.answer = None
           THEN {late \cup {flight.ping}} ELSE {})
    /\ Cardinality(late') <= LateLimit

\* A mutant: the queue grows without bound.
BoundedNever(q) == q

Bounded(q) ==
    SubSeq(q, IF Len(q) > phone.limit THEN Len(q) - phone.limit + 1 ELSE 1, Len(q))

\* capture and queueLocation: number the ping, queue and store it, and send
\* the head of the queue unless a send is under way.
Queued(o, q) ==
    LET ping == [id |-> captured + 1, order |-> o, seq |-> sequence + 1]
        all == Append(q, ping)
    IN /\ captured < PingLimit
       /\ captured' = captured + 1 /\ sequence' = sequence + 1
       /\ queue' = Bounded(all) /\ stored' = queue'
       /\ cut' = cut \cup (ids(all) \ ids(queue'))
       /\ flight' = IF flight = None THEN Sending(queue') ELSE flight

-----------------------------------------------------------------------------
(* The app: RiderDashboard's effect and RiderTrackingManager *)

js == phone.platform = "js"

\* nextSequenceForOrder
nextSequence(o) ==
    Max({0} \cup {queue[i].seq : i \in {j \in DOMAIN queue :
                                            queue[j].order = o}})

\* A mutant: the stored queue is not read back.
RestoredNothing == <<>>

restoreQueue == stored

\* persistConfiguration, and the flush every start of the service begins with.
ServiceStart(o) ==
    /\ service' = [active |-> TRUE, order |-> o]
    /\ sequence' = IF service.order = o THEN sequence ELSE 0
    /\ IF flight = None
       THEN queue' = stored /\ flight' = Sending(stored)
       ELSE UNCHANGED <<queue, flight>>
    /\ UNCHANGED stored

\* start(o), up to its request.
BeginStart(o) ==
    /\ call' = [op |-> "start", order |-> o]
    /\ queue' = IF js THEN restoreQueue ELSE queue
    /\ UNCHANGED <<active, current, watching, sequence, stored, flight, service>>

\* stop, up to its request; then starts the next delivery if there is one.
BeginStop(next) ==
    /\ call' = [op |-> "stop", order |-> next]
    /\ watching' = FALSE
    /\ flight' = IF js /\ flight = None THEN Sending(queue) ELSE flight
    /\ UNCHANGED <<active, current, sequence, queue, stored, service>>

\* The polled workspace re-runs the effect of the screen.
Effect ==
    /\ call = None
    /\ LET mine == {o \in Order : delivery[o] = "mine"}
       IN \/ \E o \in mine :
                CASE active /\ current = o ->
                        /\ ~js /\ ServiceStart(o) /\ UNCHANGED app
                  [] active /\ current # o -> BeginStop(o)
                  [] OTHER -> BeginStart(o)
          \/ mine = {} /\ active /\ BeginStop(None)
    /\ UNCHANGED <<phone, server, late, ghost>>

\* The answer of startTracking: 200 for a delivery of the rider's own.
Started ==
    /\ call # None /\ call.op = "start"
    /\ call' = None
    /\ IF Startable(call.order)
       THEN /\ active' = TRUE /\ current' = call.order /\ watching' = js
            /\ IF js
               THEN /\ sequence' = nextSequence(call.order)
                    /\ flight' = IF flight = None THEN Sending(queue) ELSE flight
                    /\ UNCHANGED <<queue, stored, service>>
               ELSE ServiceStart(call.order)
       ELSE UNCHANGED <<active, current, watching, pings>>
    /\ UNCHANGED <<phone, server, late, ghost>>

StartFails ==
    /\ call # None /\ call.op = "start"
    /\ call' = None
    /\ UNCHANGED <<phone, server, active, current, watching, pings, late,
                   ghost>>

Stopped ==
    /\ call # None /\ call.op = "stop"
    /\ active' = FALSE /\ current' = None
    /\ service' = IF js THEN service ELSE [service EXCEPT !.active = FALSE]
    /\ IF call.order = None THEN call' = None /\ UNCHANGED queue
       ELSE /\ call' = [op |-> "start", order |-> call.order]
            /\ queue' = IF js THEN restoreQueue ELSE queue
    /\ UNCHANGED <<phone, server, watching, sequence, stored, flight, late,
                   ghost>>

\* pollNativeStatus
Poll ==
    /\ ~js /\ active /\ call = None
    /\ active' = service.active
    /\ current' = IF service.order = None THEN current ELSE service.order
    /\ UNCHANGED <<phone, server, watching, call, pings, late, ghost>>

Capture ==
    /\ js /\ active /\ watching
    /\ Queued(current, queue)
    /\ UNCHANGED <<phone, server, app, service, late, settled, crashes>>

\* sendPing resolves: shift, store, and on with the next.
Accepted ==
    /\ js /\ flight # None /\ flight.answer = "ok"
    /\ queue' = IF queue = <<>> THEN queue ELSE Tail(queue)
    /\ stored' = queue'
    /\ flight' = Sending(queue')
    /\ settled' = settled \cup {flight.ping.id}
    /\ UNCHANGED <<phone, server, app, sequence, service, late, captured,
                   cut, crashes>>

\* sendPing throws, whatever the reason: the loop ends.
Refused ==
    /\ js /\ flight # None
    /\ Abandoned
    /\ flight' = None
    /\ UNCHANGED <<phone, server, app, sequence, queue, stored, service, ghost>>

-----------------------------------------------------------------------------
(* The native service *)

\* Past PingLimit a location only wakes the flush.
Locate ==
    /\ ~js /\ service.active /\ flight = None
    /\ \/ /\ Queued(service.order, stored)
          /\ UNCHANGED <<service, settled, crashes>>
       \/ /\ captured = PingLimit /\ stored # <<>>
          /\ queue' = stored /\ flight' = Sending(stored)
          /\ UNCHANGED <<sequence, stored, service, ghost>>
    /\ UNCHANGED <<phone, server, app, late>>

\* A mutant: a refusal for good is tried again, as in the app.
FinalButRejected == {"ok"}

\* SENT and PERMANENT_REJECTION: the answers that take a ping off the queue.
Final == {"ok", "rejected"}

\* The flush goes on to the next ping, or ends and writes what remains.
Sent ==
    /\ ~js /\ flight # None /\ flight.answer \in Final
    /\ queue' = Tail(queue)
    /\ flight' = Sending(queue')
    /\ stored' = IF queue' = <<>> THEN <<>> ELSE stored
    /\ settled' = settled \cup {flight.ping.id}
    /\ UNCHANGED <<phone, server, app, sequence, service, late, captured,
                   cut, crashes>>

\* AUTH_FAILURE: what remains is written and the service stops.
AuthFailure ==
    /\ ~js /\ flight # None /\ flight.answer = "denied"
    /\ stored' = queue /\ queue' = <<>> /\ flight' = None
    /\ service' = [service EXCEPT !.active = FALSE]
    /\ UNCHANGED <<phone, server, app, sequence, late, ghost>>

\* TRANSIENT_FAILURE: no answer, or one that says try again.
TransientFailure ==
    /\ ~js /\ flight # None
    /\ Abandoned
    /\ stored' = queue /\ queue' = <<>> /\ flight' = None
    /\ UNCHANGED <<phone, server, app, sequence, service, ghost>>

-----------------------------------------------------------------------------
\* The process dies.  The system restarts an active service, which flushes;
\* the app is opened again by the rider.
Crash ==
    /\ crashes < CrashLimit /\ crashes' = crashes + 1
    /\ Abandoned
    /\ active' = FALSE /\ current' = None /\ watching' = FALSE /\ call' = None
    /\ IF ~js /\ service.active
       THEN queue' = stored /\ flight' = Sending(stored)
       ELSE queue' = <<>> /\ flight' = None
    /\ sequence' = IF js THEN 0 ELSE sequence
    /\ UNCHANGED <<phone, server, stored, service, captured, settled, cut>>

NetworkStep == Ingest \/ \E p \in late : IngestLate(p)
AppStep ==
    \/ Effect \/ Started \/ StartFails \/ Stopped \/ Poll
    \/ Capture \/ Accepted \/ Refused
ServiceStep == Locate \/ Sent \/ AuthFailure \/ TransientFailure

Next ==
    \/ \E o \in Order : DeliveryChanges(o)
    \/ NetworkStep \/ AppStep \/ ServiceStep \/ Crash

Spec == Init /\ [][Next]_vars

\* A request that is tried for ever is answered some time, locations keep
\* coming while the service is active, and it handles what it receives.
Fairness ==
    /\ SF_vars(Ingest)
    /\ SF_vars(Sent) /\ SF_vars(AuthFailure)
    /\ WF_vars(TransientFailure)
    /\ WF_vars(Locate)

FairSpec == Spec /\ Fairness

-----------------------------------------------------------------------------
(* Properties *)

\* However often a ping is sent, delayed or sent again after a crash, it has
\* one row, and the rows of an order are numbered upwards (ingestRiderLocation).
RowsInOrder ==
    \A o \in Order : \A i, j \in DOMAIN rows[o] :
       i < j => /\ rows[o][i].id # rows[o][j].id
                /\ rows[o][i].seq < rows[o][j].seq

\* A captured ping stays stored until it has a final answer or a full queue
\* drops it, over crashes, stops and new deliveries.  The app keeps the promise
\* only until its queue is full for the first time (flushQueue's shift).
PingsKept ==
    \/ js /\ cut # {}
    \/ 1 .. captured \subseteq ids(stored) \cup settled \cup cut

\* Both: what the server stores is what the phone sent, in its order, and the
\* phone keeps what has no answer.
PingsArriveOnce == RowsInOrder /\ PingsKept

\* A ping of the native service does not wait for ever: it is answered, or the
\* service stops (flushQueue, sendPing).
NativeQueueDrains ==
    \A i \in 1 .. PingLimit :
       ~js /\ i \in ids(stored) ~> i \notin ids(stored) \/ ~service.active

\* NOT a property of the code: the same of the app's queue, whose head is
\* never dropped when the server refuses it for good.
AppQueueDrains ==
    \A i \in 1 .. PingLimit :
       js /\ i \in ids(stored) ~> i \notin ids(stored) \/ ~active

\* NOT a property of the code: the numbers a phone gives the pings of an order
\* grow.  A restarted app begins again behind the rows of the server.
NumbersGrow ==
    \A i, j \in DOMAIN stored :
       i < j /\ stored[i].order = stored[j].order
          => stored[i].seq < stored[j].seq
=============================================================================
