----------------------------- MODULE RiderDesk -----------------------------
(***************************************************************************)
(* The rider portal beside the deliveries: breaks and availability, shifts, *)
(* earnings, one support ticket, bank details, documents and approval of   *)
(* one rider, and the administrators' side of each.                        *)
(*                                                                         *)
(* A handler that reads, decides and later writes is one action per        *)
(* statement that other requests can come between; what it read is kept in *)
(* its slot.  The desks share no row but the rider's deliveries, so one    *)
(* behaviour looks at one desk.  Dispatch has the rider's deliveries and   *)
(* every other writer of his status.  The weekly schedule is left out.     *)
(***************************************************************************)
EXTENDS Integers, Sequences, FiniteSets

CONSTANTS
    None,
    Slot,        \* requests the server handles at the same time
    Job,         \* deliveries the rider may be given
    Instant,     \* starts and ends of shifts
    Reference, Amount,   \* what an earning is booked under, and its paise
    Desk,        \* the desks looked at
    RowLimit     \* bound of the model: rows of a table

Status == {"ONLINE", "OFFLINE", "BUSY"}
Role == {"RIDER", "ADMIN"}
SupportStatus == {"OPEN", "IN_PROGRESS", "RESOLVED", "CLOSED"}
EarningType == {"BASE_DELIVERY_FEE", "PENALTY"}
Review == {"APPROVED", "REJECTED"}

\* by: the slot that wrote the row; two rows of one slot were written by
\* requests handled one after the other.
Break == [status : {"ACTIVE", "ENDED"}, by : Slot]
ShiftRow == [start : Instant, end : Instant, by : Slot]
EarningRow == [job : Job \cup {None}, type : EarningType, reference : Reference,
               amount : Amount, status : {"PENDING", "PAID"}]
\* closedOver: how many messages there were when an administrator last set
\* the status.
Ticket == [status : SupportStatus, messages : Seq(Role), closedOver : Nat]
Bank == [ciphertext : BOOLEAN, last4 : BOOLEAN,
         status : Review \cup {"PENDING"}]

\* What a request has read and is about to write.
Request ==
         [op : {"setStatus"}, status : {"ONLINE", "OFFLINE"}]
    \cup [op : {"breakAsked", "startBreak", "createSupport"}]
    \cup [op : {"endBreak"}, row : Nat]
    \cup [op : {"createShift"}, start : Instant, end : Instant]
    \cup [op : {"createEarning"}, job : Job \cup {None}, type : EarningType,
          reference : Reference, amount : Amount]
    \cup [op : {"message"}, from : Role]
    \cup [op : {"reopen"}, from : Role, at : Nat]

ASSUME RiderDeskAssumption ==
    /\ Instant \subseteq Int /\ Amount \subseteq Nat \ {0} /\ RowLimit \in Nat
    /\ None \notin Request \cup Ticket \cup Job \cup Review \cup {"PENDING"}

VARIABLES
    desk,       \* the desk of this behaviour; never changes
    delivery,   \* delivery[j]: job j as this rider meets it
    status,     \* RiderProfile.status
    breaks, shifts, earnings,   \* rows, oldest first
    ticket,
    bank, documents, approval,
    request,    \* request[s]: the request in slot s
    lost        \* messages whose request died before it wrote the status

profile == <<bank, documents, approval>>
rows == <<delivery, status, breaks, shifts, earnings, ticket, profile>>
vars == <<desk, rows, request, lost>>

\* Every row and request is well typed; shifts end after they start.
TypeOK ==
    /\ delivery \in [Job -> {"elsewhere", "active", "ended"}]
    /\ status \in Status
    /\ breaks \in Seq(Break)
    /\ shifts \in Seq(ShiftRow) /\ \A i \in DOMAIN shifts : shifts[i].start < shifts[i].end
    /\ earnings \in Seq(EarningRow)
    /\ ticket \in Ticket \cup {None}
    /\ bank \in Bank /\ documents \in Seq(Review \cup {"PENDING"})
    /\ approval \in Review \cup {"PENDING"}
    /\ request \in [Slot -> Request \cup {None}]
    /\ lost \in SUBSET Nat

Init ==
    /\ desk \in Desk
    /\ delivery = [j \in Job |-> "elsewhere"]
    /\ status = "OFFLINE"
    /\ breaks = <<>> /\ shifts = <<>> /\ earnings = <<>> /\ documents = <<>>
    /\ ticket = None
    /\ bank = [ciphertext |-> FALSE, last4 |-> FALSE, status |-> "PENDING"]
    /\ approval = "PENDING"
    /\ request = [s \in Slot |-> None]
    /\ lost = {}

-----------------------------------------------------------------------------
\* One request in a slot: its first read, and its last write.

Begin(s, r) ==
    /\ request[s] = None
    /\ request' = [request EXCEPT ![s] = r]
    /\ UNCHANGED <<rows, lost>>

Goes(s, op) == request[s] # None /\ request[s].op = op

Continue(s, r) == request' = [request EXCEPT ![s] = r]

End(s) == Continue(s, None) /\ UNCHANGED lost

-----------------------------------------------------------------------------
\* The rider's deliveries, as far as this module looks at them.

Delivering == \E j \in Job : delivery[j] = "active"

\* He accepts an offer; nothing looks at his status or his breaks.
Accept(j) ==
    /\ delivery[j] = "elsewhere" /\ ~Delivering
    /\ delivery' = [delivery EXCEPT ![j] = "active"]
    /\ status' = "BUSY"
    /\ UNCHANGED <<breaks, shifts, earnings, ticket, profile, request, lost>>

\* The delivery ends with him, or goes to another rider.
Leave(j) ==
    /\ delivery[j] = "active"
    /\ \E to \in {"ended", "elsewhere"} : delivery' = [delivery EXCEPT ![j] = to]
    /\ status' = "ONLINE"
    /\ UNCHANGED <<breaks, shifts, earnings, ticket, profile, request, lost>>

-----------------------------------------------------------------------------
\* Availability and breaks.

Active(i) == breaks[i].status = "ACTIVE"
OnBreak == \E i \in DOMAIN breaks : Active(i)

ReadSetStatus(s, next) ==
    /\ next = "OFFLINE" => ~Delivering
    /\ next = "ONLINE" => ~OnBreak
    /\ Begin(s, [op |-> "setStatus", status |-> next])

CommitSetStatus(s) ==
    /\ Goes(s, "setStatus")
    /\ status' = request[s].status
    /\ End(s)
    /\ UNCHANGED <<delivery, breaks, shifts, earnings, ticket, profile>>

ReadStartBreak(s) == ~Delivering /\ Begin(s, [op |-> "breakAsked"])

\* Mutant: active breaks are not looked for.
StartUnchecked(s) ==
    /\ Goes(s, "breakAsked")
    /\ Continue(s, [op |-> "startBreak"])
    /\ UNCHANGED <<rows, lost>>

CheckStartBreak(s) ==
    /\ Goes(s, "breakAsked")
    /\ Continue(s, IF OnBreak THEN None ELSE [op |-> "startBreak"])
    /\ UNCHANGED <<rows, lost>>

startBreak(s) ==
    /\ Goes(s, "startBreak")
    /\ Len(breaks) < RowLimit
    /\ breaks' = Append(breaks, [status |-> "ACTIVE", by |-> s])
    /\ status' = "OFFLINE"
    /\ End(s)
    /\ UNCHANGED <<delivery, shifts, earnings, ticket, profile>>

\* The active break that started last.
ReadEndBreak(s) ==
    \E i \in DOMAIN breaks :
        /\ Active(i) /\ \A j \in DOMAIN breaks : Active(j) => j <= i
        /\ Begin(s, [op |-> "endBreak", row |-> i])

endBreak(s) ==
    /\ Goes(s, "endBreak")
    /\ breaks' = [breaks EXCEPT ![request[s].row].status = "ENDED"]
    /\ status' = "ONLINE"
    /\ End(s)
    /\ UNCHANGED <<delivery, shifts, earnings, ticket, profile>>

-----------------------------------------------------------------------------
\* Shifts and earnings, both booked by administrators.

Overlap(a, b) == a.start < b.end /\ a.end > b.start

\* Mutant: the order of start and end is not checked.
ReadCreateAnyShift(s, start, end) ==
    /\ ~\E i \in DOMAIN shifts : Overlap(shifts[i], [start |-> start, end |-> end])
    /\ Begin(s, [op |-> "createShift", start |-> start, end |-> end])

\* No handler ends or cancels a shift: every row is SCHEDULED.
ReadCreateShift(s, start, end) ==
    /\ start < end
    /\ ~\E i \in DOMAIN shifts : Overlap(shifts[i], [start |-> start, end |-> end])
    /\ Begin(s, [op |-> "createShift", start |-> start, end |-> end])

adminCreateShift(s) ==
    /\ Goes(s, "createShift")
    /\ Len(shifts) < RowLimit
    /\ shifts' = Append(shifts, [start |-> request[s].start, end |-> request[s].end,
                                 by |-> s])
    /\ End(s)
    /\ UNCHANGED <<delivery, status, breaks, earnings, ticket, profile>>

ReadCreateEarning(s, job, type, reference, amount) ==
    /\ job # None => delivery[job] # "elsewhere"
    /\ Begin(s, [op |-> "createEarning", job |-> job, type |-> type,
                 reference |-> reference, amount |-> amount])

SameKey(a, b) == a.job = b.job /\ a.type = b.type /\ a.reference = b.reference

\* The unique index takes two rows without a delivery for different.
Booked(r) == r.job # None /\ \E i \in DOMAIN earnings : SameKey(earnings[i], r)

adminCreateEarning(s) ==
    /\ Goes(s, "createEarning")
    /\ Len(earnings) < RowLimit
    /\ LET r == request[s] IN
       earnings' = IF Booked(r) THEN earnings
                   ELSE Append(earnings,
                               [job |-> r.job, type |-> r.type, reference |-> r.reference,
                                amount |-> r.amount, status |-> "PENDING"])
    /\ End(s)
    /\ UNCHANGED <<delivery, status, breaks, shifts, ticket, profile>>

\* Two payments at once differ in the date and the payer that remain.
adminMarkEarningPaid(i) ==
    /\ i \in DOMAIN earnings /\ earnings[i].status # "PAID"
    /\ earnings' = [earnings EXCEPT ![i].status = "PAID"]
    /\ UNCHANGED <<delivery, status, breaks, shifts, ticket, profile, request, lost>>

-----------------------------------------------------------------------------
\* One support ticket: its messages and its status are written one after the
\* other, outside any transaction.

ReadCreateSupport(s, job) ==
    /\ ticket = None
    /\ job # None => delivery[job] # "elsewhere"
    /\ Begin(s, [op |-> "createSupport"])

createSupport(s) ==
    /\ Goes(s, "createSupport") /\ ticket = None
    /\ ticket' = [status |-> "OPEN", messages |-> <<"RIDER">>, closedOver |-> 0]
    /\ End(s)
    /\ UNCHANGED <<delivery, status, breaks, shifts, earnings, profile>>

\* What addSupportMessage and adminSupportReply refuse.
Receives(from, stat) ==
    IF from = "RIDER" THEN stat \notin {"RESOLVED", "CLOSED"} ELSE stat # "CLOSED"

ReadMessage(s, from) ==
    /\ ticket # None /\ Receives(from, ticket.status)
    /\ Begin(s, [op |-> "message", from |-> from])

\* Mutant: the status is left as it is.
CreateSilently(s) ==
    /\ Goes(s, "message")
    /\ Len(ticket.messages) < RowLimit
    /\ ticket' = [ticket EXCEPT !.messages = Append(@, request[s].from)]
    /\ End(s)
    /\ UNCHANGED <<delivery, status, breaks, shifts, earnings, profile>>

CreateMessage(s) ==
    /\ Goes(s, "message")
    /\ Len(ticket.messages) < RowLimit
    /\ ticket' = [ticket EXCEPT !.messages = Append(@, request[s].from)]
    /\ Continue(s, [op |-> "reopen", from |-> request[s].from,
                    at |-> Len(ticket.messages) + 1])
    /\ UNCHANGED <<delivery, status, breaks, shifts, earnings, profile, lost>>

ReopenedBy(from) == IF from = "RIDER" THEN "OPEN" ELSE "IN_PROGRESS"

Reopen(s) ==
    /\ Goes(s, "reopen")
    /\ ticket' = [ticket EXCEPT !.status = ReopenedBy(request[s].from)]
    /\ End(s)
    /\ UNCHANGED <<delivery, status, breaks, shifts, earnings, profile>>

adminSupportStatus(stat) ==
    /\ ticket # None
    /\ ticket' = [ticket EXCEPT !.status = stat, !.closedOver = Len(ticket.messages)]
    /\ UNCHANGED <<delivery, status, breaks, shifts, earnings, profile, request, lost>>

\* The server stops: what its requests had not written yet is not written.
Restart ==
    /\ \E s \in Slot : request[s] # None
    /\ lost' = lost \cup {request[s].at : s \in {t \in Slot : Goes(t, "reopen")}}
    /\ request' = [s \in Slot |-> None]
    /\ UNCHANGED rows

-----------------------------------------------------------------------------
\* Bank details, documents and approval: one row and one write each.

\* The two bank fields of the form, each given or not.
Form == [account : BOOLEAN, ifsc : BOOLEAN]

Accepted(form) == form.account = form.ifsc

\* Mutant: the last digits are not written.
updateWithoutLast4(form) ==
    /\ Accepted(form)
    /\ bank' = IF form.account
               THEN [bank EXCEPT !.ciphertext = TRUE, !.status = "PENDING"]
               ELSE bank
    /\ UNCHANGED <<documents, approval>>

updateProfile(form) ==
    /\ Accepted(form)
    /\ bank' = IF form.account
               THEN [ciphertext |-> TRUE, last4 |-> TRUE, status |-> "PENDING"]
               ELSE bank
    /\ UNCHANGED <<documents, approval>>

adminReviewBank(decision) ==
    /\ bank.ciphertext
    /\ bank' = [bank EXCEPT !.status = decision]
    /\ UNCHANGED <<documents, approval>>

addDocument ==
    /\ Len(documents) < RowLimit
    /\ documents' = Append(documents, "PENDING")
    /\ UNCHANGED <<bank, approval>>

adminReviewDocument(i, decision) ==
    /\ i \in DOMAIN documents
    /\ documents' = [documents EXCEPT ![i] = decision]
    /\ UNCHANGED <<bank, approval>>

adminReviewProfile(decision) ==
    /\ approval' = decision
    /\ UNCHANGED <<bank, documents>>

-----------------------------------------------------------------------------
BreakDesk(s) ==
    \/ \E next \in {"ONLINE", "OFFLINE"} : ReadSetStatus(s, next)
    \/ CommitSetStatus(s)
    \/ ReadStartBreak(s) \/ CheckStartBreak(s) \/ startBreak(s)
    \/ ReadEndBreak(s) \/ endBreak(s)

ShiftDesk(s) ==
    \/ \E start, end \in Instant : ReadCreateShift(s, start, end)
    \/ adminCreateShift(s)

EarningDesk(s) ==
    \/ \E job \in Job \cup {None}, type \in EarningType, reference \in Reference,
          amount \in Amount : ReadCreateEarning(s, job, type, reference, amount)
    \/ adminCreateEarning(s)

SupportDesk(s) ==
    \/ \E job \in Job \cup {None} : ReadCreateSupport(s, job)
    \/ createSupport(s)
    \/ \E from \in Role : ReadMessage(s, from)
    \/ CreateMessage(s) \/ Reopen(s)

ProfileDesk ==
    /\ \/ \E form \in Form : updateProfile(form)
       \/ \E decision \in Review : adminReviewBank(decision)
       \/ addDocument
       \/ \E i \in DOMAIN documents, decision \in Review : adminReviewDocument(i, decision)
       \/ \E decision \in Review : adminReviewProfile(decision)
    /\ UNCHANGED <<delivery, status, breaks, shifts, earnings, ticket, request, lost>>

Deliveries == \E j \in Job : Accept(j) \/ Leave(j)

Next ==
    /\ \/ desk = "breaks" /\ \E s \in Slot : BreakDesk(s)
       \/ desk = "shifts" /\ \E s \in Slot : ShiftDesk(s)
       \/ /\ desk = "earnings"
          /\ \/ \E s \in Slot : EarningDesk(s)
             \/ \E i \in DOMAIN earnings : adminMarkEarningPaid(i)
       \/ /\ desk = "support"
          /\ \/ \E s \in Slot : SupportDesk(s)
             \/ \E stat \in SupportStatus : adminSupportStatus(stat)
       \/ desk = "profile" /\ ProfileDesk
       \/ desk \notin {"shifts", "profile"} /\ Deliveries
       \/ Restart
    /\ UNCHANGED desk

Spec == Init /\ [][Next]_vars

-----------------------------------------------------------------------------
\* Two active breaks, or two shifts at one time, come from two requests that
\* were handled at once: each had looked before the other wrote.  Two earnings
\* of one delivery never share type and reference, however requests mix.
\* (riders/rider-portal.service.ts, startBreak, adminCreateShift,
\* adminCreateEarning and the unique index of RiderEarning)
BookedOnce ==
    /\ \A i, j \in DOMAIN breaks :
           i # j /\ Active(i) /\ Active(j) => breaks[i].by # breaks[j].by
    /\ \A i, j \in DOMAIN shifts :
           i # j /\ Overlap(shifts[i], shifts[j]) => shifts[i].by # shifts[j].by
    /\ \A i, j \in DOMAIN earnings :
           i # j /\ earnings[i].job # None => ~SameKey(earnings[i], earnings[j])

\* A message that came after an administrator had settled the ticket does not
\* stay unheard: the ticket is open again, or the request that wrote the
\* message is still to reopen it, or died with the server in between.
\* (riders/rider-portal.service.ts, addSupportMessage, adminSupportReply)
Reopens(i) == \E s \in Slot : Goes(s, "reopen") /\ request[s].at = i

SettledMeansHeard ==
    ticket # None /\ ticket.status \in {"RESOLVED", "CLOSED"} =>
        \A i \in ticket.closedOver + 1 .. Len(ticket.messages) : i \in lost \/ Reopens(i)
=============================================================================
