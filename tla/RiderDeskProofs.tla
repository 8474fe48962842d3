-------------------------- MODULE RiderDeskProofs --------------------------
(***************************************************************************)
(* What the rider portal's desks keep for every set of request slots,      *)
(* deliveries and shift times and any number of rows: the types of the     *)
(* rows, breaks, shifts and earnings that are booked twice only by         *)
(* requests handled at once, support messages that are not lost under a    *)
(* settled ticket, and pages that show and offer what the server has.      *)
(***************************************************************************)
EXTENDS RiderDeskScreens, SumLemmas, SequenceTheorems, TLAPS

-----------------------------------------------------------------------------
(* Requests *)

\* What a request carries, by what it is about to do.
LEMMA RequestFields ==
    ASSUME NEW r \in Request
    PROVE  /\ r # None
           /\ r.op = "setStatus" => r.status \in {"ONLINE", "OFFLINE"}
           /\ r.op = "endBreak" => r.row \in Nat
           /\ r.op = "createShift" => r.start \in Instant /\ r.end \in Instant
           /\ r.op = "createEarning" =>
                /\ r.job \in Job \cup {None} /\ r.type \in EarningType
                /\ r.reference \in Reference /\ r.amount \in Amount
           /\ r.op \in {"message", "reopen"} => r.from \in Role
           /\ r.op = "reopen" => r.at \in Nat
BY RiderDeskAssumption DEF Request

LEMMA RequestsAre ==
    /\ \A next \in {"ONLINE", "OFFLINE"} :
          [op |-> "setStatus", status |-> next] \in Request
    /\ \A op \in {"breakAsked", "startBreak", "createSupport"} :
          [op |-> op] \in Request
    /\ \A i \in Nat : [op |-> "endBreak", row |-> i] \in Request
    /\ \A a, b \in Instant :
          [op |-> "createShift", start |-> a, end |-> b] \in Request
    /\ \A job \in Job \cup {None}, type \in EarningType,
          reference \in Reference, amount \in Amount :
          [op |-> "createEarning", job |-> job, type |-> type,
           reference |-> reference, amount |-> amount] \in Request
    /\ \A from \in Role : [op |-> "message", from |-> from] \in Request
    /\ \A from \in Role, i \in Nat :
          [op |-> "reopen", from |-> from, at |-> i] \in Request
BY DEF Request

\* A request about a row or a ticket is about one that exists.
Fits(r) ==
    r # None =>
        /\ r.op = "endBreak" => r.row \in DOMAIN breaks
        /\ r.op = "createShift" => r.start < r.end
        /\ r.op \in {"message", "reopen"} => ticket # None

RequestsFit == \A s \in Slot : Fits(request[s])

TypeInv == TypeOK /\ RequestsFit

LEMMA InitTypeInv == Init => TypeInv
<1> SUFFICES ASSUME Init PROVE TypeInv
  OBVIOUS
<1>1. /\ breaks \in Seq(Break) /\ shifts \in Seq(ShiftRow)
      /\ earnings \in Seq(EarningRow)
      /\ documents \in Seq(Review \cup {"PENDING"})
  BY DEF Init
<1>2. \A i \in DOMAIN shifts : shifts[i].start < shifts[i].end
  BY DEF Init
<1>3. bank \in Bank BY DEF Init, Bank
<1>4. QED
  BY <1>1, <1>2, <1>3 DEF Init, TypeInv, TypeOK, RequestsFit, Fits, Status

\* What a slot holds after its request went on, and the other slots.
LEMMA SetRequest ==
    ASSUME TypeOK, NEW s \in Slot, NEW r \in Request \cup {None}, Continue(s, r)
    PROVE  /\ request' \in [Slot -> Request \cup {None}]
           /\ request'[s] = r
           /\ \A t \in Slot : t # s => request'[t] = request[t]
BY DEF Continue, TypeOK

\* Rows never vanish, so the requests of the other slots still fit.
LEMMA StillFit ==
    ASSUME TypeOK, RequestsFit, NEW s \in Slot,
           NEW r \in Request \cup {None}, Continue(s, r), Fits(r)',
           DOMAIN breaks \subseteq DOMAIN breaks',
           ticket # None => ticket' # None
    PROVE  request' \in [Slot -> Request \cup {None}] /\ RequestsFit'
<1>1. /\ request' \in [Slot -> Request \cup {None}]
      /\ request'[s] = r
      /\ \A t \in Slot : t # s => request'[t] = request[t]
  BY SetRequest
<1>2. ASSUME NEW t \in Slot PROVE Fits(request[t])'
  <2>1. CASE t = s BY <1>1, <2>1 DEF Fits
  <2>2. CASE t # s BY <1>1, <2>2 DEF Fits, RequestsFit
  <2>3. QED BY <2>1, <2>2
<1>3. QED BY <1>1, <1>2 DEF RequestsFit

LEMMA Fresh ==
    ASSUME TypeInv, NEW s \in Slot, NEW r \in Request,
           Fits(r), Begin(s, r)
    PROVE  TypeInv'
<1>1. Continue(s, r) /\ UNCHANGED <<rows, lost>>
  BY DEF Begin, Continue
<1>2. UNCHANGED <<breaks, ticket>>
  BY <1>1 DEF rows
<1>3. Fits(r)' BY <1>2 DEF Fits
<1>4. request' \in [Slot -> Request \cup {None}] /\ RequestsFit'
  BY <1>1, <1>2, <1>3, StillFit DEF TypeInv
<1>5. QED BY <1>1, <1>4 DEF TypeInv, TypeOK, rows, profile

\* A step that ends its request, after it wrote rows that fit their tables.
LEMMA Finish ==
    ASSUME TypeInv, NEW s \in Slot, End(s),
           DOMAIN breaks \subseteq DOMAIN breaks',
           ticket # None => ticket' # None
    PROVE  /\ request' \in [Slot -> Request \cup {None}]
           /\ RequestsFit' /\ UNCHANGED lost
<1>1. Continue(s, None) /\ UNCHANGED lost /\ Fits(None)' BY DEF End, Fits
<1>2. QED BY <1>1, StillFit DEF TypeInv

LEMMA RequestOf ==
    ASSUME TypeInv, NEW s \in Slot, NEW op, Goes(s, op)
    PROVE  request[s] \in Request /\ request[s].op = op /\ Fits(request[s])
BY DEF TypeInv, TypeOK, RequestsFit, Goes

\* One more row at the end of a table.
LEMMA OneMore ==
    ASSUME NEW S, NEW seq \in Seq(S), NEW e \in S
    PROVE  /\ Append(seq, e) \in Seq(S)
           /\ DOMAIN Append(seq, e) = DOMAIN seq \cup {Len(seq) + 1}
           /\ Len(seq) + 1 \notin DOMAIN seq
           /\ Append(seq, e)[Len(seq) + 1] = e
           /\ \A i \in DOMAIN seq : Append(seq, e)[i] = seq[i]
OBVIOUS

\* One row of a table rewritten.
LEMMA OneRow ==
    ASSUME NEW S, NEW seq \in Seq(S), NEW i \in DOMAIN seq, NEW e \in S
    PROVE  /\ [seq EXCEPT ![i] = e] \in Seq(S)
           /\ DOMAIN [seq EXCEPT ![i] = e] = DOMAIN seq
           /\ [seq EXCEPT ![i] = e][i] = e
           /\ \A j \in DOMAIN seq : j # i => [seq EXCEPT ![i] = e][j] = seq[j]
           /\ seq[i] \in S
<1>1. i \in 1 .. Len(seq) OBVIOUS
<1>2. QED BY <1>1, ExceptSeq, LenProperties, ElementOfSeq

-----------------------------------------------------------------------------
(* The desks, one at a time *)

LEMMA BreakDeskTypeInv ==
    ASSUME TypeInv, NEW s \in Slot, BreakDesk(s)
    PROVE  TypeInv'
<1> USE DEF TypeInv
<1>1. ASSUME NEW next \in {"ONLINE", "OFFLINE"}, ReadSetStatus(s, next)
      PROVE  TypeInv'
  <2> DEFINE r == [op |-> "setStatus", status |-> next]
  <2>1. r \in Request /\ r.op = "setStatus" BY RequestsAre
  <2>2. Fits(r) BY <2>1 DEF Fits
  <2>3. Begin(s, r) BY <1>1 DEF ReadSetStatus
  <2>4. QED BY <2>1, <2>2, <2>3, Fresh
<1>2. CASE CommitSetStatus(s)
  <2>1. request[s].status \in {"ONLINE", "OFFLINE"}
    BY <1>2, RequestOf, RequestFields DEF CommitSetStatus
  <2>2. /\ status' = request[s].status /\ End(s)
        /\ UNCHANGED <<delivery, breaks, shifts, earnings, ticket, profile>>
    BY <1>2 DEF CommitSetStatus
  <2>3. /\ request' \in [Slot -> Request \cup {None}]
        /\ RequestsFit' /\ UNCHANGED lost
    BY <2>2, Finish
  <2>4. QED BY <2>1, <2>2, <2>3 DEF TypeOK, Status, profile
<1>3. CASE ReadStartBreak(s)
  <2> DEFINE r == [op |-> "breakAsked"]
  <2>1. r \in Request /\ r.op = "breakAsked" BY RequestsAre
  <2>2. Fits(r) BY <2>1 DEF Fits
  <2>3. Begin(s, r) BY <1>3 DEF ReadStartBreak
  <2>4. QED BY <2>1, <2>2, <2>3, Fresh
<1>4. CASE CheckStartBreak(s)
  <2> DEFINE r == [op |-> "startBreak"]
  <2>1. r \in Request /\ r.op = "startBreak" BY RequestsAre
  <2>2. (Continue(s, r) \/ Continue(s, None)) /\ UNCHANGED <<rows, lost>>
    BY <1>4 DEF CheckStartBreak
  <2>3. Fits(r)' /\ Fits(None)' BY <2>1 DEF Fits
  <2>4. UNCHANGED <<breaks, ticket>> BY <2>2 DEF rows
  <2>5. request' \in [Slot -> Request \cup {None}] /\ RequestsFit'
    <3> HIDE DEF r
    <3>1. CASE Continue(s, r) BY <2>1, <2>3, <2>4, <3>1, StillFit
    <3>2. CASE Continue(s, None) BY <2>3, <2>4, <3>2, StillFit
    <3>3. QED BY <2>2, <3>1, <3>2
  <2>6. QED BY <2>2, <2>5 DEF TypeOK, rows, profile
<1>5. CASE startBreak(s)
  <2> DEFINE row == [status |-> "ACTIVE", by |-> s]
  <2>1. row \in Break BY DEF Break
  <2>2. /\ breaks' = Append(breaks, row) /\ status' = "OFFLINE" /\ End(s)
        /\ UNCHANGED <<delivery, shifts, earnings, ticket, profile>>
    BY <1>5 DEF startBreak
  <2>3. breaks' \in Seq(Break) /\ DOMAIN breaks \subseteq DOMAIN breaks'
    <3> HIDE DEF row
    <3>1. QED BY <2>1, <2>2, OneMore DEF TypeOK
  <2>4. /\ request' \in [Slot -> Request \cup {None}]
        /\ RequestsFit' /\ UNCHANGED lost
    BY <2>2, <2>3, Finish
  <2>5. QED BY <2>2, <2>3, <2>4 DEF TypeOK, Status, profile
<1>6. CASE ReadEndBreak(s)
  <2>1. PICK i \in DOMAIN breaks : Begin(s, [op |-> "endBreak", row |-> i])
    BY <1>6 DEF ReadEndBreak
  <2> DEFINE r == [op |-> "endBreak", row |-> i]
  <2>2. i \in Nat BY LenProperties DEF TypeOK
  <2>3. r \in Request /\ r.op = "endBreak" /\ r.row = i BY <2>2, RequestsAre
  <2>4. Fits(r) BY <2>3 DEF Fits
  <2>5. QED BY <2>1, <2>3, <2>4, Fresh
<1>7. CASE endBreak(s)
  <2> DEFINE i == request[s].row
             row == [breaks[i] EXCEPT !.status = "ENDED"]
  <2>1. i \in DOMAIN breaks
    BY <1>7, RequestOf DEF endBreak, Fits, Goes
  <2>2. breaks[i] \in Break BY <2>1, OneRow DEF TypeOK
  <2>3. row \in Break BY <2>2 DEF Break
  <2>4. /\ breaks' = [breaks EXCEPT ![i] = row] /\ status' = "ONLINE" /\ End(s)
        /\ UNCHANGED <<delivery, shifts, earnings, ticket, profile>>
    BY <1>7 DEF endBreak
  <2>5. breaks' \in Seq(Break) /\ DOMAIN breaks \subseteq DOMAIN breaks'
    <3> HIDE DEF row, i
    <3>1. QED BY <2>1, <2>3, <2>4, OneRow DEF TypeOK
  <2>6. /\ request' \in [Slot -> Request \cup {None}]
        /\ RequestsFit' /\ UNCHANGED lost
    BY <2>4, <2>5, Finish
  <2>7. QED BY <2>4, <2>5, <2>6 DEF TypeOK, Status, profile
<1>8. QED
  BY <1>1, <1>2, <1>3, <1>4, <1>5, <1>6, <1>7 DEF BreakDesk

LEMMA ShiftDeskTypeInv ==
    ASSUME TypeInv, NEW s \in Slot, ShiftDesk(s)
    PROVE  TypeInv'
<1> USE DEF TypeInv
<1>1. ASSUME NEW a \in Instant, NEW b \in Instant, ReadCreateShift(s, a, b)
      PROVE  TypeInv'
  <2> DEFINE r == [op |-> "createShift", start |-> a, end |-> b]
  <2>1. r \in Request /\ r.op = "createShift" /\ r.start = a /\ r.end = b
    BY RequestsAre
  <2>2. a < b /\ Begin(s, r) BY <1>1 DEF ReadCreateShift
  <2>3. Fits(r) BY <2>1, <2>2 DEF Fits
  <2>4. QED BY <2>1, <2>2, <2>3, Fresh
<1>2. CASE adminCreateShift(s)
  <2> DEFINE row == [start |-> request[s].start, end |-> request[s].end, by |-> s]
  <2>1. /\ request[s].start \in Instant /\ request[s].end \in Instant
        /\ request[s].start < request[s].end
    BY <1>2, RequestOf, RequestFields DEF adminCreateShift, Fits
  <2>2. row \in ShiftRow /\ row.start < row.end BY <2>1 DEF ShiftRow
  <2>3. /\ shifts' = Append(shifts, row) /\ End(s)
        /\ UNCHANGED <<delivery, status, breaks, earnings, ticket, profile>>
    BY <1>2 DEF adminCreateShift
  <2>4. /\ shifts' \in Seq(ShiftRow)
        /\ \A i \in DOMAIN shifts' : shifts'[i].start < shifts'[i].end
    <3> HIDE DEF row
    <3>1. QED BY <2>2, <2>3, OneMore DEF TypeOK
  <2>5. /\ request' \in [Slot -> Request \cup {None}]
        /\ RequestsFit' /\ UNCHANGED lost
    BY <2>3, Finish
  <2>6. QED BY <2>3, <2>4, <2>5 DEF TypeOK, profile
<1>3. QED BY <1>1, <1>2 DEF ShiftDesk

LEMMA EarningDeskTypeInv ==
    ASSUME TypeInv, NEW s \in Slot, EarningDesk(s)
    PROVE  TypeInv'
<1> USE DEF TypeInv
<1>1. ASSUME NEW job \in Job \cup {None}, NEW type \in EarningType,
             NEW reference \in Reference, NEW amount \in Amount,
             ReadCreateEarning(s, job, type, reference, amount)
      PROVE  TypeInv'
  <2> DEFINE r == [op |-> "createEarning", job |-> job, type |-> type,
                   reference |-> reference, amount |-> amount]
  <2>1. r \in Request /\ r.op = "createEarning" BY RequestsAre
  <2>2. Begin(s, r) BY <1>1 DEF ReadCreateEarning
  <2>3. Fits(r) BY <2>1 DEF Fits
  <2>4. QED BY <2>1, <2>2, <2>3, Fresh
<1>2. CASE adminCreateEarning(s)
  <2> DEFINE r == request[s]
             row == [job |-> r.job, type |-> r.type, reference |-> r.reference,
                     amount |-> r.amount, status |-> "PENDING"]
  <2>1. row \in EarningRow
    BY <1>2, RequestOf, RequestFields DEF adminCreateEarning, EarningRow
  <2>2. /\ earnings' = earnings \/ earnings' = Append(earnings, row)
        /\ End(s)
        /\ UNCHANGED <<delivery, status, breaks, shifts, ticket, profile>>
    BY <1>2 DEF adminCreateEarning
  <2>3. earnings' \in Seq(EarningRow)
    <3>1. earnings \in Seq(EarningRow) BY DEF TypeOK
    <3>2. Append(earnings, row) \in Seq(EarningRow)
      <4> HIDE DEF row
      <4>1. QED BY <2>1, <3>1, OneMore
    <3>3. QED BY <2>2, <3>1, <3>2
  <2>4. /\ request' \in [Slot -> Request \cup {None}]
        /\ RequestsFit' /\ UNCHANGED lost
    BY <2>2, Finish
  <2>5. QED BY <2>2, <2>3, <2>4 DEF TypeOK, profile
<1>3. QED BY <1>1, <1>2 DEF EarningDesk

LEMMA SupportDeskTypeInv ==
    ASSUME TypeInv, NEW s \in Slot, SupportDesk(s)
    PROVE  TypeInv'
<1> USE DEF TypeInv
<1>1. ASSUME NEW job \in Job \cup {None}, ReadCreateSupport(s, job)
      PROVE  TypeInv'
  <2> DEFINE r == [op |-> "createSupport"]
  <2>1. r \in Request /\ r.op = "createSupport" BY RequestsAre
  <2>2. Begin(s, r) BY <1>1 DEF ReadCreateSupport
  <2>3. Fits(r) BY <2>1 DEF Fits
  <2>4. QED BY <2>1, <2>2, <2>3, Fresh
<1>2. CASE createSupport(s)
  <2> DEFINE opened == [status |-> "OPEN", messages |-> <<"RIDER">>, closedOver |-> 0]
  <2>1. opened \in Ticket /\ opened # None
    <3>1. <<"RIDER">> \in Seq(Role) BY DEF Role
    <3>2. opened \in Ticket BY <3>1 DEF Ticket, SupportStatus
    <3>3. QED BY <3>2, RiderDeskAssumption
  <2>2. /\ ticket' = opened /\ End(s)
        /\ UNCHANGED <<delivery, status, breaks, shifts, earnings, profile>>
    BY <1>2 DEF createSupport
  <2>3. ticket' \in Ticket /\ ticket' # None
    <3> HIDE DEF opened
    <3>1. QED BY <2>1, <2>2
  <2>4. /\ request' \in [Slot -> Request \cup {None}]
        /\ RequestsFit' /\ UNCHANGED lost
    BY <2>2, <2>3, Finish
  <2>5. QED BY <2>2, <2>3, <2>4 DEF TypeOK, profile
<1>3. ASSUME NEW from \in Role, ReadMessage(s, from) PROVE TypeInv'
  <2> DEFINE r == [op |-> "message", from |-> from]
  <2>1. r \in Request /\ r.op = "message" BY RequestsAre
  <2>2. ticket # None /\ Begin(s, r) BY <1>3 DEF ReadMessage
  <2>3. Fits(r) BY <2>1, <2>2 DEF Fits
  <2>4. QED BY <2>1, <2>2, <2>3, Fresh
<1>4. CASE CreateMessage(s)
  <2> DEFINE from == request[s].from
             at == Len(ticket.messages) + 1
             next == [op |-> "reopen", from |-> from, at |-> at]
             longer == [ticket EXCEPT !.messages = Append(ticket.messages, from)]
  <2>1. ticket # None /\ from \in Role
    BY <1>4, RequestOf, RequestFields DEF CreateMessage, Fits
  <2>2. ticket \in Ticket /\ ticket.messages \in Seq(Role) /\ at \in Nat
    BY <2>1 DEF TypeOK, Ticket
  <2>3. Append(ticket.messages, from) \in Seq(Role) BY <2>1, <2>2, OneMore
  <2>4. longer \in Ticket /\ longer # None
    <3>1. longer \in Ticket BY <2>2, <2>3 DEF Ticket
    <3>2. QED BY <3>1, RiderDeskAssumption
  <2>5. next \in Request /\ next.op = "reopen" BY <2>1, <2>2, RequestsAre
  <2>6. /\ ticket' = longer /\ Continue(s, next)
        /\ UNCHANGED <<delivery, status, breaks, shifts, earnings, profile, lost>>
    BY <1>4 DEF CreateMessage
  <2>7. ticket' \in Ticket /\ ticket' # None
    <3> HIDE DEF longer
    <3>1. QED BY <2>4, <2>6
  <2>8. request' \in [Slot -> Request \cup {None}] /\ RequestsFit'
    <3>1. PICK r \in Request : r.op = "reopen" /\ Continue(s, r)
      BY <2>5, <2>6
    <3>2. Fits(r)' BY <2>7, <3>1 DEF Fits
    <3>3. QED BY <2>6, <2>7, <3>1, <3>2, StillFit
  <2>9. QED BY <2>6, <2>7, <2>8 DEF TypeOK, profile
<1>5. CASE Reopen(s)
  <2> DEFINE heard == [ticket EXCEPT !.status = ReopenedBy(request[s].from)]
  <2>1. ticket # None /\ ticket \in Ticket
    <3>1. Goes(s, "reopen") BY <1>5 DEF Reopen
    <3>2. ticket # None BY <3>1, RequestOf, RequestFields DEF Fits
    <3>3. QED BY <3>2 DEF TypeOK
  <2>2. ReopenedBy(request[s].from) \in SupportStatus
    BY DEF ReopenedBy, SupportStatus
  <2>3. heard \in Ticket /\ heard # None
    <3>1. heard \in Ticket BY <2>1, <2>2 DEF Ticket
    <3>2. QED BY <3>1, RiderDeskAssumption
  <2>4. /\ ticket' = heard /\ End(s)
        /\ UNCHANGED <<delivery, status, breaks, shifts, earnings, profile>>
    BY <1>5 DEF Reopen
  <2>5. ticket' \in Ticket /\ ticket' # None
    <3> HIDE DEF heard
    <3>1. QED BY <2>3, <2>4
  <2>6. /\ request' \in [Slot -> Request \cup {None}]
        /\ RequestsFit' /\ UNCHANGED lost
    BY <2>4, <2>5, Finish
  <2>7. QED BY <2>4, <2>5, <2>6 DEF TypeOK, profile
<1>6. QED BY <1>1, <1>2, <1>3, <1>4, <1>5 DEF SupportDesk

\* What the administrators settle, pay or review in one statement, and the
\* rider's deliveries, leave the requests as they are.
LEMMA SameRequests ==
    ASSUME TypeInv, UNCHANGED <<breaks, request>>,
           ticket # None => ticket' # None
    PROVE  RequestsFit'
BY DEF TypeInv, RequestsFit, Fits

LEMMA SettleTypeInv ==
    ASSUME TypeInv, NEW stat \in SupportStatus, adminSupportStatus(stat)
    PROVE  TypeInv'
<1> USE DEF TypeInv
<1> DEFINE settled == [ticket EXCEPT !.status = stat,
                                     !.closedOver = Len(ticket.messages)]
<1>1. ticket # None /\ ticket \in Ticket BY DEF adminSupportStatus, TypeOK
<1>2. Len(ticket.messages) \in Nat BY <1>1 DEF Ticket
<1>3. settled \in Ticket /\ settled # None
  <2>1. settled \in Ticket BY <1>1, <1>2 DEF Ticket
  <2>2. QED BY <2>1, RiderDeskAssumption
<1>4. /\ ticket' = settled
      /\ UNCHANGED <<delivery, status, breaks, shifts, earnings, profile,
                     request, lost>>
  BY DEF adminSupportStatus
<1>5. ticket' \in Ticket /\ ticket' # None
  <2> HIDE DEF settled
  <2>1. QED BY <1>3, <1>4
<1>6. RequestsFit' BY <1>4, <1>5, SameRequests
<1>7. QED BY <1>4, <1>5, <1>6 DEF TypeOK, profile

LEMMA PayTypeInv ==
    ASSUME TypeInv, NEW i \in DOMAIN earnings, adminMarkEarningPaid(i)
    PROVE  TypeInv'
<1> USE DEF TypeInv
<1> DEFINE row == [earnings[i] EXCEPT !.status = "PAID"]
<1>1. earnings[i] \in EarningRow BY OneRow DEF TypeOK
<1>2. row \in EarningRow BY <1>1 DEF EarningRow
<1>3. /\ earnings' = [earnings EXCEPT ![i] = row]
      /\ UNCHANGED <<delivery, status, breaks, shifts, ticket, profile,
                     request, lost>>
  BY DEF adminMarkEarningPaid
<1>4. earnings' \in Seq(EarningRow)
  <2> HIDE DEF row
  <2>1. QED BY <1>2, <1>3, OneRow DEF TypeOK
<1>5. RequestsFit' BY <1>3, SameRequests
<1>6. QED BY <1>3, <1>4, <1>5 DEF TypeOK, profile

LEMMA DeliveriesTypeInv ==
    ASSUME TypeInv, Deliveries
    PROVE  TypeInv'
<1> USE DEF TypeInv
<1>1. /\ delivery' \in [Job -> {"elsewhere", "active", "ended"}]
      /\ status' \in Status
  BY DEF Deliveries, Accept, Leave, TypeOK, Status
<1>2. UNCHANGED <<breaks, shifts, earnings, ticket, profile, request, lost>>
  BY DEF Deliveries, Accept, Leave
<1>3. RequestsFit' BY <1>2, SameRequests
<1>4. QED BY <1>1, <1>2, <1>3 DEF TypeOK, profile

LEMMA ProfileDeskTypeInv ==
    ASSUME TypeInv, ProfileDesk
    PROVE  TypeInv'
<1> USE DEF TypeInv
<1>1. UNCHANGED <<delivery, status, breaks, shifts, earnings, ticket, request, lost>>
  BY DEF ProfileDesk
<1>2. RequestsFit' BY <1>1, SameRequests
<1>3. bank \in Bank /\ documents \in Seq(Review \cup {"PENDING"})
      /\ approval \in Review \cup {"PENDING"}
  BY DEF TypeOK
<1>4. /\ bank' \in Bank /\ documents' \in Seq(Review \cup {"PENDING"})
      /\ approval' \in Review \cup {"PENDING"}
  <2>1. ASSUME NEW form \in Form, updateProfile(form)
        PROVE  bank' \in Bank /\ UNCHANGED <<documents, approval>>
    <3> DEFINE filled == [ciphertext |-> TRUE, last4 |-> TRUE, status |-> "PENDING"]
    <3>1. filled \in Bank BY DEF Bank
    <3>2. /\ bank' = IF form.account THEN filled ELSE bank
          /\ UNCHANGED <<documents, approval>>
      BY <2>1 DEF updateProfile
    <3>3. QED
      <4> HIDE DEF filled
      <4>1. QED BY <1>3, <3>1, <3>2
  <2>2. ASSUME NEW decision \in Review, adminReviewBank(decision)
        PROVE  bank' \in Bank /\ UNCHANGED <<documents, approval>>
    BY <1>3, <2>2 DEF adminReviewBank, Bank
  <2>3. CASE addDocument
    BY <1>3, <2>3, OneMore DEF addDocument
  <2>4. ASSUME NEW i \in DOMAIN documents, NEW decision \in Review,
               adminReviewDocument(i, decision)
        PROVE  /\ documents' \in Seq(Review \cup {"PENDING"})
               /\ UNCHANGED <<bank, approval>>
    BY <1>3, <2>4, OneRow DEF adminReviewDocument
  <2>5. ASSUME NEW decision \in Review, adminReviewProfile(decision)
        PROVE  /\ approval' \in Review \cup {"PENDING"}
               /\ UNCHANGED <<bank, documents>>
    BY <2>5 DEF adminReviewProfile
  <2>6. QED BY <1>3, <2>1, <2>2, <2>3, <2>4, <2>5 DEF ProfileDesk, addDocument
<1>5. QED BY <1>1, <1>2, <1>4 DEF TypeOK

LEMMA RestartTypeInv ==
    ASSUME TypeInv, Restart
    PROVE  TypeInv'
<1> USE DEF TypeInv
<1>1. /\ lost' = lost \cup {request[s].at : s \in {t \in Slot : Goes(t, "reopen")}}
      /\ request' = [s \in Slot |-> None] /\ UNCHANGED rows
  BY DEF Restart
<1>2. \A s \in Slot : Goes(s, "reopen") => request[s].at \in Nat
  BY RequestOf, RequestFields
<1>3. lost' \in SUBSET Nat BY <1>1, <1>2 DEF TypeOK
<1>4. RequestsFit' BY <1>1 DEF RequestsFit, Fits
<1>5. QED BY <1>1, <1>3, <1>4 DEF TypeOK, rows, profile

LEMMA NextTypeInv == TypeInv /\ [Next]_vars => TypeInv'
<1> SUFFICES ASSUME TypeInv, [Next]_vars PROVE TypeInv'
  OBVIOUS
<1>1. CASE UNCHANGED vars
  BY <1>1 DEF vars, rows, profile, TypeInv, TypeOK, RequestsFit, Fits
<1>2. CASE Next
  BY <1>2, BreakDeskTypeInv, ShiftDeskTypeInv, EarningDeskTypeInv,
     SupportDeskTypeInv, SettleTypeInv, PayTypeInv, DeliveriesTypeInv,
     ProfileDeskTypeInv, RestartTypeInv DEF Next
<1>3. QED BY <1>1, <1>2

LEMMA TypeInvariant == Spec => []TypeInv
BY InitTypeInv, NextTypeInv, PTL DEF Spec

\* The rows of every desk keep their types, a shift ends after it starts, and
\* a request never writes to a row or a ticket that is not there.
THEOREM DeskTypes == Spec => []TypeOK
<1>1. TypeInv => TypeOK BY DEF TypeInv
<1>2. QED BY <1>1, TypeInvariant, PTL

-----------------------------------------------------------------------------
(* Breaks and shifts: what a slot that looked and has not written yet can    *)
(* still rely on is only that its own earlier rows do not stand against it.  *)
(* Another slot may write in between; the row it writes carries its name.    *)

ClearBreak(s) ==
    Goes(s, "startBreak") =>
        \A i \in DOMAIN breaks : Active(i) => breaks[i].by # s

ClearShift(s) ==
    Goes(s, "createShift") =>
        \A i \in DOMAIN shifts : Overlap(shifts[i], request[s]) => shifts[i].by # s

BreaksOnce ==
    \A i, j \in DOMAIN breaks :
        i # j /\ Active(i) /\ Active(j) => breaks[i].by # breaks[j].by
ShiftsOnce ==
    \A i, j \in DOMAIN shifts :
        i # j /\ Overlap(shifts[i], shifts[j]) => shifts[i].by # shifts[j].by
EarningsOnce ==
    \A i, j \in DOMAIN earnings :
        i # j /\ earnings[i].job # None => ~SameKey(earnings[i], earnings[j])

BreakInv == BreaksOnce /\ \A s \in Slot : ClearBreak(s)
ShiftInv == ShiftsOnce /\ \A s \in Slot : ClearShift(s)

BookInv == BreakInv /\ ShiftInv /\ EarningsOnce

LEMMA InitBookInv == Init => BookInv
BY DEF Init, BookInv, BreakInv, ShiftInv, BreaksOnce, ShiftsOnce, EarningsOnce,
   ClearBreak, ClearShift, Goes

\* A step whose requests were in flight before: no slot newly ready to write.
LEMMA KeepBreaks ==
    ASSUME BreakInv, UNCHANGED breaks,
           \A s \in Slot : Goes(s, "startBreak")' => Goes(s, "startBreak")
    PROVE  BreakInv'
<1>1. BreaksOnce' BY DEF BreakInv, BreaksOnce, Active
<1>2. ASSUME NEW s \in Slot PROVE ClearBreak(s)'
  <2> SUFFICES ASSUME Goes(s, "startBreak")',
                      NEW i \in DOMAIN breaks, breaks[i].status = "ACTIVE"
               PROVE  breaks[i].by # s
    BY DEF ClearBreak, Active
  <2>1. Goes(s, "startBreak") OBVIOUS
  <2>2. QED BY <2>1 DEF BreakInv, ClearBreak, Active
<1>3. QED BY <1>1, <1>2 DEF BreakInv

LEMMA KeepShifts ==
    ASSUME ShiftInv, UNCHANGED shifts,
           \A s \in Slot : Goes(s, "createShift")' =>
               Goes(s, "createShift") /\ request'[s] = request[s]
    PROVE  ShiftInv'
<1>1. ShiftsOnce' BY DEF ShiftInv, ShiftsOnce
<1>2. ASSUME NEW s \in Slot PROVE ClearShift(s)'
  <2> SUFFICES ASSUME Goes(s, "createShift")', NEW i \in DOMAIN shifts,
                      Overlap(shifts[i], request'[s])
               PROVE  shifts[i].by # s
    BY DEF ClearShift
  <2>1. Goes(s, "createShift") /\ request'[s] = request[s] OBVIOUS
  <2>2. QED BY <2>1 DEF ShiftInv, ClearShift
<1>3. QED BY <1>1, <1>2 DEF ShiftInv

LEMMA KeepEarnings ==
    ASSUME EarningsOnce, UNCHANGED earnings
    PROVE  EarningsOnce'
BY DEF EarningsOnce

\* One slot moves on to r and every other waits.
LEMMA OneMoves ==
    ASSUME TypeInv, NEW s \in Slot, NEW r \in Request \cup {None}, Continue(s, r)
    PROVE  \A op : /\ Goes(s, op)' <=> (r # None /\ r.op = op)
                   /\ \A t \in Slot : t # s =>
                         (Goes(t, op)' <=> Goes(t, op)) /\ request'[t] = request[t]
BY SetRequest DEF TypeInv, Goes

\* The slots' requests were there before, or are about other tables.
LEMMA Bystander ==
    ASSUME TypeInv, BookInv, NEW s \in Slot, NEW r \in Request \cup {None},
           Continue(s, r), UNCHANGED <<breaks, shifts, earnings>>,
           r # None => r.op \notin {"startBreak", "createShift"}
    PROVE  BookInv'
<1>1. \A t \in Slot : /\ Goes(t, "startBreak")' => Goes(t, "startBreak")
                      /\ Goes(t, "createShift")' =>
                             Goes(t, "createShift") /\ request'[t] = request[t]
  BY OneMoves
<1>2. QED BY <1>1, KeepBreaks, KeepShifts, KeepEarnings DEF BookInv

LEMMA BreakDeskBookInv ==
    ASSUME TypeInv, BookInv, NEW s \in Slot, BreakDesk(s)
    PROVE  BookInv'
<1>1. ASSUME NEW next \in {"ONLINE", "OFFLINE"}, ReadSetStatus(s, next)
      PROVE  BookInv'
  <2> DEFINE r == [op |-> "setStatus", status |-> next]
  <2>1. r \in Request /\ r.op = "setStatus" BY RequestsAre
  <2>2. Continue(s, r) /\ UNCHANGED <<breaks, shifts, earnings>>
    BY <1>1 DEF ReadSetStatus, Begin, Continue, rows
  <2> HIDE DEF r
  <2>3. QED BY <2>1, <2>2, Bystander
<1>2. CASE CommitSetStatus(s)
  BY <1>2, Bystander DEF CommitSetStatus, End
<1>3. CASE ReadStartBreak(s)
  <2> DEFINE r == [op |-> "breakAsked"]
  <2>1. r \in Request /\ r.op = "breakAsked" BY RequestsAre
  <2>2. Continue(s, r) /\ UNCHANGED <<breaks, shifts, earnings>>
    BY <1>3 DEF ReadStartBreak, Begin, Continue, rows
  <2> HIDE DEF r
  <2>3. QED BY <2>1, <2>2, Bystander
<1>4. CASE CheckStartBreak(s)
  <2> DEFINE r == [op |-> "startBreak"]
  <2>1. r \in Request /\ r.op = "startBreak" BY RequestsAre
  <2>2. UNCHANGED <<breaks, shifts, earnings>> BY <1>4 DEF CheckStartBreak, rows
  <2>3. CASE OnBreak
    <3>1. Continue(s, None) BY <1>4, <2>3 DEF CheckStartBreak
    <3>2. QED BY <2>2, <3>1, Bystander
  <2>4. CASE ~OnBreak
    <3>1. Continue(s, r) BY <1>4, <2>4 DEF CheckStartBreak
    <3> HIDE DEF r
    <3>2. \A t \in Slot : Goes(t, "createShift")' =>
              Goes(t, "createShift") /\ request'[t] = request[t]
      BY <2>1, <3>1, OneMoves
    <3>3. ASSUME NEW t \in Slot PROVE ClearBreak(t)'
      <4>1. \A i \in DOMAIN breaks : ~Active(i) BY <2>4 DEF OnBreak
      <4>2. QED BY <2>2, <4>1 DEF ClearBreak, Active
    <3>4. BreaksOnce' BY <2>2 DEF BookInv, BreakInv, BreaksOnce, Active
    <3>5. QED
      BY <2>2, <3>2, <3>3, <3>4, KeepShifts, KeepEarnings DEF BookInv, BreakInv
  <2>5. QED BY <2>3, <2>4
<1>5. CASE startBreak(s)
  <2> DEFINE row == [status |-> "ACTIVE", by |-> s]
             n == Len(breaks) + 1
  <2>1. row \in Break /\ row.by = s BY DEF Break
  <2>2. /\ Goes(s, "startBreak") /\ breaks' = Append(breaks, row)
        /\ Continue(s, None) /\ UNCHANGED <<shifts, earnings>>
    BY <1>5 DEF startBreak, End
  <2>3. /\ DOMAIN breaks' = DOMAIN breaks \cup {n} /\ n \notin DOMAIN breaks
        /\ breaks'[n].by = s
        /\ \A i \in DOMAIN breaks : breaks'[i] = breaks[i]
    <3>1. /\ DOMAIN breaks' = DOMAIN breaks \cup {n} /\ n \notin DOMAIN breaks
          /\ breaks'[n] = row
          /\ \A i \in DOMAIN breaks : breaks'[i] = breaks[i]
      <4> HIDE DEF row
      <4>1. QED BY <2>1, <2>2, OneMore DEF TypeInv, TypeOK
    <3>2. QED BY <3>1
  <2>4. \A i \in DOMAIN breaks : Active(i) => breaks[i].by # s
    BY <2>2 DEF BookInv, BreakInv, ClearBreak
  <2>5. BreaksOnce'
    <3> SUFFICES ASSUME NEW i \in DOMAIN breaks', NEW j \in DOMAIN breaks', i # j,
                        breaks'[i].status = "ACTIVE", breaks'[j].status = "ACTIVE"
                 PROVE  breaks'[i].by # breaks'[j].by
      BY DEF BreaksOnce, Active
    <3> HIDE DEF n
    <3>1. CASE i = n \/ j = n BY <2>3, <2>4, <3>1 DEF Active
    <3>2. CASE i # n /\ j # n
      BY <2>3, <3>2 DEF BookInv, BreakInv, BreaksOnce, Active
    <3>3. QED BY <3>1, <3>2
  <2>6. ASSUME NEW t \in Slot PROVE ClearBreak(t)'
    <3> HIDE DEF n
    <3>1. SUFFICES ASSUME Goes(t, "startBreak")', NEW i \in DOMAIN breaks',
                          breaks'[i].status = "ACTIVE"
                   PROVE  breaks'[i].by # t
      BY DEF ClearBreak, Active
    <3>2. t # s /\ Goes(t, "startBreak") BY <2>2, <3>1, OneMoves
    <3>3. QED BY <2>3, <3>1, <3>2 DEF BookInv, BreakInv, ClearBreak, Active
  <2>7. \A t \in Slot : Goes(t, "createShift")' =>
            Goes(t, "createShift") /\ request'[t] = request[t]
    BY <2>2, OneMoves
  <2>8. QED
    BY <2>2, <2>5, <2>6, <2>7, KeepShifts, KeepEarnings DEF BookInv, BreakInv
<1>6. CASE ReadEndBreak(s)
  <2>1. PICK i \in DOMAIN breaks : Begin(s, [op |-> "endBreak", row |-> i])
    BY <1>6 DEF ReadEndBreak
  <2> DEFINE r == [op |-> "endBreak", row |-> i]
  <2>2. i \in Nat BY LenProperties DEF TypeInv, TypeOK
  <2>3. r \in Request /\ r.op = "endBreak" BY <2>2, RequestsAre
  <2>4. Continue(s, r) /\ UNCHANGED <<breaks, shifts, earnings>>
    BY <2>1 DEF Begin, Continue, rows
  <2> HIDE DEF r
  <2>5. QED BY <2>3, <2>4, Bystander
<1>7. CASE endBreak(s)
  <2> DEFINE i == request[s].row
             row == [breaks[i] EXCEPT !.status = "ENDED"]
  <2>1. i \in DOMAIN breaks
    BY <1>7, RequestOf DEF endBreak, Fits, Goes
  <2>2. breaks[i] \in Break BY <2>1, OneRow DEF TypeInv, TypeOK
  <2>3. row \in Break /\ row.status = "ENDED" BY <2>2 DEF Break
  <2>4. /\ breaks' = [breaks EXCEPT ![i] = row] /\ Continue(s, None)
        /\ UNCHANGED <<shifts, earnings>>
    BY <1>7 DEF endBreak, End
  <2>5. /\ DOMAIN breaks' = DOMAIN breaks /\ breaks'[i].status = "ENDED"
        /\ \A j \in DOMAIN breaks : j # i => breaks'[j] = breaks[j]
    <3> HIDE DEF row, i
    <3>1. QED BY <2>1, <2>3, <2>4, OneRow DEF TypeInv, TypeOK
  <2>6. \A j \in DOMAIN breaks : breaks'[j].status = "ACTIVE" =>
            breaks'[j] = breaks[j] /\ breaks[j].status = "ACTIVE"
    <3> HIDE DEF i
    <3>1. QED BY <2>5
  <2>7. BreaksOnce'
    BY <2>5, <2>6 DEF BookInv, BreakInv, BreaksOnce, Active
  <2>8. \A t \in Slot : /\ Goes(t, "startBreak")' => Goes(t, "startBreak")
                        /\ Goes(t, "createShift")' =>
                             Goes(t, "createShift") /\ request'[t] = request[t]
    BY <2>4, OneMoves
  <2>9. ASSUME NEW t \in Slot PROVE ClearBreak(t)'
    BY <2>5, <2>6, <2>8 DEF BookInv, BreakInv, ClearBreak, Active
  <2>10. QED
    BY <2>4, <2>7, <2>8, <2>9, KeepShifts, KeepEarnings DEF BookInv, BreakInv
<1>8. QED
  BY <1>1, <1>2, <1>3, <1>4, <1>5, <1>6, <1>7 DEF BreakDesk

LEMMA ShiftDeskBookInv ==
    ASSUME TypeInv, BookInv, NEW s \in Slot, ShiftDesk(s)
    PROVE  BookInv'
<1>1. ASSUME NEW a \in Instant, NEW b \in Instant, ReadCreateShift(s, a, b)
      PROVE  BookInv'
  <2> DEFINE r == [op |-> "createShift", start |-> a, end |-> b]
             free == [start |-> a, end |-> b]
  <2>1. /\ r \in Request /\ r.op = "createShift" /\ r # None
        /\ r.start = free.start /\ r.end = free.end
    BY RequestsAre, RequestFields
  <2>2. Continue(s, r) /\ UNCHANGED <<breaks, shifts, earnings>>
    BY <1>1 DEF ReadCreateShift, Begin, Continue, rows
  <2>3. \A i \in DOMAIN shifts : ~Overlap(shifts[i], free)
    BY <1>1 DEF ReadCreateShift
  <2> HIDE DEF r, free
  <2>4. \A i \in DOMAIN shifts : ~Overlap(shifts[i], r)
    BY <2>1, <2>3 DEF Overlap
  <2>5. \A t \in Slot : Goes(t, "startBreak")' => Goes(t, "startBreak")
    BY <2>1, <2>2, OneMoves
  <2>6. ASSUME NEW t \in Slot PROVE ClearShift(t)'
    <3>1. CASE t = s
      <4>1. request'[s] = r BY <2>1, <2>2, SetRequest DEF TypeInv
      <4>2. QED BY <2>2, <2>4, <3>1, <4>1 DEF ClearShift
    <3>2. CASE t # s
      <4>1. request'[t] = request[t] /\ (Goes(t, "createShift")' <=> Goes(t, "createShift"))
        BY <2>1, <2>2, <3>2, OneMoves
      <4>2. QED BY <2>2, <4>1 DEF BookInv, ShiftInv, ClearShift
    <3>3. QED BY <3>1, <3>2
  <2>7. ShiftsOnce' BY <2>2 DEF BookInv, ShiftInv, ShiftsOnce
  <2>8. QED
    BY <2>2, <2>5, <2>6, <2>7, KeepBreaks, KeepEarnings DEF BookInv, ShiftInv
<1>2. CASE adminCreateShift(s)
  <2> DEFINE row == [start |-> request[s].start, end |-> request[s].end, by |-> s]
             n == Len(shifts) + 1
  <2>1. /\ Goes(s, "createShift") /\ shifts' = Append(shifts, row)
        /\ Continue(s, None) /\ UNCHANGED <<breaks, earnings>>
    BY <1>2 DEF adminCreateShift, End
  <2>2. /\ request[s].start \in Instant /\ request[s].end \in Instant
        /\ request[s].start < request[s].end
    BY <2>1, RequestOf, RequestFields DEF Fits
  <2>3. row \in ShiftRow BY <2>2 DEF ShiftRow
  <2>4. row.start = request[s].start /\ row.end = request[s].end /\ row.by = s
    OBVIOUS
  <2>5. /\ DOMAIN shifts' = DOMAIN shifts \cup {n} /\ n \notin DOMAIN shifts
        /\ shifts'[n].start = request[s].start /\ shifts'[n].end = request[s].end
        /\ shifts'[n].by = s
        /\ \A i \in DOMAIN shifts : shifts'[i] = shifts[i]
    <3> HIDE DEF row
    <3>1. QED BY <2>1, <2>3, <2>4, OneMore DEF TypeInv, TypeOK
  <2> HIDE DEF row, n
  <2>6. ASSUME NEW i \in DOMAIN shifts,
               Overlap(shifts[i], shifts'[n]) \/ Overlap(shifts'[n], shifts[i])
        PROVE  shifts[i].by # s
    <3>1. shifts[i] \in ShiftRow
      BY ElementOfSeq, LenProperties DEF TypeInv, TypeOK
    <3>2. Overlap(shifts[i], request[s])
      BY <2>2, <2>5, <2>6, <3>1, RiderDeskAssumption DEF Overlap, ShiftRow
    <3>3. QED BY <2>1, <3>2 DEF BookInv, ShiftInv, ClearShift
  <2>7. ShiftsOnce'
    <3> SUFFICES ASSUME NEW i \in DOMAIN shifts', NEW j \in DOMAIN shifts', i # j,
                        Overlap(shifts'[i], shifts'[j])
                 PROVE  shifts'[i].by # shifts'[j].by
      BY DEF ShiftsOnce
    <3>1. CASE i = n BY <2>5, <2>6, <3>1
    <3>2. CASE j = n BY <2>5, <2>6, <3>2
    <3>3. CASE i # n /\ j # n
      BY <2>5, <3>3 DEF BookInv, ShiftInv, ShiftsOnce
    <3>4. QED BY <3>1, <3>2, <3>3
  <2>8. ASSUME NEW t \in Slot PROVE ClearShift(t)'
    <3>1. SUFFICES ASSUME Goes(t, "createShift")', NEW i \in DOMAIN shifts',
                          Overlap(shifts'[i], request'[t])
                   PROVE  shifts'[i].by # t
      BY DEF ClearShift
    <3>2. t # s /\ Goes(t, "createShift") /\ request'[t] = request[t]
      BY <2>1, <3>1, OneMoves
    <3>3. CASE i = n BY <2>5, <3>2, <3>3
    <3>4. CASE i # n
      BY <2>5, <3>1, <3>2, <3>4 DEF BookInv, ShiftInv, ClearShift
    <3>5. QED BY <3>3, <3>4
  <2>9. \A t \in Slot : Goes(t, "startBreak")' => Goes(t, "startBreak")
    BY <2>1, OneMoves
  <2>10. QED
    BY <2>1, <2>7, <2>8, <2>9, KeepBreaks, KeepEarnings DEF BookInv, ShiftInv
<1>3. QED BY <1>1, <1>2 DEF ShiftDesk

LEMMA EarningDeskBookInv ==
    ASSUME TypeInv, BookInv, NEW s \in Slot, EarningDesk(s)
    PROVE  BookInv'
<1>1. ASSUME NEW job \in Job \cup {None}, NEW type \in EarningType,
             NEW reference \in Reference, NEW amount \in Amount,
             ReadCreateEarning(s, job, type, reference, amount)
      PROVE  BookInv'
  <2> DEFINE r == [op |-> "createEarning", job |-> job, type |-> type,
                   reference |-> reference, amount |-> amount]
  <2>1. r \in Request /\ r.op = "createEarning" BY RequestsAre
  <2>2. Continue(s, r) /\ UNCHANGED <<breaks, shifts, earnings>>
    BY <1>1 DEF ReadCreateEarning, Begin, Continue, rows
  <2> HIDE DEF r
  <2>3. QED BY <2>1, <2>2, Bystander
<1>2. CASE adminCreateEarning(s)
  <2> DEFINE r == request[s]
             row == [job |-> r.job, type |-> r.type, reference |-> r.reference,
                     amount |-> r.amount, status |-> "PENDING"]
             n == Len(earnings) + 1
  <2>1. /\ Goes(s, "createEarning") /\ Continue(s, None)
        /\ UNCHANGED <<breaks, shifts>>
        /\ IF Booked(r) THEN earnings' = earnings
                        ELSE earnings' = Append(earnings, row)
    BY <1>2 DEF adminCreateEarning, End
  <2>2. \A t \in Slot : /\ Goes(t, "startBreak")' => Goes(t, "startBreak")
                        /\ Goes(t, "createShift")' =>
                             Goes(t, "createShift") /\ request'[t] = request[t]
    BY <2>1, OneMoves
  <2>3. CASE Booked(r)
    BY <2>1, <2>2, <2>3, KeepBreaks, KeepShifts, KeepEarnings DEF BookInv
  <2>4. CASE ~Booked(r)
    <3>1. row \in EarningRow
      BY <1>2, RequestOf, RequestFields DEF adminCreateEarning, EarningRow
    <3>2. row.job = r.job /\ row.type = r.type /\ row.reference = r.reference
      OBVIOUS
    <3>3. earnings' = Append(earnings, row) BY <2>1, <2>4
    <3>4. /\ DOMAIN earnings' = DOMAIN earnings \cup {n}
          /\ n \notin DOMAIN earnings
          /\ earnings'[n].job = r.job /\ earnings'[n].type = r.type
          /\ earnings'[n].reference = r.reference
          /\ \A i \in DOMAIN earnings : earnings'[i] = earnings[i]
      <4>1. earnings \in Seq(EarningRow) BY DEF TypeInv, TypeOK
      <4> HIDE DEF row, r
      <4>2. QED BY <3>1, <3>2, <3>3, <4>1, OneMore
    <3> HIDE DEF row, r, n
    <3>5. EarningsOnce'
      <4> SUFFICES ASSUME NEW i \in DOMAIN earnings', NEW j \in DOMAIN earnings',
                          i # j, earnings'[i].job # None,
                          SameKey(earnings'[i], earnings'[j])
                   PROVE  FALSE
        BY DEF EarningsOnce
      <4>1. CASE i = n \/ j = n
        BY <2>4, <3>4, <4>1 DEF Booked, SameKey
      <4>2. CASE i # n /\ j # n
        BY <3>4, <4>2 DEF BookInv, EarningsOnce
      <4>3. QED BY <4>1, <4>2
    <3>6. QED BY <2>1, <2>2, <3>5, KeepBreaks, KeepShifts DEF BookInv
  <2>5. QED BY <2>3, <2>4
<1>3. QED BY <1>1, <1>2 DEF EarningDesk

\* The other desks write none of the three tables.
LEMMA SupportDeskBookInv ==
    ASSUME TypeInv, BookInv, NEW s \in Slot, SupportDesk(s)
    PROVE  BookInv'
<1>1. UNCHANGED <<breaks, shifts, earnings>>
  BY DEF SupportDesk, ReadCreateSupport, createSupport, ReadMessage,
     CreateMessage, Reopen, Begin, rows
<1>2. ASSUME NEW r \in Request, r.op \in {"createSupport", "message", "reopen"},
             Continue(s, r)
      PROVE  BookInv'
  BY <1>1, <1>2, Bystander
<1>3. ASSUME NEW job \in Job \cup {None}, ReadCreateSupport(s, job)
      PROVE  BookInv'
  <2>1. PICK r \in Request : r.op = "createSupport" /\ Continue(s, r)
    BY <1>3, RequestsAre DEF ReadCreateSupport, Begin, Continue
  <2>2. QED BY <1>2, <2>1
<1>4. ASSUME NEW from \in Role, ReadMessage(s, from) PROVE BookInv'
  <2>1. PICK r \in Request : r.op = "message" /\ Continue(s, r)
    BY <1>4, RequestsAre DEF ReadMessage, Begin, Continue
  <2>2. QED BY <1>2, <2>1
<1>5. CASE CreateMessage(s)
  <2>1. ticket # None /\ request[s].from \in Role
    BY <1>5, RequestOf, RequestFields DEF CreateMessage, Fits
  <2>2. Len(ticket.messages) + 1 \in Nat
    BY <2>1 DEF TypeInv, TypeOK, Ticket
  <2>3. PICK r \in Request : r.op = "reopen" /\ Continue(s, r)
    BY <1>5, <2>1, <2>2, RequestsAre DEF CreateMessage
  <2>4. QED BY <1>2, <2>3
<1>6. CASE createSupport(s) \/ Reopen(s)
  BY <1>1, <1>6, Bystander DEF createSupport, Reopen, End
<1>7. QED BY <1>3, <1>4, <1>5, <1>6 DEF SupportDesk

LEMMA PayBookInv ==
    ASSUME TypeInv, BookInv, NEW i \in DOMAIN earnings, adminMarkEarningPaid(i)
    PROVE  BookInv'
<1> DEFINE row == [earnings[i] EXCEPT !.status = "PAID"]
<1>1. earnings \in Seq(EarningRow) /\ earnings[i] \in EarningRow
  BY OneRow DEF TypeInv, TypeOK
<1>2. /\ row \in EarningRow /\ row.job = earnings[i].job
      /\ row.type = earnings[i].type /\ row.reference = earnings[i].reference
  BY <1>1 DEF EarningRow
<1>3. /\ earnings' = [earnings EXCEPT ![i] = row]
      /\ UNCHANGED <<breaks, shifts, request>>
  BY DEF adminMarkEarningPaid
<1>4. /\ DOMAIN earnings' = DOMAIN earnings
      /\ \A j \in DOMAIN earnings :
            /\ earnings'[j].job = earnings[j].job
            /\ earnings'[j].type = earnings[j].type
            /\ earnings'[j].reference = earnings[j].reference
  <2> HIDE DEF row
  <2>1. QED BY <1>1, <1>2, <1>3, OneRow
<1>5. EarningsOnce' BY <1>4 DEF BookInv, EarningsOnce, SameKey
<1>6. QED
  BY <1>3, <1>5, KeepBreaks, KeepShifts DEF BookInv, Goes

LEMMA NextBookInv == TypeInv /\ BookInv /\ [Next]_vars => BookInv'
<1> SUFFICES ASSUME TypeInv, BookInv, [Next]_vars PROVE BookInv'
  OBVIOUS
<1>1. CASE UNCHANGED <<breaks, shifts, earnings, request>>
  BY <1>1, KeepBreaks, KeepShifts, KeepEarnings DEF BookInv, Goes
<1>2. CASE Restart
  <2>1. /\ UNCHANGED <<breaks, shifts, earnings>>
        /\ \A s \in Slot : request'[s] = None
    BY <1>2 DEF Restart, rows
  <2>2. QED BY <2>1, KeepBreaks, KeepShifts, KeepEarnings DEF BookInv, Goes
<1>3. CASE UNCHANGED vars BY <1>1, <1>3 DEF vars, rows
<1>4. CASE Deliveries \/ ProfileDesk \/ \E stat \in SupportStatus : adminSupportStatus(stat)
  BY <1>1, <1>4 DEF Deliveries, Accept, Leave, ProfileDesk, adminSupportStatus
<1>5. QED
  BY <1>2, <1>3, <1>4, BreakDeskBookInv, ShiftDeskBookInv, EarningDeskBookInv,
     SupportDeskBookInv, PayBookInv DEF Next

LEMMA BookInvariant == Spec => [](TypeInv /\ BookInv)
BY InitTypeInv, InitBookInv, NextTypeInv, NextBookInv, PTL DEF Spec

\* Two ACTIVE breaks of a rider, or two overlapping shifts, can only have been
\* booked by two requests handled at once, and two earnings of one delivery
\* never share type and reference: for any number of requests at the same time
\* (startBreak, adminCreateShift, adminCreateEarning).
THEOREM BookingsAreSingle == Spec => []BookedOnce
<1>1. BookInv => BookedOnce
  BY DEF BookInv, BreakInv, ShiftInv, BreaksOnce, ShiftsOnce, EarningsOnce,
     BookedOnce
<1>2. QED BY <1>1, BookInvariant, PTL

-----------------------------------------------------------------------------
(* The support ticket *)

Settled == {"RESOLVED", "CLOSED"}

\* The ticket stays as it is and no request is dropped on the way to reopen.
LEMMA KeepHeard ==
    ASSUME SettledMeansHeard, UNCHANGED <<ticket, lost>>,
           \A s \in Slot : Goes(s, "reopen") =>
               Goes(s, "reopen")' /\ request'[s] = request[s]
    PROVE  SettledMeansHeard'
<1>1. ASSUME NEW i, Reopens(i) PROVE Reopens(i)'
  BY <1>1 DEF Reopens
<1>2. QED BY <1>1 DEF SettledMeansHeard

\* A slot that was not about to reopen the ticket moves on.
LEMMA OthersHeard ==
    ASSUME TypeInv, SettledMeansHeard, NEW s \in Slot,
           NEW r \in Request \cup {None}, Continue(s, r), ~Goes(s, "reopen"),
           UNCHANGED <<ticket, lost>>
    PROVE  SettledMeansHeard'
BY OneMoves, KeepHeard

LEMMA BeginHeard ==
    ASSUME TypeInv, SettledMeansHeard, NEW s \in Slot, NEW r \in Request,
           Begin(s, r)
    PROVE  SettledMeansHeard'
BY OthersHeard DEF Begin, Continue, Goes, rows

LEMMA SupportDeskHeard ==
    ASSUME TypeInv, SettledMeansHeard, NEW s \in Slot, SupportDesk(s)
    PROVE  SettledMeansHeard'
<1>1. ASSUME NEW job \in Job \cup {None}, ReadCreateSupport(s, job)
      PROVE  SettledMeansHeard'
  BY <1>1, BeginHeard, RequestsAre DEF ReadCreateSupport
<1>2. CASE createSupport(s)
  BY <1>2 DEF createSupport, SettledMeansHeard
<1>3. ASSUME NEW from \in Role, ReadMessage(s, from) PROVE SettledMeansHeard'
  BY <1>3, BeginHeard, RequestsAre DEF ReadMessage
<1>4. CASE CreateMessage(s)
  <2> DEFINE from == request[s].from
             at == Len(ticket.messages) + 1
             next == [op |-> "reopen", from |-> from, at |-> at]
             longer == [ticket EXCEPT !.messages = Append(ticket.messages, from)]
  <2>1. ticket # None /\ from \in Role /\ ~Goes(s, "reopen")
    BY <1>4, RequestOf, RequestFields DEF CreateMessage, Fits, Goes
  <2>2. ticket \in Ticket /\ ticket.messages \in Seq(Role) /\ at \in Nat
    BY <2>1 DEF TypeInv, TypeOK, Ticket
  <2>3. /\ longer.status = ticket.status /\ longer.closedOver = ticket.closedOver
        /\ Len(longer.messages) = at
    BY <2>1, <2>2 DEF Ticket
  <2>4. next \in Request /\ next # None /\ next.op = "reopen" /\ next.at = at
    BY <2>1, <2>2, RequestsAre, RequestFields
  <2>5. ticket' = longer /\ Continue(s, next) /\ UNCHANGED lost
    BY <1>4 DEF CreateMessage
  <2>6. /\ ticket'.status = ticket.status
        /\ ticket'.closedOver = ticket.closedOver
        /\ Len(ticket'.messages) = at
    <3> HIDE DEF longer, at
    <3>1. QED BY <2>3, <2>5
  <2>7. /\ Goes(s, "reopen")' /\ request'[s] = next
        /\ \A t \in Slot : t # s =>
              (Goes(t, "reopen")' <=> Goes(t, "reopen")) /\ request'[t] = request[t]
    <3> HIDE DEF next
    <3>1. QED BY <2>4, <2>5, OneMoves, SetRequest DEF TypeInv
  <2>8. ASSUME ticket'.status \in Settled,
               NEW i \in ticket'.closedOver + 1 .. Len(ticket'.messages)
        PROVE  i \in lost' \/ \E t \in Slot : Goes(t, "reopen")' /\ request'[t].at = i
    <3>1. ticket.closedOver \in Nat /\ Len(ticket.messages) \in Nat
      BY <2>2 DEF Ticket
    <3>2. CASE i = at
      <4>1. request'[s].at = i BY <2>4, <2>7, <3>2
      <4>2. QED BY <2>7, <4>1
    <3>3. CASE i # at
      <4>1. i \in ticket.closedOver + 1 .. Len(ticket.messages)
        BY <2>6, <2>8, <3>1, <3>3
      <4>2. i \in lost \/ Reopens(i)
        BY <2>1, <2>6, <2>8, <4>1 DEF SettledMeansHeard, Settled
      <4>3. CASE i \in lost BY <2>5, <4>3
      <4>4. CASE Reopens(i)
        <5>1. PICK t \in Slot : Goes(t, "reopen") /\ request[t].at = i
          BY <4>4 DEF Reopens
        <5>2. t # s BY <2>1, <5>1
        <5>3. QED BY <2>7, <5>1, <5>2
      <4>5. QED BY <4>2, <4>3, <4>4
    <3>4. QED BY <3>2, <3>3
  <2>9. QED BY <2>8 DEF SettledMeansHeard, Reopens, Settled
<1>5. CASE Reopen(s)
  <2>1. Goes(s, "reopen") BY <1>5 DEF Reopen
  <2>2. ticket # None BY <2>1, RequestOf, RequestFields DEF Fits
  <2>3. ticket \in Ticket BY <2>2 DEF TypeInv, TypeOK
  <2>4. ticket' = [ticket EXCEPT !.status = ReopenedBy(request[s].from)]
    BY <1>5 DEF Reopen
  <2>5. ticket'.status \in {"OPEN", "IN_PROGRESS"}
    BY <2>3, <2>4 DEF Ticket, ReopenedBy
  <2>6. QED BY <2>5 DEF SettledMeansHeard
<1>6. QED BY <1>1, <1>2, <1>3, <1>4, <1>5 DEF SupportDesk

LEMMA BreakDeskHeard ==
    ASSUME TypeInv, SettledMeansHeard, NEW s \in Slot, BreakDesk(s)
    PROVE  SettledMeansHeard'
<1>1. ASSUME NEW next \in {"ONLINE", "OFFLINE"}, ReadSetStatus(s, next)
      PROVE  SettledMeansHeard'
  BY <1>1, BeginHeard, RequestsAre DEF ReadSetStatus
<1>2. CASE ReadStartBreak(s)
  BY <1>2, BeginHeard, RequestsAre DEF ReadStartBreak
<1>3. CASE ReadEndBreak(s)
  <2>1. PICK i \in DOMAIN breaks : Begin(s, [op |-> "endBreak", row |-> i])
    BY <1>3 DEF ReadEndBreak
  <2>2. i \in Nat BY LenProperties DEF TypeInv, TypeOK
  <2>3. QED BY <2>1, <2>2, BeginHeard, RequestsAre
<1>4. CASE CheckStartBreak(s)
  <2>1. PICK r \in Request \cup {None} : Continue(s, r)
    BY <1>4, RequestsAre DEF CheckStartBreak
  <2>2. QED BY <1>4, <2>1, OthersHeard DEF CheckStartBreak, Goes, rows
<1>5. CASE CommitSetStatus(s) \/ startBreak(s) \/ endBreak(s)
  BY <1>5, OthersHeard DEF CommitSetStatus, startBreak, endBreak, Goes, End
<1>6. QED BY <1>1, <1>2, <1>3, <1>4, <1>5 DEF BreakDesk

LEMMA NextHeard == TypeInv /\ SettledMeansHeard /\ [Next]_vars => SettledMeansHeard'
<1> SUFFICES ASSUME TypeInv, SettledMeansHeard, [Next]_vars
             PROVE  SettledMeansHeard'
  OBVIOUS
<1>1. CASE UNCHANGED <<ticket, lost, request>>
  BY <1>1, KeepHeard DEF Goes
<1>2. CASE UNCHANGED vars BY <1>1, <1>2 DEF vars, rows
<1>3. CASE \/ Deliveries \/ ProfileDesk
           \/ \E i \in DOMAIN earnings : adminMarkEarningPaid(i)
  BY <1>1, <1>3 DEF Deliveries, Accept, Leave, ProfileDesk, adminMarkEarningPaid
<1>4. ASSUME NEW s \in Slot, ShiftDesk(s) \/ EarningDesk(s)
      PROVE  SettledMeansHeard'
  <2>1. ASSUME NEW a \in Instant, NEW b \in Instant, ReadCreateShift(s, a, b)
        PROVE  SettledMeansHeard'
    BY <2>1, BeginHeard, RequestsAre DEF ReadCreateShift
  <2>2. ASSUME NEW job \in Job \cup {None}, NEW type \in EarningType,
               NEW reference \in Reference, NEW amount \in Amount,
               ReadCreateEarning(s, job, type, reference, amount)
        PROVE  SettledMeansHeard'
    BY <2>2, BeginHeard, RequestsAre DEF ReadCreateEarning
  <2>3. CASE adminCreateShift(s) \/ adminCreateEarning(s)
    BY <2>3, OthersHeard DEF adminCreateShift, adminCreateEarning, Goes, End
  <2>4. QED BY <1>4, <2>1, <2>2, <2>3 DEF ShiftDesk, EarningDesk
<1>5. ASSUME NEW stat \in SupportStatus, adminSupportStatus(stat)
      PROVE  SettledMeansHeard'
  <2>1. ticket \in Ticket BY <1>5 DEF adminSupportStatus, TypeInv, TypeOK
  <2>2. /\ ticket'.closedOver = Len(ticket.messages)
        /\ ticket'.messages = ticket.messages
    BY <1>5, <2>1 DEF adminSupportStatus, Ticket
  <2>3. Len(ticket.messages) \in Nat BY <2>1 DEF Ticket
  <2>4. ticket'.closedOver + 1 .. Len(ticket'.messages) = {}
    BY <2>2, <2>3
  <2>5. QED BY <2>4 DEF SettledMeansHeard
<1>6. CASE Restart
  <2>1. /\ lost' = lost \cup {request[s].at : s \in {t \in Slot : Goes(t, "reopen")}}
        /\ UNCHANGED ticket
    BY <1>6 DEF Restart, rows
  <2>2. ASSUME NEW i, i \in lost \/ Reopens(i) PROVE i \in lost'
    BY <2>1, <2>2 DEF Reopens
  <2>3. QED BY <2>1, <2>2 DEF SettledMeansHeard
<1>7. QED
  BY <1>2, <1>3, <1>4, <1>5, <1>6, BreakDeskHeard, SupportDeskHeard DEF Next

\* A message written after an administrator settled the ticket reopens it, for
\* any number of writers at once; only a server that stops between the message
\* and the status leaves it unheard (addSupportMessage, adminSupportReply).
THEOREM MessagesAreHeard == Spec => []SettledMeansHeard
<1> DEFINE Inv == TypeInv /\ SettledMeansHeard
<1>1. Init => Inv BY InitTypeInv DEF Init, SettledMeansHeard
<1>2. Inv /\ [Next]_vars => Inv' BY NextTypeInv, NextHeard
<1>3. QED BY <1>1, <1>2, PTL DEF Spec

-----------------------------------------------------------------------------
(* The pages *)

\* The digits a page masks an account by are written with the account.
BankIsWhole == bank.last4 <=> bank.ciphertext

LEMMA InitBank == Init => BankIsWhole
BY DEF Init, BankIsWhole

LEMMA NextBank == TypeInv /\ BankIsWhole /\ [Next]_vars => BankIsWhole'
<1> SUFFICES ASSUME TypeInv, BankIsWhole, [Next]_vars PROVE BankIsWhole'
  OBVIOUS
<1>1. CASE UNCHANGED bank
  BY <1>1 DEF BankIsWhole
<1>2. CASE ProfileDesk
  <2>1. ASSUME NEW form \in Form, updateProfile(form) PROVE BankIsWhole'
    BY <2>1 DEF updateProfile, BankIsWhole
  <2>2. ASSUME NEW decision \in Review, adminReviewBank(decision) PROVE BankIsWhole'
    BY <2>2 DEF adminReviewBank, BankIsWhole, TypeInv, TypeOK, Bank
  <2>3. QED
    BY <1>1, <1>2, <2>1, <2>2
       DEF ProfileDesk, addDocument, adminReviewDocument, adminReviewProfile
<1>3. ASSUME NEW s \in Slot,
             BreakDesk(s) \/ ShiftDesk(s) \/ EarningDesk(s) \/ SupportDesk(s)
      PROVE  UNCHANGED bank
  BY <1>3 DEF BreakDesk, ReadSetStatus, CommitSetStatus, ReadStartBreak,
     CheckStartBreak, startBreak, ReadEndBreak, endBreak, ShiftDesk,
     ReadCreateShift, adminCreateShift, EarningDesk, ReadCreateEarning,
     adminCreateEarning, SupportDesk, ReadCreateSupport, createSupport,
     ReadMessage, CreateMessage, Reopen, Begin, rows, profile
<1>4. QED
  BY <1>1, <1>2, <1>3 DEF Next, vars, rows, profile, Restart, Deliveries,
     Accept, Leave, adminMarkEarningPaid, adminSupportStatus

\* Both sums of the earnings page run over the signed amounts of the lines.
Signed(S) == [i \in S |-> signed(earnings[i])]

LEMMA SumOfSigned ==
    ASSUME NEW S
    PROVE  /\ MapThenSumSet(LAMBDA i : signed(earnings[i]), S) = SumOf(Signed(S), S)
           /\ MapThenSumSet(LAMBDA i : IF Line(earnings[i]).minus
                                         THEN -Line(earnings[i]).paise
                                         ELSE Line(earnings[i]).paise, S)
                = SumOf(Signed(S), S)
<1> DEFINE c == Signed(S)
           Totals(f) == [s \in SUBSET S |->
              IF s = {} THEN 0 ELSE signed(earnings[AnyOf(s)]) + f[s \ {AnyOf(s)}]]
           Lines(f) == [s \in SUBSET S |->
              IF s = {} THEN 0
              ELSE (IF Line(earnings[AnyOf(s)]).minus
                    THEN -Line(earnings[AnyOf(s)]).paise
                    ELSE Line(earnings[AnyOf(s)]).paise) + f[s \ {AnyOf(s)}]]
           Stored(f) == [s \in SUBSET S |-> SumLine(c, f, s)]
<1>1. MapThenSumSet(LAMBDA i : signed(earnings[i]), S) = (CHOOSE f : f = Totals(f))[S]
  BY DEF MapThenSumSet, MapThenFoldSet, AnyOf
<1>2. MapThenSumSet(LAMBDA i : IF Line(earnings[i]).minus
                               THEN -Line(earnings[i]).paise
                               ELSE Line(earnings[i]).paise, S)
        = (CHOOSE f : f = Lines(f))[S]
  BY DEF MapThenSumSet, MapThenFoldSet, AnyOf
<1>3. ASSUME NEW f PROVE Totals(f) = Stored(f) /\ Lines(f) = Stored(f)
  <2>1. ASSUME NEW s \in SUBSET S, s # {}
        PROVE  c[AnyOf(s)] = signed(earnings[AnyOf(s)])
    BY <2>1 DEF AnyOf, Signed
  <2>2. ASSUME NEW r
        PROVE  (IF Line(r).minus THEN -Line(r).paise ELSE Line(r).paise) = signed(r)
    BY DEF Line, signed
  <2> HIDE DEF c
  <2>3. Totals(f) = Stored(f)
    BY <2>1 DEF SumLine
  <2>4. Lines(f) = Stored(f)
    <3> HIDE DEF Stored, Totals
    <3>1. Lines(f) = Totals(f)
      BY <2>2 DEF Totals
    <3> QED BY <2>3, <3>1
  <2> QED
    BY <2>3, <2>4
<1>4. PartialSum(c, S) = CHOOSE f : f = Stored(f)
  BY DEF PartialSum
<1> HIDE DEF Totals, Lines, Stored, c
<1>5. /\ (CHOOSE f : f = Totals(f)) = (CHOOSE f : f = Stored(f))
      /\ (CHOOSE f : f = Lines(f)) = (CHOOSE f : f = Stored(f))
  BY <1>3
<1>6. SumOf(c, S) = PartialSum(c, S)[S]
  BY SumIsPartialSum
<1> QED
  BY <1>1, <1>2, <1>4, <1>5, <1>6 DEF c

LEMMA RowsAreFinite ==
    ASSUME NEW T, NEW seq \in Seq(T)
    PROVE  IsFiniteSet(DOMAIN seq)
<1>1. DOMAIN seq = 1 .. Len(seq) /\ Len(seq) \in Nat
  BY LenProperties
<1> QED
  BY <1>1, FS_Interval

\* Every line is pending or paid, and counted once.
LEMMA SumsAddUp ==
    ASSUME TypeOK
    PROVE  pendingPaise + paidPaise =
             MapThenSumSet(LAMBDA i : IF Line(earnings[i]).minus
                                      THEN -Line(earnings[i]).paise
                                      ELSE Line(earnings[i]).paise, DOMAIN earnings)
<1> DEFINE S == DOMAIN earnings
           P == {i \in S : earnings[i].status = "PENDING"}
           Q == {i \in S : earnings[i].status = "PAID"}
           g == Signed(S)
<1>1. earnings \in Seq(EarningRow) BY DEF TypeOK
<1>2. IsFiniteSet(S) BY <1>1, RowsAreFinite
<1>3. \A i \in S : earnings[i] \in EarningRow
  BY <1>1, ElementOfSeq, LenProperties
<1>4. P \in SUBSET S /\ Q = S \ P
  BY <1>3 DEF EarningRow
<1>5. g \in [S -> Int]
  <2>1. ASSUME NEW i \in S PROVE signed(earnings[i]) \in Int
    <3>1. earnings[i].amount \in Amount BY <1>3 DEF EarningRow
    <3>2. earnings[i].amount \in Nat
      BY <3>1, RiderDeskAssumption
    <3>3. earnings[i].amount \in Int /\ -earnings[i].amount \in Int
      BY <3>2
    <3> QED BY <3>3 DEF signed
  <2> QED BY <2>1 DEF Signed
<1>6. pendingPaise = SumOf(Signed(P), P) /\ paidPaise = SumOf(Signed(Q), Q)
  BY SumOfSigned DEF pendingPaise, paidPaise, BookedAs
<1>7. SumOf(Signed(P), P) = SumOf(g, P) /\ SumOf(Signed(Q), Q) = SumOf(g, Q)
  <2>1. IsFiniteSet(P) /\ IsFiniteSet(Q)
    BY <1>2, <1>4, FS_Subset
  <2>2. (\A i \in P : Signed(P)[i] = g[i]) /\ (\A i \in Q : Signed(Q)[i] = g[i])
    BY <1>4 DEF Signed
  <2> HIDE DEF P, Q, g
  <2> QED
    BY <2>1, <2>2, SumCongruent
<1>8. SumOf(g, S) = SumOf(g, P) + SumOf(g, Q)
  <2> HIDE DEF P, Q, g
  <2> QED
    BY <1>2, <1>4, <1>5, SumOfParts
<1> HIDE DEF P, Q
<1> QED
  BY <1>6, <1>7, <1>8, SumOfSigned

\* Of finitely many rows one comes first: the one with the fewest before it.
LEMMA OneIsFirst ==
    ASSUME NEW S, IsFiniteSet(S), S # {}, NEW g \in [S -> Int]
    PROVE  \E x \in S : \A y \in S : g[x] <= g[y]
<1> DEFINE Before(x) == {y \in S : g[y] < g[x]}
           All == {Before(x) : x \in S}
<1>1. All \in SUBSET (SUBSET S) /\ All # {}
  <2>1. \A x \in S : Before(x) \in SUBSET S
    OBVIOUS
  <2> HIDE DEF Before
  <2>2. All \in SUBSET (SUBSET S)
    BY <2>1
  <2>3. PICK x \in S : TRUE
    OBVIOUS
  <2>4. Before(x) \in All
    OBVIOUS
  <2> QED
    BY <2>2, <2>4
<1>2. PICK s \in All : \A t \in All : Cardinality(s) <= Cardinality(t)
  <2> HIDE DEF All
  <2> QED BY <1>1, SmallestSubset
<1>3. PICK x \in S : s = Before(x)
  BY <1>2
<1>4. ASSUME NEW y \in S, g[y] < g[x] PROVE FALSE
  <2>1. y \in Before(x) /\ y \notin Before(y)
    BY <1>4
  <2>2. Before(y) \subseteq Before(x) \ {y}
    BY <1>4
  <2>3. /\ Cardinality(Before(x) \ {y}) = Cardinality(Before(x)) - 1
        /\ Cardinality(Before(x)) \in Nat /\ IsFiniteSet(Before(x) \ {y})
    <3>1. Before(x) \in SUBSET S OBVIOUS
    <3>2. IsFiniteSet(Before(x)) BY <3>1, FS_Subset
    <3> HIDE DEF Before
    <3>3. IsFiniteSet(Before(x) \ {y}) BY <3>2, FS_Subset
    <3> QED BY <2>1, <3>1, <3>2, <3>3, OneFewer
  <2>4. /\ Cardinality(Before(y)) <= Cardinality(Before(x) \ {y})
        /\ Cardinality(Before(y)) \in Nat
    <3> HIDE DEF Before
    <3> QED BY <2>2, <2>3, FS_Subset, FS_CardinalityType
  <2>5. Cardinality(Before(x)) <= Cardinality(Before(y))
    BY <1>2, <1>3
  <2> HIDE DEF Before, All
  <2> QED
    BY <2>3, <2>4, <2>5
<1> QED
  BY <1>4

\* A running shift that is not shown gives way to one that starts earlier; the
\* two overlap, or touch at this instant.
LEMMA ShiftsAreShown ==
    ASSUME TypeOK, ShiftsOnce, NEW now \in Instant, NEW i \in DOMAIN shifts,
           shifts[i].end > now
    PROVE  \/ i \in currentShift(now) \cup upcomingShifts(now)
           \/ \E j \in currentShift(now) :
                  shifts[j].end = now \/ shifts[j].by # shifts[i].by
<1> DEFINE S == {j \in DOMAIN shifts : Covers(j, now)}
           g == [j \in S |-> shifts[j].start]
<1>1. shifts \in Seq(ShiftRow) BY DEF TypeOK
<1>2. \A j \in DOMAIN shifts :
        shifts[j] \in ShiftRow /\ shifts[j].start \in Int /\ shifts[j].end \in Int
  <2>1. \A j \in DOMAIN shifts : shifts[j] \in ShiftRow
    BY <1>1, ElementOfSeq, LenProperties
  <2> QED BY <2>1, RiderDeskAssumption DEF ShiftRow
<1>3. now \in Int BY RiderDeskAssumption
<1>4. CASE shifts[i].start > now
  BY <1>4 DEF upcomingShifts
<1>5. CASE ~ (shifts[i].start > now)
  <2>1. i \in S BY <1>2, <1>3, <1>5 DEF Covers
  <2>2. IsFiniteSet(S) BY <1>1, RowsAreFinite, FS_Subset
  <2>3. g \in [S -> Int] BY <1>2
  <2>4. PICK j \in S : \A k \in S : g[j] <= g[k]
    <3> HIDE DEF S, g
    <3> QED BY <2>1, <2>2, <2>3, OneIsFirst
  <2>5. j \in currentShift(now)
    BY <2>4 DEF currentShift
  <2>6. CASE shifts[i].start = shifts[j].start
    BY <2>1, <2>4, <2>6 DEF currentShift
  <2>7. CASE shifts[i].start # shifts[j].start
    <3>1. /\ shifts[j].start <= now /\ now <= shifts[j].end
          /\ shifts[i].start <= now
      BY <2>1, <2>4 DEF Covers
    <3>2. CASE shifts[j].end = now
      BY <2>5, <3>2
    <3>3. CASE shifts[j].end # now
      <4>1. Overlap(shifts[i], shifts[j]) /\ i # j
        BY <1>2, <1>3, <2>4, <2>7, <3>1, <3>3 DEF Overlap
      <4> QED BY <2>4, <2>5, <4>1 DEF ShiftsOnce
    <3> QED BY <3>2, <3>3
  <2> QED BY <2>6, <2>7
<1> QED BY <1>4, <1>5

\* On rows just loaded the rider's pages offer what the server takes and show
\* what it has, for any number of rows and of requests at the same time
\* (availability, earnings, updateProfile, safeProfile, addSupportMessage).
THEOREM DeskPagesMatch == Spec => []DeskPagesMatchServer
<1>1. TypeInv /\ BookInv /\ BankIsWhole => DeskPagesMatchServer
  <2> SUFFICES ASSUME TypeInv, BookInv, BankIsWhole PROVE DeskPagesMatchServer
    OBVIOUS
  <2>1. TypeOK /\ ShiftsOnce BY DEF TypeInv, BookInv, ShiftInv
  <2>2. ticket # None => (ReplyShown <=> Receives("RIDER", ticket.status))
    BY DEF ReplyShown, Receives
  <2>3. BreakButton = "end" <=> \E i \in DOMAIN breaks : Active(i)
    BY DEF BreakButton, CurrentBreak, OnBreak
  <2>4. \A form \in Form : SentByPage(form) => Accepted(form)
    BY DEF SentByPage, Accepted
  <2>5. safeProfile.bank # None <=> bank.ciphertext
    <3>1. bank.status # None
      BY <2>1, RiderDeskAssumption DEF TypeOK, Bank
    <3> QED BY <3>1 DEF safeProfile, BankIsWhole
  <2> QED
    BY <2>1, <2>2, <2>3, <2>4, <2>5, SumsAddUp, ShiftsAreShown
       DEF DeskPagesMatchServer
<1>2. QED
  BY <1>1, InitBank, NextBank, BookInvariant, PTL DEF Spec
=============================================================================
