------------------------ MODULE OrderLifecycleProofs ------------------------
(***************************************************************************)
(* Theorems about OrderLifecycle for every set of orders, requests,        *)
(* products, carts, prices and limits: the types of the rows, the stock    *)
(* and its ledger, what placeOrder's transaction guarantees although all   *)
(* it decided on was read before it, the bound on refunds, the whole       *)
(* contract of an order while its own requests do not overlap, and what    *)
(* its pages offer.                                                        *)
(***************************************************************************)
EXTENDS OrderScreens, SumLemmas

-----------------------------------------------------------------------------
(* Type correctness.  TypeOK is not inductive: a commit writes fields of    *)
(* rows its request read, so the rows must exist and the request must carry *)
(* what its operation needs.                                                *)

\* Every order row has its payment row: placeOrder creates both at once.
OrdersArePaid == \A o \in Order : order[o] # None => payment[o] \in PaymentRow

\* A request is about an existing order and carries its operation's input.
WellFormed(r) ==
    /\ order[r.order] # None
    /\ r.op = "status" => r.next \in OrderStatus
    /\ r.op = "substitute" => /\ r.line \in Line /\ r.to \in Product
                              /\ r.seen.lines[r.line] \in Product
    /\ r.phase = "checked" => r.seen.total >= 1

RequestsWellFormed == \A s \in Slot : request[s] # None => WellFormed(request[s])

TypeInv == TypeOK /\ OrdersArePaid /\ RequestsWellFormed

\* Counting the lines of a product gives a number, positive if there is one.
LEMMA UnitsType ==
    ASSUME NEW lines, NEW p
    PROVE  /\ Units(lines, p) \in Nat
           /\ \A l \in Line : lines[l] = p => Units(lines, p) > 0
<1> DEFINE L == {l \in Line : lines[l] = p}
<1>1. IsFiniteSet(L)
  <2>1. IsFiniteSet(Line) BY LifecycleAssumption
  <2>2. L \subseteq Line OBVIOUS
  <2>3. QED BY <2>1, <2>2, FS_Subset
<1>2. Cardinality(L) \in Nat BY <1>1, FS_CardinalityType
<1>3. ASSUME NEW l \in Line, lines[l] = p PROVE Cardinality(L) > 0
  <2>1. L # {} BY <1>3
  <2>2. Cardinality(L) # 0 BY <1>1, <2>1, FS_EmptySet
  <2>3. QED BY <1>2, <2>2
<1>4. QED BY <1>2, <1>3 DEF Units

\* What a cancellation restores is a number of units.
LEMMA RestoredType ==
    ASSUME NEW r, NEW p
    PROVE  Restored(r, p) \in Nat
BY UnitsType DEF Restored

LEMMA InitTypeInv == Init => TypeInv
BY LifecycleAssumption DEF Init, TypeInv, TypeOK, OrdersArePaid,
   RequestsWellFormed, RedemptionStatus

\* A step that only reads adds one well-formed request.
LEMMA BeginTypeInv ==
    ASSUME TypeInv, NEW s \in Slot, NEW o \in Order, NEW op \in Operation,
           NEW next \in OrderStatus \cup {None}, NEW line \in Line \cup {None},
           NEW to \in Product \cup {None},
           order[o] # None, Begin(s, op, o, next, line, to),
           op = "status" => next \in OrderStatus,
           op = "substitute" => /\ line \in Line /\ to \in Product
                                /\ order[o].lines[line] # None
    PROVE  TypeInv'
<1>1. order[o] \in OrderRow /\ payment[o] \in PaymentRow
  BY DEF TypeInv, TypeOK, OrdersArePaid
<1>2. Seen(o) \in Snapshot
  BY <1>1 DEF Seen, Snapshot, OrderRow, PaymentRow
<1>3. PICK r \in Request :
         r = [op |-> op, phase |-> "read", order |-> o, seen |-> Seen(o),
              next |-> next, line |-> line, to |-> to]
  BY <1>2 DEF Request
<1>4. request' = [request EXCEPT ![s] = r] BY <1>3 DEF Begin
<1>5. request' \in [Slot -> Request \cup {None}]
  BY <1>3, <1>4 DEF TypeInv, TypeOK
<1>6. UNCHANGED <<stock, order, payment, refunded, redemption, ledger, quote>>
  BY DEF Begin, rows
<1>7. TypeOK' BY <1>5, <1>6 DEF TypeInv, TypeOK
<1>8. OrdersArePaid' BY <1>6 DEF TypeInv, OrdersArePaid
<1>9. op = "substitute" => r.seen.lines[r.line] \in Product
  BY <1>1, <1>3 DEF Seen, OrderRow, OrderLines
<1>10. WellFormed(r)' BY <1>3, <1>6, <1>9 DEF WellFormed
<1>11. RequestsWellFormed'
  <2> SUFFICES ASSUME NEW t \in Slot, request'[t] # None
               PROVE  WellFormed(request[t])'
    BY DEF RequestsWellFormed
  <2>1. CASE t = s BY <2>1, <1>4, <1>10 DEF TypeInv, TypeOK
  <2>2. CASE t # s
    BY <2>2, <1>4, <1>6 DEF TypeInv, TypeOK, RequestsWellFormed, WellFormed
  <2>3. QED BY <2>1, <2>2
<1>12. QED BY <1>7, <1>8, <1>11 DEF TypeInv

\* Closing a request keeps the others well formed if no order disappears.
LEMMA FinishTypeInv ==
    ASSUME TypeInv, NEW s \in Slot, Finish(s),
           \A o \in Order : order[o] # None => order'[o] # None
    PROVE  /\ request' \in [Slot -> Request \cup {None}]
           /\ quote' \in [Order -> QuoteRow \cup {None}]
           /\ RequestsWellFormed'
<1>1. request' = [request EXCEPT ![s] = None] /\ quote' = quote
  BY DEF Finish
<1>2. request' \in [Slot -> Request \cup {None}]
  BY <1>1 DEF TypeInv, TypeOK
<1>3. ASSUME NEW t \in Slot, request'[t] # None PROVE WellFormed(request[t])'
  <2>1. request'[t] = request[t] /\ request[t] # None
    BY <1>1, <1>3 DEF TypeInv, TypeOK
  <2>2. request[t] \in Request /\ WellFormed(request[t])
    BY <2>1 DEF TypeInv, TypeOK, RequestsWellFormed
  <2>3. request[t].order \in Order BY <2>2 DEF Request
  <2>4. QED BY <2>1, <2>2, <2>3 DEF WellFormed
<1>4. QED BY <1>1, <1>2, <1>3 DEF TypeInv, TypeOK, RequestsWellFormed

\* Updating fields of an existing order row within their types is type correct.
LEMMA SetRowTypeInv ==
    ASSUME TypeInv, NEW o \in Order, NEW row \in OrderRow, order[o] # None,
           order' = [order EXCEPT ![o] = row]
    PROVE  /\ order' \in [Order -> OrderRow \cup {None}]
           /\ \A x \in Order : order'[x] # None <=> order[x] # None
BY LifecycleAssumption DEF TypeInv, TypeOK

\* The same, for a write of the status alone.
LEMMA SetStatusTypeInv ==
    ASSUME TypeInv, NEW o \in Order, NEW st \in OrderStatus, order[o] # None,
           SetStatus(o, st)
    PROVE  /\ order' \in [Order -> OrderRow \cup {None}]
           /\ \A x \in Order : order'[x] # None <=> order[x] # None
           /\ order' = [order EXCEPT ![o] = [order[o] EXCEPT !.status = st]]
<1>1. order[o] \in OrderRow BY DEF TypeInv, TypeOK
<1>2. [order[o] EXCEPT !.status = st] \in OrderRow BY <1>1 DEF OrderRow
<1>3. order' = [order EXCEPT ![o] = [order[o] EXCEPT !.status = st]]
  BY DEF SetStatus
<1>4. QED BY <1>2, <1>3, SetRowTypeInv

\* A status write of a payment row.
LEMMA SetPaymentTypeInv ==
    ASSUME TypeInv, NEW o \in Order, NEW st \in PaymentStatus, order[o] # None,
           payment' = [payment EXCEPT ![o].status = st],
           \A x \in Order : order'[x] # None <=> order[x] # None
    PROVE  /\ payment' \in [Order -> PaymentRow \cup {None}]
           /\ OrdersArePaid'
<1>1. payment[o] \in PaymentRow BY DEF TypeInv, OrdersArePaid
<1>2. [payment[o] EXCEPT !.status = st] \in PaymentRow
  BY <1>1 DEF PaymentRow
<1>3. payment' = [payment EXCEPT ![o] = [payment[o] EXCEPT !.status = st]]
  OBVIOUS
<1>4. payment' \in [Order -> PaymentRow \cup {None}]
  BY <1>2, <1>3 DEF TypeInv, TypeOK
<1>5. ASSUME NEW x \in Order, order'[x] # None PROVE payment'[x] \in PaymentRow
  BY <1>2, <1>3, <1>5 DEF TypeInv, TypeOK, OrdersArePaid
<1>6. QED BY <1>4, <1>5 DEF OrdersArePaid

\* Every operation's request is well typed when it commits.
LEMMA AtTypeInv ==
    ASSUME TypeInv, NEW s \in Slot, request[s] # None
    PROVE  /\ request[s] \in Request
           /\ request[s].order \in Order
           /\ request[s].seen \in Snapshot
           /\ WellFormed(request[s])
           /\ order[request[s].order] \in OrderRow
           /\ payment[request[s].order] \in PaymentRow
<1>1. request[s] \in Request /\ WellFormed(request[s])
  BY DEF TypeInv, TypeOK, RequestsWellFormed
<1>2. QED
  BY <1>1 DEF Request, WellFormed, TypeInv, TypeOK, OrdersArePaid

\* placeOrder writes an order row, its payment row and its redemption.
LEMMA PlacedRows ==
    ASSUME TypeInv, NEW o \in Order, PlaceOrder(o)
    PROVE  \E row \in OrderRow, pay \in PaymentRow, st \in RedemptionStatus :
              /\ order' = [order EXCEPT ![o] = row]
              /\ payment' = [payment EXCEPT ![o] = pay]
              /\ redemption' = [redemption EXCEPT ![o] = st]
<1> DEFINE q == quote[o]
           total == GrandTotal[<<q.cart, q.coupon>>]
           cod == q.method = "COD"
           row == [status |-> IF cod THEN "CONFIRMED" ELSE "PAYMENT_PENDING",
                   total |-> total, lines |-> q.cart, key |-> q.key]
           pay == [method |-> q.method,
                   status |-> IF cod THEN "PENDING_COD" ELSE "CREATED",
                   amount |-> total]
           st == IF ~q.coupon THEN "NONE"
                 ELSE IF cod THEN "REDEEMED" ELSE "RESERVED"
<1>1. q \in QuoteRow /\ q.cart \in Carts /\ q.coupon \in BOOLEAN
  BY DEF PlaceOrder, TypeInv, TypeOK, QuoteRow
<1>2. q.cart \in OrderLines /\ total \in Nat
  BY <1>1, LifecycleAssumption
<1>3. row \in OrderRow
  BY <1>1, <1>2 DEF QuoteRow, OrderRow, OrderStatus
<1>4. pay \in PaymentRow
  BY <1>1, <1>2 DEF QuoteRow, PaymentRow, PaymentStatus
<1>5. st \in RedemptionStatus BY DEF RedemptionStatus
<1>6. /\ order' = [order EXCEPT ![o] = row]
      /\ payment' = [payment EXCEPT ![o] = pay]
      /\ redemption' = [redemption EXCEPT ![o] = st]
  BY DEF PlaceOrder
<1> HIDE DEF row, pay, st
<1>7. QED BY <1>3, <1>4, <1>5, <1>6

\* Checkout: the quote, the transaction that creates the order, and giving up.
LEMMA CheckoutTypeInv ==
    ASSUME TypeInv, NEW o \in Order, Checkout(o)
    PROVE  TypeInv'
<1>1. ASSUME NEW cart \in Carts, NEW method \in Method, NEW coupon \in BOOLEAN,
             NEW key \in Key \cup {None}, Quote(o, cart, method, coupon, key)
      PROVE  TypeInv'
  <2>1. quote' \in [Order -> QuoteRow \cup {None}]
    BY <1>1 DEF Quote, TypeInv, TypeOK, QuoteRow
  <2>2. QED
    BY <1>1, <2>1 DEF Quote, rows, TypeInv, TypeOK, OrdersArePaid,
       RequestsWellFormed, WellFormed
<1>2. CASE PlaceOrder(o)
  <2> DEFINE q == quote[o]
             total == GrandTotal[<<q.cart, q.coupon>>]
  <2>1. q \in QuoteRow /\ q.cart \in Carts /\ q.coupon \in BOOLEAN
    BY <1>2 DEF PlaceOrder, TypeInv, TypeOK, QuoteRow
  <2>2. q.cart \in OrderLines /\ total \in Nat
    BY <2>1, LifecycleAssumption
  <2>3. PICK row \in OrderRow, pay \in PaymentRow, st \in RedemptionStatus :
           /\ order' = [order EXCEPT ![o] = row]
           /\ payment' = [payment EXCEPT ![o] = pay]
           /\ redemption' = [redemption EXCEPT ![o] = st]
    BY <1>2, PlacedRows
  <2>4. stock' \in [Product -> Nat]
    <3>1. ASSUME NEW p \in Product PROVE stock[p] - Units(q.cart, p) \in Nat
      <4>1. stock[p] \in Nat BY DEF TypeInv, TypeOK
      <4>2. Units(q.cart, p) \in Nat BY UnitsType
      <4>3. stock[p] >= Units(q.cart, p)
        BY <1>2 DEF PlaceOrder, StillValid, HasStock
      <4>4. QED BY <4>1, <4>2, <4>3
    <3>2. QED BY <1>2, <3>1 DEF PlaceOrder
  <2>5. ledger' \in [Order -> [Product -> Int]]
    <3>1. ASSUME NEW p \in Product PROVE 0 - Units(q.cart, p) \in Int
      BY UnitsType
    <3>2. [p \in Product |-> 0 - Units(q.cart, p)] \in [Product -> Int]
      BY <3>1
    <3>3. QED BY <1>2, <3>2 DEF PlaceOrder, TypeInv, TypeOK
  <2>6. /\ quote' = [quote EXCEPT ![o] = None]
        /\ refunded' = refunded /\ request' = request
    BY <1>2 DEF PlaceOrder
  <2>7. TypeOK' BY <2>3, <2>4, <2>5, <2>6 DEF TypeInv, TypeOK
  <2>8. \A x \in Order : order[x] # None => order'[x] # None
    BY <2>3, LifecycleAssumption DEF TypeInv, TypeOK
  <2>9. OrdersArePaid' BY <2>3 DEF TypeInv, TypeOK, OrdersArePaid
  <2>10. RequestsWellFormed'
    <3> SUFFICES ASSUME NEW t \in Slot, request[t] # None
                 PROVE  WellFormed(request[t])'
      BY <2>6 DEF RequestsWellFormed
    <3> QED BY <2>6, <2>8, AtTypeInv DEF WellFormed
  <2>11. QED BY <2>7, <2>9, <2>10 DEF TypeInv
<1>3. CASE DropQuote(o)
  <2>1. quote' \in [Order -> QuoteRow \cup {None}]
    BY <1>3 DEF DropQuote, TypeInv, TypeOK
  <2>2. QED
    BY <1>3, <2>1 DEF DropQuote, rows, TypeInv, TypeOK, OrdersArePaid,
       RequestsWellFormed, WellFormed
<1>4. QED BY <1>1, <1>2, <1>3 DEF Checkout

\* The reads: each begins a request with the input its operation needs.
LEMMA ReadTypeInv ==
    ASSUME TypeInv, NEW s \in Slot, NEW o \in Order, Read(s, o)
    PROVE  TypeInv'
<1>1. CASE ReadCapture(s, o)
  BY <1>1, BeginTypeInv DEF ReadCapture, Operation
<1>2. CASE ReadFail(s, o)
  BY <1>2, BeginTypeInv DEF ReadFail, Operation
<1>3. CASE ReadCancel(s, o)
  BY <1>3, BeginTypeInv DEF ReadCancel, MayCancel, Operation
<1>4. CASE ReadForceCancel(s, o)
  BY <1>4, BeginTypeInv DEF ReadForceCancel, MayForceCancel, Operation
<1>5. CASE ReadStatus(s, o)
  <2>1. PICK next \in StatusTargets : Begin(s, "status", o, next, None, None)
    BY <1>5 DEF ReadStatus
  <2>2. next \in OrderStatus BY LifecycleAssumption
  <2>3. order[o] # None BY <1>5 DEF ReadStatus
  <2>4. QED BY <2>1, <2>2, <2>3, BeginTypeInv DEF Operation
<1>6. CASE ReadSubstitute(s, o)
  <2>1. PICK line \in Line, to \in Product :
           /\ order[o].lines[line] # None
           /\ Begin(s, "substitute", o, None, line, to)
    BY <1>6 DEF ReadSubstitute
  <2>2. order[o] # None BY <1>6 DEF ReadSubstitute
  <2>3. QED BY <2>1, <2>2, BeginTypeInv DEF Operation
<1>7. CASE ReadReassign(s, o)
  BY <1>7, BeginTypeInv DEF ReadReassign, MayReassign, Operation
<1>8. QED BY <1>1, <1>2, <1>3, <1>4, <1>5, <1>6, <1>7 DEF Read

\* Writing the line and the total of a substitution, over what was read.
LEMMA SubstituteTypeInv ==
    ASSUME TypeInv, NEW s \in Slot, CommitSubstitute(s)
    PROVE  /\ order' \in [Order -> OrderRow \cup {None}]
           /\ \A x \in Order : order'[x] # None <=> order[x] # None
<1> DEFINE r == request[s]
           o == request[s].order
           delta == Price[r.to] - Price[r.seen.lines[r.line]]
           row == [order[o] EXCEPT !.lines = [@ EXCEPT ![r.line] = r.to],
                                   !.total = r.seen.total + delta]
<1>0. request[s] # None BY DEF CommitSubstitute, At
<1>a. /\ r \in Request /\ o \in Order /\ WellFormed(r) /\ order[o] # None
      /\ order[o] \in OrderRow
  BY <1>0, AtTypeInv DEF WellFormed
<1>1. /\ r.line \in Line /\ r.to \in Product
      /\ r.seen.lines[r.line] \in Product /\ r.seen.total \in Int
  BY <1>a DEF CommitSubstitute, At, WellFormed, Request, Snapshot
<1>2. r.seen.total + delta \in Int BY <1>1, LifecycleAssumption
<1>3. row \in OrderRow BY <1>a, <1>1, <1>2 DEF OrderRow, OrderLines
<1>4. order' = [order EXCEPT ![o] = row] BY DEF CommitSubstitute
<1> HIDE DEF row
<1>5. QED BY <1>a, <1>3, <1>4, SetRowTypeInv

\* The commits and Drop: a row keeps its type whatever was read before.
LEMMA CommitTypeInv ==
    ASSUME TypeInv, NEW s \in Slot, Commit(s) \/ Drop(s)
    PROVE  TypeInv'
<1> DEFINE r == request[s]
           o == request[s].order
<1>0. request[s] # None
  BY DEF Commit, Drop, At, IsCancel, CommitCapture, CommitFail, CheckRefund,
     CommitCancel, CommitStatus, CommitSubstitute, CommitReassign
<1>a. /\ r \in Request /\ o \in Order /\ WellFormed(r) /\ order[o] # None
      /\ order[o] \in OrderRow /\ payment[o] \in PaymentRow
  BY <1>0, AtTypeInv DEF WellFormed
<1>b. \A x \in Order : redemption[x] \in RedemptionStatus
  BY DEF TypeInv, TypeOK
<1>1. CASE CommitCapture(s)
  <2>1. /\ order' \in [Order -> OrderRow \cup {None}]
        /\ \A x \in Order : order'[x] # None <=> order[x] # None
    <3>1. SetStatus(o, "CONFIRMED") BY <1>1 DEF CommitCapture
    <3>2. QED BY <1>a, <3>1, SetStatusTypeInv DEF OrderStatus
  <2>2. payment' \in [Order -> PaymentRow \cup {None}] /\ OrdersArePaid'
    <3>1. payment' = [payment EXCEPT ![o].status = "CAPTURED"]
      BY <1>1 DEF CommitCapture
    <3>2. "CAPTURED" \in PaymentStatus BY DEF PaymentStatus
    <3>3. QED BY <1>a, <2>1, <3>1, <3>2, SetPaymentTypeInv
  <2>3. redemption' \in [Order -> RedemptionStatus]
    BY <1>1, <1>a, <1>b DEF CommitCapture, Redeem, RedemptionStatus, TypeInv, TypeOK
  <2>4. QED
    BY <1>1, <2>1, <2>2, <2>3, FinishTypeInv DEF CommitCapture, TypeInv, TypeOK
<1>2. CASE CommitFail(s)
  <2>1. /\ order' \in [Order -> OrderRow \cup {None}]
        /\ \A x \in Order : order'[x] # None <=> order[x] # None
    <3>1. SetStatus(o, "PAYMENT_FAILED") BY <1>2 DEF CommitFail
    <3>2. QED BY <1>a, <3>1, SetStatusTypeInv DEF OrderStatus
  <2>2. payment' \in [Order -> PaymentRow \cup {None}] /\ OrdersArePaid'
    <3>1. payment' = [payment EXCEPT ![o].status = "FAILED"]
      BY <1>2 DEF CommitFail
    <3>2. "FAILED" \in PaymentStatus BY DEF PaymentStatus
    <3>3. QED BY <1>a, <2>1, <3>1, <3>2, SetPaymentTypeInv
  <2>3. redemption' \in [Order -> RedemptionStatus]
    BY <1>2, <1>a, <1>b DEF CommitFail, RedemptionStatus, TypeInv, TypeOK
  <2>4. QED
    BY <1>2, <2>1, <2>2, <2>3, FinishTypeInv DEF CommitFail, TypeInv, TypeOK
<1>3. CASE CheckRefund(s)
  <2> DEFINE q == [r EXCEPT !.phase = "checked"]
  <2>1. request' = [request EXCEPT ![s] = q]
    BY <1>3 DEF CheckRefund
  <2>2. UNCHANGED <<stock, order, payment, refunded, redemption, ledger, quote>>
    BY <1>3 DEF CheckRefund, rows
  <2>3. q \in Request BY <1>a DEF Request
  <2>4. r.seen.total >= 1 BY <1>3 DEF CheckRefund, RefundAllowed
  <2>5. WellFormed(q) BY <1>a, <2>4 DEF WellFormed, Request
  <2>6. request' \in [Slot -> Request \cup {None}]
    BY <2>1, <2>3 DEF TypeInv, TypeOK
  <2>7. RequestsWellFormed'
    <3> SUFFICES ASSUME NEW t \in Slot, request'[t] # None
                 PROVE  WellFormed(request[t])'
      BY DEF RequestsWellFormed
    <3> HIDE DEF q
    <3>1. WellFormed(request'[t])
      BY <2>1, <2>5 DEF TypeInv, TypeOK, RequestsWellFormed
    <3>2. QED BY <2>2, <3>1 DEF WellFormed
  <2>8. QED BY <2>2, <2>6, <2>7 DEF TypeInv, TypeOK, OrdersArePaid
<1>4. CASE CommitCancel(s)
  <2>1. /\ order' \in [Order -> OrderRow \cup {None}]
        /\ \A x \in Order : order'[x] # None <=> order[x] # None
    <3>1. SetStatus(o, "CANCELLED") BY <1>4 DEF CommitCancel
    <3>2. QED BY <1>a, <3>1, SetStatusTypeInv DEF OrderStatus
  <2>2. /\ payment' \in [Order -> PaymentRow \cup {None}] /\ OrdersArePaid'
        /\ refunded' \in [Order -> Nat]
    <3>1. CASE NeedsRefund(r)
      <4>1. /\ payment' = [payment EXCEPT ![o].status = "REFUND_PENDING"]
            /\ refunded' = [refunded EXCEPT ![o] = @ + r.seen.total]
        BY <1>4, <3>1 DEF CommitCancel
      <4>2. "REFUND_PENDING" \in PaymentStatus BY DEF PaymentStatus
      <4>3. payment' \in [Order -> PaymentRow \cup {None}] /\ OrdersArePaid'
        BY <1>a, <2>1, <4>1, <4>2, SetPaymentTypeInv
      <4>4. r.seen.total \in Nat
        BY <1>4, <1>a, <3>1 DEF CommitCancel, WellFormed, Request, Snapshot
      <4>5. refunded[o] \in Nat BY <1>a DEF TypeInv, TypeOK
      <4>6. QED BY <4>1, <4>3, <4>4, <4>5 DEF TypeInv, TypeOK
    <3>2. CASE ~NeedsRefund(r)
      BY <1>4, <2>1, <3>2 DEF CommitCancel, TypeInv, TypeOK, OrdersArePaid
    <3>3. QED BY <3>1, <3>2
  <2>3. redemption' \in [Order -> RedemptionStatus]
    BY <1>4, <1>a, <1>b DEF CommitCancel, Release, RedemptionStatus, TypeInv, TypeOK
  <2>4. stock' \in [Product -> Nat]
    <3>1. ASSUME NEW p \in Product PROVE stock[p] + Restored(r, p) \in Nat
      BY RestoredType DEF TypeInv, TypeOK
    <3>2. QED BY <1>4, <3>1 DEF CommitCancel
  <2>5. ledger' \in [Order -> [Product -> Int]]
    <3>1. ASSUME NEW p \in Product PROVE ledger[o][p] + LedgerDelta(r, p) \in Int
      BY <1>a, RestoredType DEF LedgerDelta, TypeInv, TypeOK
    <3>2. QED BY <1>4, <3>1 DEF CommitCancel, TypeInv, TypeOK
  <2>6. Finish(s) BY <1>4 DEF CommitCancel
  <2>7. QED BY <2>1, <2>2, <2>3, <2>4, <2>5, <2>6, FinishTypeInv DEF TypeInv, TypeOK
<1>5. CASE CommitStatus(s)
  <2>1. SetStatus(o, r.next) /\ r.next \in OrderStatus
    BY <1>5, <1>a DEF CommitStatus, At, WellFormed
  <2>2. /\ order' \in [Order -> OrderRow \cup {None}]
        /\ \A x \in Order : order'[x] # None <=> order[x] # None
    BY <1>a, <2>1, SetStatusTypeInv
  <2>3. redemption' \in [Order -> RedemptionStatus]
    BY <1>5, <1>a, <1>b DEF CommitStatus, Release, RedemptionStatus, TypeInv, TypeOK
  <2>4. QED
    BY <1>5, <2>2, <2>3, FinishTypeInv DEF CommitStatus, TypeInv, TypeOK, OrdersArePaid
<1>6. CASE CommitSubstitute(s)
  BY <1>6, SubstituteTypeInv, FinishTypeInv
  DEF CommitSubstitute, TypeInv, TypeOK, OrdersArePaid
<1>7. CASE CommitReassign(s)
  <2>1. order' = order \/ SetStatus(o, "RIDER_ASSIGNED")
    BY <1>7 DEF CommitReassign
  <2>2. /\ order' \in [Order -> OrderRow \cup {None}]
        /\ \A x \in Order : order'[x] # None <=> order[x] # None
    <3>1. CASE order' = order BY <3>1 DEF TypeInv, TypeOK
    <3>2. CASE SetStatus(o, "RIDER_ASSIGNED")
      BY <1>a, <3>2, SetStatusTypeInv DEF OrderStatus
    <3>3. QED BY <2>1, <3>1, <3>2
  <2>3. QED
    BY <1>7, <2>2, FinishTypeInv DEF CommitReassign, TypeInv, TypeOK, OrdersArePaid
<1>8. CASE Drop(s)
  BY <1>8, FinishTypeInv DEF Drop, rows, TypeInv, TypeOK, OrdersArePaid
<1>9. QED BY <1>1, <1>2, <1>3, <1>4, <1>5, <1>6, <1>7, <1>8 DEF Commit

\* The invariant is inductive.
LEMMA NextTypeInv == TypeInv /\ [Next]_vars => TypeInv'
<1> SUFFICES ASSUME TypeInv, [Next]_vars PROVE TypeInv'
  OBVIOUS
<1>1. ASSUME NEW o \in Order, Checkout(o) PROVE TypeInv'
  BY <1>1, CheckoutTypeInv
<1>2. ASSUME NEW s \in Slot, NEW o \in Order, Read(s, o) PROVE TypeInv'
  BY <1>2, ReadTypeInv
<1>3. ASSUME NEW s \in Slot, Commit(s) \/ Drop(s) PROVE TypeInv'
  BY <1>3, CommitTypeInv
<1>4. CASE UNCHANGED vars
  BY <1>4 DEF vars, TypeInv, TypeOK, OrdersArePaid, RequestsWellFormed, WellFormed
<1>5. QED BY <1>1, <1>2, <1>3, <1>4 DEF Next

THEOREM TypeInvariant == Spec => []TypeInv
<1>1. QED BY InitTypeInv, NextTypeInv, PTL DEF Spec

\* Every row keeps its type, and stock is never negative: no interleaving of
\* checkouts and cancellations sells a unit that is not there.
THEOREM TypeCorrect == Spec => []TypeOK
<1>1. TypeInv => TypeOK BY DEF TypeInv
<1>2. QED BY <1>1, TypeInvariant, PTL

-----------------------------------------------------------------------------
(* Stock and its ledger.  The quantity of a product and the sum of its      *)
(* ledger rows move together: each step changes the rows of one order.      *)

\* A checkout in progress has no order yet, and no order has no ledger rows.
LedgerFollowsOrder ==
    \A o \in Order : /\ quote[o] # None => order[o] = None
                     /\ order[o] = None => \A p \in Product : ledger[o][p] = 0

\* StockMatchesLedger with the sum by its name.
StockIsSum ==
    \A p \in Product : stock[p] = InitialStock[p]
                                    + SumOf(Column(ledger, Order, p), Order)

StockInv == LedgerFollowsOrder /\ StockIsSum

LEMMA StockSums == StockMatchesLedger <=> StockIsSum
<1> DEFINE Folded(p) == MapThenSumSet(LAMBDA o : ledger[o][p], Order)
<1>1. StockMatchesLedger <=>
         \A p \in Product : stock[p] = InitialStock[p] + Folded(p)
  BY Zenon DEF StockMatchesLedger
<1>2. \A p : Folded(p) = SumOf(Column(ledger, Order, p), Order)
  BY SumOfColumn
<1> HIDE DEF Folded
<1> QED
  BY <1>1, <1>2 DEF StockIsSum

LEMMA InitStockInv == Init => StockInv
<1> SUFFICES ASSUME Init PROVE StockInv
  OBVIOUS
<1>1. LedgerFollowsOrder
  BY DEF Init, LedgerFollowsOrder
<1>2. ASSUME NEW p \in Product
      PROVE  SumOf(Column(ledger, Order, p), Order) = 0
  <2>1. \A o \in Order : Column(ledger, Order, p)[o] = 0
    BY DEF Init, Column
  <2> QED
    BY <2>1, LifecycleAssumption, SumZero
<1>3. ASSUME NEW p \in Product
      PROVE  stock[p] \in Nat /\ stock[p] = InitialStock[p]
  BY LifecycleAssumption DEF Init
<1>4. StockIsSum
  BY <1>2, <1>3 DEF StockIsSum
<1> QED
  BY <1>1, <1>4 DEF StockInv

\* One order's ledger row moves, and the stock by as much.
LEMMA LedgerMoves ==
  ASSUME TypeInv, TypeInv', StockIsSum, NEW o \in Order,
         \A x \in Order \ {o} : ledger'[x] = ledger[x],
         \A p \in Product :
            stock'[p] - stock[p] = ledger'[o][p] - ledger[o][p]
  PROVE  StockIsSum'
<1> SUFFICES ASSUME NEW p \in Product
             PROVE  stock'[p] = InitialStock[p]
                                  + SumOf(Column(ledger', Order, p), Order)
  BY DEF StockIsSum
<1> DEFINE c == Column(ledger, Order, p)
           d == Column(ledger', Order, p)
<1>1. c \in [Order -> Int] /\ d \in [Order -> Int]
  BY DEF Column, TypeInv, TypeOK
<1>2. /\ c[o] = ledger[o][p] /\ d[o] = ledger'[o][p]
      /\ \A x \in Order \ {o} : d[x] = c[x]
  BY DEF Column
<1> HIDE DEF c, d
<1>3. SumOf(d, Order) = SumOf(c, Order) + d[o] - c[o]
  BY <1>1, <1>2, LifecycleAssumption, SumUpdate
<1>4. SumOf(c, Order) \in Int
  BY <1>1, LifecycleAssumption, SumType
<1>5. stock[p] = InitialStock[p] + SumOf(c, Order)
  BY DEF StockIsSum, c
<1>6. /\ stock[p] \in Int /\ stock'[p] \in Int /\ InitialStock[p] \in Int
      /\ c[o] \in Int /\ d[o] \in Int
  BY <1>1, LifecycleAssumption DEF TypeInv, TypeOK
<1>7. stock'[p] - stock[p] = d[o] - c[o]
  BY <1>2
<1>8. stock'[p] = InitialStock[p] + SumOf(d, Order)
  BY <1>3, <1>4, <1>5, <1>6, <1>7
<1> QED
  BY <1>8 DEF d

LEMMA StockStutters ==
  ASSUME StockInv, UNCHANGED <<stock, order, ledger, quote>>
  PROVE  StockInv'
BY DEF StockInv, LedgerFollowsOrder, StockIsSum

LEMMA CheckoutStock ==
  ASSUME TypeInv, TypeInv', StockInv, NEW o \in Order, Checkout(o)
  PROVE  StockInv'
<1>1. CASE PlaceOrder(o)
  <2> DEFINE cart == quote[o].cart
  <2>1. /\ stock' = [p \in Product |-> stock[p] - Units(cart, p)]
        /\ ledger' = [ledger EXCEPT ![o] =
                         [p \in Product |-> 0 - Units(cart, p)]]
        /\ quote' = [quote EXCEPT ![o] = None]
        /\ quote[o] # None
        /\ \A x \in Order : x # o => order'[x] = order[x]
        /\ order'[o] # None
    <3>1. order'[o] # None
      BY <1>1, PlacedRows, LifecycleAssumption DEF TypeInv, TypeOK
    <3> QED
      BY <1>1, <3>1 DEF PlaceOrder, TypeInv, TypeOK
  <2>2. \A p \in Product : ledger[o][p] = 0
    BY <2>1 DEF StockInv, LedgerFollowsOrder
  <2>3. \A p \in Product : Units(cart, p) \in Nat /\ stock[p] \in Nat
    BY UnitsType DEF TypeInv, TypeOK
  <2> HIDE DEF cart
  <2>4. \A p \in Product : stock'[p] - stock[p] = ledger'[o][p] - ledger[o][p]
    <3> SUFFICES ASSUME NEW p \in Product
                 PROVE  stock'[p] - stock[p] = ledger'[o][p] - ledger[o][p]
      OBVIOUS
    <3>1. stock'[p] = stock[p] - Units(cart, p)
      BY <2>1
    <3>2. ledger'[o][p] = 0 - Units(cart, p)
      BY <2>1 DEF TypeInv, TypeOK
    <3> QED
      BY <3>1, <3>2, <2>2, <2>3
  <2>5. StockIsSum'
    BY <2>1, <2>4, LedgerMoves DEF StockInv, TypeInv, TypeOK
  <2>6. LedgerFollowsOrder'
    BY <2>1 DEF StockInv, LedgerFollowsOrder, TypeInv, TypeOK
  <2> QED
    BY <2>5, <2>6 DEF StockInv
<1>2. CASE ~ PlaceOrder(o)
  <2>1. UNCHANGED <<stock, order, ledger>>
    BY <1>2 DEF Checkout, Quote, DropQuote, rows
  <2>2. LedgerFollowsOrder'
    BY <1>2, <2>1 DEF Checkout, Quote, DropQuote, rows, StockInv,
                      LedgerFollowsOrder, TypeInv, TypeOK
  <2> QED
    BY <2>1, <2>2 DEF StockInv, StockIsSum
<1> QED
  BY <1>1, <1>2

LEMMA CancelStock ==
  ASSUME TypeInv, TypeInv', StockInv, NEW s \in Slot, CommitCancel(s)
  PROVE  StockInv'
<1> DEFINE r == request[s]
           o == request[s].order
<1>1. /\ request[s] # None /\ o \in Order /\ order[o] # None
      /\ SetStatus(o, "CANCELLED") /\ "CANCELLED" \in OrderStatus
      /\ UNCHANGED quote
      /\ stock' = [p \in Product |-> stock[p] + Restored(r, p)]
      /\ ledger' = [ledger EXCEPT ![o] =
                       [p \in Product |-> ledger[o][p] + LedgerDelta(r, p)]]
  <2>1. request[s] # None
    BY DEF CommitCancel, IsCancel, At
  <2> QED
    BY <2>1, AtTypeInv DEF CommitCancel, Finish, OrderStatus, WellFormed
<1>2. \A x \in Order : order'[x] # None <=> order[x] # None
  BY <1>1, SetStatusTypeInv
<1>3. \A p \in Product : /\ Restored(r, p) \in Nat /\ stock[p] \in Nat
                         /\ ledger[o][p] \in Int
  BY <1>1, RestoredType DEF TypeInv, TypeOK
<1> HIDE DEF r, o
<1>4. \A p \in Product : stock'[p] - stock[p] = ledger'[o][p] - ledger[o][p]
  <2> SUFFICES ASSUME NEW p \in Product
               PROVE  stock'[p] - stock[p] = ledger'[o][p] - ledger[o][p]
    OBVIOUS
  <2>1. stock'[p] = stock[p] + Restored(r, p)
    BY <1>1
  <2>2. ledger'[o][p] = ledger[o][p] + Restored(r, p)
    BY <1>1 DEF TypeInv, TypeOK, LedgerDelta
  <2> QED
    BY <1>3, <2>1, <2>2
<1>5. \A x \in Order \ {o} : ledger'[x] = ledger[x]
  BY <1>1 DEF TypeInv, TypeOK
<1>6. StockIsSum'
  BY <1>1, <1>4, <1>5, LedgerMoves DEF StockInv
<1>7. LedgerFollowsOrder'
  BY <1>1, <1>2, <1>5 DEF StockInv, LedgerFollowsOrder
<1> QED
  BY <1>6, <1>7 DEF StockInv

\* A commit creates no order and deletes none.
LEMMA CommitKeepsOrders ==
  ASSUME TypeInv, NEW s \in Slot, Commit(s) \/ Drop(s)
  PROVE  \A x \in Order : order'[x] # None <=> order[x] # None
<1> DEFINE o == request[s].order
<1>1. request[s] # None
  BY DEF Commit, Drop, At, IsCancel, CommitCapture, CommitFail, CheckRefund,
         CommitCancel, CommitStatus, CommitSubstitute, CommitReassign
<1>2. o \in Order /\ order[o] # None /\ WellFormed(request[s])
  BY <1>1, AtTypeInv DEF WellFormed
<1>3. CASE CommitSubstitute(s)
  BY <1>3, SubstituteTypeInv
<1>4. CASE UNCHANGED order
  BY <1>4
<1>5. CASE \E status \in OrderStatus : SetStatus(o, status)
  BY <1>2, <1>5, SetStatusTypeInv
<1>6. \/ CommitSubstitute(s) \/ UNCHANGED order
      \/ \E status \in OrderStatus : SetStatus(o, status)
  <2>1. CASE CommitStatus(s)
    BY <1>2, <2>1 DEF CommitStatus, At, WellFormed
  <2>2. CASE CommitReassign(s)
    BY <2>2 DEF CommitReassign, OrderStatus
  <2>3. CASE CommitCapture(s) \/ CommitFail(s) \/ CommitCancel(s)
    BY <2>3 DEF CommitCapture, CommitFail, CommitCancel, OrderStatus
  <2>4. CASE CheckRefund(s) \/ Drop(s)
    BY <2>4 DEF CheckRefund, Drop, rows
  <2> QED
    BY <2>1, <2>2, <2>3, <2>4 DEF Commit
<1> QED
  BY <1>3, <1>4, <1>5, <1>6

LEMMA NextStockInv == TypeInv /\ TypeInv' /\ StockInv /\ [Next]_vars => StockInv'
<1> SUFFICES ASSUME TypeInv, TypeInv', StockInv, [Next]_vars PROVE StockInv'
  OBVIOUS
<1>1. CASE UNCHANGED vars
  BY <1>1, StockStutters DEF vars
<1>2. ASSUME NEW o \in Order, Checkout(o) PROVE StockInv'
  BY <1>2, CheckoutStock
<1>3. ASSUME NEW s \in Slot, NEW o \in Order, Read(s, o) PROVE StockInv'
  BY <1>3, StockStutters
     DEF Read, ReadCapture, ReadFail, ReadCancel, ReadForceCancel, ReadStatus,
         ReadSubstitute, ReadReassign, Begin, rows
<1>4. ASSUME NEW s \in Slot, Commit(s) \/ Drop(s) PROVE StockInv'
  <2>1. CASE CommitCancel(s)
    BY <2>1, CancelStock
  <2>2. CASE ~ CommitCancel(s)
    <3>1. UNCHANGED <<stock, ledger, quote>>
      BY <1>4, <2>2
         DEF Commit, Drop, CommitCapture, CommitFail, CheckRefund,
             CommitStatus, CommitSubstitute, CommitReassign, Finish, rows
    <3>2. \A x \in Order : order[x] = None <=> order'[x] = None
      BY <1>4, CommitKeepsOrders
    <3> QED
      BY <3>1, <3>2 DEF StockInv, LedgerFollowsOrder, StockIsSum
  <2> QED
    BY <2>1, <2>2
<1> QED
  BY <1>1, <1>2, <1>3, <1>4 DEF Next

\* The quantity of every product is its first stock and the sum of its ledger
\* rows, whatever checkouts, captures, substitutions and cancellations
\* interleave (placeOrder, cancelOwnOrder, forceCancel).
THEOREM StockAccounted == Spec => []StockMatchesLedger
<1>1. StockInv => StockMatchesLedger
  BY StockSums DEF StockInv
<1> QED
  BY <1>1, InitStockInv, NextStockInv, TypeInvariant, PTL DEF Spec

-----------------------------------------------------------------------------
(* Checkout.  placeOrder's transaction decides on what was read before it,  *)
(* and yet makes one order per Idempotency-Key and takes no coupon over its *)
(* limit; no cancelled order keeps a use of its coupon, although            *)
(* cancellations, captures and status changes all write what they decided   *)
(* on rows read earlier.                                                    *)

\* The redemptions that count towards a coupon's limit.
Holding == {"RESERVED", "REDEEMED"}

\* A step that only gives uses back keeps the limit.
LEMMA FewerUses ==
    ASSUME CouponUsesBounded,
           \A o \in Order : redemption'[o] \in Holding => redemption[o] \in Holding
    PROVE  CouponUsesBounded'
<1>1. CouponUses' \subseteq CouponUses BY DEF CouponUses, Holding
<1>2. IsFiniteSet(CouponUses)
  BY LifecycleAssumption, FS_Subset DEF CouponUses
<1>3. /\ Cardinality(CouponUses) \in Nat /\ Cardinality(CouponUses') \in Nat
      /\ Cardinality(CouponUses') <= Cardinality(CouponUses)
  BY <1>1, <1>2, FS_Subset, FS_CardinalityType
<1>4. QED BY <1>3, LifecycleAssumption DEF CouponUsesBounded

\* A step that changes no key of an order and creates none keeps them unique.
LEMMA SameKeys ==
    ASSUME IdempotencyKeyUnique,
           \A o \in Order : order'[o] # None =>
              order[o] # None /\ order'[o].key = order[o].key
    PROVE  IdempotencyKeyUnique'
BY DEF IdempotencyKeyUnique

\* The only step that makes an order: its key is free and its coupon has room.
LEMMA PlaceOrderInv ==
    ASSUME TypeInv, CouponUsesBounded, IdempotencyKeyUnique,
           NEW o \in Order, PlaceOrder(o)
    PROVE  CouponUsesBounded' /\ IdempotencyKeyUnique'
<1> DEFINE q == quote[o]
<1>1. /\ q.coupon => CouponAvailable
      /\ KeyFree(q.key)
      /\ q \in QuoteRow
  BY DEF PlaceOrder, StillValid, TypeInv, TypeOK
<1>2. \A x \in Order : x # o => /\ order'[x] = order[x]
                                /\ redemption'[x] = redemption[x]
  BY DEF PlaceOrder, TypeInv, TypeOK
<1>3. order'[o].key = q.key BY DEF PlaceOrder, TypeInv, TypeOK
<1>4. CouponUsesBounded'
  <2>1. CASE ~q.coupon
    <3>1. redemption'[o] = "NONE" BY <2>1 DEF PlaceOrder, TypeInv, TypeOK
    <3>2. QED BY <1>2, <3>1, FewerUses DEF Holding
  <2>2. CASE q.coupon
    <3>1. CouponUses' \subseteq CouponUses \cup {o} BY <1>2 DEF CouponUses
    <3>2. IsFiniteSet(CouponUses)
      BY LifecycleAssumption, FS_Subset DEF CouponUses
    <3>3. /\ IsFiniteSet(CouponUses \cup {o})
          /\ Cardinality(CouponUses \cup {o}) <= Cardinality(CouponUses) + 1
      BY <3>2, FS_AddElement, FS_CardinalityType
    <3>4. /\ Cardinality(CouponUses') \in Nat /\ Cardinality(CouponUses) \in Nat
          /\ Cardinality(CouponUses \cup {o}) \in Nat
          /\ Cardinality(CouponUses') <= Cardinality(CouponUses \cup {o})
      BY <3>1, <3>2, <3>3, FS_Subset, FS_CardinalityType
    <3>5. Cardinality(CouponUses) < CouponLimit
      BY <1>1, <2>2 DEF CouponAvailable
    <3>6. QED
      BY <3>3, <3>4, <3>5, LifecycleAssumption DEF CouponUsesBounded
  <2>3. QED BY <2>1, <2>2
<1>5. IdempotencyKeyUnique'
  BY <1>1, <1>2, <1>3 DEF IdempotencyKeyUnique, KeyFree
<1>6. QED BY <1>4, <1>5

\* Commits change statuses, totals and lines of rows, never a key, and only
\* give coupon uses back.
LEMMA CommitKeepsKeysAndUses ==
    ASSUME TypeInv, NEW s \in Slot, Commit(s) \/ Drop(s), NEW x \in Order
    PROVE  /\ redemption'[x] \in Holding => redemption[x] \in Holding
           /\ order'[x] # None => order[x] # None /\ order'[x].key = order[x].key
<1> DEFINE o == request[s].order
<1>0. request[s] # None
  BY DEF Commit, Drop, At, IsCancel, CommitCapture, CommitFail, CheckRefund,
     CommitCancel, CommitStatus, CommitSubstitute, CommitReassign
<1>a. /\ o \in Order /\ order[o] # None /\ order[o] \in OrderRow
      /\ request[s] \in Request
  BY <1>0, AtTypeInv DEF WellFormed
<1>b. ASSUME NEW st, SetStatus(o, st)
      PROVE  order'[x] # None => order[x] # None /\ order'[x].key = order[x].key
  BY <1>a, <1>b DEF SetStatus, TypeInv, TypeOK, OrderRow
<1>1. CASE CommitCapture(s)
  BY <1>1, <1>b DEF CommitCapture, Redeem, Holding, TypeInv, TypeOK
<1>2. CASE CommitFail(s)
  BY <1>2, <1>b DEF CommitFail, Holding, TypeInv, TypeOK
<1>3. CASE CheckRefund(s) BY <1>3 DEF CheckRefund, rows
<1>4. CASE CommitCancel(s)
  BY <1>4, <1>b DEF CommitCancel, Release, Holding, TypeInv, TypeOK
<1>5. CASE CommitStatus(s)
  BY <1>5, <1>b DEF CommitStatus, Release, Holding, TypeInv, TypeOK
<1>6. CASE CommitSubstitute(s)
  BY <1>6, <1>a DEF CommitSubstitute, TypeInv, TypeOK, OrderRow
<1>7. CASE CommitReassign(s) BY <1>7, <1>b DEF CommitReassign
<1>8. CASE Drop(s) BY <1>8 DEF Drop, rows
<1>9. QED BY <1>1, <1>2, <1>3, <1>4, <1>5, <1>6, <1>7, <1>8 DEF Commit

LEMMA NextCheckoutInv ==
    /\ TypeInv /\ CouponUsesBounded /\ IdempotencyKeyUnique
    /\ [Next]_vars
    => CouponUsesBounded' /\ IdempotencyKeyUnique'
<1> SUFFICES ASSUME TypeInv, CouponUsesBounded, IdempotencyKeyUnique, [Next]_vars
             PROVE  CouponUsesBounded' /\ IdempotencyKeyUnique'
  OBVIOUS
<1>1. CASE UNCHANGED <<order, redemption>>
  BY <1>1, FewerUses, SameKeys
<1>2. ASSUME NEW o \in Order, Checkout(o)
      PROVE  CouponUsesBounded' /\ IdempotencyKeyUnique'
  <2>1. CASE PlaceOrder(o) BY <2>1, PlaceOrderInv
  <2>2. CASE ~PlaceOrder(o)
    BY <1>1, <1>2, <2>2 DEF Checkout, Quote, DropQuote, rows
  <2>3. QED BY <2>1, <2>2
<1>3. ASSUME NEW s \in Slot, NEW o \in Order, Read(s, o)
      PROVE  UNCHANGED <<order, redemption>>
  BY <1>3 DEF Read, ReadCapture, ReadFail, ReadCancel, ReadForceCancel,
     ReadStatus, ReadSubstitute, ReadReassign, Begin, rows
<1>4. ASSUME NEW s \in Slot, Commit(s) \/ Drop(s)
      PROVE  CouponUsesBounded' /\ IdempotencyKeyUnique'
  BY <1>4, CommitKeepsKeysAndUses, FewerUses, SameKeys
<1>5. CASE UNCHANGED vars BY <1>1, <1>5 DEF vars
<1>6. QED BY <1>1, <1>2, <1>3, <1>4, <1>5 DEF Next

LEMMA InitCheckoutInv == Init => CouponUsesBounded /\ IdempotencyKeyUnique
<1> SUFFICES ASSUME Init PROVE CouponUsesBounded /\ IdempotencyKeyUnique
  OBVIOUS
<1>1. CouponUses = {} BY DEF Init, CouponUses
<1>2. Cardinality(CouponUses) = 0 BY <1>1, FS_EmptySet
<1>3. QED
  BY <1>2, LifecycleAssumption DEF Init, CouponUsesBounded, IdempotencyKeyUnique

\* Every commit that leaves an order cancelled releases its use, or finds it
\* cancelled and takes none.
LEMMA CommitReleasesUse ==
    ASSUME TypeInv, CancelledHoldsNoCoupon, NEW s \in Slot, Commit(s) \/ Drop(s)
    PROVE  CancelledHoldsNoCoupon'
<1> DEFINE o == request[s].order
<1>0. request[s] # None
  BY DEF Commit, Drop, At, IsCancel, CommitCapture, CommitFail, CheckRefund,
     CommitCancel, CommitStatus, CommitSubstitute, CommitReassign
<1>a. /\ o \in Order /\ order[o] # None /\ order[o] \in OrderRow
      /\ request[s] \in Request /\ WellFormed(request[s])
  BY <1>0, AtTypeInv DEF WellFormed
<1>b. SUFFICES ASSUME NEW x \in Order, order'[x] # None,
                      order'[x].status = "CANCELLED"
               PROVE  redemption'[x] \notin Holding
  BY DEF CancelledHoldsNoCoupon, CouponUses, Holding
<1>c. ASSUME order[x] # None, order[x].status = "CANCELLED",
             redemption'[x] \in Holding => redemption[x] \in Holding
      PROVE  redemption'[x] \notin Holding
  BY <1>c DEF CancelledHoldsNoCoupon, CouponUses, Holding
<1>d. ASSUME NEW st \in OrderStatus, SetStatus(o, st)
      PROVE  /\ order[x] # None
             /\ x # o => order'[x] = order[x]
             /\ x = o => order'[x].status = st
  BY <1>a, <1>b, <1>d, SetStatusTypeInv DEF TypeInv, TypeOK, OrderRow
<1>1. CASE CommitCapture(s)
  BY <1>1, <1>b, <1>c, <1>d, CommitKeepsKeysAndUses DEF CommitCapture, OrderStatus
<1>2. CASE CommitFail(s)
  BY <1>2, <1>b, <1>c, <1>d, CommitKeepsKeysAndUses DEF CommitFail, OrderStatus
<1>3. CASE CheckRefund(s)
  BY <1>3, <1>b, <1>c, CommitKeepsKeysAndUses DEF CheckRefund, rows
<1>4. CASE CommitCancel(s)
  <2>1. SetStatus(o, "CANCELLED") /\ "CANCELLED" \in OrderStatus
        /\ redemption' = [redemption EXCEPT ![o] = Release(@)]
    BY <1>4 DEF CommitCancel, OrderStatus
  <2>2. CASE x = o
    BY <1>a, <2>1, <2>2 DEF Release, Holding, TypeInv, TypeOK
  <2>3. CASE x # o
    BY <1>b, <1>c, <1>d, <2>1, <2>3, <1>4, CommitKeepsKeysAndUses
  <2>4. QED BY <2>2, <2>3
<1>5. CASE CommitStatus(s)
  <2> DEFINE next == request[s].next
  <2>1. /\ SetStatus(o, next) /\ next \in OrderStatus
        /\ next = "CANCELLED" =>
               redemption' = [redemption EXCEPT ![o] = Release(@)]
    BY <1>5, <1>a DEF CommitStatus, At, WellFormed
  <2>2. CASE x = o
    BY <1>a, <1>b, <1>d, <2>1, <2>2 DEF Release, Holding, TypeInv, TypeOK
  <2>3. CASE x # o
    BY <1>b, <1>c, <1>d, <2>1, <2>3, <1>5, CommitKeepsKeysAndUses
  <2>4. QED BY <2>2, <2>3
<1>6. CASE CommitSubstitute(s)
  <2>1. order[x] # None /\ order[x].status = order'[x].status
    BY <1>6, <1>a, <1>b, SubstituteTypeInv DEF CommitSubstitute, TypeInv, TypeOK, OrderRow
  <2>2. QED BY <1>6, <1>b, <1>c, <2>1, CommitKeepsKeysAndUses
<1>7. CASE CommitReassign(s)
  <2>1. CASE order' = order
    BY <1>7, <1>b, <1>c, <2>1, CommitKeepsKeysAndUses DEF CommitReassign
  <2>2. CASE SetStatus(o, "RIDER_ASSIGNED")
    BY <1>7, <1>b, <1>c, <1>d, <2>2, CommitKeepsKeysAndUses
    DEF CommitReassign, OrderStatus
  <2>3. QED BY <1>7, <2>1, <2>2 DEF CommitReassign
<1>8. CASE Drop(s) BY <1>8, <1>b, <1>c, CommitKeepsKeysAndUses DEF Drop, rows
<1>9. QED BY <1>1, <1>2, <1>3, <1>4, <1>5, <1>6, <1>7, <1>8 DEF Commit

LEMMA NextReleasesUses ==
    TypeInv /\ CancelledHoldsNoCoupon /\ [Next]_vars => CancelledHoldsNoCoupon'
<1> SUFFICES ASSUME TypeInv, CancelledHoldsNoCoupon, [Next]_vars
             PROVE  CancelledHoldsNoCoupon'
  OBVIOUS
<1>1. CASE UNCHANGED <<order, redemption>>
  BY <1>1 DEF CancelledHoldsNoCoupon, CouponUses
<1>2. ASSUME NEW o \in Order, Checkout(o) PROVE CancelledHoldsNoCoupon'
  <2>1. CASE PlaceOrder(o)
    <3>1. \A x \in Order : x # o => /\ order'[x] = order[x]
                                    /\ redemption'[x] = redemption[x]
      BY <2>1 DEF PlaceOrder, TypeInv, TypeOK
    <3>2. order'[o].status # "CANCELLED" BY <2>1 DEF PlaceOrder, TypeInv, TypeOK
    <3>3. QED BY <3>1, <3>2 DEF CancelledHoldsNoCoupon, CouponUses
  <2>2. CASE ~PlaceOrder(o)
    BY <1>1, <1>2, <2>2 DEF Checkout, Quote, DropQuote, rows
  <2>3. QED BY <2>1, <2>2
<1>3. ASSUME NEW s \in Slot, NEW o \in Order, Read(s, o)
      PROVE  UNCHANGED <<order, redemption>>
  BY <1>3 DEF Read, ReadCapture, ReadFail, ReadCancel, ReadForceCancel,
     ReadStatus, ReadSubstitute, ReadReassign, Begin, rows
<1>4. ASSUME NEW s \in Slot, Commit(s) \/ Drop(s) PROVE CancelledHoldsNoCoupon'
  BY <1>4, CommitReleasesUse
<1>5. CASE UNCHANGED vars BY <1>1, <1>5 DEF vars
<1>6. QED BY <1>1, <1>2, <1>3, <1>4, <1>5 DEF Next

\* A coupon's limit holds for any number of checkouts between quote and commit,
\* and a cancelled order holds no use, whichever of the four handlers cancelled
\* it and whatever captures and failures of payments come late.
THEOREM CouponBound == Spec => []CouponUsesKept
<1>1. Init => CancelledHoldsNoCoupon BY DEF Init, CancelledHoldsNoCoupon
<1>2. CouponUsesBounded /\ CancelledHoldsNoCoupon => CouponUsesKept
  BY DEF CouponUsesKept
<1>3. QED
  BY <1>1, <1>2, InitCheckoutInv, NextCheckoutInv, NextReleasesUses,
     TypeInvariant, PTL DEF Spec

\* Retries of a checkout, concurrent or not, never make a second order.
THEOREM KeyUnique == Spec => []IdempotencyKeyUnique
<1>1. QED BY InitCheckoutInv, NextCheckoutInv, TypeInvariant, PTL DEF Spec

-----------------------------------------------------------------------------
(* Refunds.  createRefundForPayment sums the refunds and inserts one        *)
(* without locking anything itself.  What makes it safe is that a           *)
(* cancellation with a refund has first updated the inventory rows of the   *)
(* order's lines, which another cancellation of the order updates too: two  *)
(* of them are never past their checks at once (RefundsExclusive).  The     *)
(* bound needs that the order's lines are not substituted, which changes    *)
(* which rows those are, and that nobody sets PAYMENT_FAILED by hand: such  *)
(* an order with a captured payment is cancelled without touching           *)
(* inventory, so that two such cancellations may both refund.               *)

\* The feature RefundBound does without.
FailureFromPayment == "PAYMENT_FAILED" \notin StatusTargets

\* A checkout in progress has no order yet, and no order has no refunds.
QuotesPrecedeOrders ==
    \A o \in Order : /\ quote[o] # None => order[o] = None
                     /\ order[o] = None => refunded[o] = 0

\* What the rows of an order say together.
RowsSound ==
    \A o \in Fixed : order[o] # None =>
        /\ order[o].status = "PAYMENT_FAILED" => payment[o].status = "FAILED"
        /\ \E l \in Line : order[o].lines[l] \in Product
        /\ refunded[o] <= payment[o].amount

\* A request saw the lines the order still has.  Once its refund is checked,
\* the refund fits.
RequestSound(r) ==
    /\ r.seen.lines = order[r.order].lines
    /\ r.seen.status = "PAYMENT_FAILED" => r.seen.pay # "CAPTURED"
    /\ r.op # "substitute"
    /\ r.phase = "checked" =>
         /\ NeedsRefund(r)
         /\ refunded[r.order] + r.seen.total <= payment[r.order].amount

RequestsSound ==
    \A s \in Slot : request[s] # None =>
        /\ request[s].op = "status" => request[s].next \in StatusTargets
        /\ request[s].order \in Fixed => RequestSound(request[s])

Checked(s) == request[s] # None /\ request[s].phase = "checked"

\* Two refunds that are past their checks are of different orders.
RefundsExclusive ==
    \A s, t \in Slot :
        s # t /\ Checked(s) /\ Checked(t) /\ request[s].order \in Fixed
            => request[s].order # request[t].order

RefundInv ==
    QuotesPrecedeOrders /\ RowsSound /\ RequestsSound /\ RefundsExclusive

-----------------------------------------------------------------------------

LEMMA InitRefundInv == Init => RefundInv
BY DEF Fixed, Init, RefundInv, QuotesPrecedeOrders, RowsSound, RequestsSound,
   RefundsExclusive, Checked

\* A cancellation that refunds holds the inventory rows of the order's lines.
LEMMA RefundLocksRows ==
    ASSUME TypeInv, RowsSound, NEW s \in Slot, request[s] # None,
           request[s].order \in Fixed, RequestSound(request[s]),
           NeedsRefund(request[s])
    PROVE  \E p \in Product : /\ p \in LockedRows(request[s])
                              /\ \E l \in Line :
                                    order[request[s].order].lines[l] = p
<1> DEFINE r == request[s]
<1>1. r.order \in Order /\ order[r.order] # None
  BY AtTypeInv DEF WellFormed
<1>2. PICK l \in Line : order[r.order].lines[l] \in Product
  BY <1>1 DEF RowsSound
<1>3. RestoresStock(r) BY DEF RestoresStock, RequestSound, NeedsRefund
<1>4. Restored(r, r.seen.lines[l]) > 0
  BY <1>3, UnitsType DEF Restored
<1>5. r.seen.lines[l] \in Product BY <1>2 DEF RequestSound
<1>6. r.seen.lines[l] \in LockedRows(r) BY <1>4, <1>5 DEF LockedRows
<1>7. QED BY <1>5, <1>6 DEF RequestSound

\* Every line of an order whose cancellation restores stock is locked by it.
LEMMA LineIsLocked ==
    ASSUME NEW r, NEW l \in Line, r.seen.lines[l] \in Product, RestoresStock(r)
    PROVE  r.seen.lines[l] \in LockedRows(r)
<1>1. Restored(r, r.seen.lines[l]) > 0 BY UnitsType DEF Restored
<1>2. QED BY <1>1 DEF LockedRows

\* A request that finishes without refunding, and leaves lines and amounts.
LEMMA FinishRefundInv ==
    ASSUME TypeInv, RefundInv, NEW s \in Slot, Finish(s),
           \A o \in Order : /\ order'[o] # None <=> order[o] # None
                            /\ order[o] = None => refunded'[o] = refunded[o],
           \A o \in Fixed :
              /\ refunded'[o] = refunded[o]
              /\ order[o] # None =>
                   /\ order'[o].lines = order[o].lines
                   /\ payment'[o].amount = payment[o].amount
                   /\ order'[o].status = "PAYMENT_FAILED"
                        => payment'[o].status = "FAILED"
    PROVE  RefundInv'
<1>1. request' = [request EXCEPT ![s] = None] /\ quote' = quote
  BY DEF Finish
<1>2. \A t \in Slot : request'[t] # None => request'[t] = request[t]
  BY <1>1 DEF TypeInv, TypeOK
<1>3. QuotesPrecedeOrders' BY <1>1 DEF RefundInv, QuotesPrecedeOrders
<1>4. RowsSound' BY DEF RefundInv, RowsSound, Fixed
<1>5. RequestsSound'
  <2> SUFFICES ASSUME NEW t \in Slot, request'[t] # None,
                      request'[t].order \in Fixed
               PROVE  RequestSound(request[t])'
    BY <1>2 DEF RequestsSound, RefundInv
  <2>1. request'[t] = request[t] /\ request[t] # None BY <1>2
  <2>2. request[t].order \in Order /\ order[request[t].order] # None
    BY <2>1, AtTypeInv DEF WellFormed
  <2>3. RequestSound(request[t]) BY <2>1 DEF RefundInv, RequestsSound
  <2>4. QED BY <2>1, <2>2, <2>3 DEF RequestSound, NeedsRefund
<1>6. RefundsExclusive' BY <1>2 DEF RefundInv, RefundsExclusive, Checked
<1>7. QED BY <1>3, <1>4, <1>5, <1>6 DEF RefundInv

\* A write of one order's status, and perhaps of its payment's status, leaves
\* lines and amounts and keeps PAYMENT_FAILED with FAILED.
LEMMA StatusRefundInv ==
    ASSUME TypeInv, RefundInv, NEW s \in Slot, Finish(s), refunded' = refunded,
           NEW o \in Order, NEW st \in OrderStatus, order[o] # None,
           SetStatus(o, st),
           \/ st # "PAYMENT_FAILED" /\ payment' = payment
           \/ \E ps \in PaymentStatus :
                 /\ payment' = [payment EXCEPT ![o].status = ps]
                 /\ st = "PAYMENT_FAILED" => ps = "FAILED"
    PROVE  RefundInv'
<1>1. /\ order' = [order EXCEPT ![o] = [order[o] EXCEPT !.status = st]]
      /\ \A x \in Order : order'[x] # None <=> order[x] # None
  BY SetStatusTypeInv
<1>2. order[o] \in OrderRow /\ payment[o] \in PaymentRow
  BY DEF TypeInv, TypeOK, OrdersArePaid
<1>3. ASSUME NEW x \in Fixed, order[x] # None
      PROVE  /\ order'[x].lines = order[x].lines
             /\ payment'[x].amount = payment[x].amount
             /\ order'[x].status = "PAYMENT_FAILED"
                  => payment'[x].status = "FAILED"
  <2>1. CASE x = o
    BY <1>1, <1>2, <2>1 DEF TypeInv, TypeOK, OrderRow, PaymentRow
  <2>2. CASE x # o
    BY <1>1, <1>3, <2>2 DEF TypeInv, TypeOK, RefundInv, RowsSound, Fixed
  <2>3. QED BY <2>1, <2>2
<1>4. QED BY <1>1, <1>3, FinishRefundInv DEF Fixed

LEMMA CheckoutRefundInv ==
    ASSUME TypeInv, RefundInv, NEW o \in Order, Checkout(o)
    PROVE  RefundInv'
<1>1. ASSUME NEW cart \in Carts, NEW method \in Method, NEW coupon \in BOOLEAN,
             NEW key \in Key \cup {None}, Quote(o, cart, method, coupon, key)
      PROVE  RefundInv'
  <2>1. /\ UNCHANGED <<order, payment, refunded, request>>
        /\ \A x \in Order : x # o => quote'[x] = quote[x]
        /\ order[o] = None
    BY <1>1 DEF Quote, rows, TypeInv, TypeOK
  <2>2. QuotesPrecedeOrders' BY <2>1 DEF RefundInv, QuotesPrecedeOrders
  <2>3. QED
    BY <2>1, <2>2 DEF RefundInv, RowsSound, RequestsSound, RequestSound,
       NeedsRefund, RefundsExclusive, Checked
<1>2. CASE PlaceOrder(o)
  <2> DEFINE q == quote[o]
             total == GrandTotal[<<q.cart, q.coupon>>]
  <2>1. /\ q \in QuoteRow /\ order[o] = None /\ refunded[o] = 0
        /\ refunded' = refunded /\ request' = request
        /\ quote' = [quote EXCEPT ![o] = None]
    BY <1>2 DEF PlaceOrder, TypeInv, TypeOK, RefundInv, QuotesPrecedeOrders
  <2>2. /\ q.cart \in OrderLines /\ total \in Nat
        /\ \E l \in Line : q.cart[l] \in Product
    BY <2>1, LifecycleAssumption DEF QuoteRow, OrderLines
  <2>3. PICK row, pay :
           /\ order' = [order EXCEPT ![o] = row]
           /\ payment' = [payment EXCEPT ![o] = pay]
           /\ row.status # "PAYMENT_FAILED" /\ row.lines = q.cart
           /\ pay.amount = total
    <3> DEFINE cod == q.method = "COD"
               newRow == [status |-> IF cod THEN "CONFIRMED"
                                            ELSE "PAYMENT_PENDING",
                          total |-> total, lines |-> q.cart, key |-> q.key]
               newPay == [method |-> q.method,
                          status |-> IF cod THEN "PENDING_COD" ELSE "CREATED",
                          amount |-> total]
    <3>1. /\ order' = [order EXCEPT ![o] = newRow]
          /\ payment' = [payment EXCEPT ![o] = newPay]
      BY <1>2 DEF PlaceOrder
    <3>2. /\ newRow.status # "PAYMENT_FAILED" /\ newRow.lines = q.cart
          /\ newPay.amount = total
      OBVIOUS
    <3> HIDE DEF newRow, newPay
    <3>3. QED BY <3>1, <3>2
  <2>4. \A x \in Order : x # o => /\ order'[x] = order[x]
                                  /\ payment'[x] = payment[x]
                                  /\ quote'[x] = quote[x]
    BY <2>1, <2>3 DEF TypeInv, TypeOK
  <2>5. /\ order'[o] = row /\ payment'[o] = pay /\ quote'[o] = None
    BY <2>1, <2>3 DEF TypeInv, TypeOK
  <2>6. QuotesPrecedeOrders'
    BY <2>1, <2>4, <2>5 DEF RefundInv, QuotesPrecedeOrders
  <2>7. RowsSound'
    BY <2>1, <2>2, <2>3, <2>4, <2>5 DEF RefundInv, RowsSound, Fixed
  <2>8. RequestsSound'
    <3> SUFFICES ASSUME NEW t \in Slot, request[t] # None,
                        request[t].order \in Fixed
                 PROVE  RequestSound(request[t])'
      BY <2>1 DEF RequestsSound, RefundInv
    <3>1. request[t].order \in Order /\ request[t].order # o
      BY <2>1, AtTypeInv DEF WellFormed
    <3>2. RequestSound(request[t]) BY DEF RefundInv, RequestsSound
    <3>3. QED BY <2>1, <2>4, <3>1, <3>2 DEF RequestSound, NeedsRefund
  <2>9. RefundsExclusive' BY <2>1 DEF RefundInv, RefundsExclusive, Checked
  <2>10. QED BY <2>6, <2>7, <2>8, <2>9 DEF RefundInv
<1>3. CASE DropQuote(o)
  <2>1. /\ UNCHANGED <<order, payment, refunded, request>>
        /\ \A x \in Order : quote'[x] # None => quote'[x] = quote[x]
    BY <1>3 DEF DropQuote, rows, TypeInv, TypeOK
  <2>2. QuotesPrecedeOrders' BY <2>1 DEF RefundInv, QuotesPrecedeOrders
  <2>3. QED
    BY <2>1, <2>2 DEF RefundInv, RowsSound, RequestsSound, RequestSound,
       NeedsRefund, RefundsExclusive, Checked
<1>4. QED BY <1>1, <1>2, <1>3 DEF Checkout

\* A read adds a request that saw the current rows.
LEMMA ReadRefundInv ==
    ASSUME TypeInv, RefundInv, NEW s \in Slot, NEW o \in Order, Read(s, o)
    PROVE  RefundInv'
<1>1. PICK op, next, line, to :
         /\ op \in Operation
         /\ Begin(s, op, o, next, line, to)
         /\ order[o] # None
         /\ o \in Fixed => op # "substitute"
         /\ op = "status" => next \in StatusTargets
  BY DEF Read, ReadCapture, ReadFail, ReadCancel, ReadForceCancel, ReadStatus,
     ReadSubstitute, ReadReassign, MayCancel, MayForceCancel,
     MayReassign, Fixed, Operation
<1>a. PICK r : r = [op |-> op, phase |-> "read", order |-> o, seen |-> Seen(o),
                    next |-> next, line |-> line, to |-> to]
  OBVIOUS
<1>2. /\ request' = [request EXCEPT ![s] = r]
      /\ UNCHANGED <<order, payment, refunded, quote>>
  BY <1>1, <1>a DEF Begin, rows
<1>3. o \in Fixed => RequestSound(r)'
  BY <1>1, <1>2, <1>a DEF RequestSound, Seen, RefundInv, RowsSound
<1>4. \A t \in Slot : t # s => request'[t] = request[t]
  BY <1>2 DEF TypeInv, TypeOK
<1>5. request'[s] = r BY <1>2 DEF TypeInv, TypeOK
<1>6. RequestsSound'
  <2> SUFFICES ASSUME NEW t \in Slot, request'[t] # None,
                      request'[t].order \in Fixed
               PROVE  RequestSound(request[t])'
    BY <1>1, <1>4, <1>5, <1>a DEF RequestsSound, RefundInv
  <2>1. CASE t = s BY <2>1, <1>3, <1>5, <1>a DEF RequestSound, NeedsRefund
  <2>2. CASE t # s
    BY <2>2, <1>2, <1>4 DEF RefundInv, RequestsSound, RequestSound, NeedsRefund
  <2>3. QED BY <2>1, <2>2
<1>7. RefundsExclusive'
  BY <1>4, <1>5, <1>a DEF RefundInv, RefundsExclusive, Checked
<1>8. QED
  BY <1>2, <1>6, <1>7 DEF RefundInv, QuotesPrecedeOrders, RowsSound

\* Passing the refund check: no other request is past it for this order, since
\* it would hold the rows this one has just updated.
LEMMA CheckRefundInv ==
    ASSUME TypeInv, RefundInv, NEW s \in Slot, CheckRefund(s)
    PROVE  RefundInv'
<1> DEFINE r == request[s]
<1>a. PICK q : q = [r EXCEPT !.phase = "checked"]
  OBVIOUS
<1>0. request[s] # None BY DEF CheckRefund, IsCancel, At
<1>1. /\ r \in Request /\ r.order \in Order
  BY <1>0, AtTypeInv
<1>2. /\ request' = [request EXCEPT ![s] = q]
      /\ UNCHANGED <<order, payment, refunded, quote>>
  BY <1>a DEF CheckRefund, rows
<1>3. /\ request'[s] = q
      /\ \A t \in Slot : t # s => request'[t] = request[t]
  BY <1>2 DEF TypeInv, TypeOK
<1>4. /\ q.op = r.op /\ q.order = r.order /\ q.seen = r.seen
      /\ q.next = r.next
  BY <1>1, <1>a DEF Request
<1>5. NeedsRefund(r) /\ (r.order \in Fixed => RequestSound(r))
  BY <1>0 DEF RefundInv, RequestsSound, CheckRefund
<1>6. refunded[r.order] + r.seen.total <= payment[r.order].amount
  BY DEF CheckRefund, RefundAllowed, RefundRoom
<1>7. r.order \in Fixed => RequestSound(q)'
  BY <1>2, <1>4, <1>5, <1>6 DEF RequestSound, NeedsRefund
<1>8. RequestsSound'
  <2> SUFFICES ASSUME NEW t \in Slot, request'[t] # None,
                      request'[t].order \in Fixed
               PROVE  RequestSound(request[t])'
    BY <1>0, <1>3, <1>4 DEF RequestsSound, RefundInv
  <2>1. CASE t = s BY <2>1, <1>3, <1>4, <1>7 DEF RequestSound, NeedsRefund
  <2>2. CASE t # s
    BY <2>2, <1>2, <1>3 DEF RefundInv, RequestsSound, RequestSound, NeedsRefund
  <2>3. QED BY <2>1, <2>2
<1>9. ASSUME NEW t \in Slot, t # s, Checked(t), r.order \in Fixed
      PROVE  request[t].order # r.order
  <2> SUFFICES ASSUME request[t].order = r.order PROVE FALSE
    OBVIOUS
  <2>1. RequestSound(request[t]) /\ NeedsRefund(request[t])
    BY <1>9 DEF RefundInv, RequestsSound, RequestSound, Checked
  <2>2. PICK l \in Line : order[r.order].lines[l] \in LockedRows(r)
                            /\ order[r.order].lines[l] \in Product
    BY <1>0, <1>5, <1>9, RefundLocksRows DEF RefundInv
  <2>3. RestoresStock(request[t])
    BY <2>1 DEF RestoresStock, RequestSound, NeedsRefund
  <2>4. order[r.order].lines[l] \in LockedRows(request[t])
    BY <2>1, <2>2, <2>3, LineIsLocked DEF RequestSound
  <2>5. LockedRows(request[t]) \cap LockedRows(r) = {}
    BY <1>9 DEF CheckRefund, Unlocked, Checked
  <2>6. QED BY <2>2, <2>4, <2>5
<1>10. RefundsExclusive'
  BY <1>3, <1>4, <1>9 DEF RefundInv, RefundsExclusive, Checked
<1>11. QED
  BY <1>2, <1>8, <1>10 DEF RefundInv, QuotesPrecedeOrders, RowsSound

\* Writing a refund: the amount checked still fits, and the requests that are
\* past their own checks are of other orders.
LEMMA CommitRefundInv ==
    ASSUME TypeInv, RefundInv, NEW s \in Slot, CommitCancel(s),
           NeedsRefund(request[s]), request[s].order \in Fixed
    PROVE  RefundInv'
<1> DEFINE r == request[s]
           o == request[s].order
<1>0. request[s] # None BY DEF CommitCancel, IsCancel, At
<1>1. /\ r \in Request /\ o \in Order /\ order[o] # None
      /\ order[o] \in OrderRow /\ payment[o] \in PaymentRow
      /\ r.seen.total \in Int /\ refunded[o] \in Nat
  BY <1>0, AtTypeInv DEF WellFormed, Snapshot, TypeInv, TypeOK
<1>2. Checked(s) BY <1>0 DEF CommitCancel, Checked
<1>3. refunded[o] + r.seen.total <= payment[o].amount
  BY <1>0, <1>2 DEF RefundInv, RequestsSound, RequestSound, Checked
<1>4. /\ refunded' = [refunded EXCEPT ![o] = @ + r.seen.total]
      /\ payment' = [payment EXCEPT ![o].status = "REFUND_PENDING"]
      /\ SetStatus(o, "CANCELLED") /\ Finish(s)
  BY DEF CommitCancel
<1>5. /\ order' = [order EXCEPT ![o] = [order[o] EXCEPT !.status = "CANCELLED"]]
      /\ \A x \in Order : order'[x] # None <=> order[x] # None
  BY <1>1, <1>4, SetStatusTypeInv DEF OrderStatus
<1>6. \A x \in Order : x # o => /\ order'[x] = order[x]
                                /\ payment'[x] = payment[x]
                                /\ refunded'[x] = refunded[x]
  BY <1>4, <1>5 DEF TypeInv, TypeOK
<1>7. /\ order'[o].lines = order[o].lines
      /\ order'[o].status = "CANCELLED"
      /\ payment'[o].amount = payment[o].amount
      /\ refunded'[o] = refunded[o] + r.seen.total
  BY <1>1, <1>4, <1>5 DEF TypeInv, TypeOK, OrderRow, PaymentRow
<1>8. /\ quote' = quote
      /\ request'[s] = None
      /\ \A t \in Slot : t # s => request'[t] = request[t]
  BY <1>4 DEF Finish, TypeInv, TypeOK
<1>9. QuotesPrecedeOrders'
  BY <1>1, <1>5, <1>6, <1>8 DEF RefundInv, QuotesPrecedeOrders
<1>10. RowsSound'
  <2> SUFFICES ASSUME NEW x \in Fixed, order'[x] # None
               PROVE  /\ order'[x].status = "PAYMENT_FAILED"
                           => payment'[x].status = "FAILED"
                      /\ \E l \in Line : order'[x].lines[l] \in Product
                      /\ refunded'[x] <= payment'[x].amount
    BY DEF RowsSound
  <2>1. CASE x = o
    BY <1>1, <1>3, <1>7, <2>1 DEF RefundInv, RowsSound
  <2>2. CASE x # o
    BY <1>5, <1>6, <2>2 DEF RefundInv, RowsSound, Fixed
  <2>3. QED BY <2>1, <2>2
<1>11. RequestsSound'
  <2> SUFFICES ASSUME NEW t \in Slot, request'[t] # None,
                      request'[t].order \in Fixed
               PROVE  RequestSound(request[t])'
    BY <1>8 DEF RequestsSound, RefundInv
  <2>1. t # s /\ request'[t] = request[t] /\ request[t] # None BY <1>8
  <2>2. RequestSound(request[t]) BY <2>1 DEF RefundInv, RequestsSound
  <2>3. request[t].order \in Order BY <2>1, AtTypeInv
  <2>4. request[t].phase = "checked" => request[t].order # o
    BY <1>2, <2>1 DEF RefundInv, RefundsExclusive, Checked
  <2>5. order'[request[t].order].lines = order[request[t].order].lines
    BY <1>6, <1>7, <2>3
  <2>6. QED
    BY <1>6, <2>1, <2>2, <2>3, <2>4, <2>5 DEF RequestSound, NeedsRefund
<1>12. RefundsExclusive'
  BY <1>8 DEF RefundInv, RefundsExclusive, Checked
<1>13. QED BY <1>9, <1>10, <1>11, <1>12 DEF RefundInv

LEMMA CommitsRefundInv ==
    ASSUME TypeInv, RefundInv, FailureFromPayment, NEW s \in Slot,
           Commit(s) \/ Drop(s)
    PROVE  RefundInv'
<1> DEFINE r == request[s]
           o == request[s].order
<1>0. request[s] # None
  BY DEF Commit, Drop, At, IsCancel, CommitCapture, CommitFail, CheckRefund,
     CommitCancel, CommitStatus, CommitSubstitute, CommitReassign
<1>a. /\ r \in Request /\ o \in Order /\ order[o] # None /\ WellFormed(r)
      /\ r.op = "status" => r.next \in StatusTargets
      /\ o \in Fixed => RequestSound(r)
  BY <1>0, AtTypeInv DEF WellFormed, RefundInv, RequestsSound
<1>1. CASE CommitCapture(s)
  <2>1. /\ SetStatus(o, "CONFIRMED") /\ Finish(s) /\ refunded' = refunded
        /\ payment' = [payment EXCEPT ![o].status = "CAPTURED"]
    BY <1>1 DEF CommitCapture
  <2>2. "CAPTURED" \in PaymentStatus /\ "CONFIRMED" \in OrderStatus
    BY DEF PaymentStatus, OrderStatus
  <2>3. QED BY <1>a, <2>1, <2>2, StatusRefundInv
<1>2. CASE CommitFail(s)
  <2>1. /\ SetStatus(o, "PAYMENT_FAILED") /\ Finish(s) /\ refunded' = refunded
        /\ payment' = [payment EXCEPT ![o].status = "FAILED"]
    BY <1>2 DEF CommitFail
  <2>2. "FAILED" \in PaymentStatus /\ "PAYMENT_FAILED" \in OrderStatus
    BY DEF PaymentStatus, OrderStatus
  <2>3. QED BY <1>a, <2>1, <2>2, StatusRefundInv
<1>3. CASE CheckRefund(s) BY <1>3, CheckRefundInv
<1>4. CASE CommitCancel(s)
  <2>1. CASE NeedsRefund(r) /\ o \in Fixed BY <1>4, <2>1, CommitRefundInv
  <2>4. CASE NeedsRefund(r) /\ o \notin Fixed
    <3>1. /\ SetStatus(o, "CANCELLED") /\ Finish(s)
          /\ refunded' = [refunded EXCEPT ![o] = @ + r.seen.total]
          /\ payment' = [payment EXCEPT ![o].status = "REFUND_PENDING"]
      BY <1>4, <2>4 DEF CommitCancel
    <3>2. /\ order' = [order EXCEPT ![o] = [order[o] EXCEPT !.status = "CANCELLED"]]
          /\ \A x \in Order : order'[x] # None <=> order[x] # None
      BY <1>a, <3>1, SetStatusTypeInv DEF OrderStatus
    <3>3. \A x \in Order : x # o => /\ refunded'[x] = refunded[x]
                                    /\ order'[x] = order[x]
                                    /\ payment'[x] = payment[x]
      BY <3>1, <3>2 DEF TypeInv, TypeOK
    <3>4. QED
      BY <1>a, <2>4, <3>1, <3>2, <3>3, FinishRefundInv
      DEF Fixed, RefundInv, RowsSound
  <2>2. CASE ~NeedsRefund(r)
    <3>1. /\ SetStatus(o, "CANCELLED") /\ Finish(s)
          /\ refunded' = refunded /\ payment' = payment
      BY <1>4, <2>2 DEF CommitCancel
    <3>2. "CANCELLED" \in OrderStatus BY DEF OrderStatus
    <3>3. QED BY <1>a, <3>1, <3>2, StatusRefundInv
  <2>3. QED BY <2>1, <2>2, <2>4
<1>5. CASE CommitStatus(s)
  <2>1. /\ SetStatus(o, r.next) /\ Finish(s)
        /\ refunded' = refunded /\ payment' = payment
    BY <1>5 DEF CommitStatus
  <2>2. r.next \in OrderStatus /\ r.next # "PAYMENT_FAILED"
    BY <1>5, <1>a DEF CommitStatus, At, WellFormed, FailureFromPayment
  <2>3. QED BY <1>a, <2>1, <2>2, StatusRefundInv
<1>6. CASE CommitSubstitute(s)
  <2>1. o \notin Fixed BY <1>6, <1>a DEF CommitSubstitute, At, RequestSound
  <2>2. Finish(s) /\ refunded' = refunded /\ payment' = payment
    BY <1>6 DEF CommitSubstitute
  <2>3. \A x \in Order : order'[x] # None <=> order[x] # None
    BY <1>6, <1>a, SubstituteTypeInv
  <2>4. \A x \in Order : x # o => order'[x] = order[x]
    BY <1>6 DEF CommitSubstitute, TypeInv, TypeOK
  <2>5. QED
    BY <2>1, <2>2, <2>3, <2>4, FinishRefundInv DEF Fixed, RefundInv, RowsSound
<1>7. CASE CommitReassign(s)
  <2>1. Finish(s) /\ refunded' = refunded /\ payment' = payment
    BY <1>7 DEF CommitReassign
  <2>2. CASE order' = order
    BY <2>1, <2>2, FinishRefundInv DEF RefundInv, RowsSound, Fixed
  <2>3. CASE SetStatus(o, "RIDER_ASSIGNED")
    <3>1. "RIDER_ASSIGNED" \in OrderStatus BY DEF OrderStatus
    <3>2. QED BY <1>a, <2>1, <2>3, <3>1, StatusRefundInv
  <2>4. QED BY <1>7, <2>2, <2>3 DEF CommitReassign
<1>8. CASE Drop(s)
  BY <1>8, FinishRefundInv DEF Drop, rows, RefundInv, RowsSound, Fixed
<1>9. QED BY <1>1, <1>2, <1>3, <1>4, <1>5, <1>6, <1>7, <1>8 DEF Commit

LEMMA NextRefundInv ==
    ASSUME FailureFromPayment
    PROVE  TypeInv /\ RefundInv /\ [Next]_vars => RefundInv'
<1> SUFFICES ASSUME TypeInv, RefundInv, [Next]_vars PROVE RefundInv'
  OBVIOUS
<1>1. ASSUME NEW o \in Order, Checkout(o) PROVE RefundInv'
  BY <1>1, CheckoutRefundInv
<1>2. ASSUME NEW s \in Slot, NEW o \in Order, Read(s, o) PROVE RefundInv'
  BY <1>2, ReadRefundInv
<1>3. ASSUME NEW s \in Slot, Commit(s) \/ Drop(s) PROVE RefundInv'
  BY <1>3, CommitsRefundInv
<1>4. CASE UNCHANGED vars
  BY <1>4 DEF vars, RefundInv, QuotesPrecedeOrders, RowsSound, RequestsSound,
     RequestSound, NeedsRefund, RefundsExclusive, Checked
<1>5. QED BY <1>1, <1>2, <1>3, <1>4 DEF Next

\* However many cancellations of however many orders overlap, the refunds of a
\* payment never exceed it, for orders whose lines stay as placed and as long as
\* nobody sets PAYMENT_FAILED by hand (createRefundForPayment).
THEOREM RefundBound ==
    ASSUME FailureFromPayment
    PROVE  Spec => []RefundsBounded
<1>1. TypeInv /\ RefundInv /\ [Next]_vars => RefundInv' BY NextRefundInv
<1>2. RefundInv => RefundsBounded
  BY DEF RefundInv, RowsSound, RefundsBounded
<1>3. QED BY InitRefundInv, TypeInvariant, <1>1, <1>2, PTL DEF Spec
-----------------------------------------------------------------------------
(* One request per order.  Requests on different orders overlap as they may, *)
(* and so do the checkouts, but no two are about the same order.  What a     *)
(* request read is then what it writes over, and the contract of an order    *)
(* follows: its stock, its refund and the way its status goes.  The status   *)
(* endpoint's own cancellation is left out: it restores no stock and refunds *)
(* nothing.                                                                  *)

OneRequestEach ==
    \A s, t \in Slot :
        request[s] # None /\ request[t] # None
            /\ request[s].order = request[t].order => s = t
NoCancelByStatus == "CANCELLED" \notin StatusTargets

\* What a request saw and required still holds.
SeenHolds(r) ==
    /\ r.seen = Seen(r.order)
    /\ order[r.order].status \notin Closed
    /\ r.op \in {"capture", "fail"} => AwaitingCapture(r.order)
    /\ r.op = "status" => /\ r.next \in StatusTargets
                          /\ r.next \in ORDER_TRANSITIONS[order[r.order].status]
    /\ r.op = "substitute" => r.order \notin Fixed

\* Before an order there is no stock to account for and no refund; after it no
\* checkout.
Unplaced(o) ==
    /\ order[o] = None => /\ refunded[o] = 0
                          /\ \A p \in Product : ledger[o][p] = 0
    /\ order[o] # None => quote[o] = None

\* The stock an order took is out while it lives.
StockSettled(o) ==
    /\ order[o].status \notin Closed
          => \A p \in Product : ledger[o][p] = 0 - Units(order[o].lines, p)
    /\ \A p \in Product : ledger[o][p] <= 0

\* Nothing is refunded before an order is cancelled, and then all it paid.
MoneySettled(o) ==
    /\ order[o].total = payment[o].amount
    /\ order[o].status # "CANCELLED" => /\ refunded[o] = 0
                                        /\ payment[o].status # "REFUND_PENDING"
    /\ (/\ order[o].status = "CANCELLED"
        /\ payment[o].status \in {"CAPTURED", "REFUND_PENDING"})
          => refunded[o] = payment[o].amount

SerialInv ==
    /\ \A o \in Order : Unplaced(o)
    /\ NoCancelByStatus =>
          \A o \in Fixed : order[o] # None => StockSettled(o) /\ MoneySettled(o)
    /\ \A s \in Slot : request[s] # None => SeenHolds(request[s])

LEMMA InitSerialInv == Init => SerialInv
BY DEF Init, SerialInv, Unplaced, Fixed

\* What is said of an order holds on when none of its rows changes.
LEMMA UntouchedOrder ==
    ASSUME NEW o \in Order, order'[o] = order[o], payment'[o] = payment[o],
           refunded'[o] = refunded[o], ledger'[o] = ledger[o],
           quote'[o] = quote[o] \/ quote'[o] = None
    PROVE  /\ Unplaced(o) => Unplaced(o)'
           /\ StockSettled(o) => StockSettled(o)'
           /\ MoneySettled(o) => MoneySettled(o)'
BY DEF Unplaced, StockSettled, MoneySettled, Units

LEMMA SerialStutter ==
    ASSUME SerialInv, UNCHANGED vars PROVE SerialInv'
BY UntouchedOrder
DEF vars, SerialInv, Fixed, SeenHolds, Seen, AwaitingCapture

LEMMA CheckoutSerial ==
    ASSUME TypeInv, SerialInv, NEW o \in Order, Checkout(o) PROVE SerialInv'
<1>1. request' = request
  BY DEF Checkout, Quote, PlaceOrder, DropQuote
<1>2. \A x \in Order : x # o =>
         /\ order'[x] = order[x] /\ payment'[x] = payment[x]
         /\ refunded'[x] = refunded[x] /\ ledger'[x] = ledger[x]
         /\ quote'[x] = quote[x]
  BY DEF Checkout, Quote, PlaceOrder, DropQuote, rows, TypeInv, TypeOK
<1>3. order[o] # None =>
         /\ order'[o] = order[o] /\ payment'[o] = payment[o]
         /\ refunded'[o] = refunded[o] /\ ledger'[o] = ledger[o]
         /\ quote'[o] = quote[o] \/ quote'[o] = None
  BY DEF Checkout, Quote, PlaceOrder, DropQuote, rows, SerialInv, Unplaced,
         TypeInv, TypeOK
<1>4. CASE order'[o] = None
  <2>1. UNCHANGED rows
    <3>1. ~PlaceOrder(o)
      <4>1. SUFFICES ASSUME PlaceOrder(o) PROVE FALSE OBVIOUS
      <4>2. PICK row \in OrderRow : order' = [order EXCEPT ![o] = row]
        BY <4>1, PlacedRows
      <4>3. QED BY <1>4, <4>2, LifecycleAssumption DEF TypeInv, TypeOK
    <3>2. QED BY <3>1 DEF Checkout, Quote, DropQuote
  <2>2. Unplaced(o)'
    BY <1>4, <2>1 DEF rows, SerialInv, Unplaced
  <2>3. QED
    BY <1>1, <1>2, <1>4, <2>1, <2>2, UntouchedOrder
    DEF rows, SerialInv, Fixed, SeenHolds, Seen, AwaitingCapture
<1>5. CASE order[o] # None
  BY <1>1, <1>2, <1>3, <1>5, UntouchedOrder, AtTypeInv
  DEF SerialInv, Fixed, SeenHolds, Seen, AwaitingCapture
<1>6. CASE order[o] = None /\ order'[o] # None
  <2>1. PlaceOrder(o)
    BY <1>6 DEF Checkout, Quote, DropQuote, rows
  <2> DEFINE q == quote[o]
             total == GrandTotal[<<q.cart, q.coupon>>]
  <2>2. /\ order'[o].status \in {"CONFIRMED", "PAYMENT_PENDING"}
        /\ order'[o].total = total /\ order'[o].lines = q.cart
        /\ payment'[o].amount = total
        /\ payment'[o].status \in {"PENDING_COD", "CREATED"}
        /\ \A p \in Product : ledger'[o][p] = 0 - Units(q.cart, p)
        /\ quote'[o] = None /\ refunded' = refunded
    BY <2>1 DEF PlaceOrder, TypeInv, TypeOK
  <2>3. Unplaced(o)' BY <1>6, <2>2 DEF Unplaced
  <2>4. StockSettled(o)'
    <3>1. \A p \in Product : Units(q.cart, p) \in Nat BY UnitsType
    <3>2. \A p \in Product : ledger'[o][p] <= 0 BY <2>2, <3>1
    <3>3. QED BY <2>2, <3>2 DEF StockSettled, Units
  <2>5. MoneySettled(o)'
    BY <1>6, <2>2 DEF MoneySettled, SerialInv, Unplaced
  <2>6. ASSUME NEW x \in Order, x # o
        PROVE  /\ Unplaced(x)'
               /\ NoCancelByStatus /\ x \in Fixed /\ order'[x] # None =>
                     StockSettled(x)' /\ MoneySettled(x)'
    BY <1>2, <2>6, UntouchedOrder DEF SerialInv
  <2>7. ASSUME NEW s \in Slot, request'[s] # None PROVE SeenHolds(request[s])'
    <3>1. /\ SeenHolds(request[s]) /\ request[s].order \in Order
          /\ order[request[s].order] # None
      BY <1>1, <2>7, AtTypeInv DEF SerialInv, WellFormed
    <3>2. QED
      BY <1>1, <1>2, <1>6, <3>1 DEF SeenHolds, Seen, AwaitingCapture
  <2>8. QED BY <2>3, <2>4, <2>5, <2>6, <2>7 DEF SerialInv, Fixed
<1>7. QED BY <1>4, <1>5, <1>6

\* A read adds a request that saw what there is.
LEMMA BeginSerial ==
    ASSUME TypeInv, SerialInv, NEW s \in Slot, NEW o \in Order, NEW op \in Operation,
           NEW next, NEW line, NEW to, Begin(s, op, o, next, line, to),
           order[o].status \notin Closed,
           op \in {"capture", "fail"} => AwaitingCapture(o),
           op = "status" => /\ next \in StatusTargets
                            /\ next \in ORDER_TRANSITIONS[order[o].status],
           op = "substitute" => o \notin Fixed
    PROVE  SerialInv'
<1> DEFINE r == [op |-> op, phase |-> "read", order |-> o, seen |-> Seen(o),
                 next |-> next, line |-> line, to |-> to]
<1>1. /\ request' = [request EXCEPT ![s] = r]
      /\ UNCHANGED <<stock, order, payment, refunded, redemption, ledger, quote>>
  BY DEF Begin, rows
<1>2. SeenHolds(r) BY DEF SeenHolds
<1> HIDE DEF r
<1>3. ASSUME NEW t \in Slot, request'[t] # None PROVE SeenHolds(request[t])'
  <2>1. SeenHolds(request'[t])
    BY <1>1, <1>2, <1>3 DEF SerialInv, TypeInv, TypeOK
  <2>2. QED BY <1>1, <2>1 DEF SeenHolds, Seen, AwaitingCapture
<1>4. QED BY <1>1, <1>3, UntouchedOrder DEF SerialInv, Fixed

LEMMA ReadSerial ==
    ASSUME TypeInv, SerialInv, NEW s \in Slot, NEW o \in Order, Read(s, o)
    PROVE  SerialInv'
<1>1. CASE ReadCapture(s, o)
  BY <1>1, BeginSerial DEF ReadCapture, AwaitingCapture, Operation, Closed
<1>2. CASE ReadFail(s, o)
  BY <1>2, BeginSerial DEF ReadFail, AwaitingCapture, Operation, Closed
<1>3. CASE ReadCancel(s, o)
  BY <1>3, BeginSerial DEF ReadCancel, MayCancel, Cancellable, Operation, Closed
<1>4. CASE ReadForceCancel(s, o)
  BY <1>4, BeginSerial DEF ReadForceCancel, MayForceCancel, Terminal, Operation, Closed
<1>5. CASE ReadStatus(s, o)
  <2>1. PICK next \in StatusTargets :
           /\ next \in ORDER_TRANSITIONS[order[o].status]
           /\ Begin(s, "status", o, next, None, None)
    BY <1>5 DEF ReadStatus, StatusAllowed
  <2>2. order[o].status \notin Closed
    BY <2>1 DEF ORDER_TRANSITIONS, Closed
  <2>3. QED BY <2>1, <2>2, BeginSerial DEF Operation
<1>6. CASE ReadSubstitute(s, o)
  <2>1. PICK line \in Line, to \in Product :
           Begin(s, "substitute", o, None, line, to)
    BY <1>6 DEF ReadSubstitute
  <2>2. o \notin Fixed /\ order[o].status \notin Closed
    BY <1>6 DEF ReadSubstitute, Fixed, Editable, Closed
  <2>3. QED BY <2>1, <2>2, BeginSerial DEF Operation
<1>7. CASE ReadReassign(s, o)
  BY <1>7, BeginSerial DEF ReadReassign, MayReassign, Terminal, Operation, Closed
<1>8. QED BY <1>1, <1>2, <1>3, <1>4, <1>5, <1>6, <1>7 DEF Read

\* The one request on an order is done: what remains is what it wrote to its
\* rows, and the requests on other orders still see theirs.
LEMMA FinishSerial ==
    ASSUME TypeInv, SerialInv, OneRequestEach, NEW s \in Slot, NEW o \in Order,
           request[s] # None, request[s].order = o, Finish(s),
           \A x \in Order : x # o =>
              /\ order'[x] = order[x] /\ payment'[x] = payment[x]
              /\ refunded'[x] = refunded[x] /\ ledger'[x] = ledger[x],
           order[o] # None, order'[o] # None,
           NoCancelByStatus /\ o \in Fixed => StockSettled(o)' /\ MoneySettled(o)'
    PROVE  SerialInv'
<1>1. request' = [request EXCEPT ![s] = None] /\ quote' = quote
  BY DEF Finish
<1>2. ASSUME NEW t \in Slot, request'[t] # None PROVE SeenHolds(request[t])'
  <2>1. t # s /\ request'[t] = request[t] /\ request[t] # None
    BY <1>1, <1>2 DEF TypeInv, TypeOK
  <2>2. /\ request[t].order \in Order /\ request[t].order # o
        /\ SeenHolds(request[t])
    BY <2>1, AtTypeInv DEF OneRequestEach, SerialInv
  <2>3. /\ order'[request[t].order] = order[request[t].order]
        /\ payment'[request[t].order] = payment[request[t].order]
    BY <2>2
  <2>4. QED BY <2>1, <2>2, <2>3 DEF SeenHolds, Seen, AwaitingCapture
<1>3. Unplaced(o)' BY <1>1 DEF SerialInv, Unplaced
<1>4. QED
  BY <1>1, <1>2, <1>3, UntouchedOrder DEF SerialInv, Fixed

\* A write of status and payment status alone, which neither closes the order
\* nor says that its payment is refunded.
LEMMA StatusSerial ==
    ASSUME TypeInv, SerialInv, NoCancelByStatus, NEW o \in Fixed,
           order[o] # None, order[o].status \notin Closed,
           NEW st \in OrderStatus, st # "CANCELLED",
           order' = [order EXCEPT ![o] = [order[o] EXCEPT !.status = st]],
           payment'[o].status # "REFUND_PENDING", payment'[o].amount = payment[o].amount,
           UNCHANGED <<refunded, ledger>>
    PROVE  StockSettled(o)' /\ MoneySettled(o)'
<1>1. /\ order[o] \in OrderRow /\ o \in Order
      /\ StockSettled(o) /\ MoneySettled(o)
  BY DEF Fixed, TypeInv, TypeOK, SerialInv
<1>2. /\ order'[o].status = st /\ order'[o].lines = order[o].lines
      /\ order'[o].total = order[o].total
  BY <1>1 DEF TypeInv, TypeOK, OrderRow
<1>3. StockSettled(o)' BY <1>1, <1>2 DEF StockSettled, Units
<1>4. order[o].status # "CANCELLED" BY DEF Closed
<1>5. MoneySettled(o)' BY <1>1, <1>2, <1>4 DEF MoneySettled
<1>6. QED BY <1>3, <1>5

LEMMA CancelSerial ==
    ASSUME TypeInv, SerialInv, NoCancelByStatus, NEW s \in Slot, CommitCancel(s),
           NEW o \in Fixed, o = request[s].order
    PROVE  StockSettled(o)' /\ MoneySettled(o)'
<1> DEFINE r == request[s]
<1>1. o = r.order OBVIOUS
<1>2. request[s] # None BY DEF CommitCancel, IsCancel, At
<1>3. /\ o \in Order /\ order[o] \in OrderRow /\ payment[o] \in PaymentRow
      /\ order[o] # None
      /\ SeenHolds(r) /\ StockSettled(o) /\ MoneySettled(o)
  BY <1>1, <1>2, AtTypeInv DEF SerialInv, WellFormed
<1>4. /\ order'[o].status = "CANCELLED" /\ order'[o].lines = order[o].lines
      /\ order'[o].total = order[o].total
  BY <1>1, <1>3 DEF CommitCancel, SetStatus, TypeInv, TypeOK, OrderRow
<1>5. \A p \in Product : ledger'[o][p] <= 0
  <2> SUFFICES ASSUME NEW p \in Product PROVE ledger'[o][p] <= 0
    OBVIOUS
  <2>1. ledger'[o][p] = ledger[o][p] + LedgerDelta(r, p)
    BY <1>1, <1>3 DEF CommitCancel, TypeInv, TypeOK
  <2>2. ledger[o][p] = 0 - Units(order[o].lines, p)
    BY <1>1, <1>3 DEF StockSettled, SeenHolds
  <2>3. r.seen.lines = order[o].lines BY <1>1, <1>3 DEF SeenHolds, Seen
  <2>4. LedgerDelta(r, p) = 0 \/ LedgerDelta(r, p) = Units(order[o].lines, p)
    BY <2>3 DEF LedgerDelta, Restored
  <2>5. Units(order[o].lines, p) \in Nat BY UnitsType
  <2>6. QED BY <2>1, <2>2, <2>4, <2>5
<1>6. StockSettled(o)' BY <1>4, <1>5 DEF StockSettled, Closed
<1>7. /\ refunded[o] = 0 /\ payment[o].status # "REFUND_PENDING"
      /\ order[o].total = payment[o].amount
      /\ r.seen.pay = payment[o].status /\ r.seen.total = order[o].total
  BY <1>1, <1>3 DEF SeenHolds, Seen, MoneySettled, Closed
<1>8. CASE NeedsRefund(r)
  <2>1. /\ refunded'[o] = refunded[o] + r.seen.total
        /\ payment'[o].amount = payment[o].amount
    BY <1>1, <1>3, <1>8 DEF CommitCancel, TypeInv, TypeOK, PaymentRow
  <2>2. payment[o].amount \in Nat BY <1>3 DEF PaymentRow
  <2>3. refunded'[o] = payment'[o].amount BY <1>7, <2>1, <2>2
  <2>4. QED BY <1>1, <1>4, <1>6, <1>7, <2>1, <2>3 DEF MoneySettled
<1>9. CASE ~NeedsRefund(r)
  <2>1. refunded' = refunded /\ payment' = payment
    BY <1>9 DEF CommitCancel
  <2>2. payment[o].status \notin {"CAPTURED", "REFUND_PENDING"}
    BY <1>7, <1>9 DEF NeedsRefund
  <2>3. QED BY <1>1, <1>4, <1>6, <1>7, <2>1, <2>2 DEF MoneySettled
<1>10. QED BY <1>8, <1>9

LEMMA CommitSerial ==
    ASSUME TypeInv, SerialInv, OneRequestEach,
           NEW s \in Slot, Commit(s) \/ Drop(s)
    PROVE  SerialInv'
<1> DEFINE r == request[s]
<1>1. request[s] # None
  BY DEF Commit, Drop, At, IsCancel, CommitCapture, CommitFail, CheckRefund,
     CommitCancel, CommitStatus, CommitSubstitute, CommitReassign
<1>2. PICK o \in Order : o = r.order BY <1>1, AtTypeInv
<1>3. /\ order[o] \in OrderRow /\ payment[o] \in PaymentRow
      /\ order[o] # None /\ SeenHolds(r)
      /\ order[o].status \notin Closed
  BY <1>1, <1>2, AtTypeInv DEF SerialInv, WellFormed, SeenHolds
<1>4. None \notin OrderRow BY LifecycleAssumption
<1>5. NoCancelByStatus /\ o \in Fixed => payment[o].status # "REFUND_PENDING"
  BY <1>3 DEF SerialInv, MoneySettled, Closed
<1>6. CASE CommitCapture(s) \/ CommitFail(s) \/ CommitStatus(s) \/ CommitReassign(s)
  <2>1. PICK st \in OrderStatus :
           /\ NoCancelByStatus => st # "CANCELLED"
           /\ order' = [order EXCEPT ![o] = [order[o] EXCEPT !.status = st]]
    <3>1. CASE CommitCapture(s)
      BY <1>2, <3>1 DEF CommitCapture, SetStatus, OrderStatus
    <3>2. CASE CommitFail(s)
      BY <1>2, <3>2 DEF CommitFail, SetStatus, OrderStatus
    <3>3. CASE CommitStatus(s)
      <4>1. r.next \in StatusTargets /\ r.next \in OrderStatus
        BY <1>1, <1>3, <3>3, LifecycleAssumption DEF CommitStatus, At, SeenHolds
      <4>2. QED
        BY <1>2, <3>3, <4>1 DEF CommitStatus, SetStatus, NoCancelByStatus
    <3>4. CASE CommitReassign(s)
      <4>1. CASE order' = order
        <5>1. order' = [order EXCEPT ![o] = [order[o] EXCEPT !.status = order[o].status]]
          BY <1>3, <4>1 DEF OrderRow, TypeInv, TypeOK
        <5>2. QED BY <1>3, <5>1 DEF OrderRow, Closed
      <4>2. CASE order' # order
        BY <1>2, <3>4, <4>2 DEF CommitReassign, SetStatus, OrderStatus
      <4>3. QED BY <4>1, <4>2
    <3>5. QED BY <1>6, <3>1, <3>2, <3>3, <3>4
  <2>2. /\ UNCHANGED <<refunded, ledger>> /\ Finish(s)
        /\ \A x \in Order : x # o => payment'[x] = payment[x]
        /\ payment'[o].amount = payment[o].amount
        /\ payment'[o].status \in {payment[o].status, "CAPTURED", "FAILED"}
    BY <1>2, <1>3, <1>6
    DEF CommitCapture, CommitFail, CommitStatus, CommitReassign, PaymentRow,
        TypeInv, TypeOK
  <2>3. \A x \in Order : x # o => order'[x] = order[x]
    BY <2>1 DEF TypeInv, TypeOK
  <2>4. order'[o] # None
    BY <1>3, <1>4, <2>1, SetRowTypeInv DEF OrderRow
  <2>5. NoCancelByStatus /\ o \in Fixed => StockSettled(o)' /\ MoneySettled(o)'
    BY <1>3, <1>5, <2>1, <2>2, StatusSerial
  <2>6. QED BY <1>1, <1>2, <1>3, <2>2, <2>3, <2>4, <2>5, FinishSerial
<1>7. CASE CheckRefund(s)
  <2>1. /\ request' = [request EXCEPT ![s] = [r EXCEPT !.phase = "checked"]]
        /\ UNCHANGED <<stock, order, payment, refunded, redemption, ledger, quote>>
    BY <1>7 DEF CheckRefund, rows
  <2>2. SeenHolds([r EXCEPT !.phase = "checked"])
    BY <1>1, <1>3, AtTypeInv DEF SeenHolds, Request
  <2>3. ASSUME NEW t \in Slot, request'[t] # None PROVE SeenHolds(request[t])'
    <3>1. SeenHolds(request'[t])
      BY <2>1, <2>2, <2>3 DEF SerialInv, TypeInv, TypeOK
    <3>2. QED BY <2>1, <3>1 DEF SeenHolds, Seen, AwaitingCapture
  <2>4. QED BY <2>1, <2>3, UntouchedOrder DEF SerialInv, Fixed
<1>8. CASE CommitCancel(s)
  <2>1. Finish(s) /\ SetStatus(o, "CANCELLED")
    BY <1>2, <1>8 DEF CommitCancel
  <2>2. /\ \A x \in Order : x # o => order'[x] = order[x]
        /\ order'[o] # None
    BY <1>3, <2>1, SetStatusTypeInv DEF OrderStatus, SetStatus, TypeInv, TypeOK
  <2>3. \A x \in Order : x # o =>
           /\ payment'[x] = payment[x] /\ refunded'[x] = refunded[x]
           /\ ledger'[x] = ledger[x]
    BY <1>2, <1>8 DEF CommitCancel, TypeInv, TypeOK
  <2>4. NoCancelByStatus /\ o \in Fixed => StockSettled(o)' /\ MoneySettled(o)'
    BY <1>2, <1>8, CancelSerial
  <2>5. QED BY <1>1, <1>2, <1>3, <2>1, <2>2, <2>3, <2>4, FinishSerial
<1>9. CASE CommitSubstitute(s)
  <2>1. o \notin Fixed
    BY <1>2, <1>3, <1>9 DEF CommitSubstitute, At, SeenHolds
  <2>2. order'[o] # None
    BY <1>3, <1>9, SubstituteTypeInv
  <2>3. \A x \in Order : x # o => order'[x] = order[x]
    BY <1>2, <1>9 DEF CommitSubstitute, TypeInv, TypeOK
  <2>4. QED
    BY <1>1, <1>2, <1>3, <1>9, <2>1, <2>2, <2>3, FinishSerial DEF CommitSubstitute
<1>10. CASE Drop(s)
  <2>1. Finish(s) /\ UNCHANGED <<stock, order, payment, refunded, redemption, ledger>>
    BY <1>10 DEF Drop, rows
  <2>2. quote' = quote BY <2>1 DEF Finish
  <2>3. NoCancelByStatus /\ o \in Fixed => StockSettled(o)' /\ MoneySettled(o)'
    BY <1>3, <2>1, <2>2, UntouchedOrder DEF SerialInv
  <2>4. QED BY <1>1, <1>2, <1>3, <2>1, <2>3, FinishSerial
<1>11. QED BY <1>6, <1>7, <1>8, <1>9, <1>10 DEF Commit

LEMMA NextSerialInv ==
    TypeInv /\ SerialInv /\ OneRequestEach /\ [Next]_vars => SerialInv'
BY CheckoutSerial, ReadSerial, CommitSerial, SerialStutter DEF Next

\* While no two requests work on the same order at once and none cancels
\* through the status endpoint, an order whose lines stay as placed has its
\* units out of the shelf until it is closed, and gives them back at most once
\* (placeOrder, cancelOwnOrder, forceCancel).
THEOREM StockFollows ==
    ASSUME NoCancelByStatus
    PROVE  Spec /\ []OneRequestEach => []StockFollowsOrder
<1>1. SerialInv => StockFollowsOrder
  <2> SUFFICES ASSUME SerialInv PROVE StockFollowsOrder
    OBVIOUS
  <2>1. LiveOrderHoldsStock
    BY DEF SerialInv, StockSettled, LiveOrderHoldsStock
  <2>2. ASSUME NEW o \in Fixed, NEW p \in Product PROVE ledger[o][p] <= 0
    <3>1. CASE order[o] = None
      BY <3>1 DEF SerialInv, Unplaced, Fixed
    <3>2. CASE order[o] # None
      BY <3>2 DEF SerialInv, StockSettled
    <3>3. QED BY <3>1, <3>2
  <2>3. QED BY <2>1, <2>2 DEF StockNotRestoredTwice, StockFollowsOrder
<1>2. QED BY <1>1, InitSerialInv, NextSerialInv, TypeInvariant, PTL DEF Spec

\* Then a cancelled order of whose money any was captured has all of it back
\* (createRefundForPayment in both cancellations).
THEOREM CancelledRefunded ==
    ASSUME NoCancelByStatus
    PROVE  Spec /\ []OneRequestEach => []CancelledIsRefunded
<1>1. SerialInv => CancelledIsRefunded
  BY DEF SerialInv, MoneySettled, CancelledIsRefunded
<1>2. QED BY <1>1, InitSerialInv, NextSerialInv, TypeInvariant, PTL DEF Spec

\* Which status a transaction writes to the order of its request.
LEMMA StatusesGoForward ==
    ASSUME TypeInv, SerialInv, NEW s \in Slot, Commit(s) \/ Drop(s),
           NEW o \in Order, order[o] # None, order'[o].status # order[o].status
    PROVE  /\ order[o].status \notin Closed
           /\ \/ order'[o].status \in ORDER_TRANSITIONS[order[o].status]
              \/ order'[o].status \in {"CANCELLED", "PAYMENT_FAILED", "RIDER_ASSIGNED"}
<1> DEFINE r == request[s]
<1>1. request[s] # None
  BY DEF Commit, Drop, At, IsCancel, CommitCapture, CommitFail, CheckRefund,
     CommitCancel, CommitStatus, CommitSubstitute, CommitReassign
<1>2. /\ r.order \in Order /\ order[r.order] \in OrderRow /\ SeenHolds(r)
      /\ WellFormed(r)
  BY <1>1, AtTypeInv DEF SerialInv
<1>3. \A st : SetStatus(r.order, st) =>
         /\ o # r.order => order'[o] = order[o]
         /\ o = r.order => order'[o].status = st
  BY <1>2 DEF SetStatus, TypeInv, TypeOK, OrderRow
<1>4. order[o] \in OrderRow BY DEF TypeInv, TypeOK
<1>5. CASE CommitCapture(s)
  <2>1. order[r.order].status = "PAYMENT_PENDING"
    BY <1>2, <1>5 DEF CommitCapture, At, SeenHolds, AwaitingCapture
  <2>2. SetStatus(r.order, "CONFIRMED") BY <1>5 DEF CommitCapture
  <2>3. o = r.order /\ order'[o].status = "CONFIRMED" BY <1>3, <2>2
  <2>4. QED BY <2>1, <2>3 DEF ORDER_TRANSITIONS, Closed
<1>6. CASE CommitFail(s) \/ CommitCancel(s) \/ CommitReassign(s)
  <2>1. \/ SetStatus(r.order, "PAYMENT_FAILED") \/ SetStatus(r.order, "CANCELLED")
        \/ SetStatus(r.order, "RIDER_ASSIGNED") \/ order' = order
    BY <1>6 DEF CommitFail, CommitCancel, CommitReassign
  <2>2. o = r.order /\ order'[o].status \in {"CANCELLED", "PAYMENT_FAILED", "RIDER_ASSIGNED"}
    BY <1>3, <2>1
  <2>3. QED BY <1>2, <2>2 DEF SeenHolds
<1>7. CASE CommitStatus(s)
  <2>1. SetStatus(r.order, r.next) BY <1>7 DEF CommitStatus
  <2>2. r.next \in ORDER_TRANSITIONS[order[r.order].status]
    BY <1>2, <1>7 DEF CommitStatus, At, SeenHolds
  <2>3. QED BY <1>2, <1>3, <2>1, <2>2 DEF SeenHolds
<1>8. CASE CommitSubstitute(s)
  <2>1. order'[o].status = order[o].status
    BY <1>2, <1>4, <1>8 DEF CommitSubstitute, TypeInv, TypeOK, OrderRow
  <2>2. QED BY <2>1
<1>9. CASE CheckRefund(s) \/ Drop(s)
  BY <1>9 DEF CheckRefund, Drop, rows
<1>10. QED BY <1>5, <1>6, <1>7, <1>8, <1>9 DEF Commit

LEMMA TransitionsRise ==
    ASSUME NEW was \in OrderStatus, NEW next \in ORDER_TRANSITIONS[was]
    PROVE  \/ statusRank(was) <= statusRank(next)
           \/ next \in {"CANCELLED", "PAYMENT_FAILED"}
<1>1. CASE was \in {"PENDING", "PAYMENT_PENDING", "PAYMENT_FAILED"}
  BY <1>1 DEF ORDER_TRANSITIONS, statusRank
<1>2. CASE was \in {"CONFIRMED", "PICKING", "PACKED"}
  BY <1>2 DEF ORDER_TRANSITIONS, statusRank
<1>3. CASE was \in {"RIDER_ASSIGNED", "OUT_FOR_DELIVERY"}
  BY <1>3 DEF ORDER_TRANSITIONS, statusRank
<1>4. CASE was \in {"DELIVERED", "CANCELLED"}
  BY <1>4 DEF ORDER_TRANSITIONS
<1>5. QED BY <1>1, <1>2, <1>3, <1>4 DEF OrderStatus

LEMMA StatusForward ==
    ASSUME TypeInv, SerialInv, [Next]_vars, NEW o \in Placed
    PROVE  /\ order'[o].status # order[o].status
                 => order[o].status \notin {"DELIVERED", "CANCELLED"}
           /\ \/ statusRank(order[o].status) <= statusRank(order'[o].status)
              \/ order'[o].status \in {"CANCELLED", "PAYMENT_FAILED"}
              \/ /\ order[o].status = "OUT_FOR_DELIVERY"
                 /\ order'[o].status = "RIDER_ASSIGNED"
<1>1. o \in Order /\ order[o] # None BY DEF Placed
<1>2. order[o].status \in OrderStatus BY <1>1 DEF TypeInv, TypeOK, OrderRow
<1>3. \A st \in OrderStatus : statusRank(st) \in Int BY DEF statusRank
<1>4. CASE order'[o].status = order[o].status
  BY <1>2, <1>3, <1>4
<1>5. CASE order'[o].status # order[o].status
  <2>1. PICK s \in Slot : Commit(s) \/ Drop(s)
    <3>1. ASSUME NEW x \in Order, Checkout(x) PROVE order'[o] = order[o]
      BY <1>1, <3>1 DEF Checkout, Quote, PlaceOrder, DropQuote, rows,
         SerialInv, Unplaced, TypeInv, TypeOK
    <3>2. ASSUME NEW s \in Slot, NEW x \in Order, Read(s, x)
          PROVE  order'[o] = order[o]
      BY <3>2 DEF Read, ReadCapture, ReadFail, ReadCancel, ReadForceCancel,
         ReadStatus, ReadSubstitute, ReadReassign, Begin, rows
    <3>3. QED BY <1>5, <3>1, <3>2 DEF Next, vars
  <2>2. /\ order[o].status \notin Closed
        /\ \/ order'[o].status \in ORDER_TRANSITIONS[order[o].status]
           \/ order'[o].status \in {"CANCELLED", "PAYMENT_FAILED", "RIDER_ASSIGNED"}
    BY <1>1, <1>5, <2>1, StatusesGoForward
  <2>3. CASE order'[o].status \in ORDER_TRANSITIONS[order[o].status]
    BY <1>2, <2>2, <2>3, TransitionsRise DEF Closed
  <2>4. CASE order'[o].status = "RIDER_ASSIGNED"
    <3>1. \/ statusRank(order[o].status) <= 4
          \/ order[o].status = "OUT_FOR_DELIVERY"
      BY <1>2, <2>2 DEF OrderStatus, Closed, statusRank
    <3>2. statusRank("RIDER_ASSIGNED") = 4 BY DEF statusRank
    <3>3. QED BY <2>2, <2>4, <3>1, <3>2 DEF Closed
  <2>5. QED BY <2>2, <2>3, <2>4 DEF Closed
<1>6. QED BY <1>4, <1>5

\* While no two requests work on the same order at once, of whichever
\* endpoint, an order only goes forward, but for its end, a failed payment and
\* a parcel that changes riders; a closed order stays closed.
THEOREM OrdersForward ==
    Spec /\ []OneRequestEach => OrdersGoForward
<1>1. TypeInv /\ SerialInv /\ [Next]_vars =>
         \A o \in Placed :
            /\ order'[o].status # order[o].status
                  => order[o].status \notin {"DELIVERED", "CANCELLED"}
            /\ \/ statusRank(order[o].status) <= statusRank(order'[o].status)
               \/ order'[o].status \in {"CANCELLED", "PAYMENT_FAILED"}
               \/ /\ order[o].status = "OUT_FOR_DELIVERY"
                  /\ order'[o].status = "RIDER_ASSIGNED"
  BY StatusForward
<1>2. QED
  BY <1>1, InitSerialInv, NextSerialInv, TypeInvariant, PTL
  DEF Spec, OrdersGoForward

-----------------------------------------------------------------------------
(* The screens of the orders.  What they offer depends on the status alone, *)
(* except the buttons of the lines: those need that an order keeps a line,  *)
(* whatever the store substitutes and whichever snapshot is written back.   *)

\* An order has a line, and so has the cart a checkout was quoted for.
KeepsALine ==
    \A o \in Order : order[o] # None => \E l \in Line : order[o].lines[l] # None

\* Checkout writes a customer's cart; no cart is empty.
LEMMA CheckoutKeepsALine ==
    ASSUME TypeInv, KeepsALine, NEW o \in Order, Checkout(o)
    PROVE  KeepsALine'
<1>1. CASE PlaceOrder(o)
  <2>1. quote[o].cart \in Carts
    BY <1>1 DEF PlaceOrder, TypeInv, TypeOK, QuoteRow
  <2>2. \E l \in Line : quote[o].cart[l] # None BY <2>1, LifecycleAssumption
  <2>3. order'[o].lines = quote[o].cart
    BY <1>1 DEF PlaceOrder, TypeInv, TypeOK
  <2>4. \A x \in Order : x # o => order'[x] = order[x]
    BY <1>1 DEF PlaceOrder, TypeInv, TypeOK
  <2>5. QED BY <2>2, <2>3, <2>4 DEF KeepsALine
<1>2. ASSUME order' = order PROVE KeepsALine'
  BY <1>2 DEF KeepsALine
<1>3. QED BY <1>1, <1>2 DEF Checkout, Quote, DropQuote, rows

\* A commit writes a status, or one product into one line.
LEMMA CommitKeepsALine ==
    ASSUME TypeInv, KeepsALine, NEW s \in Slot, Commit(s) \/ Drop(s)
    PROVE  KeepsALine'
<1> DEFINE r == request[s]
<1>1. request[s] # None
  BY DEF Commit, Drop, At, IsCancel, CommitCapture, CommitFail, CheckRefund,
     CommitCancel, CommitStatus, CommitSubstitute, CommitReassign
<1>2. /\ r.order \in Order /\ order[r.order] \in OrderRow /\ WellFormed(r)
  BY <1>1, AtTypeInv
<1>3. ASSUME NEW st, SetStatus(r.order, st) PROVE KeepsALine'
  <2>1. ASSUME NEW o \in Order, order[o] # None
        PROVE  order'[o].lines = order[o].lines
    BY <1>2, <1>3, <2>1 DEF SetStatus, TypeInv, TypeOK, OrderRow
  <2>2. \A o \in Order : order'[o] # None => order[o] # None
    BY <1>2, <1>3 DEF SetStatus, TypeInv, TypeOK, WellFormed
  <2>3. QED BY <2>1, <2>2 DEF KeepsALine
<1>4. CASE CommitSubstitute(s)
  <2>1. r.line \in Line /\ r.to \in Product
    BY <1>2, <1>4 DEF CommitSubstitute, At, WellFormed
  <2>2. order'[r.order].lines[r.line] = r.to
    BY <1>2, <1>4, <2>1
    DEF CommitSubstitute, TypeInv, TypeOK, OrderRow, OrderLines
  <2>3. r.to # None BY <2>1, LifecycleAssumption
  <2>4. \A o \in Order : o # r.order => order'[o] = order[o]
    BY <1>4 DEF CommitSubstitute, TypeInv, TypeOK
  <2>5. QED BY <2>1, <2>2, <2>3, <2>4 DEF KeepsALine
<1>5. ASSUME order' = order PROVE KeepsALine'
  BY <1>5 DEF KeepsALine
<1>6. CASE CommitCapture(s) \/ CommitFail(s) \/ CommitCancel(s)
           \/ CommitStatus(s) \/ CommitReassign(s)
  BY <1>3, <1>5, <1>6
  DEF CommitCapture, CommitFail, CommitCancel, CommitStatus, CommitReassign
<1>7. CASE CheckRefund(s) \/ Drop(s)
  BY <1>5, <1>7 DEF CheckRefund, Drop, rows
<1>8. QED BY <1>4, <1>6, <1>7 DEF Commit

LEMMA NextKeepsALine ==
    TypeInv /\ KeepsALine /\ [Next]_vars => KeepsALine'
<1> SUFFICES ASSUME TypeInv, KeepsALine, [Next]_vars PROVE KeepsALine'
  OBVIOUS
<1>1. ASSUME NEW o \in Order, Checkout(o) PROVE KeepsALine'
  BY <1>1, CheckoutKeepsALine
<1>2. ASSUME order' = order PROVE KeepsALine'
  BY <1>2 DEF KeepsALine
<1>3. ASSUME NEW s \in Slot, NEW o \in Order, Read(s, o) PROVE KeepsALine'
  BY <1>2, <1>3 DEF Read, ReadCapture, ReadFail, ReadCancel, ReadForceCancel,
     ReadStatus, ReadSubstitute, ReadReassign, Begin, rows
<1>4. ASSUME NEW s \in Slot, Commit(s) \/ Drop(s) PROVE KeepsALine'
  BY <1>4, CommitKeepsALine
<1>5. CASE UNCHANGED vars BY <1>2, <1>5 DEF vars
<1>6. QED BY <1>1, <1>3, <1>4, <1>5 DEF Next

\* What the server's table lets an admin and a store owner write.
LEMMA RoleTables ==
    ASSUME NEW o \in Order, order[o].status \in OrderStatus
    PROVE  /\ Accepts("ADMIN", o) = ORDER_TRANSITIONS[order[o].status]
           /\ Accepts("STORE_OWNER", o) =
                  STORE_OWNER_TRANSITIONS[order[o].status]
<1> DEFINE st == order[o].status
<1>1. /\ ORDER_TRANSITIONS[st] \subseteq OrderStatus
      /\ st \notin ORDER_TRANSITIONS[st]
  <2>1. CASE st \in {"PENDING", "PAYMENT_PENDING", "PAYMENT_FAILED"}
    BY <2>1 DEF ORDER_TRANSITIONS, OrderStatus
  <2>2. CASE st \in {"CONFIRMED", "PICKING", "PACKED"}
    BY <2>2 DEF ORDER_TRANSITIONS, OrderStatus
  <2>3. CASE st \in {"RIDER_ASSIGNED", "OUT_FOR_DELIVERY"}
    BY <2>3 DEF ORDER_TRANSITIONS, OrderStatus
  <2>4. CASE st \in {"DELIVERED", "CANCELLED"}
    BY <2>4 DEF ORDER_TRANSITIONS
  <2>5. QED BY <2>1, <2>2, <2>3, <2>4 DEF OrderStatus
<1>2. STORE_OWNER_TRANSITIONS[st] \subseteq ORDER_TRANSITIONS[st]
  <2>1. CASE st \in {"PENDING", "PAYMENT_PENDING"}
    BY <2>1 DEF ORDER_TRANSITIONS, STORE_OWNER_TRANSITIONS, OrderStatus
  <2>2. CASE st \in {"CONFIRMED", "PICKING", "PACKED"}
    BY <2>2 DEF ORDER_TRANSITIONS, STORE_OWNER_TRANSITIONS, OrderStatus
  <2>3. CASE st \notin {"PENDING", "PAYMENT_PENDING", "CONFIRMED", "PICKING",
                        "PACKED"}
    BY <2>3 DEF STORE_OWNER_TRANSITIONS
  <2>4. QED BY <2>1, <2>2, <2>3
<1>3. Accepts("ADMIN", o) = ORDER_TRANSITIONS[st]
  BY <1>1 DEF Accepts, StatusAllowed
<1>4. Accepts("STORE_OWNER", o) = STORE_OWNER_TRANSITIONS[st]
  BY <1>1, <1>2 DEF Accepts, StatusAllowed
<1>5. QED BY <1>3, <1>4

\* The order page lights as many steps as its timeline has passed.
LEMMA StepsMatchTimeline ==
    ASSUME NEW o \in Order, order[o].status \in OrderStatus \ {"CANCELLED"}
    PROVE  currentStep(o) = Cardinality(StepsDone(o))
<1> DEFINE rank == statusRank(order[o].status)
<1>1. CASE order[o].status = "PAYMENT_FAILED"
  <2>1. rank = -1 BY <1>1 DEF statusRank
  <2>2. StepsDone(o) = {} BY <2>1 DEF StepsDone
  <2>3. Cardinality(StepsDone(o)) = 0 BY <2>2, FS_EmptySet
  <2>4. QED BY <1>1, <2>3 DEF currentStep
<1>2. CASE order[o].status # "PAYMENT_FAILED"
  <2>1. rank \in 0..6 BY <1>2 DEF statusRank, OrderStatus
  <2>2. StepsDone(o) = 1..rank BY <2>1 DEF StepsDone
  <2>3. Cardinality(1..rank) = rank
    BY <2>1, FS_Interval
  <2>4. currentStep(o) = rank BY <1>2 DEF currentStep
  <2>5. QED BY <2>2, <2>3, <2>4
<1>3. QED BY <1>1, <1>2

LEMMA CustomersPage ==
    ASSUME TypeInv, NEW o \in Placed
    PROVE  CustomerPageFits(o)
<1>1. o \in Order /\ order[o] # None /\ order[o].status \in OrderStatus
  BY DEF Placed, TypeInv, TypeOK, OrderRow
<1>2. CancelButton(o) <=> MayCancel(o)
  BY <1>1 DEF CancelButton, MayCancel, Cancellable
<1>3. ASSUME o \in filteredOrders("Active")
      PROVE  ORDER_TRANSITIONS[order[o].status] # {}
  <2>1. order[o].status \in activeStatuses
    BY <1>1, <1>3 DEF filteredOrders, OrderStatus
  <2>2. order[o].status \in {"PENDING", "PAYMENT_PENDING", "CONFIRMED", "PICKING",
                             "PACKED", "RIDER_ASSIGNED", "OUT_FOR_DELIVERY"}
    BY <2>1 DEF activeStatuses, OrderStatus
  <2>3. CASE order[o].status \in {"PENDING", "PAYMENT_PENDING", "CONFIRMED"}
    <3>1. "CANCELLED" \in ORDER_TRANSITIONS[order[o].status]
      BY <2>3 DEF ORDER_TRANSITIONS
    <3>2. QED BY <3>1
  <2>4. CASE order[o].status \in {"PICKING", "PACKED", "RIDER_ASSIGNED",
                                  "OUT_FOR_DELIVERY"}
    <3>1. "CANCELLED" \in ORDER_TRANSITIONS[order[o].status]
      BY <2>4 DEF ORDER_TRANSITIONS
    <3>2. QED BY <3>1
  <2>5. QED BY <2>2, <2>3, <2>4
<1>4. ASSUME o \in filteredOrders("DELIVERED") \cup filteredOrders("CANCELLED")
      PROVE  /\ ORDER_TRANSITIONS[order[o].status] = {}
             /\ currentStep(o) \in {-1, 6}
  <2>1. order[o].status \in {"DELIVERED", "CANCELLED"}
    BY <1>4 DEF filteredOrders
  <2>2. QED BY <2>1 DEF ORDER_TRANSITIONS, currentStep, statusRank
<1>5. order[o].status # "CANCELLED" => currentStep(o) = Cardinality(StepsDone(o))
  BY <1>1, StepsMatchTimeline
<1>6. QED BY <1>1, <1>2, <1>3, <1>4, <1>5, RoleTables DEF CustomerPageFits

LEMMA StoresPage ==
    ASSUME TypeInv, KeepsALine, NEW o \in Placed
    PROVE  StorePageFits(o)
<1> DEFINE st == order[o].status
<1>1. o \in Order /\ order[o] # None /\ st \in OrderStatus
  BY DEF Placed, TypeInv, TypeOK, OrderRow
<1>2. /\ STORE_ACTIONS[st] \subseteq STORE_OWNER_TRANSITIONS[st]
      /\ STORE_OWNER_TRANSITIONS[st] \ STORE_ACTIONS[st]
            \subseteq IF st = "PACKED" THEN {"CANCELLED"} ELSE {}
  <2>1. CASE st \in {"PENDING", "PAYMENT_PENDING"}
    BY <1>1, <2>1 DEF STORE_ACTIONS, STORE_OWNER_TRANSITIONS
  <2>2. CASE st \in {"CONFIRMED", "PICKING", "PACKED"}
    BY <1>1, <2>2 DEF STORE_ACTIONS, STORE_OWNER_TRANSITIONS
  <2>3. CASE st \notin {"PENDING", "PAYMENT_PENDING", "CONFIRMED", "PICKING",
                        "PACKED"}
    BY <1>1, <2>3 DEF STORE_ACTIONS, STORE_OWNER_TRANSITIONS
  <2>4. QED BY <2>1, <2>2, <2>3
<1>3. st = "PACKED" => lane(o) = "Ready" BY DEF lane
<1>4. EditableItems(o) # {} <=> st \in Editable
  BY <1>1 DEF EditableItems, editableItemStates, Editable, KeepsALine
<1>5. QED BY <1>1, <1>2, <1>3, <1>4, RoleTables DEF StorePageFits, StoreActions

LEMMA AdminsPage ==
    ASSUME TypeInv, NEW o \in Placed
    PROVE  AdminPageFits(o)
<1> DEFINE st == order[o].status
<1>1. o \in Order /\ order[o] # None /\ st \in OrderStatus
  BY DEF Placed, TypeInv, TypeOK, OrderRow
<1>2. Accepts("ADMIN", o) \ StatusDialog(o)
         \subseteq {"PAYMENT_PENDING", "PAYMENT_FAILED"}
  BY DEF Accepts, StatusAllowed, StatusDialog, statusOptions, OrderStatus
<1>3. ForceCancelButton(o) <=> MayForceCancel(o)
  BY <1>1 DEF ForceCancelButton, MayForceCancel, Terminal
<1>4. ASSUME ~ForceCancelButton(o)
      PROVE  /\ \A next : BulkRefused({o}, next) = {o}
             /\ ~MayReassign(o)
  <2>1. st \in {"DELIVERED", "CANCELLED"} BY <1>4 DEF ForceCancelButton
  <2>2. ORDER_TRANSITIONS[st] = {} BY <2>1 DEF ORDER_TRANSITIONS
  <2>3. QED
    BY <2>1, <2>2 DEF BulkRefused, StatusAllowed, MayReassign, Terminal
<1>5. QED BY <1>2, <1>3, <1>4 DEF AdminPageFits

\* The tables of the three order pages agree with the guards of the server in
\* every state, however many requests interleave: the customer's, the store's
\* and the admin's buttons are the calls that are accepted, and the lines of
\* an order can be substituted exactly where the store sees a line to edit.
THEOREM OrderScreensMatch == Spec => []OrderScreensMatchServer
<1>1. Init => KeepsALine BY DEF Init, KeepsALine
<1>2. TypeInv /\ KeepsALine => OrderScreensMatchServer
  BY CustomersPage, StoresPage, AdminsPage DEF OrderScreensMatchServer
<1>3. QED
  BY <1>1, <1>2, NextKeepsALine, TypeInvariant, PTL DEF Spec
=============================================================================
