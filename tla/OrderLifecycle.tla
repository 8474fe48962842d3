--------------------------- MODULE OrderLifecycle ---------------------------
(***************************************************************************)
(* The life of an order in the API gateway: checkout, simulated payment,   *)
(* cancellation, refunds, store substitution and the status endpoint, over *)
(* the Postgres rows they share.                                           *)
(*                                                                         *)
(* placeOrder commits in a SERIALIZABLE transaction, so its commit is one  *)
(* step that checks everything again.  Every other handler reads the order *)
(* with plain queries, decides on what it read, and only then opens a      *)
(* READ COMMITTED transaction that writes unconditionally.  Such a handler *)
(* is two steps: Read* keeps the rows it saw in request[s].seen, Commit*   *)
(* uses that snapshot whatever the rows hold by then.  A slot of Slot is   *)
(* an HTTP request in flight; Drop is a request that throws (its           *)
(* transaction rolls back) or whose process stops before the commit.       *)
(*                                                                         *)
(* Abstractions: one store; a line is one unit of one product; prices do   *)
(* not change; at most one coupon, entered by code; who is logged in       *)
(* matters only through the role of the status endpoint.                   *)
(***************************************************************************)
EXTENDS Integers, FiniteSets, FiniteSetsExt

CONSTANTS
    Order,          \* order ids; each is the checkout that may create it
    Slot,           \* concurrent requests on existing orders
    Line,           \* item rows of an order
    Product,        \* products of the store
    Key,            \* Idempotency-Key header values
    None,           \* no row, no request, no product, no key
    Price,          \* product.pricePaise
    InitialStock,   \* inventory.quantity before the first order
    Carts,          \* the normalised carts customers send
    GrandTotal,     \* quote.invoice.grandTotalPaise of <<cart, with coupon>>
    CouponLimit,    \* coupon.totalUsageLimit
    Endpoints,      \* the endpoints that are called in this instance
    Substitutable,  \* the orders whose lines the store may substitute in it
    StatusTargets,  \* the statuses asked of the status endpoint
    StatusRoles,    \* the roles that call it
    StockCap,       \* bound: no cancellation is read above this stock
    TotalCap        \* bound: no substitution is read outside this total

OrderStatus == {"PENDING", "PAYMENT_PENDING", "PAYMENT_FAILED", "CONFIRMED",
                "PICKING", "PACKED", "RIDER_ASSIGNED", "OUT_FOR_DELIVERY",
                "DELIVERED", "CANCELLED"}
PaymentStatus == {"CREATED", "CAPTURED", "FAILED", "PENDING_COD",
                  "REFUND_PENDING"}
Method == {"COD", "ONLINE"}
RedemptionStatus == {"NONE", "RESERVED", "REDEEMED", "RELEASED"}
Operation == {"capture", "fail", "cancel", "forceCancel", "substitute",
              "reassign", "status"}
OrderLines == [Line -> Product \cup {None}]

OrderRow == [status : OrderStatus, total : Int, lines : OrderLines,
             key : Key \cup {None}]
PaymentRow == [method : Method, status : PaymentStatus, amount : Nat]
QuoteRow == [cart : Carts, method : Method, coupon : BOOLEAN,
             key : Key \cup {None}]
Snapshot == [status : OrderStatus, total : Int, lines : OrderLines,
             pay : PaymentStatus]
Request == [op : Operation, phase : {"read", "checked"}, order : Order,
            seen : Snapshot, next : OrderStatus \cup {None},
            line : Line \cup {None}, to : Product \cup {None}]

ASSUME LifecycleAssumption ==
    /\ IsFiniteSet(Line) /\ IsFiniteSet(Order)
    /\ None \notin Order \cup Product \cup Key \cup Slot \cup OrderRow
    /\ Price \in [Product -> Nat]
    /\ InitialStock \in [Product -> Nat]
    /\ Carts \subseteq OrderLines
    /\ \A cart \in Carts : \E l \in Line : cart[l] # None
    /\ GrandTotal \in [Carts \X BOOLEAN -> Nat]
    /\ CouponLimit \in Nat
    /\ Endpoints \subseteq Operation \ {"status", "substitute"}
    /\ Substitutable \subseteq Order
    /\ StatusTargets \subseteq OrderStatus
    /\ StatusRoles \subseteq {"ADMIN", "STORE_OWNER"}
    /\ StockCap \in Nat /\ TotalCap \in Nat

VARIABLES
    stock,       \* stock[p]: inventory.quantity
    order,       \* order[o]: the Order row, None before checkout commits
    payment,     \* payment[o]: its Payment row
    refunded,    \* refunded[o]: total of its non-FAILED Refund rows
    redemption,  \* redemption[o]: status of its CouponRedemption row
    ledger,      \* ledger[o][p]: sum of its InventoryLedger quantityDelta
    quote,       \* quote[o]: a checkout between quote() and its transaction
    request      \* request[s]: a request between its reads and its commit

rows == <<stock, order, payment, refunded, redemption, ledger>>
vars == <<stock, order, payment, refunded, redemption, ledger, quote, request>>

TypeOK ==
    /\ stock \in [Product -> Nat]
    /\ order \in [Order -> OrderRow \cup {None}]
    /\ payment \in [Order -> PaymentRow \cup {None}]
    /\ refunded \in [Order -> Nat]
    /\ redemption \in [Order -> RedemptionStatus]
    /\ ledger \in [Order -> [Product -> Int]]
    /\ quote \in [Order -> QuoteRow \cup {None}]
    /\ request \in [Slot -> Request \cup {None}]

Init ==
    /\ stock = InitialStock
    /\ order = [o \in Order |-> None]
    /\ payment = [o \in Order |-> None]
    /\ refunded = [o \in Order |-> 0]
    /\ redemption = [o \in Order |-> "NONE"]
    /\ ledger = [o \in Order |-> [p \in Product |-> 0]]
    /\ quote = [o \in Order |-> None]
    /\ request = [s \in Slot |-> None]

-----------------------------------------------------------------------------
(* Lines and inventory rows *)

Units(lines, p) == Cardinality({l \in Line : lines[l] = p})

\* A mutant: the conditional decrement is a plain decrement.
HasStockUnchecked(lines) == \A p \in Product : Units(lines, p) >= 0

\* placeOrder's `quantity: { gte: item.quantity }`
HasStock(lines) == \A p \in Product : stock[p] >= Units(lines, p)

\* A cancellation restores the items it read.  forceCancel skips it when the
\* order it read was PAYMENT_FAILED.
RestoresStock(r) == r.op = "forceCancel" => r.seen.status # "PAYMENT_FAILED"

Restored(r, p) == IF RestoresStock(r) THEN Units(r.seen.lines, p) ELSE 0

\* A mutant: the ledger row is written even when nothing is restored.
LedgerDeltaAlways(r, p) == Units(r.seen.lines, p)

\* quantityDelta of the ORDER_CANCEL_RESTORE row a cancellation writes.
LedgerDelta(r, p) == Restored(r, p)

\* The inventory rows r's transaction updates first, and keeps locked.
LockedRows(r) == {p \in Product : Restored(r, p) > 0}

\* No transaction that is past its inventory updates holds one of `products`.
Unlocked(products, slots) ==
    \A t \in slots : request[t] # None /\ request[t].phase = "checked"
                       => LockedRows(request[t]) \cap products = {}

-----------------------------------------------------------------------------
(* Checkout *)

CouponUses == {o \in Order : redemption[o] \in {"RESERVED", "REDEEMED"}}
CouponAvailable == Cardinality(CouponUses) < CouponLimit
KeyFree(key) == key = None
                  \/ \A o \in Order : order[o] # None => order[o].key # key

\* quote(), and placeOrder up to its transaction: a known key returns the
\* order it created, a cart out of stock or an exhausted coupon is refused.
Quote(o, cart, method, coupon, key) ==
    /\ order[o] = None /\ quote[o] = None
    /\ KeyFree(key)
    /\ HasStock(cart)
    /\ coupon => CouponAvailable
    /\ quote' = [quote EXCEPT ![o] = [cart |-> cart, method |-> method,
                                      coupon |-> coupon, key |-> key]]
    /\ UNCHANGED <<rows, request>>

\* Mutants: the transaction trusts the quote's coupon, or its key lookup.
StillValidWithoutOffer(q) == HasStock(q.cart) /\ KeyFree(q.key)
StillValidWithoutKey(q) == (q.coupon => CouponAvailable) /\ HasStock(q.cart)

\* What the transaction of placeOrder checks again: the offer, the stock, and
\* the unique index on Order.idempotencyKey.
StillValid(q) ==
    /\ q.coupon => CouponAvailable
    /\ HasStock(q.cart)
    /\ KeyFree(q.key)

PlaceOrder(o) ==
    /\ quote[o] # None
    /\ StillValid(quote[o])
    /\ Unlocked({p \in Product : Units(quote[o].cart, p) > 0}, Slot)
    /\ LET q == quote[o]
           cod == q.method = "COD"
           total == GrandTotal[<<q.cart, q.coupon>>]
       IN /\ stock' = [p \in Product |-> stock[p] - Units(q.cart, p)]
          /\ ledger' = [ledger EXCEPT ![o] =
                           [p \in Product |-> 0 - Units(q.cart, p)]]
          /\ order' = [order EXCEPT ![o] =
                          [status |-> IF cod THEN "CONFIRMED"
                                             ELSE "PAYMENT_PENDING",
                           total |-> total, lines |-> q.cart, key |-> q.key]]
          /\ payment' = [payment EXCEPT ![o] =
                            [method |-> q.method,
                             status |-> IF cod THEN "PENDING_COD" ELSE "CREATED",
                             amount |-> total]]
          /\ redemption' = [redemption EXCEPT ![o] =
                               IF ~q.coupon THEN "NONE"
                               ELSE IF cod THEN "REDEEMED" ELSE "RESERVED"]
    /\ quote' = [quote EXCEPT ![o] = None]
    /\ UNCHANGED <<refunded, request>>

\* The checkout throws (409, 400) or its process stops.
DropQuote(o) ==
    /\ quote[o] # None
    /\ quote' = [quote EXCEPT ![o] = None]
    /\ UNCHANGED <<rows, request>>

-----------------------------------------------------------------------------
(* Requests on an existing order: what each handler reads and requires *)

\* Mutants: one of the two closed statuses is forgotten.
TerminalWithoutDelivered == {"CANCELLED"}
TerminalWithoutCancelled == {"DELIVERED"}

Terminal == {"DELIVERED", "CANCELLED"}

\* A mutant: an order can be cancelled again.
CancellableAgain == {"PENDING", "PAYMENT_PENDING", "CONFIRMED", "CANCELLED"}

Cancellable == {"PENDING", "PAYMENT_PENDING", "CONFIRMED"}

Editable == {"PENDING", "PAYMENT_PENDING", "CONFIRMED", "PICKING"}

ORDER_TRANSITIONS ==
    [PENDING |-> {"CONFIRMED", "CANCELLED"},
     PAYMENT_PENDING |-> {"CONFIRMED", "PAYMENT_FAILED", "CANCELLED"},
     PAYMENT_FAILED |-> {"PAYMENT_PENDING", "CANCELLED"},
     CONFIRMED |-> {"PICKING", "PACKED", "RIDER_ASSIGNED", "CANCELLED"},
     PICKING |-> {"PACKED", "RIDER_ASSIGNED", "CANCELLED"},
     PACKED |-> {"RIDER_ASSIGNED", "CANCELLED"},
     RIDER_ASSIGNED |-> {"OUT_FOR_DELIVERY", "CANCELLED"},
     OUT_FOR_DELIVERY |-> {"DELIVERED", "CANCELLED"},
     DELIVERED |-> {},
     CANCELLED |-> {}]

STORE_OWNER_TRANSITIONS ==
    [st \in OrderStatus |->
        CASE st = "PENDING" -> {"CONFIRMED", "CANCELLED"}
          [] st = "PAYMENT_PENDING" -> {"CONFIRMED", "CANCELLED"}
          [] st = "CONFIRMED" -> {"PICKING", "PACKED", "CANCELLED"}
          [] st = "PICKING" -> {"PACKED", "CANCELLED"}
          [] st = "PACKED" -> {"CANCELLED"}
          [] OTHER -> {}]

\* updateStatus: an unchanged status returns early, and the rest of the checks
\* are the two tables; an admin is bound by the first alone.
StatusAllowed(role, current, next) ==
    /\ next # current
    /\ next \in ORDER_TRANSITIONS[current]
    /\ role = "STORE_OWNER" => next \in STORE_OWNER_TRANSITIONS[current]

\* The test captureSimulatedPayment and failSimulatedPayment share.  They read
\* the order before the payment; CREATED is never entered again, so what passes
\* on two reads passes on both rows as they were at the first.
AwaitingCapture(o) ==
    /\ payment[o].method = "ONLINE"
    /\ payment[o].status = "CREATED"
    /\ order[o].status = "PAYMENT_PENDING"

Seen(o) == [status |-> order[o].status, total |-> order[o].total,
            lines |-> order[o].lines, pay |-> payment[o].status]

Begin(s, op, o, next, line, to) ==
    /\ request[s] = None
    /\ request' = [request EXCEPT ![s] =
                      [op |-> op, phase |-> "read", order |-> o,
                       seen |-> Seen(o), next |-> next, line |-> line,
                       to |-> to]]
    /\ UNCHANGED <<rows, quote>>

ReadCapture(s, o) ==
    /\ "capture" \in Endpoints /\ order[o] # None
    /\ AwaitingCapture(o)
    /\ payment[o].amount = order[o].total
    /\ Begin(s, "capture", o, None, None, None)

ReadFail(s, o) ==
    /\ "fail" \in Endpoints /\ order[o] # None
    /\ AwaitingCapture(o)
    /\ Begin(s, "fail", o, None, None, None)

UnderStockCap == \A p \in Product : stock[p] <= StockCap

\* What the two cancellations and the reassignment require of the order.
MayCancel(o) == order[o] # None /\ order[o].status \in Cancellable
MayForceCancel(o) == order[o] # None /\ order[o].status \notin Terminal
MayReassign(o) == order[o] # None /\ order[o].status \notin Terminal

ReadCancel(s, o) ==
    /\ "cancel" \in Endpoints
    /\ MayCancel(o)
    /\ UnderStockCap
    /\ Begin(s, "cancel", o, None, None, None)

ReadForceCancel(s, o) ==
    /\ "forceCancel" \in Endpoints
    /\ MayForceCancel(o)
    /\ UnderStockCap
    /\ Begin(s, "forceCancel", o, None, None, None)

ReadStatus(s, o) ==
    /\ order[o] # None
    /\ \E role \in StatusRoles, next \in StatusTargets :
          /\ StatusAllowed(role, order[o].status, next)
          /\ Begin(s, "status", o, next, None, None)

ReadSubstitute(s, o) ==
    /\ o \in Substitutable /\ order[o] # None
    /\ order[o].status \in Editable
    /\ order[o].total \in (0 - TotalCap)..TotalCap
    /\ \E line \in Line, to \in Product :
          /\ order[o].lines[line] # None
          /\ stock[to] >= 1
          /\ Begin(s, "substitute", o, None, line, to)

\* reassignRider reads the order inside its transaction, but without a lock.
\* Which rider takes the order, and whether one is free, is Dispatch's concern.
ReadReassign(s, o) ==
    /\ "reassign" \in Endpoints
    /\ MayReassign(o)
    /\ Begin(s, "reassign", o, None, None, None)

-----------------------------------------------------------------------------
(* Requests on an existing order: what each transaction writes *)

At(s, op) == request[s] # None /\ request[s].op = op

Finish(s) == request' = [request EXCEPT ![s] = None] /\ UNCHANGED quote

SetStatus(o, status) == order' = [order EXCEPT ![o].status = status]

\* couponRedemption.updateMany where status RESERVED
Redeem(was) == IF was = "RESERVED" THEN "REDEEMED" ELSE was

\* releaseCouponRedemption
Release(was) == IF was \in {"RESERVED", "REDEEMED"} THEN "RELEASED" ELSE was

CommitCapture(s) ==
    /\ At(s, "capture")
    /\ LET o == request[s].order
       IN /\ payment' = [payment EXCEPT ![o].status = "CAPTURED"]
          /\ SetStatus(o, "CONFIRMED")
          /\ redemption' = [redemption EXCEPT ![o] = Redeem(@)]
    /\ Finish(s)
    /\ UNCHANGED <<stock, refunded, ledger>>

\* The reserved stock stays reserved: failSimulatedPayment moves no inventory.
CommitFail(s) ==
    /\ At(s, "fail")
    /\ LET o == request[s].order
       IN /\ payment' = [payment EXCEPT ![o].status = "FAILED"]
          /\ SetStatus(o, "PAYMENT_FAILED")
          /\ redemption' = [redemption EXCEPT ![o] =
                               IF @ = "RESERVED" THEN "RELEASED" ELSE @]
    /\ Finish(s)
    /\ UNCHANGED <<stock, refunded, ledger>>

CommitStatus(s) ==
    /\ At(s, "status")
    /\ LET r == request[s]
       IN /\ SetStatus(r.order, r.next)
          /\ redemption' = IF r.next = "CANCELLED"
                           THEN [redemption EXCEPT ![r.order] = Release(@)]
                           ELSE redemption
    /\ Finish(s)
    /\ UNCHANGED <<stock, payment, refunded, ledger>>

CommitReassign(s) ==
    /\ At(s, "reassign")
    /\ IF request[s].seen.status = "RIDER_ASSIGNED"
       THEN order' = order
       ELSE SetStatus(request[s].order, "RIDER_ASSIGNED")
    /\ Finish(s)
    /\ UNCHANGED <<stock, payment, refunded, redemption, ledger>>

\* The line's product and the total are written from what was read: the total
\* is the one seen plus the difference in price.  No inventory moves, and the
\* Payment row keeps its amount.
CommitSubstitute(s) ==
    /\ At(s, "substitute")
    /\ LET r == request[s]
           delta == Price[r.to] - Price[r.seen.lines[r.line]]
       IN order' = [order EXCEPT ![r.order].lines[r.line] = r.to,
                                 ![r.order].total = r.seen.total + delta]
    /\ Finish(s)
    /\ UNCHANGED <<stock, payment, refunded, redemption, ledger>>

-----------------------------------------------------------------------------
(* Cancellation and refund.  The transaction of a cancellation increments   *)
(* inventory (and holds those row locks), then createRefundForPayment reads *)
(* the payment and its refunds, then everything is written.  Another        *)
(* transaction can commit between that read and the writes, unless it needs *)
(* one of the locked rows.                                                  *)

IsCancel(s) == At(s, "cancel") \/ At(s, "forceCancel")

\* A mutant: no refund is asked for.
NeverRefund(r) == r.seen.pay = "NONE"

NeedsRefund(r) == r.seen.pay = "CAPTURED"

\* A mutant: earlier refunds are not counted.
RefundRoomIgnoringOthers(o, amount) ==
    refunded[o] >= 0 /\ amount <= payment[o].amount

\* createRefundForPayment's checks.  Its last one, a second refund of the full
\* amount, is implied: an existing full refund leaves no room for another.
RefundRoom(o, amount) == refunded[o] + amount <= payment[o].amount

RefundAllowed(o, amount) ==
    /\ payment[o].status \in {"CAPTURED", "REFUND_PENDING"}
    /\ amount >= 1
    /\ RefundRoom(o, amount)

CheckRefund(s) ==
    /\ IsCancel(s)
    /\ request[s].phase = "read"
    /\ NeedsRefund(request[s])
    /\ Unlocked(LockedRows(request[s]), Slot \ {s})
    /\ RefundAllowed(request[s].order, request[s].seen.total)
    /\ request' = [request EXCEPT ![s].phase = "checked"]
    /\ UNCHANGED <<rows, quote>>

CommitCancel(s) ==
    /\ IsCancel(s)
    /\ NeedsRefund(request[s]) => request[s].phase = "checked"
    /\ Unlocked(LockedRows(request[s]), Slot \ {s})
    /\ LET r == request[s]
           o == r.order
       IN /\ stock' = [p \in Product |-> stock[p] + Restored(r, p)]
          /\ ledger' = [ledger EXCEPT ![o] =
                           [p \in Product |-> ledger[o][p] + LedgerDelta(r, p)]]
          /\ IF NeedsRefund(r)
             THEN /\ refunded' = [refunded EXCEPT ![o] = @ + r.seen.total]
                  /\ payment' = [payment EXCEPT ![o].status = "REFUND_PENDING"]
             ELSE UNCHANGED <<refunded, payment>>
          /\ SetStatus(o, "CANCELLED")
          /\ redemption' = [redemption EXCEPT ![o] = Release(@)]
    /\ Finish(s)

\* The handler throws, or its process stops: nothing it did is kept.
Drop(s) ==
    /\ request[s] # None
    /\ Finish(s)
    /\ UNCHANGED rows

Checkout(o) ==
    \/ \E cart \in Carts, method \in Method, coupon \in BOOLEAN,
          key \in Key \cup {None} : Quote(o, cart, method, coupon, key)
    \/ PlaceOrder(o)
    \/ DropQuote(o)

Read(s, o) ==
    \/ ReadCapture(s, o) \/ ReadFail(s, o)
    \/ ReadCancel(s, o) \/ ReadForceCancel(s, o)
    \/ ReadStatus(s, o) \/ ReadSubstitute(s, o) \/ ReadReassign(s, o)

Commit(s) ==
    \/ CommitCapture(s) \/ CommitFail(s)
    \/ CheckRefund(s) \/ CommitCancel(s)
    \/ CommitStatus(s) \/ CommitSubstitute(s) \/ CommitReassign(s)

Next ==
    \/ \E o \in Order : Checkout(o)
    \/ \E s \in Slot, o \in Order : Read(s, o)
    \/ \E s \in Slot : Commit(s) \/ Drop(s)

Spec == Init /\ [][Next]_vars

-----------------------------------------------------------------------------
(* Properties under any interleaving *)

\* Inventory is what the ledger says it is: every change of a quantity has its
\* ledger row in the same transaction, and no order takes a unit that is not
\* there however quotes, reservations and cancellations interleave (TypeOK has
\* stock >= 0).
StockMatchesLedger ==
    \A p \in Product :
        stock[p] = InitialStock[p]
                     + MapThenSumSet(LAMBDA o : ledger[o][p], Order)

\* A limited coupon is never held by more orders than its limit, although the
\* quote counts its uses outside the transaction and cancelled, failed and
\* late-captured orders give uses back or keep them.
CouponUsesBounded == Cardinality(CouponUses) <= CouponLimit

\* A retried checkout never makes a second order under its Idempotency-Key,
\* even when both attempts looked the key up before either committed.
IdempotencyKeyUnique ==
    \A o1, o2 \in Order :
        o1 # o2 /\ order[o1] # None /\ order[o2] # None /\ order[o1].key # None
            => order[o1].key # order[o2].key

\* A closed order no longer holds a use of its coupon: whichever of the four
\* handlers cancelled it, and whatever was committed in between.
CancelledHoldsNoCoupon ==
    \A o \in Order : order[o] # None /\ order[o].status = "CANCELLED"
                        => o \notin CouponUses

\* Both: the uses of the coupon are held by orders that may still be delivered
\* or were, and by no more of them than it allows (placeOrder's offer check,
\* releaseCouponRedemption).
CouponUsesKept == CouponUsesBounded /\ CancelledHoldsNoCoupon


-----------------------------------------------------------------------------
(* Properties that need the handlers of one order not to overlap, some of    *)
(* the endpoints not to be called, or an order's lines to stay as placed     *)

\* An order whose lines are not substituted.
Fixed == Order \ Substitutable

\* The refunds of a payment never exceed what was paid: two cancellations of an
\* order with the same lines need the same inventory rows, so that no two are
\* past the check of createRefundForPayment at once.
RefundsBounded ==
    \A o \in Fixed : order[o] # None => refunded[o] <= payment[o].amount

\* What the tests of orders.spec.ts call a terminal state.
Closed == {"DELIVERED", "CANCELLED"}

\* DELIVERED and CANCELLED are final.
TerminalImmutable ==
    [][\A o \in Order :
          order[o] # None /\ order[o].status \in Closed
              => order'[o].status = order[o].status]_vars

\* An order that may still be delivered has its goods reserved, exactly once.
LiveOrderHoldsStock ==
    \A o \in Fixed : order[o] # None /\ order[o].status \notin Closed
        => \A p \in Product : ledger[o][p] = 0 - Units(order[o].lines, p)

\* No order gives back more than it took: the stock shown to customers is not
\* inflated by a second restore.
StockNotRestoredTwice ==
    \A o \in Fixed, p \in Product : ledger[o][p] <= 0

\* Both: an order's units leave the shelf once, and come back at most once and
\* only when it is closed (placeOrder, cancelOwnOrder, forceCancel).
StockFollowsOrder == LiveOrderHoldsStock /\ StockNotRestoredTwice

\* A cancelled order has given its stock back.
CancelledStockRestored ==
    \A o \in Fixed : order[o] # None /\ order[o].status = "CANCELLED"
        => \A p \in Product : ledger[o][p] = 0

\* The money captured for a cancelled order is refunded in full.
CancelledIsRefunded ==
    \A o \in Fixed :
        (/\ order[o] # None /\ order[o].status = "CANCELLED"
         /\ payment[o].status \in {"CAPTURED", "REFUND_PENDING"})
            => refunded[o] = payment[o].amount
=============================================================================
