# Formal model of the Aagam commerce system

TLA+ specifications of the order, payment, promotion, dispatch, delivery,
notification and tracking logic of the API gateway (`src/apps/api-gateway`), of
the phone's tracking queues (`src/apps/mobile-partners`) and of what the web
portals and apps offer their users; their TLC model checks and TLAPS proofs. The
reference is the code: `PROJECT.json` maps every definition to the lines it
models, and lists the runs, the theorems, the hazards and the findings.

## 1. The system

A NestJS gateway keeps all state in Postgres through Prisma. There is no message
broker and no in-memory order state: components interact through the rows they
share. What makes it hard is how a handler reaches its rows:

* `placeOrder`, and the handlers of `dispatch-assignment`, `delivery-workflow`
  and `delivery-operations`, run whole in a SERIALIZABLE transaction. Such a
  handler is one atomic step.
* The handlers of `order.service`, `payments.service`, `promotions.service`,
  `store-fulfillment`, `rider-portal` and `tracking` read and check with plain
  queries, then open a READ COMMITTED transaction (or none) that writes by id.
  Between the two anything may commit.
* The notification worker is a loop of single statements, in every API process.
* Clients poll: a screen offers calls by rows that may be seconds old.

| Component | State | Operations | Talks to | What is hard |
| --- | --- | --- | --- | --- |
| Checkout | Order, OrderItem, idempotency key | quote, placeOrder | inventory, coupons, payments | stale quotes, retries, last unit, last coupon use |
| Payments, refunds | Payment, Refund | capture, fail, createRefundForPayment | order, coupon redemption | check outside the transaction, sum of refunds |
| Orders | Order, Inventory, InventoryLedger | status endpoint, cancel, force cancel, reassign | payments, coupons, riders | several handlers of one order, none aware of the delivery job |
| Store fulfilment | OrderItem, itemsSnapshot | mark unavailable, substitute, ready for pickup | orders, delivery jobs | totals written from a snapshot, two-transaction hand-over |
| Coupons, promotions | Coupon, CouponRedemption, PromotionCampaign | create, update, archive, evaluate, list, redeem, release | checkout, shop pages | validate-then-write, four computations of one rule |
| Delivery jobs, workflow | DeliveryJob, DeliveryEvent | create, transition, backfill | order, rider | two rows that mirror each other, partial unique indexes |
| Dispatch offers | DispatchAssignment | offer, accept, reject, expire | jobs, riders, worker | late answers, four places that expire an offer |
| Delivery operations | PickupProof, PickupChallenge, DeliveryOperation, CodLedger, DeliveryFailureDecision | pickup code, OTP, COD, complete, fail, resolve, return, inspect | workflow, refunds | long sequences of legal calls, retries with keys |
| Rider portal, tracking | RiderProfile.status, RiderPickupTask, RiderLocationPing | online/offline, pickup task, pings, reads | dispatch | check-then-write against a running delivery |
| Rider desk | RiderBreak, RiderShift, RiderEarning, RiderSupportTicket with its messages, bank details, documents, approval | start/end break, create shift, book and pay earnings, message, settle, review | deliveries | a check before a create, two writes of one handler |
| Notification worker | ASSIGNMENT_EXPIRED events | reconcile expired offers, process outbox | offers, outbox | crashes between statements, two workers |
| Outbox, delivery of notifications | OutboxEvent, Notification, NotificationRecipient, NotificationDelivery, PushSubscription | enqueue, claim, materialize, push, mark, read | worker, web push | lease recovery, at-least-once, late owners |
| Tracking queue of the partner app | queues of pings in the app and in the Android service | capture, flush, start, stop | tracking endpoint | bounded queues changed across awaits, app death |
| Portals and apps | rows as last fetched | buttons, forms, counters | every endpoint above | their conditions drift from the server's guards |
| The rest (auth, stores, products, geo, upload, analytics, post-delivery, worker-service, gateway of broadcasts, packages) | single rows or none | CRUD, I/O, rendering | - | not modelled; `PROJECT.json` gives the reason for each |

What makes each correct: stock equals what the ledger explains and is held by an
order exactly while it lives; a closed order keeps no coupon use and owes no
refund; refunds never exceed a payment; an idempotency key makes one order; an
order is charged by the rules in force; a job has one open offer and a rider one
unfinished delivery; order, job, assignment, rider and parcel agree; an answered
offer stays answered, an unanswered one is expired and reported; cash a rider
collects is accounted for coin by coin; a message is pushed no more often than it
was claimed and is settled in the end; a ping is stored once and in order; a
screen just loaded offers what the server takes, and no delivery is out of
everybody's reach.

## 2. Modules

| Module | Role |
| --- | --- |
| `OrderLifecycle` | checkout, payment, cancellation, refund, substitution, status endpoint |
| `OrderScreens` | the order pages of customer, store and administrator; extends `OrderLifecycle` |
| `OrderLifecycleProofs` | its types, stock account, coupon bound, unique keys, bound on refunds; its contract while its own requests do not overlap; its pages agree with the server |
| `Dispatch` | delivery jobs, offers, the delivery state machine, failures, the expiry worker, rider status |
| `OfferBook` | the abstract specification `Dispatch` implements: where a job is, and who holds it |
| `DispatchScreens` | dispatch board, rider portal, rider dashboard, customer's tracking; extends `Dispatch` |
| `DispatchProofs` | types, truth of the expiry log, finality of answers; one open offer, one delivery, agreement of assignment and job; order, rider and parcel follow the job; `Dispatch` implements `OfferBook`; its screens agree with it |
| `DeliveryProof` | one delivery's codes, cash, failures, resolution, return, inspection |
| `DeliveryScreens` | the portals and the partner app during a delivery; extends `DeliveryProof` |
| `DeliveryProofProofs` | types, cash, refund, attempts, closed ledgers; the screens agree with the server |
| `Promotions` | coupons and campaigns, their editing, the discount of quote and checkout |
| `PromotionScreens` | promotions, shop, deals and checkout pages; extends `Promotions` |
| `PromotionsProofs` | whole rows, fair charges, archived coupons; its pages agree with the server |
| `Outbox` | the transactional outbox, its workers, pushes, recipients, subscriptions |
| `NotificationScreens` | the inbox with its badge and the settings page; extends `Outbox` |
| `OutboxProofs` | types of the outbox's rows, bounds on claims, pushes and owners; `Outbox` implements its contract; settings, badge and inbox follow the rows |
| `NotificationContract` | the abstract specification `Outbox` implements |
| `RiderTracking` | the phone's two ping queues, the network and the endpoint that stores pings |
| `RiderTrackingProofs` | types, pings stored once and kept until answered |
| `RiderDesk` | breaks, shifts, earnings, support tickets, bank details, documents, approval |
| `RiderDeskScreens` | the rider's pages of these; extends `RiderDesk` |
| `RiderDeskProofs` | types, single bookings, messages heard; the rider's pages show what there is |
| `SumLemmas` | the laws of a sum over a finite set |
| `MC*` | constants and symmetry for TLC |

The components overlap on purpose in a row, and each abstracts the others:
`OrderLifecycle` has the handlers that race over one order, `Dispatch` the
handlers that race with a delivery; in the first a reassignment is only its write
to the status, in the second money and stock are left out. `DeliveryProof` takes
the way of the job to its rider from `Dispatch` in two actions (`Assign`,
`Unassign`) and adds the codes, keys and cash on which `Dispatch`'s hand-over,
completion and resolution depend.

### OrderLifecycle, OrderScreens

`stock`, `order`, `payment`, `refunded`, `redemption`, `ledger` are the rows of
Inventory, Order with its OrderItems, Payment, Refund (their sum),
CouponRedemption and InventoryLedger (the sum of its deltas per order). `quote`
is a checkout between `quote()` and its transaction. `request[s]` is a handler
of an existing order between its reads and its commit, with the rows it saw in
`seen`: `Read*` is the code up to the transaction, `Commit*` the transaction,
`Drop` an exception, a rollback or a crash in between. `captureSimulatedPayment`
is `ReadCapture`, `CommitCapture`; `failSimulatedPayment` is `ReadFail`,
`CommitFail`; `cancelMyOrder` and `forceCancel` are `ReadCancel`,
`ReadForceCancel`, `CheckRefund`, `CommitCancel`; `updateStatus` is `ReadStatus`,
`CommitStatus`; `substituteItem` is `ReadSubstitute`, `CommitSubstitute`;
`reassignRider` is `ReadReassign`, `CommitReassign`; `placeOrder` is `Quote`,
`PlaceOrder`, `DropQuote`.

A cancellation has one step more, because its transaction is not atomic either:
it updates the inventory rows of the items it read and holds their locks, then
`createRefundForPayment` reads the payment and its refunds, then the refund is
written. `CheckRefund` is that read. `LockedRows` and `Unlocked` are Postgres row
locks: a transaction that needs a locked inventory row waits.

Abstractions: one store; one unit per line; fixed prices; one coupon with a
usage limit; the total of a cart is an input (`GrandTotal`): how discounts are
computed is `Promotions`' subject. `Substitutable` are the orders whose lines an
instance lets the store substitute; the others are `Fixed`, and the properties that a
substitution breaks (section 3) speak of them. `OrderScreens` says, per page, which calls
the order's row makes it offer, and what the customer's timeline shows.

### Dispatch, OfferBook, DispatchScreens

`order`, `job`, `assignment`, `riderStatus` are the rows of Order (status and
rider), DeliveryJob (with the rider of its PickupProof and the decided action of
its DeliveryFailureDecision), DispatchAssignment and RiderProfile.status.
`expiryEvent` is the set of assignments with an ASSIGNMENT_EXPIRED event,
`worker[w]` the batch of a notification worker, `request` the one
check-then-write handler in flight.

`Move` is `transitionWithinTransaction`: job and order change together, guarded
by `TRANSITIONS` and by the partial unique index on active riders
(`RiderMayHold`). `Offer`, `Accept`, `Reject` are the three handlers of
`dispatch-assignment`; the index on open offers is `OpenOffer`. An offer is late
when `Tick` has passed its `expiresAt`; it is expired by the next offer of its
job, by the rider's own screens (`ExpireByRead`) or by the worker, whose
`reconcileExpiredAssignments` is one action per statement (`WorkerFind`,
`WorkerExpire`, `WorkerRecord`, `WorkerFindMissing`, `WorkerBackfill`,
`WorkerDone`, and `WorkerCrash` anywhere). An accept that comes late throws and
rolls back the EXPIRED it wrote: it changes nothing and has no action.
`Endpoints` chooses which check-then-write handlers of order, rider and tracking
an instance calls; with `{}` only `readyForPickup`'s PACKED remains.

`OfferBook` is dispatch without rows of offers, workers, orders and statuses: a page
per job says that it is nowhere yet, in the queue, on offer to one rider (in time or
late), in one rider's hands, or closed. `Page` reads that off `Dispatch`'s rows: a
waiting job is on offer if it has an OFFERED row, a job in `ACTIVE_JOB_STATUSES` is held
by its `currentRiderId`. Its steps are what may happen to the page: an offer is
published over none or over a late one, it is taken up in time or not at all, a job
changes hands only through the queue, and nothing leaves "closed". `KeepsBook` is the
refinement `Book!BookSpec`.

`DispatchScreens` holds what the board, the rider's portal (home, offers,
history, performance), the rider's dashboard and the customer's tracking page
show and offer. What the server takes is named by the guards the actions are built of:
`MayOffer`, `MayAccept`, `MayMove` and `StepsOf` of `Dispatch`. The other screens modules
do the same with the guards of theirs.

### DeliveryProof, DeliveryScreens

One DeliveryJob with everything that hangs on it: `task` (RiderPickupTask),
`challenge`, `pickupProof`, `otp` with `guesses` per issue, `deliveryProof`,
`decision`, the `operation` recorded under each idempotency key, `ledger` and
`deposit` (CodLedger and its DEPOSITED entries), `inspected`, `restored` (units
written back), `payment`. Each handler of `delivery-operations.service.ts` is one
action under its own name; a wrong code is answered with an error but committed
(`rejectOtp`, `verifyPickupChallenge(FALSE)`), every other error changes nothing
and is no action. `forceCancel` is the administrator's cancellation behind the
delivery's back, one step here; its own races are `OrderLifecycle`'s.

`DeliveryScreens` gives each panel as the calls it offers and `Taken(call)` as
whether the server would take a call. Panels whose conditions the code matches to
the server's are in `Matched`.

### Promotions, PromotionScreens

`coupon`, `campaign`, `order` are rows; `edit[a]` is an update between its
validation and its write; `checkout[o]` the quote a client remembers; `now` the
clock. `calculateDiscount` is a set of possible offers, because ties among
automatic coupons are broken by database order. The quote's store is chosen by
`resolveStore` over a table of distances and shelves. `PromotionScreens` holds the
editors (form, validation in the browser, request sent), the statuses shown, the
banners with their targets, the deals and checkout pages.

### Outbox, NotificationContract, NotificationScreens

Every statement of the worker's loop is an action, so two workers, a crash, a
lease that expires under a slow worker, a user who reads or a device that signs
in elsewhere may come between any two. `KeepsPromise` is the refinement
`Promise == INSTANCE NotificationContract WITH ...`: PENDING and FAILED are
"waiting", PROCESSING is "taken", PROCESSED is "done"; the audience of an event
is its notification's recipients, and a recipient has been told when a row says
it was sent or opened. The contract allows a late owner, after an expired lease, to
give back or finish what another has.

`NotificationScreens` reads the same rows as the inbox and the settings page.
`recipient` is indexed by `Message`: the outbox's events and the rows of the order
history an inbox falls back on, which get a recipient row when they are first read.
A recipient who wants no in-app messages is `hidden`; the code keeps his id in the
notification's data. `PagesFollowServer`: the setting a page shows is the one the worker
obeys when it stores and when it pushes, the badge rises only with a new message though
three writers race over the row's status, and what the inbox lists stays listed once.
Two things the code does that no property states: a hidden recipient without a device
is marked SENT though nobody can see the message, and the inbox's push switch also turns
in-app messages on.

### RiderTracking

A phone is "js" (`RiderTrackingManager`: queue in memory mirrored to
AsyncStorage) or "native" (`RiderTrackingService.kt`: queue in preferences, which
outlives the app). A ping is captured, stored, sent; request and answer may each
be lost, and a request the phone gave up may arrive later (`late`). The server
accepts a ping of the rider's own active order with a larger sequence number.
`PingsKept` holds of the app's queue only until it has been full once: `flushQueue`
shifts the head after an await, in which an overflow may have removed it.

### RiderDesk, RiderDeskScreens

What the rider portal keeps beside deliveries, of one rider. The desks share no row but
the deliveries, so a behaviour is about one of them (`desk`). `request[s]` is a handler
between two of its statements: `startBreak` looks for a delivery, looks for an active
break and writes (three actions); `adminCreateShift` looks for an overlap and writes;
`adminCreateEarning` is stopped by the unique index alone; a support message is written,
and then the status that reopens its ticket (`CreateMessage`, `Reopen`). `Restart` loses
the requests in flight; `lost` are the messages whose second write it took. A row carries
the slot that wrote it (`by`), which is what `BookedOnce` needs to say that two clashing
rows come from two requests handled at once. `closedOver` is the number of messages
there were when an administrator last settled the ticket.

## 3. Runs

| Run | Instance | What it shows |
| --- | --- | --- |
| `OL_contention` | three checkouts, two units, one coupon use, one key, two requests in flight | no unit, use, key or refund is spent twice: `TypeOK` (stock never negative), `StockMatchesLedger`, `CouponUsesKept` (never more uses than the limit, none by a cancelled order), `IdempotencyKeyUnique`, `RefundsBounded` |
| `OL_serial` | two orders, the lines of one substitutable, two products, one request at a time, every endpoint and role, every status but CANCELLED | the contract the code keeps when handlers do not overlap: `StockFollowsOrder`, `CancelledIsRefunded`, `OrdersGoForward`; and `OrderScreensMatchServer` |
| `DS_dispatch` | two orders, two riders, four offers; dispatch and delivery handlers alone | `AllFollowJob` (order, accepted assignment, rider and parcel), `ScreensMatchServer`, `KeepsBook` (the refinement) |
| `DS_offers` | one order, one rider, two offers, two crashing workers, fair | `OneOpenOffer`, `ExpiryEventsAreTrue`, `AnswerIsFinal`, `OffersEnd` |
| `DS_endpoints` | two orders, one rider, one offer, all check-then-write endpoints | `TypeOK`, `RidersMatchJobs` (`AcceptedMatchesJob`, `OneActiveJobPerRider`) |
| `DP_cash` | two riders, four keys, price 2, two codes, two attempts each | `TypeOK`, `CashIsKept`, `LedgerIsFinal`, `RefundedOnce`, `AttemptsAreCounted`; `PanelsMatchServer` (`FreshOffersAreTaken`, `WorkIsCounted`, `NobodyIsStuck`) |
| `PR_offers` | a code coupon, an automatic one, a campaign, two administrators, three stores, two orders | `TypeOK`, `ChargedAsOffered`, `ArchivedCouponStays`, `PagesMatchServer` (`StatusesAreTrue`, `ShopKeepsPromises`, the editors, `DealsAgreeWithCheckout`) |
| `NT_lease` | one event for two users, two workers, a crash, an expired lease, failing pushes, fair | `TypeOK`, `ClaimsAreCounted`, `EventIsSettled` |
| `NT_users` | one event and one old history row, one user who reads, opens and changes settings, two workers; the workers are symmetric | `KeepsPromise` (the refinement), `PagesFollowServer` |
| `RT_pings` | three phones, two orders, two pings, one crash, one late request, fair | `TypeOK`, `PingsArriveOnce`, `NativeQueueDrains` |
| `RD_desk` | two requests at once at each desk, one delivery, shifts over three instants, three rows of a table | `TypeOK`, `BookedOnce`, `SettledMeansHeard`, `DeskPagesMatchServer` |
| `OLV_capture_cancel` | one order, capture and cancellation | expected violation of `TerminalImmutable` |

### The finding

`OLV_capture_cancel`: a capture that read before a cancellation commits after it:
CANCELLED becomes CONFIRMED, although a test says that CANCELLED is immutable.

### Other behaviour worth knowing

Each was met while modelling. The ones with a name in brackets are stated in the
modules as NOT properties; a run of the component with that property added shows
the counterexample.

*Orders, payments, stores.*
With two requests in flight a cancellation that read before a capture leaves the
captured money unrefunded (`CancelledIsRefunded` of `OL_serial` with two slots;
`payments.spec.ts:491`). Customer and administrator cancelling at once restore
the stock twice; the stock of an order whose payment failed is restored by nobody
(`StockFollowsOrder` with "fail" and "cancel" interleaved). A substitution between
two cancellations takes away the lock they share, and both refund in full. A
forced cancellation leaves the delivery job as it is; an offer of it can be
accepted, and the order is RIDER_ASSIGNED again (`ClosedOrderStays`). The status
endpoint's cancellation restores no stock and refunds nothing, and it is what the
store page's Reject and Cancel buttons call. The administrator's page offers every
status, and reassignment of closed orders. The store page lists PAYMENT_FAILED
orders under New. `itemsSnapshot` is an array when checkout writes it;
`snapshot()` takes an array for `{}`, so the first issue or substitution replaces
it. A `markItemUnavailable` racing `readyForPickup` packs an order with an open issue.

*Promotions.*
An update of a campaign writes the status it read: it brings back one archived
meanwhile (`ArchivedCampaignStays`). Two updates can leave a coupon restricted to
nothing (`ScopeIsWhole`). The administrator's pages call a row ended at
`endsAt < now`, checkout at `<=`. A quote takes a product without an inventory row
for in stock. Only twenty automatic coupons are looked at. A campaign whose coupon
was archived can be neither edited, paused nor published, only archived. A category
campaign leads from /shop to /shop. The checkout page keeps one idempotency key for
changed carts, lets an older quote's answer overwrite a newer one, does not look at
`inStock`, and applies a removed automatic coupon again.

*Dispatch and tracking.*
A ping checked before its delivery ended writes BUSY after it, and the rider gets
no more offers. An administrator's reassignment gives the order another rider but
not the job. A job the backfill creates from an order that names a rider can never
be offered, though the board has a form for it; one order whose job cannot be
created makes the whole board fail. The board shows an overdue offer as open until
somebody expires it. The web portal offers Accept to a rider who has a delivery;
the app does not. After a parcel is back in the store the customer is still shown a
rider on the way, and the app says "Order delivered!" of any STOPPED tracking.
`getTracking` reads the oldest 400 pings: with more, its latest one is old. Going
OFFLINE between an offer and its acceptance leaves an active rider the app does
not follow.

*Delivery operations.*
Cash a rider holds can no longer be handed in once the order was cancelled, or
once a variance was finalized (`HeldCashIsAccepted`). An inspected parcel whose
order is then cancelled is restored twice (`RestoredOnce`). A second rider who
comes for a parcel already handed over is stuck at the store: no code can be
issued, the store's confirmation returns the old proof, nothing can be failed
from there by the rider (`Stranded`, excepted from `NobodyIsStuck` in `PanelsMatchServer`). The checklist
one rider verified counts for the next. A resolution shown for one failure is
applied to a later one. The queue shows a hundred jobs, and captured COD jobs
never leave it. In the partner app: four of six failure reasons are unknown to the
server; failures are offered on the way to the store, where a rider's are
refused; the return is offered whatever was decided; a completion omits
`riderConfirmed` and is always refused (`AppGoesWrong` says what still works); the
store's settlement disappears after a partial one. In the web portals: a code is
offered without checklist, the checklist after the hand-over, completion of
unpaid deliveries, reassignment and cancellation while cash is held.
The performance page counts an offer as expired only when the worker has written its
event, and a failed delivery only while it is DELIVERY_FAILED and still his.

*The rider's desk.* Two `startBreak` at once leave two active breaks, and two
`adminCreateShift` a rider with two shifts at one time, of which the page shows one. A
message that dies between its two writes stays under a settled ticket. An approval of bank
details names no version of them.

*Notifications and the phone.*
An event recovered from a stale lock on its last attempt is FAILED for good and
reported nowhere. The head of the app's queue is never dropped when the server
refuses it for good: nothing behind it is sent (`AppQueueDrains`). A restarted app
numbers from the start and is refused as a duplicate (`NumbersGrow`). Pings queued
offline fail the server's jump check when they arrive at once. After a reassignment
the denied ping of the old order stops the native service, and a relaunched app
without a delivery does not stop it.

### Bounds, and why they are enough

Ids bound the rows: an order id is created once, an assignment id is one offer.
Everything checked is about one order, rider, product, event or coupon, or a pair of
them; two or three of each kind with two actors in flight contain the races, which
are all between a read and a write of one handler and the commit of another.

* `StockCap`, `TotalCap` stop repeated double cancellations and substitutions from
  counting without end; they guard reads, never a commit. `DS_dispatch` has four
  offers for two orders, so that a job can be accepted, fail, be reassigned and be
  accepted by the other rider while the second order is on its way; `DS_offers` has
  two, so that an offer is made after an expired one while workers still hold the
  first. `DS_endpoints` makes one offer: the other job gets its rider from an order an
  administrator edited. At most one check-then-write request is in flight there.
* `DP_cash`: price 2 allows one partial deposit and then the rest; four keys allow a
  failure, its resolution and two deposits, in any order; two attempts and two codes
  stand for five attempts and any number of codes; `RestoreLimit` lets an inspected
  parcel be cancelled.
* `PR_offers`: one instant passes (`TimeLimit`); `AUTO_LIMIT` is 1 instead of 20;
  the limits of uses are 1; the requests are the ones that change type, scope or
  nothing. The near store lacks a product, one store has no row for it, one is out
  of reach.
* `NT_*`: `MaxAttempts` 2 for 5; one crash, one expired lease. One event: the batch
  loop handles events one after the other, and they share no row but the lease's
  owner.
* `RD_desk`: one delivery; `RowLimit` rows of each table are two clashing ones and a third.
* `RT_pings`: queues of one or two pings for 200, so that two captures overflow one.

`CHECK_DEADLOCK FALSE` everywhere: the instances really stop, when every order is
closed and every id used. Symmetry is used only in runs without liveness; the
sets it permutes are those no definition tells apart.

### Fairness

* `OrderLifecycle`, `DeliveryProof`, `Promotions`, `RiderDesk` assume none: nothing obliges people
  to go on. What somebody could do is stated with the guards of the handlers instead (`NobodyIsStuck`).
* `Dispatch`: time passes (`Tick`), a worker's `setInterval` fires (`WF` of
  `WorkerFind`), and a worker does not fail at the same statement for ever (`SF` of
  the steps of a batch, since `WorkerCrash` may interrupt each). This is what
  `onModuleInit` of the notification worker provides; with
  `NOTIFICATION_WORKER_DISABLED` set `OffersEnd` does not hold.
* `Outbox`: each worker takes its next statement (`WF` of `WorkerStep(w)`, the timer of
  `onModuleInit`), and time passes: delays run out and leases become stale (`WF` of
  `DelayPasses(e)` and `LeaseExpires(e)`). Crashes and late leases are bounded, failing
  pushes are not.
* `RiderTracking`: locations keep coming while the service is active and an upload that
  failed is taken up again (`WF` of `Locate` and `TransientFailure`), and a request
  repeated for ever reaches the server and has its answer handled some day (`SF` of
  `Ingest`, `Sent` and `AuthFailure`, each of which a failure in between disables). The
  network may lose any finite number of requests and answers.

## 4. Proofs

All theorems hold for every value of the constants the named assumptions allow
(`LifecycleAssumption`, `DispatchAssumption`, `ProofAssumption`, `OutboxAssumption`,
`PromotionsAssumption`, `RequestsAssumption`, `RiderTrackingAssumption`,
`RiderDeskAssumption`, all evaluated by the runs). They say that tables are finite where
something is counted or summed, that `None` is no row, that prices, stock and limits are
numbers, that carts are not empty, that a user has one of the four roles of the schema,
that no two stores are equally far, and that a
request of an administrator, with the defaults filled in, has the fields of a row
(the DTO validation in front of the handler).

Six theorems assume more, which is part of what they say:

* `FailureFromPayment` (`RefundBound`): the status endpoint is not used to enter
  PAYMENT_FAILED, the one status whose cancellation locks no inventory row.
* `OneRequestEach` (`StockFollows`, `CancelledRefunded`, `OrdersForward`): no two requests
  in flight are about the same order. Requests on different orders overlap as they may,
  over the same shelf, and so do checkouts. `OL_serial`, with its one slot, is an
  instance; section 3 says what two requests on one order do.
* `NoCancelByStatus` (`StockFollows`, `CancelledRefunded`): CANCELLED is not set
  through the status endpoint, which restores and refunds nothing.
* `Endpoints = {}` (`RecordsFollow`, `AllFollow`): nobody edits orders or riders behind
  dispatch.
* `FailureRoles \subseteq {"RIDER"}` (`AllFollow`): an administrator may report a
  failure before the hand-over, and the job then waits for the resolution of a delivery
  whose parcel never left the store.

### Orders (`OrderLifecycleProofs`)

* `TypeCorrect`. `TypeOK` alone is not inductive, because a commit writes into rows its
  request read: `TypeInv` adds that every order has its payment (`OrdersArePaid`) and
  that a request is about an existing order and carries what its operation needs
  (`RequestsWellFormed`).
* `StockAccounted`: the stock of a product is its opening stock plus a sum over all
  orders' ledgers. `SumLemmas` has what the sum does when one order's entry changes (the
  fold of the library is a recursive function; its laws are shown by the least
  counterexample, since no induction theorem can be instantiated). `LedgerFollowsOrder`
  says that an order in checkout has no ledger rows yet, so checkout starts from zero.
* `CouponBound`, `KeyUnique`: the two guarantees `placeOrder` owes to its serializable
  transaction. Every other commit only shrinks the set of coupon uses (capture turns
  RESERVED into REDEEMED) and never touches a key. That no cancelled order keeps a use
  rests on every way into CANCELLED releasing it in the same transaction, and on the
  capture that comes late writing REDEEMED only over RESERVED.
* `RefundBound`: refunds of a `Fixed` order never exceed its payment, for any number of
  concurrent cancellations. `RefundInv` says that a request saw the lines the order still
  has (`RequestsSound`), that a cancellation past its refund check (phase "checked") is
  the only one of that order past it (`RefundsExclusive`), because it holds a lock every
  other one needs, and that the room it saw is still there.
* `StockFollows`, `CancelledRefunded`, `OrdersForward`: the contract of an order while
  its own requests do not overlap, whatever runs on the others. `SerialInv` says that
  what a request read still holds when it commits (`SeenHolds`: the row it saw is the row there is, and passed the guard), that
  an order that lives has exactly its units out and none refunded (`StockSettled`,
  `MoneySettled`), and that there is nothing before the order (`Unplaced`).
* `OrderScreensMatch`, requests overlapping as they may: the pages show a status, and
  what the server takes next is named by `MayCancel`, `MayForceCancel`, `MayReassign` and
  `StatusAllowed`. Most of it is a comparison of the tables, status by status. The store's
  lines also need that an order keeps one (`KeepsALine`): no cart is empty, and a
  substitution writes a product, whichever snapshot it started from.

### Dispatch (`DispatchProofs`)

* `DispatchTypeCorrect`, `ExpiryLogIsTrue`, `AnswersAreFinal`: `TypeInv` adds to
  `TypeOK` that the request in flight carries what its commit writes (`RequestFits`) and
  that a worker's batch holds rows that exist, and that what it is about to report has
  expired (`BatchFits`). The latter survives the other actors because rows persist and
  EXPIRED is final (`RowsPersist`), the same fact `AnswersAreFinal` states as an action
  property.
* `OneOffer`, `RidersMatch`, under every choice of `Endpoints`: `OneOpenOffer` and
  `AcceptedMatchesJob` support each other. An accepted offer may be given back because no other
  offer of its job is accepted; a new offer may be accepted because a job with an
  accepted one is not waiting. The endpoints of orders, riders and tracking write
  neither jobs nor assignments. `OneActiveJobPerRider` rests on the partial unique index in every
  step that gives a job a rider.
* `RecordsFollow`, `AllFollow`: `AloneInv` adds that an order without a job has no rider
  and is not beyond PACKED (`NoJobNoRider`), that the one request in flight packs an
  order (`OnlyPacking`), that a job that left the queue has an accepted offer (`SomeAccepted`; that it
  has one only is `OneOpenOffer`), and that BUSY riders have a delivery. `NextParcel`
  shows the parcel with its rider.
* `DispatchKeepsBook`, under every choice of `Endpoints`: the refinement of `OfferBook`.
  Its invariant `BookInv` is that of the three bounds with `OfferedWaits`: the job of an
  open offer is in the queue and nobody's. With it and `OneOpenOffer` the page of a job on
  offer is that of its one offer (`CHOOSE` has one candidate). Every step is told by the jobs
  it touches: pages elsewhere stay (`Elsewhere`), the touched one makes one move of the book
  (`BookEffect`), and a read or a batch that expires several offers at once is one
  `Expire` of their jobs. The endpoints of orders, riders and tracking stutter.
* `ScreensMatch`, when no other endpoint is called: `RiderInv` adds that a job in the
  queue is nobody's (`QueueIsFree`), that whoever has a delivery is BUSY (`Occupied`) and
  that nobody is OFFLINE. A transition frees the rider it takes the job from, and by
  `OneActiveJobPerRider` no other delivery is his. Then who holds a job is told by its
  status alone (`JobPlaces`), and each screen is compared with the guards of the handlers.
  The counters ask for finite sets of orders, riders and offers: the board adds up because
  `job[o].rider` is a bijection from the deliveries to the BUSY riders, and a rider's
  offers cover his work because each delivery has its own accepted one.

### Delivery operations (`DeliveryProofProofs`)

* `DeliveryTypes`, and four invariants that are inductive beside it, one each.
* `CashKept`: the sum over deposits is `SumLemmas`' again; a key that recorded nothing
  deposited nothing (`DepositsAreRecorded`), so a repeated call adds nothing. That the
  cash stays with its collector needs that cash exists only after the hand-over
  (`CashAfterPickup`) and that a job without a rider is waiting (`WaitsAlone`).
* `CancelledRefundedOnce`: the refund is written in the step that takes the payment out
  of CAPTURED, and a cancelled job has taken that step or its order has (`RefundInv`).
* `AttemptsCounted`: the open code's own counter is the number of its guesses
  (`GuessesInv`), codes are numbered in order, and the failures are as many as the keys
  that recorded one. `ClosedLedgerStays` is an action property of the types alone.

* `PanelsMatch`: the screens tell what the server takes by a few columns, so `PanelInv`
  says what these imply. `LedgerTells`: an order without a collection is unpaid, one with
  a collection is paid in full, a ledger is closed without a review exactly when nothing is
  held, and before the first settlement everything is. It rests on `CashInv`: finalizing
  without a variance leaves nothing, because what was collected is what is held and
  deposited. `FailureIsDecided`: a failed delivery has a decision until the step that
  takes it out of DELIVERY_FAILED. Then every status with a rider is told which screen
  goes on (`SomebodyGoesOn`), and the listed deposits add up because the others are of
  nothing (`SumOfParts`).

### Outbox (`OutboxProofs`)

* `OutboxTypeCorrect`, `ClaimsBounded`: `OutboxInv` adds to `TypeOK` that what a worker
  read several statements ago is still there when it writes by key (`HandsFit`), that a
  notification has its recipients' rows (`AudienceHasRows`) and that an opening is of a
  row (`OpeningFits`). It survives the other workers and the users because no step
  deletes a row. The bound follows from the claim: it compares the attempts it read,
  which were below `MaxAttempts`.
* `ClaimsCounted`: the bound on claims, and with it those on pushes and on owners.
  `ClaimInv` counts what may yet happen: the workers that may still push a device
  (`Pushers`), together with the pushes made, are no more than the claims (`PushesBacked`);
  so a push is paid for by a worker leaving that set, and a worker enters it only by a
  claim. Owners are at most one more than lost leases, and at most as many while the row is
  free to be claimed (`OwnersCounted`): a mark frees the row but takes an owner away, and a
  lease that expires under an owner is counted. Both rest on a worker dropping from its
  lists what it takes up (`HandsTidy`).
* `OutboxKeepsPromise`: `Spec => KeepsPromise`, the initial states and every step. The
  worker that marks an event PROCESSED looks at its locals only, so `RefinementInv` adds
  to `OutboxInv`: a status claims no more than the stamps of its row (`StatusIsTrue`);
  rows exist only for the audience (`RowsAreOfAudience`); whom a worker without a failure
  has struck off its list has been told (`Reached`), which lasts because nobody is
  untold; and while no lease is lost an event in work is PROCESSING, fresh and has one
  owner (`Exclusive`, also the theorem `OwnersAreExclusive`), so that what a worker
  marks is "taken". After a lost lease the contract's `late` allows what remains.
* `PagesFollow`: an action property, of every step from a state in `RefinementInv` and
  `ClaimInv`. `RowFollows` says what a step does to one recipient's row: it lasts, it never
  becomes hidden or unread again whoever writes its status, and one that is new has the
  setting of its user. A worker takes up devices of a user only if the user wants the
  pushes of that event (`PushesAreWanted`), and every role an event is routed to has a
  switch for it on the page (`EverybodyHasASwitch`).

### Promotions (`PromotionsProofs`)

* `PromotionTypes`: an update is checked against the row it read and written over the row
  there is, which another administrator may have changed. The row stays whole because the
  write takes the fields of the rule together, from the request and the row it read:
  `EditsHold` says that an edit in flight passed its validation, and that its row exists.
* `ChargedFairly`: checkout's transaction repeats the quote on the rows of that moment
  and counts the uses with the new order; the theorem follows from `PromotionInv` in one
  step, with the bounds on a discount and the automatic coupon that would have applied.
* `ArchivedStays`: the only step that takes a coupon's status out of ARCHIVED is an edit
  whose request names the status.
* `PagesMatch`: an editor loads a row, and what it sends is checked again by the same
  rules, so `CouponsFit` and `CampaignsFit` of the invariant give what the form needs. A
  number of a row is positive where the DTO says so, so the form's "empty when falsy"
  loses none. A campaign has no target but that of its type (`OneTarget`): the editor
  sends the others as null, and saved unchanged it would otherwise erase them. That
  checkout takes the best of several automatic coupons is shown by counting those that
  are better.
* `DealsAgree`: the conjunct of `PagesMatchServer` about the deals page. A coupon that
  applies passed the conditions the shop lists and marks it by. That the code on a campaign
  is the code of a coupon needs `CodesExist`: the coupon a campaign names, or an edit in
  flight is about to give it, has a row. A request's code is looked up by the validation,
  and coupons are archived, never deleted.

### RiderTracking (`RiderTrackingProofs`)

* `TrackingTypes`, `PingsArrive`: `TrackInv` has one clause per phone. The app's queue in
  memory is the one it stored, except between its restart and its next start, its ids
  rise, and until something was dropped the request in flight is of its head (`AppQueue`):
  so the shift after the answer removes what was answered. The service's flush works on a
  copy; what it has taken off is settled though still stored (`ServiceQueue`). A ping has
  one row because its id is looked up before its number (`Duplicate`), and rows rise
  because the number must exceed the last (`NotNewer`).

### RiderDesk (`RiderDeskProofs`)

* `DeskTypes`: a request is about a row or ticket that exists (`RequestsFit`).
* `BookingsAreSingle`: a request that has looked and is about to write has no clashing row
  of its own slot (`ClearBreak`, `ClearShift`), since that slot was busy with this request
  ever since it looked; so rows that clash are of different slots. Earnings need no such
  clause: the index is looked at in the step that writes.
* `MessagesAreHeard`: the message's step leaves a request that reopens the ticket, and
  the only ways to end that request are its write and `Restart`, which counts it lost.
* `DeskPagesMatch`: a running shift that is hidden gives way to one that starts first
  (`OneIsFirst`, of finitely many rows), and the two overlap, so `ShiftInv` says they are of
  different slots. The two sums of the earnings page are a sum over the parts of one set
  (`SumOfParts` of `SumLemmas`). The masked digits are there with the account (`BankIsWhole`).

TLC checked the invariants on the instances of the runs first (for `SerialInv` those of
`OL_serial`, for `RefinementInv` and `ClaimInv` those of `NT_users` and `NT_lease`, for
`CodesExist` that of `PR_offers`).

### Only model-checked

* `OffersEnd`, `EventIsSettled`, `NativeQueueDrains`: liveness under fairness, outside
  the prover.

## 5. Not modelled

See "components" of `PROJECT.json`. Inside the modelled components: status history
and tracking broadcasts, delivery events other than ASSIGNMENT_EXPIRED,
`markItemUnavailable`; `assignRider` and `create` of `order.service`, which no route
reaches; the counts of the pickup checklist; of the rider portal the weekly schedule and
incidents, which are single rows that nothing else reads.

Of the screens only the calls they offer, the counters and what they say about a
status are modelled; layout, texts, maps, uploads and navigation are not. The pages
of the left-out components are left out with them.

## 6. Plan

1. Which parts of an order's contract survive the overlap of two given handlers of that
   same order (two store actions, say, or a store action and a capture), so that
   `OneRequestEach` shrinks to the pairs section 3 shows to break it.
