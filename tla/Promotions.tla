----------------------------- MODULE Promotions -----------------------------
(***************************************************************************)
(* Coupons and campaigns: administrators edit their rows while customers   *)
(* browse the offers, quote carts and check out.                           *)
(*                                                                         *)
(* An update reads the row, validates the merge of what it read with the   *)
(* request and writes later: two steps, between which the row may change.  *)
(* A quote is remembered by the client's checkout and computed again in    *)
(* the SERIALIZABLE transaction that creates the order, one step here.     *)
(*                                                                         *)
(* Stores, prices, stock and the distance of the delivery address are      *)
(* constants: what checkouts do to the stock is OrderLifecycle's subject.  *)
(* Texts, colours and images of a campaign are left out, and a coupon's    *)
(* code is its identity, so the code cannot be edited.                     *)
(***************************************************************************)
EXTENDS Integers, FiniteSets, FiniteSetsExt

CONSTANTS
    Coupon, Campaign, Customer, Order, Product, Store,
    Admin,           \* admin requests in flight
    None,            \* null, no row, no request
    Category,        \* Category[p]
    Price,           \* Price[p]: product.pricePaise
    Distance,        \* Distance[s]: kilometres from store s to the address
    Shelf,           \* Shelf[s][p]: units at s, None without inventory row
    Carts,           \* what customers buy, [Product -> Nat]
    Creations,       \* Creations[x]: requests that create coupon or campaign x
    Edits,           \* Edits[x]: requests that update it
    Codes,           \* the codes customers enter, None for no code
    TimeLimit,
    AUTO_LIMIT       \* automatic coupons looked at; 20 in the code

CouponStatus == {"DRAFT", "SCHEDULED", "ACTIVE", "PAUSED", "ARCHIVED"}
Scope == {"ALL", "PRODUCTS", "CATEGORIES"}
DiscountType == {"PERCENTAGE", "FIXED_AMOUNT", "FREE_DELIVERY"}
TargetType == {"NONE", "PRODUCT", "CATEGORY", "DEALS", "INTERNAL_PATH"}
Placement == {"HOME_HERO", "HOME_TODAY_OFFERS", "DEALS_PAGE"}
Time == 0 .. TimeLimit
Categories == {Category[p] : p \in Product}
Positive == Nat \ {0}
Bps == 1 .. 10000
CouponRow ==
    [status : CouponStatus, mode : {"CODE", "AUTO"}, type : DiscountType,
     bps : Bps \cup {None}, amount : Positive \cup {None},
     cap : Positive \cup {None},
     min : Nat, starts : Time \cup {None}, ends : Time \cup {None},
     limit : Positive \cup {None}, perCustomer : Positive, firstOnly : BOOLEAN,
     scope : Scope, products : SUBSET Product, categories : SUBSET Categories,
     priority : Int, store : Store \cup {None}, created : Nat]
CampaignRow ==
    [status : CouponStatus, type : TargetType, path : {"/shop", None},
     product : Product \cup {None}, category : Categories \cup {None},
     coupon : Coupon \cup {None}, starts : Time \cup {None},
     ends : Time \cup {None}, firstOnly : BOOLEAN,
     placements : SUBSET Placement]
Offer == [coupon : Coupon \cup {None}, discount : Nat]
Checkout == [customer : Customer, cart : Carts, code : Codes,
             store : Store, offer : Offer]
OrderRow == [customer : Customer, store : Store, cart : Carts, total : Nat,
             offer : Offer, status : {"PLACED", "CANCELLED"}]

ASSUME PromotionsAssumption ==
    /\ None \notin Coupon \cup Store \cup OrderRow \cup CouponRow
                   \cup CampaignRow \cup Checkout \cup Product \cup Nat
                   \cup Categories \cup {"/shop", "/shop/deals"}
                   \cup CouponStatus \cup DiscountType \cup Scope
    /\ Coupon \cap Campaign = {}
    /\ Category \in [Product -> Categories]
    /\ IsFiniteSet(Product) /\ IsFiniteSet(Order) /\ IsFiniteSet(Coupon)
    /\ Codes \subseteq Coupon \cup {None}
    /\ Carts \subseteq [Product -> Nat] /\ Price \in [Product -> Nat]
    /\ Distance \in [Store -> Nat] /\ Store # {}
    /\ \A s, t \in Store : Distance[s] = Distance[t] => s = t
    /\ Shelf \in [Store -> [Product -> Nat \cup {None}]]
    /\ TimeLimit \in Nat /\ AUTO_LIMIT \in Nat

VARIABLES
    coupon,    \* coupon[c]: Coupon row with its eligibility rows, or None
    campaign,  \* campaign[k]: PromotionCampaign with its placements, or None
    order,     \* order[o]: the order and its CouponRedemption, or None
    checkout,  \* checkout[o]: a quote not placed yet, or None
    edit,      \* edit[a]: an update between its read and its write, or None
    now

vars == <<coupon, campaign, order, checkout, edit, now>>

\* A discount has the amount of its type, a campaign has its target.
AmountFits(row) ==
    /\ row.type = "PERCENTAGE" => row.bps \in Bps
    /\ row.type = "FIXED_AMOUNT" => row.amount \in Nat \ {0}

TargetFits(row) ==
    /\ row.type = "PRODUCT" => row.product \in Product
    /\ row.type = "CATEGORY" => row.category \in Categories
    /\ row.type = "INTERNAL_PATH" => row.path # None

\* Every row fits, in whatever order updates read and write it (updateCoupon,
\* updateCampaign).
Whole ==
    /\ \A c \in Coupon : coupon[c] # None => AmountFits(coupon[c])
    /\ \A k \in Campaign : campaign[k] # None =>
          TargetFits(campaign[k]) /\ campaign[k].placements # {}

\* The rows are well typed and whole, and no total is negative.
TypeOK ==
    /\ Whole
    /\ coupon \in [Coupon -> CouponRow \cup {None}]
    /\ campaign \in [Campaign -> CampaignRow \cup {None}]
    /\ order \in [Order -> OrderRow \cup {None}]
    /\ checkout \in [Order -> Checkout \cup {None}]
    /\ now \in Time
    /\ DOMAIN edit = Admin
    /\ \A a \in Admin : edit[a] # None =>
          \/ edit[a].id \in Coupon /\ edit[a].seen \in CouponRow
          \/ edit[a].id \in Campaign /\ edit[a].seen \in CampaignRow

Init ==
    /\ coupon = [c \in Coupon |-> None]
    /\ campaign = [k \in Campaign |-> None]
    /\ order = [o \in Order |-> None]
    /\ checkout = [o \in Order |-> None]
    /\ edit = [a \in Admin |-> None]
    /\ now = 0

Tick == now < TimeLimit /\ now' = now + 1
        /\ UNCHANGED <<coupon, campaign, order, checkout, edit>>

-----------------------------------------------------------------------------
(* The store, the delivery fee and the cart *)

computeDeliveryFee(km) ==
    CASE km <= 3 -> 1900 [] km > 3 /\ km <= 6 -> 2900
      [] km > 6 /\ km <= 8 -> 4900 [] OTHER -> 0

Serviceable(s) == Distance[s] <= 8

Has(s, p, n) == Shelf[s][p] # None /\ Shelf[s][p] >= n

Serves(s, cart) == \A p \in Product : cart[p] > 0 => Has(s, p, cart[p])

nearestStore(stores) ==
    CHOOSE s \in stores : \A t \in stores : Distance[s] <= Distance[t]

\* The nearest store that can fill the cart; if none can, the nearest of all.
resolveStore == [cart \in Carts |->
    LET capable == {s \in Store : Serves(s, cart)}
    IN nearestStore(IF capable = {} THEN Store ELSE capable)]

\* The quote takes a product without an inventory row for in stock.
InStock(s, cart) ==
    \A p \in Product : cart[p] > 0 => Shelf[s][p] = None \/ Has(s, p, cart[p])

Worth(cart, products) ==
    LET line == [p \in products |-> Price[p] * cart[p]]
    IN MapThenSumSet(LAMBDA p : line[p], products)
Subtotal(cart) == Worth(cart, Product)

-----------------------------------------------------------------------------
(* evaluateCoupon and calculateDiscount *)

Live(row) ==
    /\ row.status \in {"ACTIVE", "SCHEDULED"}
    /\ row.starts # None => row.starts <= now
    /\ row.ends # None => row.ends > now

PriorOrders(u) ==
    {o \in Order : order[o] # None /\ order[o].customer = u
                                   /\ order[o].status # "CANCELLED"}

UsesEver(c) == {o \in Order : order[o] # None /\ order[o].offer.coupon = c}

\* Redemptions that are RESERVED or REDEEMED; a cancellation releases its own.
Uses(c) == {o \in Order : order[o] # None /\ order[o].offer.coupon = c
                                          /\ order[o].status # "CANCELLED"}
UsesBy(c, u) == {o \in Uses(c) : order[o].customer = u}

Exhausted(c) ==
    coupon[c].limit # None /\ Cardinality(Uses(c)) >= coupon[c].limit

EligibleSubtotal(row, cart) ==
    CASE row.scope = "PRODUCTS" -> Worth(cart, row.products)
      [] row.scope = "CATEGORIES" ->
            Worth(cart, {p \in Product : Category[p] \in row.categories})
      [] OTHER -> Subtotal(cart)

Lesser(m, n) == IF m <= n THEN m ELSE n

\* A missing amount is null, which arithmetic takes for zero.
Number(value) == IF value = None THEN 0 ELSE value

Discount(row, cart, fee) ==
    LET eligible == EligibleSubtotal(row, cart)
        share == (eligible * Number(row.bps)) \div 10000
        raw == CASE row.type = "PERCENTAGE" ->
                       IF row.cap = None THEN share ELSE Lesser(share, row.cap)
                 [] row.type = "FIXED_AMOUNT" ->
                       Lesser(Number(row.amount), eligible)
                 [] OTHER -> fee
    IN Lesser(raw, Subtotal(cart) + fee)

\* evaluateCoupon does not throw.
Applies(c, u, cart, s) ==
    LET row == coupon[c]
    IN /\ Live(row)
       /\ row.store \in {None, s}
       /\ Subtotal(cart) >= row.min
       /\ row.firstOnly => PriorOrders(u) = {}
       /\ ~Exhausted(c)
       /\ Cardinality(UsesBy(c, u)) < row.perCustomer
       /\ EligibleSubtotal(row, cart) > 0
       /\ Discount(row, cart, computeDeliveryFee(Distance[s])) > 0

Before(c, d) ==
    \/ coupon[c].priority > coupon[d].priority
    \/ /\ coupon[c].priority = coupon[d].priority
       /\ coupon[c].created < coupon[d].created

\* The automatic coupons the query finds, of which it takes the first few.
AutoCoupons(s) ==
    LET found == {c \in Coupon : /\ coupon[c] # None
                                 /\ coupon[c].mode = "AUTO" /\ Live(coupon[c])
                                 /\ coupon[c].store \in {None, s}}
    IN {c \in found : Cardinality({d \in found : Before(d, c)}) < AUTO_LIMIT}

OfferOf(c, cart, s) ==
    [coupon |-> c,
     discount |-> Discount(coupon[c], cart, computeDeliveryFee(Distance[s]))]

NoOffer == [coupon |-> None, discount |-> 0]

\* The set of offers it returns: empty when it throws.
calculateDiscount(u, code, cart, s) ==
    IF code # None
    THEN IF coupon[code] # None /\ Applies(code, u, cart, s)
         THEN {OfferOf(code, cart, s)} ELSE {}
    ELSE LET fit == {c \in AutoCoupons(s) : Applies(c, u, cart, s)}
         IN IF fit = {} THEN {NoOffer}
            ELSE {OfferOf(c, cart, s) :
                     c \in {b \in fit : \A d \in fit : ~Before(d, b)}}

-----------------------------------------------------------------------------
(* Checkout *)

\* The offers quote answers with: none when it throws.
Quotes(u, cart, code) ==
    LET s == resolveStore[cart]
    IN {offer \in calculateDiscount(u, code, cart, s) :
           Serviceable(s) /\ InStock(s, cart)}

\* quote, and placeOrder up to its transaction.
Quote(o, u, cart, code) ==
    /\ order[o] = None /\ checkout[o] = None
    /\ \E offer \in Quotes(u, cart, code) :
          checkout' = [checkout EXCEPT ![o] =
              [customer |-> u, cart |-> cart, code |-> code,
               store |-> resolveStore[cart], offer |-> offer]]
    /\ UNCHANGED <<coupon, campaign, order, edit, now>>

\* A mutant: the transaction trusts the quote.
StillOfferedAlways(q) == q.offer = q.offer

\* The transaction computes the offer again.
StillOffered(q) ==
    q.offer \in calculateDiscount(q.customer, q.code, q.cart, q.store)

PlaceOrder(o) ==
    /\ checkout[o] # None
    /\ StillOffered(checkout[o]) /\ Serves(checkout[o].store, checkout[o].cart)
    /\ LET q == checkout[o]
       IN order' = [order EXCEPT ![o] =
             [customer |-> q.customer, store |-> q.store, cart |-> q.cart,
              total |-> Subtotal(q.cart) + computeDeliveryFee(Distance[q.store])
                           - q.offer.discount,
              offer |-> q.offer, status |-> "PLACED"]]
    /\ checkout' = [checkout EXCEPT ![o] = None]
    /\ UNCHANGED <<coupon, campaign, edit, now>>

\* The transaction throws, or the customer gives up.
DropCheckout(o) ==
    /\ checkout[o] # None
    /\ checkout' = [checkout EXCEPT ![o] = None]
    /\ UNCHANGED <<coupon, campaign, order, edit, now>>

\* Cancelled, or its payment failed: the redemption is released.
Cancel(o) ==
    /\ order[o] # None /\ order[o].status = "PLACED"
    /\ order' = [order EXCEPT ![o].status = "CANCELLED"]
    /\ UNCHANGED <<coupon, campaign, checkout, edit, now>>

-----------------------------------------------------------------------------
(* Requests of the administrators *)

Given(dto, row, f) ==
    IF f \in DOMAIN dto /\ dto[f] # None THEN dto[f] ELSE row[f]

\* Null in a request clears these fields; for the others it says nothing.
Nullable == {"cap", "path", "product", "category", "coupon", "starts", "ends",
             "limit", "store"}

Merged(dto, row) ==
    [f \in DOMAIN row |-> IF f \in DOMAIN dto \cap Nullable THEN dto[f]
                          ELSE Given(dto, row, f)]

CouponDefaults ==
    [status |-> "DRAFT", mode |-> "CODE", type |-> "FREE_DELIVERY",
     bps |-> None, amount |-> None, cap |-> None, min |-> 0, starts |-> None,
     ends |-> None, limit |-> None, perCustomer |-> 1, firstOnly |-> FALSE,
     scope |-> "ALL", products |-> {}, categories |-> {}, priority |-> 0,
     store |-> None, created |-> 0]

CampaignDefaults ==
    [status |-> "DRAFT", type |-> "DEALS", path |-> None, product |-> None,
     category |-> None, coupon |-> None, starts |-> None, ends |-> None,
     firstOnly |-> FALSE, placements |-> {}]

\* What the DTOs' decorators let through: fields of the row, of its types.
ASSUME RequestsAssumption ==
    /\ \A c \in Coupon : \A dto \in Creations[c] \cup Edits[c] :
          Merged(dto, CouponDefaults) \in CouponRow
    /\ \A k \in Campaign : \A dto \in Creations[k] \cup Edits[k] :
          Merged(dto, CampaignDefaults) \in CampaignRow

-----------------------------------------------------------------------------
(* The administrators' coupons *)

validateSchedule(starts, ends) ==
    starts # None /\ ends # None => starts < ends

validateCouponRule(row) ==
    /\ row.type = "PERCENTAGE" => row.bps # None /\ row.bps \in Bps
    /\ row.type = "FIXED_AMOUNT" => row.amount # None /\ row.amount >= 1
    /\ row.scope = "PRODUCTS" => row.products # {}
    /\ row.scope = "CATEGORIES" => row.categories # {}

\* The fields of the other discount types and scopes are written null.
Normalised(row) ==
    [row EXCEPT
        !.bps = IF row.type = "PERCENTAGE" THEN @ ELSE None,
        !.cap = IF row.type = "PERCENTAGE" THEN @ ELSE None,
        !.amount = IF row.type = "FIXED_AMOUNT" THEN @ ELSE None,
        !.products = IF row.scope = "PRODUCTS" THEN @ ELSE {},
        !.categories = IF row.scope = "CATEGORIES" THEN @ ELSE {}]

createCoupon(c, dto) ==
    /\ coupon[c] = None /\ "type" \in DOMAIN dto
    /\ LET row == Merged(dto, CouponDefaults)
       IN /\ validateSchedule(row.starts, row.ends) /\ validateCouponRule(row)
          /\ coupon' = [coupon EXCEPT ![c] =
                [Normalised(row) EXCEPT
                   !.created = Cardinality({d \in Coupon : coupon[d] # None})]]
    /\ UNCHANGED <<campaign, order, checkout, edit, now>>

ReadCoupon(a, c, dto) ==
    /\ edit[a] = None /\ coupon[c] # None
    /\ validateSchedule(Given(dto, coupon[c], "starts"),
                        Given(dto, coupon[c], "ends"))
    /\ validateCouponRule(Merged(dto, coupon[c]))
    /\ edit' = [edit EXCEPT ![a] = [id |-> c, dto |-> dto, seen |-> coupon[c]]]
    /\ UNCHANGED <<coupon, campaign, order, checkout, now>>

\* A mutant: the status is among them, as it is in a campaign.
RuleFieldsAndStatus == {"type", "bps", "amount", "cap", "scope", "status"}

\* The fields an update writes even when the request does not name them.
RuleFields == {"type", "bps", "amount", "cap", "scope"}

\* A mutant: only the fields of the request are written.
WrittenCouponByName(row, seen, dto) == Normalised(Merged(dto, row))

\* The eligibility rows are rewritten when the request names the scope or them.
WrittenCoupon(row, seen, dto) ==
    LET new == Normalised(Merged(dto, seen))
        rows == {"scope", "products", "categories"}
        from(f) == CASE f \in RuleFields -> new[f]
                     [] f \in {"products", "categories"} ->
                           IF rows \cap DOMAIN dto # {} THEN new[f] ELSE row[f]
                     [] f \in DOMAIN dto \ (RuleFields \cup rows) -> new[f]
                     [] OTHER -> row[f]
    IN [f \in DOMAIN row |-> from(f)]

WriteCoupon(a, c) ==
    /\ edit[a] # None /\ edit[a].id = c
    /\ coupon' = [coupon EXCEPT
          ![c] = WrittenCoupon(@, edit[a].seen, edit[a].dto)]
    /\ edit' = [edit EXCEPT ![a] = None]
    /\ UNCHANGED <<campaign, order, checkout, now>>

archiveCoupon(c) ==
    /\ coupon[c] # None
    /\ coupon' = [coupon EXCEPT ![c].status = "ARCHIVED"]
    /\ UNCHANGED <<campaign, order, checkout, edit, now>>

-----------------------------------------------------------------------------
(* The administrators' campaigns *)

validateCampaignTarget(row) ==
    /\ row.type = "PRODUCT" => row.product # None
    /\ row.type = "CATEGORY" => row.category # None
    /\ row.type = "INTERNAL_PATH" => row.path # None
    /\ row.coupon # None => /\ coupon[row.coupon] # None
                            /\ coupon[row.coupon].status # "ARCHIVED"

Targeted(row) ==
    [row EXCEPT !.path = IF row.type = "INTERNAL_PATH" THEN @ ELSE None,
                !.product = IF row.type = "PRODUCT" THEN @ ELSE None,
                !.category = IF row.type = "CATEGORY" THEN @ ELSE None]

createCampaign(k, dto) ==
    /\ campaign[k] = None
    /\ LET row == Merged(dto, CampaignDefaults)
       IN /\ row.placements # {} /\ validateSchedule(row.starts, row.ends)
          /\ validateCampaignTarget(row)
          /\ campaign' = [campaign EXCEPT ![k] = Targeted(row)]
    /\ UNCHANGED <<coupon, order, checkout, edit, now>>

ReadCampaign(a, k, dto) ==
    /\ edit[a] = None /\ campaign[k] # None
    /\ Merged(dto, campaign[k]).placements # {}
    /\ validateSchedule(Given(dto, campaign[k], "starts"),
                        Given(dto, campaign[k], "ends"))
    /\ validateCampaignTarget(Merged(dto, campaign[k]))
    /\ edit' = [edit EXCEPT
                   ![a] = [id |-> k, dto |-> dto, seen |-> campaign[k]]]
    /\ UNCHANGED <<coupon, campaign, order, checkout, now>>

\* The status is among the fields always written: an update that read the
\* campaign before it was archived brings it back.
WrittenCampaign(row, seen, dto) ==
    LET new == Targeted(Merged(dto, seen))
        always == {"type", "path", "product", "category", "status"}
    IN [f \in DOMAIN row |-> IF f \in always \cup DOMAIN dto THEN new[f]
                             ELSE row[f]]

WriteCampaign(a, k) ==
    /\ edit[a] # None /\ edit[a].id = k
    /\ campaign' = [campaign EXCEPT
          ![k] = WrittenCampaign(@, edit[a].seen, edit[a].dto)]
    /\ edit' = [edit EXCEPT ![a] = None]
    /\ UNCHANGED <<coupon, order, checkout, now>>

archiveCampaign(k) ==
    /\ campaign[k] # None
    /\ campaign' = [campaign EXCEPT ![k].status = "ARCHIVED"]
    /\ UNCHANGED <<coupon, order, checkout, edit, now>>

-----------------------------------------------------------------------------
Next ==
    \/ Tick
    \/ \E o \in Order :
          \/ PlaceOrder(o) \/ DropCheckout(o) \/ Cancel(o)
          \/ \E u \in Customer, cart \in Carts, code \in Codes :
                Quote(o, u, cart, code)
    \/ \E c \in Coupon :
          \/ archiveCoupon(c)
          \/ \E dto \in Creations[c] : createCoupon(c, dto)
          \/ \E a \in Admin : \/ WriteCoupon(a, c)
                              \/ \E dto \in Edits[c] : ReadCoupon(a, c, dto)
    \/ \E k \in Campaign :
          \/ archiveCampaign(k)
          \/ \E dto \in Creations[k] : createCampaign(k, dto)
          \/ \E a \in Admin :
                \/ WriteCampaign(a, k)
                \/ \E dto \in Edits[k] : ReadCampaign(a, k, dto)

Spec == Init /\ [][Next]_vars

-----------------------------------------------------------------------------
(* What a customer is shown *)

\* publicCoupons: the coupons on the deals page ...
Listed == {c \in Coupon : coupon[c] # None /\ Live(coupon[c])}

\* ... and whether one is marked eligible for the customer.
Eligible(c, u) ==
    /\ ~Exhausted(c)
    /\ ~(coupon[c].firstOnly /\ PriorOrders(u) # {})
    /\ Cardinality(UsesBy(c, u)) < coupon[c].perCustomer

\* activeCampaigns
Shown(u) ==
    {k \in Campaign : campaign[k] # None /\ Live(campaign[k])
                         /\ (campaign[k].firstOnly => PriorOrders(u) = {})}

\* publicCampaign: the code a campaign carries.
ShownCode(k) ==
    IF /\ campaign[k].coupon # None /\ Live(coupon[campaign[k].coupon])
       /\ coupon[campaign[k].coupon].mode = "CODE"
    THEN campaign[k].coupon ELSE None
-----------------------------------------------------------------------------
(* Properties *)

\* An order is charged by the rules in force when it is created, whatever
\* changed since its quote: the coupon is live and within its limits with this
\* order counted, the discount is worth no more than what it is for, and
\* without a coupon no automatic one applies (placeOrder, calculateDiscount).
Entitled(o) ==
    LET row == coupon[order[o].offer.coupon]
        c == order[o].offer.coupon
        u == order[o].customer
    IN /\ Live(row) /\ row.store \in {None, order[o].store}
       /\ row.limit # None => Cardinality(Uses(c)) <= row.limit
       /\ Cardinality(UsesBy(c, u)) <= row.perCustomer
       /\ row.firstOnly => PriorOrders(u) = {o}
       /\ row.type # "FREE_DELIVERY" =>
             order[o].offer.discount <= EligibleSubtotal(row, order[o].cart)

FairlyCharged(o) ==
    IF order[o].offer.coupon # None THEN Entitled(o)
    ELSE \A c \in AutoCoupons(order[o].store) :
            \/ coupon[c].firstOnly \/ UsesBy(c, order[o].customer) # {}
            \/ ~Applies(c, order[o].customer, order[o].cart, order[o].store)

ChargedAsOffered ==
    [][\A o \in Order : order[o] = None /\ order'[o] # None
          => FairlyCharged(o)']_vars

\* An archived coupon is not brought back by an update that was about something
\* else and read the row before it was archived (updateCoupon).
ArchivedCouponStays ==
    [][\A c \in Coupon :
          coupon[c] # None /\ coupon[c].status = "ARCHIVED"
                           /\ coupon'[c].status # "ARCHIVED"
          => \E a \in Admin : edit[a] # None /\ edit[a].id = c
                                /\ "status" \in DOMAIN edit[a].dto]_vars

\* NOT a property of the code: the same of a campaign, whose update writes the
\* status it read (updateCampaign).
ArchivedCampaignStays ==
    [][\A k \in Campaign :
          campaign[k] # None /\ campaign[k].status = "ARCHIVED"
                             /\ campaign'[k].status # "ARCHIVED"
          => \E a \in Admin : edit[a] # None /\ edit[a].id = k
                                /\ "status" \in DOMAIN edit[a].dto]_vars

\* NOT a property of the code: a coupon restricted to products or categories
\* names some.  Two updates, one widening the scope and one about something
\* else, leave a restricted coupon without rows that no cart satisfies.
ScopeIsWhole ==
    \A c \in Coupon : coupon[c] # None =>
       /\ coupon[c].scope = "PRODUCTS" => coupon[c].products # {}
       /\ coupon[c].scope = "CATEGORIES" => coupon[c].categories # {}

\* The offers a customer is shown are those checkout takes: a coupon that
\* applies to some cart of his is listed and marked eligible, and the code on a
\* campaign is listed (publicCoupons, publicCampaign, evaluateCoupon).
DealsAgreeWithCheckout ==
    /\ \A c \in Coupon, u \in Customer, cart \in Carts :
          coupon[c] # None /\ Applies(c, u, cart, resolveStore[cart])
             => c \in Listed /\ Eligible(c, u)
    /\ \A u \in Customer : \A k \in Shown(u) :
          ShownCode(k) # None => ShownCode(k) \in Listed
=============================================================================
