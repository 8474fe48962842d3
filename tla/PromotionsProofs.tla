-------------------------- MODULE PromotionsProofs --------------------------
(***************************************************************************)
(* What coupons and campaigns keep for every set of rows, requests, carts  *)
(* and customers, any number of administrators and any shelf: rows that    *)
(* are whole, totals that are not negative, a charge by the rules in force *)
(* when the order is created, an archived coupon that stays archived, and  *)
(* offers shown that are the offers checkout takes.                        *)
(***************************************************************************)
EXTENDS PromotionScreens, SumLemmas, TLAPS

-----------------------------------------------------------------------------
(* Rows and requests *)

CouponFields ==
    {"status", "mode", "type", "bps", "amount", "cap", "min", "starts", "ends",
     "limit", "perCustomer", "firstOnly", "scope", "products", "categories",
     "priority", "store", "created"}

CampaignFields ==
    {"status", "type", "path", "product", "category", "coupon", "starts",
     "ends", "firstOnly", "placements"}

LEMMA CouponDomain ==
    ASSUME NEW row \in CouponRow
    PROVE  DOMAIN row = CouponFields
BY DEF CouponRow, CouponFields

LEMMA CampaignDomain ==
    ASSUME NEW row \in CampaignRow
    PROVE  DOMAIN row = CampaignFields
BY DEF CampaignRow, CampaignFields

\* The numbers of a row: a number that may be absent is positive.
LEMMA CouponNumbers ==
    ASSUME NEW row \in CouponRow
    PROVE  /\ row.bps \in Nat \cup {None} /\ row.amount \in Nat \cup {None}
           /\ row.cap \in Nat \cup {None} /\ row.limit \in Nat \cup {None}
           /\ row.perCustomer \in Nat
           /\ 0 \notin {row.bps, row.amount, row.cap, row.limit}
<1>1. /\ row.bps \in Bps \cup {None} /\ row.amount \in Positive \cup {None}
      /\ row.cap \in Positive \cup {None} /\ row.limit \in Positive \cup {None}
      /\ row.perCustomer \in Positive
  BY DEF CouponRow
<1>2. /\ Bps \subseteq Nat /\ 0 \notin Bps
      /\ Positive \subseteq Nat /\ 0 \notin Positive
  BY DEF Bps, Positive
<1>3. None # 0 BY PromotionsAssumption
<1>4. QED BY <1>1, <1>2, <1>3

\* A row with each field from one of two rows is a row.
LEMMA CouponMix ==
    ASSUME NEW one \in CouponRow, NEW two \in CouponRow,
           NEW row, row = [f \in CouponFields |-> row[f]],
           \A f \in CouponFields : row[f] = one[f] \/ row[f] = two[f]
    PROVE  row \in CouponRow
BY DEF CouponRow, CouponFields

LEMMA CampaignMix ==
    ASSUME NEW one \in CampaignRow, NEW two \in CampaignRow,
           NEW row, row = [f \in CampaignFields |-> row[f]],
           \A f \in CampaignFields : row[f] = one[f] \/ row[f] = two[f]
    PROVE  row \in CampaignRow
BY DEF CampaignRow, CampaignFields

LEMMA DefaultsAreRows ==
    CouponDefaults \in CouponRow /\ CampaignDefaults \in CampaignRow
BY DEF CouponRow, CouponDefaults, CouponStatus, DiscountType, Scope, Positive,
   CampaignRow, CampaignDefaults, TargetType

LEMMA CouponMerged ==
    ASSUME NEW c \in Coupon, NEW dto \in Creations[c] \cup Edits[c],
           NEW row \in CouponRow
    PROVE  Merged(dto, row) \in CouponRow
<1> DEFINE new == Merged(dto, row)
           base == Merged(dto, CouponDefaults)
<1>1. base \in CouponRow BY RequestsAssumption
<1>2. DOMAIN CouponDefaults = CouponFields /\ DOMAIN row = CouponFields
  BY CouponDomain, DefaultsAreRows
<1>3. \A f \in CouponFields : new[f] = base[f] \/ new[f] = row[f]
  BY <1>2 DEF Merged, Given
<1>4. new = [f \in CouponFields |-> new[f]]
  BY <1>2 DEF Merged
<1> HIDE DEF new, base
<1>5. new \in CouponRow BY <1>1, <1>3, <1>4, CouponMix
<1>6. QED BY <1>5 DEF new

LEMMA CampaignMerged ==
    ASSUME NEW k \in Campaign, NEW dto \in Creations[k] \cup Edits[k],
           NEW row \in CampaignRow
    PROVE  Merged(dto, row) \in CampaignRow
<1> DEFINE new == Merged(dto, row)
           base == Merged(dto, CampaignDefaults)
<1>1. base \in CampaignRow BY RequestsAssumption
<1>2. DOMAIN CampaignDefaults = CampaignFields /\ DOMAIN row = CampaignFields
  BY CampaignDomain, DefaultsAreRows
<1>3. \A f \in CampaignFields : new[f] = base[f] \/ new[f] = row[f]
  BY <1>2 DEF Merged, Given
<1>4. new = [f \in CampaignFields |-> new[f]]
  BY <1>2 DEF Merged
<1> HIDE DEF new, base
<1>5. new \in CampaignRow BY <1>1, <1>3, <1>4, CampaignMix
<1>6. QED BY <1>5 DEF new

LEMMA NormalisedFits ==
    ASSUME NEW row \in CouponRow, validateCouponRule(row)
    PROVE  Normalised(row) \in CouponRow /\ AmountFits(Normalised(row))
<1>1. Normalised(row) \in CouponRow
  <2> DEFINE new == Normalised(row)
  <2>1. DOMAIN row = CouponFields BY CouponDomain
  <2>2. new = [f \in CouponFields |-> new[f]]
    BY <2>1 DEF Normalised
  <2>3. \A f \in CouponFields : new[f] = row[f] \/ new[f] = CouponDefaults[f]
    <3>1. \A f \in CouponFields \ {"bps", "cap", "amount", "products", "categories"} :
             new[f] = row[f]
      BY <2>1 DEF Normalised
    <3>2. /\ new.bps = row.bps \/ new.bps = None
          /\ new.cap = row.cap \/ new.cap = None
          /\ new.amount = row.amount \/ new.amount = None
          /\ new.products = row.products \/ new.products = {}
          /\ new.categories = row.categories \/ new.categories = {}
      BY <2>1 DEF Normalised, CouponFields
    <3>3. /\ CouponDefaults.bps = None /\ CouponDefaults.cap = None
          /\ CouponDefaults.amount = None /\ CouponDefaults.products = {}
          /\ CouponDefaults.categories = {}
      BY DEF CouponDefaults
    <3> HIDE DEF new
    <3>4. QED BY <3>1, <3>2, <3>3 DEF CouponFields
  <2> HIDE DEF new
  <2>4. new \in CouponRow BY <2>2, <2>3, CouponMix, DefaultsAreRows
  <2>5. QED BY <2>4 DEF new
<1>2. /\ Normalised(row).type = row.type
      /\ row.type = "PERCENTAGE" => Normalised(row).bps = row.bps
      /\ row.type = "FIXED_AMOUNT" => Normalised(row).amount = row.amount
  BY DEF CouponRow, Normalised
<1>3. row.type = "FIXED_AMOUNT" => row.amount \in Nat \ {0}
  BY CouponNumbers DEF validateCouponRule
<1>4. QED BY <1>1, <1>2, <1>3 DEF AmountFits, validateCouponRule

TargetNamed(row) ==
    /\ row.type = "PRODUCT" => row.product # None
    /\ row.type = "CATEGORY" => row.category # None
    /\ row.type = "INTERNAL_PATH" => row.path # None

\* A campaign has no target but the one of its type.
OneTarget(row) ==
    /\ row.type # "PRODUCT" => row.product = None
    /\ row.type # "CATEGORY" => row.category = None
    /\ row.type # "INTERNAL_PATH" => row.path = None

LEMMA TargetedFits ==
    ASSUME NEW row \in CampaignRow, TargetNamed(row)
    PROVE  /\ Targeted(row) \in CampaignRow /\ TargetFits(Targeted(row))
           /\ OneTarget(Targeted(row))
           /\ Targeted(row).placements = row.placements
<1>1. Targeted(row) \in CampaignRow /\ Targeted(row).placements = row.placements
  BY DEF CampaignRow, Targeted
<1>2. /\ Targeted(row).type = row.type
      /\ row.type = "PRODUCT" => Targeted(row).product = row.product
      /\ row.type = "CATEGORY" => Targeted(row).category = row.category
      /\ row.type = "INTERNAL_PATH" => Targeted(row).path = row.path
      /\ row.type # "PRODUCT" => Targeted(row).product = None
      /\ row.type # "CATEGORY" => Targeted(row).category = None
      /\ row.type # "INTERNAL_PATH" => Targeted(row).path = None
  BY DEF CampaignRow, Targeted
<1>3. /\ row.type = "PRODUCT" => row.product \in Product
      /\ row.type = "CATEGORY" => row.category \in Categories
      /\ row.type = "INTERNAL_PATH" => row.path # None
  BY DEF TargetNamed, CampaignRow
<1>4. QED BY <1>1, <1>2, <1>3 DEF TargetFits, OneTarget

-----------------------------------------------------------------------------
(* Money *)

LEMMA WorthNatural ==
    ASSUME NEW cart \in Carts, NEW products \in SUBSET Product
    PROVE  Worth(cart, products) \in Nat
<1> DEFINE line == [p \in products |-> Price[p] * cart[p]]
<1>1. \A p \in products : Price[p] \in Nat /\ cart[p] \in Nat
  BY PromotionsAssumption
<1>2. ASSUME NEW m \in Nat, NEW n \in Nat PROVE m * n \in Nat
  OBVIOUS
<1>3. line \in [products -> Nat]
  BY <1>1, <1>2
<1>4. IsFiniteSet(products)
  BY PromotionsAssumption, FS_Subset
<1>5. Worth(cart, products) = SumOf(line, products)
  BY Zenon DEF Worth, SumOf
<1> HIDE DEF line
<1>6. QED BY <1>3, <1>4, <1>5, SumNatural

LEMMA FeeNatural ==
    ASSUME NEW km \in Nat PROVE computeDeliveryFee(km) \in Nat
BY DEF computeDeliveryFee

\* A percentage of an amount is no more than the amount.
LEMMA ShareOf ==
    ASSUME NEW e \in Nat, NEW b \in Nat
    PROVE  /\ (e * b) \div 10000 \in Nat
           /\ b <= 10000 => (e * b) \div 10000 <= e
<1> DEFINE x == e * b
<1>1. x \in Nat OBVIOUS
<1>2. ASSUME b <= 10000 PROVE x <= 10000 * e
  <2>1. 10000 - b \in Nat BY <1>2
  <2>2. e * (10000 - b) \in Nat BY <2>1
  <2>3. e * (10000 - b) = 10000 * e - x OBVIOUS
  <2>4. QED BY <1>1, <2>2, <2>3
<1> HIDE DEF x
<1>3. x \div 10000 \in Nat BY <1>1
<1>4. ASSUME b <= 10000 PROVE x \div 10000 <= e
  BY <1>1, <1>2, <1>4
<1>5. QED BY <1>3, <1>4 DEF x

LEMMA DiscountFacts ==
    ASSUME NEW row \in CouponRow, NEW cart \in Carts, NEW fee \in Nat
    PROVE  /\ Subtotal(cart) \in Nat /\ EligibleSubtotal(row, cart) \in Nat
           /\ Discount(row, cart, fee) \in Nat
           /\ Discount(row, cart, fee) <= Subtotal(cart) + fee
           /\ AmountFits(row) /\ row.type # "FREE_DELIVERY" =>
                 Discount(row, cart, fee) <= EligibleSubtotal(row, cart)
<1> DEFINE total == Subtotal(cart)
           eligible == EligibleSubtotal(row, cart)
           share == (eligible * Number(row.bps)) \div 10000
           raw == CASE row.type = "PERCENTAGE" ->
                          IF row.cap = None THEN share ELSE Lesser(share, row.cap)
                    [] row.type = "FIXED_AMOUNT" ->
                          Lesser(Number(row.amount), eligible)
                    [] OTHER -> fee
<1>1. total \in Nat BY WorthNatural DEF Subtotal
<1>2. eligible \in Nat
  <2>1. row.products \in SUBSET Product
    BY DEF CouponRow
  <2>2. {p \in Product : Category[p] \in row.categories} \in SUBSET Product
    OBVIOUS
  <2>3. QED BY <1>1, <2>1, <2>2, WorthNatural DEF EligibleSubtotal
<1>3. /\ row.bps \in Nat \cup {None} /\ row.amount \in Nat \cup {None}
      /\ row.cap \in Nat \cup {None}
      /\ row.type \in {"PERCENTAGE", "FIXED_AMOUNT", "FREE_DELIVERY"}
  BY CouponNumbers DEF CouponRow, DiscountType
<1>4. None \notin Nat BY PromotionsAssumption
<1>5. Number(row.bps) \in Nat /\ Number(row.amount) \in Nat
  BY <1>3 DEF Number
<1>6. row.type = "PERCENTAGE" /\ AmountFits(row) => Number(row.bps) <= 10000
  <2>1. SUFFICES ASSUME row.type = "PERCENTAGE", AmountFits(row)
                 PROVE  Number(row.bps) <= 10000
    OBVIOUS
  <2>2. PICK b \in 1 .. 10000 : row.bps = b BY <2>1 DEF AmountFits, Bps
  <2>3. b \in Nat /\ b <= 10000 OBVIOUS
  <2>4. b # None BY <1>4, <2>3
  <2>5. Number(row.bps) = b BY <2>2, <2>4 DEF Number
  <2>6. QED BY <2>3, <2>5
<1>7. Discount(row, cart, fee) = Lesser(raw, total + fee)
  BY DEF Discount
<1> HIDE DEF eligible, total
<1>8. /\ share \in Nat
      /\ row.type = "PERCENTAGE" /\ AmountFits(row) => share <= eligible
  BY <1>2, <1>5, <1>6, ShareOf
<1> HIDE DEF share
<1>9. /\ raw \in Nat
      /\ AmountFits(row) /\ row.type # "FREE_DELIVERY" => raw <= eligible
  <2>1. CASE row.type = "PERCENTAGE"
    <3>1. raw = IF row.cap = None THEN share ELSE Lesser(share, row.cap)
      BY <2>1
    <3>2. QED BY <1>2, <1>3, <1>8, <2>1, <3>1 DEF Lesser
  <2>2. CASE row.type = "FIXED_AMOUNT"
    <3>1. raw = Lesser(Number(row.amount), eligible)
      BY <2>2
    <3>2. QED BY <1>2, <1>5, <3>1 DEF Lesser
  <2>3. CASE row.type = "FREE_DELIVERY"
    BY <2>3
  <2>4. QED BY <1>3, <2>1, <2>2, <2>3
<1> HIDE DEF raw
<1>10. /\ Lesser(raw, total + fee) \in Nat
       /\ Lesser(raw, total + fee) <= total + fee
       /\ Lesser(raw, total + fee) <= raw
  BY <1>1, <1>9 DEF Lesser
<1>11. AmountFits(row) /\ row.type # "FREE_DELIVERY" =>
          Lesser(raw, total + fee) <= eligible
  BY <1>2, <1>9, <1>10
<1>12. QED BY <1>1, <1>2, <1>7, <1>10, <1>11 DEF total, eligible

FeeOf(s) == computeDeliveryFee(Distance[s])

\* What the function returns: the offer of a coupon that applies, or none when
\* no automatic one does.
LEMMA OffersAre ==
    ASSUME coupon \in [Coupon -> CouponRow \cup {None}],
           NEW u, NEW code \in Codes, NEW cart \in Carts, NEW s \in Store,
           NEW offer \in calculateDiscount(u, code, cart, s)
    PROVE  /\ offer \in Offer
           /\ offer.discount <= Subtotal(cart) + FeeOf(s)
           /\ offer.coupon # None =>
                 /\ offer.coupon \in Coupon /\ coupon[offer.coupon] \in CouponRow
                 /\ Applies(offer.coupon, u, cart, s)
                 /\ offer.discount = Discount(coupon[offer.coupon], cart, FeeOf(s))
           /\ offer.coupon = None =>
                 \A c \in AutoCoupons(s) : ~Applies(c, u, cart, s)
<1>1. /\ None \notin Coupon /\ None \notin CouponRow /\ FeeOf(s) \in Nat
      /\ Subtotal(cart) \in Nat
  BY PromotionsAssumption, FeeNatural, WorthNatural DEF FeeOf, Subtotal
<1>2. ASSUME NEW c \in Coupon, coupon[c] # None, Applies(c, u, cart, s),
             offer = OfferOf(c, cart, s)
      PROVE  /\ offer \in Offer /\ offer.coupon = c
             /\ offer.discount <= Subtotal(cart) + FeeOf(s)
             /\ coupon[c] \in CouponRow
             /\ offer.discount = Discount(coupon[c], cart, FeeOf(s))
  <2>1. coupon[c] \in CouponRow BY <1>2
  <2>2. /\ Discount(coupon[c], cart, FeeOf(s)) \in Nat
        /\ Discount(coupon[c], cart, FeeOf(s)) <= Subtotal(cart) + FeeOf(s)
    BY <1>1, <2>1, DiscountFacts
  <2>3. offer = [coupon |-> c, discount |-> Discount(coupon[c], cart, FeeOf(s))]
    BY <1>2 DEF OfferOf, FeeOf
  <2>4. QED BY <2>1, <2>2, <2>3 DEF Offer
<1>3. CASE code # None
  <2>1. /\ code \in Coupon /\ coupon[code] # None /\ Applies(code, u, cart, s)
        /\ offer = OfferOf(code, cart, s)
    BY <1>3, PromotionsAssumption DEF calculateDiscount
  <2>2. QED BY <1>1, <1>2, <2>1
<1>4. CASE code = None
  <2> DEFINE fit == {c \in AutoCoupons(s) : Applies(c, u, cart, s)}
  <2>1. CASE fit = {}
    <3>1. offer = NoOffer BY <1>4, <2>1 DEF calculateDiscount
    <3>2. offer \in Offer /\ offer.coupon = None /\ offer.discount = 0
      BY <3>1 DEF NoOffer, Offer
    <3>3. QED BY <1>1, <2>1, <3>2
  <2>2. CASE fit # {}
    <3>1. PICK c \in fit : offer = OfferOf(c, cart, s)
      BY <1>4, <2>2 DEF calculateDiscount
    <3>2. c \in Coupon /\ coupon[c] # None /\ Applies(c, u, cart, s)
      BY <3>1 DEF AutoCoupons
    <3>3. QED BY <1>1, <1>2, <3>1, <3>2
  <2>3. QED BY <2>1, <2>2
<1>5. QED BY <1>3, <1>4

LEMMA StoreResolved ==
    ASSUME NEW cart \in Carts PROVE resolveStore[cart] \in Store
<1> DEFINE capable == {s \in Store : Serves(s, cart)}
           stores == IF capable = {} THEN Store ELSE capable
           far == {Distance[s] : s \in stores}
<1>1. stores \subseteq Store /\ stores # {}
  BY PromotionsAssumption
<1>2. resolveStore[cart] = nearestStore(stores)
  BY DEF resolveStore
<1> HIDE DEF stores
<1>3. far \in SUBSET Nat /\ far # {}
  BY <1>1, PromotionsAssumption
<1>4. PICK d \in far : \A e \in far : d <= e
  <2> HIDE DEF far
  <2> QED BY <1>3, LeastNumber
<1>5. \E s \in stores : \A t \in stores : Distance[s] <= Distance[t]
  BY <1>4
<1>6. QED BY <1>1, <1>2, <1>5 DEF nearestStore

-----------------------------------------------------------------------------
(* The inductive invariant *)

\* An update in flight carries a request that was checked against the row it
\* read; what it writes of the rule comes from there.  Rows are never deleted.
CouponEdit(e) ==
    /\ e.id \in Coupon /\ e.seen \in CouponRow /\ e.dto \in Edits[e.id]
    /\ validateCouponRule(Merged(e.dto, e.seen))

CampaignEdit(e) ==
    /\ e.id \in Campaign /\ e.seen \in CampaignRow /\ e.dto \in Edits[e.id]
    /\ TargetNamed(Merged(e.dto, e.seen))
    /\ Merged(e.dto, e.seen).placements # {}

EditsHold ==
    /\ DOMAIN edit = Admin
    /\ \A a \in Admin : edit[a] # None =>
          \/ CouponEdit(edit[a]) /\ coupon[edit[a].id] # None
          \/ CampaignEdit(edit[a]) /\ campaign[edit[a].id] # None

CouponsFit ==
    /\ coupon \in [Coupon -> CouponRow \cup {None}]
    /\ \A c \in Coupon : coupon[c] # None => AmountFits(coupon[c])

CampaignsFit ==
    /\ campaign \in [Campaign -> CampaignRow \cup {None}]
    /\ \A k \in Campaign : campaign[k] # None =>
          /\ TargetFits(campaign[k]) /\ OneTarget(campaign[k])
          /\ campaign[k].placements # {}

CheckoutsFit ==
    /\ order \in [Order -> OrderRow \cup {None}]
    /\ checkout \in [Order -> Checkout \cup {None}]
    /\ now \in Time

PromotionInv == EditsHold /\ CouponsFit /\ CampaignsFit /\ CheckoutsFit

LEMMA InvIsTyped == PromotionInv => TypeOK
<1> SUFFICES ASSUME PromotionInv PROVE TypeOK
  OBVIOUS
<1>1. Whole BY DEF PromotionInv, CouponsFit, CampaignsFit, Whole
<1>2. /\ DOMAIN edit = Admin
      /\ \A a \in Admin : edit[a] # None =>
            \/ edit[a].id \in Coupon /\ edit[a].seen \in CouponRow
            \/ edit[a].id \in Campaign /\ edit[a].seen \in CampaignRow
  BY DEF PromotionInv, EditsHold, CouponEdit, CampaignEdit
<1>3. QED
  BY <1>1, <1>2 DEF PromotionInv, CouponsFit, CampaignsFit, CheckoutsFit, TypeOK

LEMMA InitInv == Init => PromotionInv
BY PromotionsAssumption
DEF Init, PromotionInv, EditsHold, CouponsFit, CampaignsFit, CheckoutsFit, Time

LEMMA QuoteStep ==
    ASSUME PromotionInv, NEW o \in Order, NEW u \in Customer, NEW cart \in Carts,
           NEW code \in Codes, Quote(o, u, cart, code)
    PROVE  PromotionInv'
<1> DEFINE s == resolveStore[cart]
<1>1. PICK offer \in calculateDiscount(u, code, cart, s) :
         checkout' = [checkout EXCEPT ![o] =
            [customer |-> u, cart |-> cart, code |-> code, store |-> s,
             offer |-> offer]]
  BY DEF Quote, Quotes
<1>2. s \in Store BY StoreResolved
<1> HIDE DEF s
<1>3. offer \in Offer
  BY <1>2, OffersAre DEF PromotionInv, CouponsFit
<1>4. [customer |-> u, cart |-> cart, code |-> code, store |-> s,
       offer |-> offer] \in Checkout
  BY <1>2, <1>3 DEF Checkout
<1>5. UNCHANGED <<coupon, campaign, order, edit, now>>
  BY DEF Quote
<1>6. CheckoutsFit'
  BY <1>1, <1>4, <1>5 DEF PromotionInv, CheckoutsFit
<1>7. QED
  BY <1>5, <1>6 DEF PromotionInv, EditsHold, CouponsFit, CampaignsFit

\* A total is what the cart costs less an offer that is worth no more.
LEMMA OrderRowOf ==
    ASSUME PromotionInv, NEW q \in Checkout, StillOffered(q)
    PROVE  [customer |-> q.customer, store |-> q.store, cart |-> q.cart,
            total |-> Subtotal(q.cart) + computeDeliveryFee(Distance[q.store])
                        - q.offer.discount,
            offer |-> q.offer, status |-> "PLACED"] \in OrderRow
<1>1. /\ q.customer \in Customer /\ q.cart \in Carts /\ q.code \in Codes
      /\ q.store \in Store /\ q.offer \in Offer
  BY DEF Checkout
<1>2. q.offer.discount <= Subtotal(q.cart) + FeeOf(q.store)
  BY <1>1, OffersAre DEF StillOffered, PromotionInv, CouponsFit
<1>3. Subtotal(q.cart) \in Nat /\ FeeOf(q.store) \in Nat
  BY <1>1, WorthNatural, FeeNatural, PromotionsAssumption DEF Subtotal, FeeOf
<1>4. q.offer.discount \in Nat BY <1>1 DEF Offer
<1>5. Subtotal(q.cart) + FeeOf(q.store) - q.offer.discount \in Nat
  BY <1>2, <1>3, <1>4
<1>6. QED BY <1>1, <1>5 DEF OrderRow, FeeOf

LEMMA PlaceStep ==
    ASSUME PromotionInv, NEW o \in Order, PlaceOrder(o) PROVE PromotionInv'
<1> DEFINE q == checkout[o]
           row == [customer |-> q.customer, store |-> q.store, cart |-> q.cart,
              total |-> Subtotal(q.cart) + computeDeliveryFee(Distance[q.store])
                           - q.offer.discount,
              offer |-> q.offer, status |-> "PLACED"]
<1>1. /\ q \in Checkout /\ StillOffered(q)
      /\ order' = [order EXCEPT ![o] = row]
      /\ checkout' = [checkout EXCEPT ![o] = None]
      /\ UNCHANGED <<coupon, campaign, edit, now>>
  BY DEF PlaceOrder, PromotionInv, CheckoutsFit
<1> HIDE DEF q
<1>2. row \in OrderRow BY <1>1, OrderRowOf
<1> HIDE DEF row
<1>3. CheckoutsFit'
  BY <1>1, <1>2 DEF PromotionInv, CheckoutsFit
<1>4. QED
  BY <1>1, <1>3 DEF PromotionInv, EditsHold, CouponsFit, CampaignsFit

LEMMA DropStep ==
    ASSUME PromotionInv, NEW o \in Order, DropCheckout(o) \/ Cancel(o)
    PROVE  PromotionInv'
<1>1. UNCHANGED <<coupon, campaign, edit>>
  BY DEF DropCheckout, Cancel
<1>2. CASE DropCheckout(o)
  BY <1>2 DEF DropCheckout, PromotionInv, CheckoutsFit, EditsHold, CouponsFit, CampaignsFit
<1>3. CASE Cancel(o)
  <2>1. /\ order[o] \in OrderRow
        /\ order' = [order EXCEPT ![o] = [order[o] EXCEPT !.status = "CANCELLED"]]
        /\ UNCHANGED <<checkout, now>>
    BY <1>3 DEF Cancel, PromotionInv, CheckoutsFit
  <2>2. [order[o] EXCEPT !.status = "CANCELLED"] \in OrderRow
    BY <2>1 DEF OrderRow
  <2>3. CheckoutsFit'
    BY <2>1, <2>2 DEF PromotionInv, CheckoutsFit
  <2>4. QED
    BY <1>1, <2>3 DEF PromotionInv, EditsHold, CouponsFit, CampaignsFit
<1>4. QED BY <1>2, <1>3

\* Updates in flight go on or are done, and their rows are still there.
LEMMA EditsGoOn ==
    ASSUME EditsHold, DOMAIN edit' = Admin,
           \A a \in Admin : edit'[a] = edit[a] \/ edit'[a] = None,
           \A c \in Coupon : coupon[c] # None => coupon'[c] # None,
           \A k \in Campaign : campaign[k] # None => campaign'[k] # None
    PROVE  EditsHold'
<1> SUFFICES ASSUME NEW a \in Admin, edit'[a] # None
             PROVE  \/ CouponEdit(edit'[a]) /\ coupon'[edit'[a].id] # None
                    \/ CampaignEdit(edit'[a]) /\ campaign'[edit'[a].id] # None
  BY DEF EditsHold
<1>1. edit'[a] = edit[a] /\ edit[a] # None
  OBVIOUS
<1>2. \/ CouponEdit(edit[a]) /\ coupon[edit[a].id] # None
      \/ CampaignEdit(edit[a]) /\ campaign[edit[a].id] # None
  BY <1>1 DEF EditsHold
<1>3. QED BY <1>1, <1>2 DEF CouponEdit, CampaignEdit

\* A write to one coupon, by an administrator whose update is done or by none.
LEMMA CouponWritten ==
    ASSUME PromotionInv, NEW c \in Coupon, NEW row \in CouponRow, AmountFits(row),
           coupon' = [coupon EXCEPT ![c] = row],
           edit' = edit \/ (\E a \in Admin : edit' = [edit EXCEPT ![a] = None]),
           UNCHANGED <<campaign, order, checkout, now>>
    PROVE  PromotionInv'
<1>1. CouponsFit' BY DEF PromotionInv, CouponsFit
<1>2. row # None BY PromotionsAssumption
<1>3. \A d \in Coupon : coupon[d] # None => coupon'[d] # None
  BY <1>2 DEF PromotionInv, CouponsFit
<1>4. /\ DOMAIN edit' = Admin
      /\ \A a \in Admin : edit'[a] = edit[a] \/ edit'[a] = None
  BY DEF PromotionInv, EditsHold
<1>5. EditsHold' BY <1>3, <1>4, EditsGoOn DEF PromotionInv
<1>6. QED BY <1>1, <1>5 DEF PromotionInv, CampaignsFit, CheckoutsFit

LEMMA CampaignWritten ==
    ASSUME PromotionInv, NEW k \in Campaign, NEW row \in CampaignRow,
           TargetFits(row), OneTarget(row), row.placements # {},
           campaign' = [campaign EXCEPT ![k] = row],
           edit' = edit \/ (\E a \in Admin : edit' = [edit EXCEPT ![a] = None]),
           UNCHANGED <<coupon, order, checkout, now>>
    PROVE  PromotionInv'
<1>1. CampaignsFit' BY DEF PromotionInv, CampaignsFit
<1>2. row # None BY PromotionsAssumption
<1>3. \A d \in Campaign : campaign[d] # None => campaign'[d] # None
  BY <1>2 DEF PromotionInv, CampaignsFit
<1>4. /\ DOMAIN edit' = Admin
      /\ \A a \in Admin : edit'[a] = edit[a] \/ edit'[a] = None
  BY DEF PromotionInv, EditsHold
<1>5. EditsHold' BY <1>3, <1>4, EditsGoOn DEF PromotionInv
<1>6. QED BY <1>1, <1>5 DEF PromotionInv, CouponsFit, CheckoutsFit

LEMMA EditBegun ==
    ASSUME PromotionInv, NEW a \in Admin, NEW e,
           \/ CouponEdit(e) /\ coupon[e.id] # None
           \/ CampaignEdit(e) /\ campaign[e.id] # None,
           edit' = [edit EXCEPT ![a] = e],
           UNCHANGED <<coupon, campaign, order, checkout, now>>
    PROVE  PromotionInv'
<1>1. DOMAIN edit' = Admin /\ edit'[a] = e
      /\ \A b \in Admin : b # a => edit'[b] = edit[b]
  BY DEF PromotionInv, EditsHold
<1>2. EditsHold'
  <2> SUFFICES ASSUME NEW b \in Admin, edit'[b] # None
               PROVE  \/ CouponEdit(edit'[b]) /\ coupon'[edit'[b].id] # None
                      \/ CampaignEdit(edit'[b]) /\ campaign'[edit'[b].id] # None
    BY <1>1 DEF EditsHold
  <2>1. CASE b = a BY <2>1, <1>1
  <2>2. CASE b # a BY <2>2, <1>1 DEF PromotionInv, EditsHold
  <2>3. QED BY <2>1, <2>2
<1>3. QED BY <1>2 DEF PromotionInv, CouponsFit, CampaignsFit, CheckoutsFit

LEMMA CreateCouponStep ==
    ASSUME PromotionInv, NEW c \in Coupon, NEW dto \in Creations[c],
           createCoupon(c, dto)
    PROVE  PromotionInv'
<1> DEFINE row == Normalised(Merged(dto, CouponDefaults))
           made == Cardinality({d \in Coupon : coupon[d] # None})
           new == [row EXCEPT !.created = made]
<1>1. /\ validateCouponRule(Merged(dto, CouponDefaults))
      /\ coupon' = [coupon EXCEPT ![c] = new]
      /\ UNCHANGED <<campaign, order, checkout, edit, now>>
  BY DEF createCoupon
<1>2. row \in CouponRow /\ AmountFits(row)
  BY <1>1, CouponMerged, DefaultsAreRows, NormalisedFits
<1>3. made \in Nat
  BY PromotionsAssumption, FS_Subset, FS_CardinalityType
<1> HIDE DEF row, made
<1>4. new \in CouponRow /\ AmountFits(new)
  <2>1. new \in CouponRow BY <1>2, <1>3 DEF CouponRow
  <2>2. new.type = row.type /\ new.bps = row.bps /\ new.amount = row.amount
    BY <1>2 DEF CouponRow
  <2> HIDE DEF new
  <2>3. QED BY <1>2, <2>1, <2>2 DEF AmountFits
<1> HIDE DEF new
<1>5. QED BY <1>1, <1>4, CouponWritten

LEMMA ReadCouponStep ==
    ASSUME PromotionInv, NEW a \in Admin, NEW c \in Coupon, NEW dto \in Edits[c],
           ReadCoupon(a, c, dto)
    PROVE  PromotionInv'
<1> DEFINE e == [id |-> c, dto |-> dto, seen |-> coupon[c]]
<1>1. /\ coupon[c] # None /\ validateCouponRule(Merged(dto, coupon[c]))
      /\ edit' = [edit EXCEPT ![a] = e]
      /\ UNCHANGED <<coupon, campaign, order, checkout, now>>
  BY DEF ReadCoupon
<1>2. CouponEdit(e)
  BY <1>1 DEF CouponEdit, PromotionInv, CouponsFit
<1>3. coupon[e.id] # None BY <1>1
<1> HIDE DEF e
<1>4. QED BY <1>1, <1>2, <1>3, EditBegun

LEMMA EditOf ==
    ASSUME PromotionInv, NEW a \in Admin, edit[a] # None
    PROVE  /\ edit[a].id \in Coupon =>
                 CouponEdit(edit[a]) /\ coupon[edit[a].id] # None
           /\ edit[a].id \in Campaign =>
                 CampaignEdit(edit[a]) /\ campaign[edit[a].id] # None
BY PromotionsAssumption DEF PromotionInv, EditsHold, CouponEdit, CampaignEdit

\* What an update writes: each field from the row or from what it computed, the
\* rule always from what it computed.
LEMMA WrittenCouponFacts ==
    ASSUME NEW row \in CouponRow, NEW e, CouponEdit(e)
    PROVE  /\ WrittenCoupon(row, e.seen, e.dto) \in CouponRow
           /\ AmountFits(WrittenCoupon(row, e.seen, e.dto))
           /\ "status" \notin DOMAIN e.dto =>
                 WrittenCoupon(row, e.seen, e.dto).status = row.status
<1> DEFINE new == Normalised(Merged(e.dto, e.seen))
           out == WrittenCoupon(row, e.seen, e.dto)
<1>1. new \in CouponRow /\ AmountFits(new)
  BY CouponMerged, NormalisedFits DEF CouponEdit
<1>2. DOMAIN row = CouponFields BY CouponDomain
<1>3. out = [f \in CouponFields |-> out[f]]
  BY <1>2 DEF WrittenCoupon
<1>4. \A f \in CouponFields : out[f] = row[f] \/ out[f] = new[f]
  BY <1>2 DEF WrittenCoupon
<1>5. /\ out.type = new.type /\ out.bps = new.bps /\ out.amount = new.amount
      /\ "status" \notin DOMAIN e.dto => out.status = row.status
  BY <1>2 DEF WrittenCoupon, RuleFields, CouponFields
<1> HIDE DEF new, out
<1>6. out \in CouponRow BY <1>1, <1>3, <1>4, CouponMix
<1>7. AmountFits(out) BY <1>1, <1>5 DEF AmountFits
<1>8. QED BY <1>5, <1>6, <1>7 DEF out

LEMMA WriteCouponStep ==
    ASSUME PromotionInv, NEW a \in Admin, NEW c \in Coupon, WriteCoupon(a, c)
    PROVE  PromotionInv'
<1> DEFINE row == WrittenCoupon(coupon[c], edit[a].seen, edit[a].dto)
<1>1. /\ edit[a] # None /\ edit[a].id = c
      /\ coupon' = [coupon EXCEPT ![c] = row]
      /\ edit' = [edit EXCEPT ![a] = None]
      /\ UNCHANGED <<campaign, order, checkout, now>>
  BY DEF WriteCoupon
<1>2. CouponEdit(edit[a]) /\ coupon[c] # None BY <1>1, EditOf
<1>3. coupon[c] \in CouponRow BY <1>2 DEF PromotionInv, CouponsFit
<1>4. row \in CouponRow /\ AmountFits(row)
  BY <1>2, <1>3, WrittenCouponFacts
<1> HIDE DEF row
<1>5. QED BY <1>1, <1>4, CouponWritten

LEMMA ArchiveCouponStep ==
    ASSUME PromotionInv, NEW c \in Coupon, archiveCoupon(c) PROVE PromotionInv'
<1>1. /\ coupon[c] \in CouponRow /\ AmountFits(coupon[c])
      /\ coupon' = [coupon EXCEPT ![c] = [coupon[c] EXCEPT !.status = "ARCHIVED"]]
      /\ UNCHANGED <<campaign, order, checkout, edit, now>>
  BY DEF archiveCoupon, PromotionInv, CouponsFit
<1>2. ASSUME NEW old \in CouponRow, AmountFits(old)
      PROVE  /\ [old EXCEPT !.status = "ARCHIVED"] \in CouponRow
             /\ AmountFits([old EXCEPT !.status = "ARCHIVED"])
  <2> DEFINE row == [old EXCEPT !.status = "ARCHIVED"]
  <2>1. row \in CouponRow BY DEF CouponRow, CouponStatus
  <2>2. row.type = old.type /\ row.bps = old.bps /\ row.amount = old.amount
    BY DEF CouponRow
  <2> HIDE DEF row
  <2>3. AmountFits(row) BY <1>2, <2>2 DEF AmountFits
  <2>4. QED BY <2>1, <2>3 DEF row
<1>3. QED BY <1>1, <1>2, CouponWritten

LEMMA CreateCampaignStep ==
    ASSUME PromotionInv, NEW k \in Campaign, NEW dto \in Creations[k],
           createCampaign(k, dto)
    PROVE  PromotionInv'
<1> DEFINE new == Merged(dto, CampaignDefaults)
           row == Targeted(new)
<1>1. /\ validateCampaignTarget(new) /\ new.placements # {}
      /\ campaign' = [campaign EXCEPT ![k] = row]
      /\ UNCHANGED <<coupon, order, checkout, edit, now>>
  BY DEF createCampaign
<1>2. new \in CampaignRow BY CampaignMerged, DefaultsAreRows
<1> HIDE DEF new
<1>3. TargetNamed(new) BY <1>1 DEF validateCampaignTarget, TargetNamed
<1>4. /\ row \in CampaignRow /\ TargetFits(row) /\ OneTarget(row)
      /\ row.placements # {}
  BY <1>1, <1>2, <1>3, TargetedFits
<1> HIDE DEF row
<1>5. QED BY <1>1, <1>4, CampaignWritten

LEMMA ReadCampaignStep ==
    ASSUME PromotionInv, NEW a \in Admin, NEW k \in Campaign,
           NEW dto \in Edits[k], ReadCampaign(a, k, dto)
    PROVE  PromotionInv'
<1> DEFINE e == [id |-> k, dto |-> dto, seen |-> campaign[k]]
           new == Merged(dto, campaign[k])
<1>1. /\ campaign[k] # None /\ validateCampaignTarget(new) /\ new.placements # {}
      /\ edit' = [edit EXCEPT ![a] = e]
      /\ UNCHANGED <<coupon, campaign, order, checkout, now>>
  BY DEF ReadCampaign
<1> HIDE DEF new
<1>2. TargetNamed(new) BY <1>1 DEF validateCampaignTarget, TargetNamed
<1>3. campaign[k] \in CampaignRow BY <1>1 DEF PromotionInv, CampaignsFit
<1>4. CampaignEdit(e) /\ campaign[e.id] # None
  BY <1>1, <1>2, <1>3 DEF CampaignEdit, new
<1> HIDE DEF e
<1>5. QED BY <1>1, <1>4, EditBegun

LEMMA WriteCampaignStep ==
    ASSUME PromotionInv, NEW a \in Admin, NEW k \in Campaign, WriteCampaign(a, k)
    PROVE  PromotionInv'
<1> DEFINE e == edit[a]
           old == campaign[k]
           new == Targeted(Merged(e.dto, e.seen))
           row == WrittenCampaign(old, e.seen, e.dto)
<1>1. /\ e # None /\ e.id = k
      /\ campaign' = [campaign EXCEPT ![k] = row]
      /\ edit' = [edit EXCEPT ![a] = None]
      /\ UNCHANGED <<coupon, order, checkout, now>>
  BY DEF WriteCampaign
<1>2. CampaignEdit(e) /\ old # None BY <1>1, EditOf
<1>3. old \in CampaignRow /\ old.placements # {}
  BY <1>2 DEF PromotionInv, CampaignsFit
<1>4. /\ new \in CampaignRow /\ TargetFits(new) /\ OneTarget(new)
      /\ new.placements # {}
  BY <1>2, CampaignMerged, TargetedFits DEF CampaignEdit
<1> HIDE DEF old, e
<1>5. DOMAIN old = CampaignFields BY <1>3, CampaignDomain
<1>6. row = [f \in CampaignFields |-> row[f]]
  BY <1>5 DEF WrittenCampaign
<1>7. \A f \in CampaignFields : row[f] = old[f] \/ row[f] = new[f]
  BY <1>5 DEF WrittenCampaign
<1>8. /\ row.type = new.type /\ row.product = new.product
      /\ row.category = new.category /\ row.path = new.path
      /\ row.placements = old.placements \/ row.placements = new.placements
  BY <1>5 DEF WrittenCampaign, CampaignFields
<1> HIDE DEF new, row
<1>9. row \in CampaignRow BY <1>3, <1>4, <1>6, <1>7, CampaignMix
<1>10. TargetFits(row) /\ OneTarget(row) /\ row.placements # {}
  BY <1>3, <1>4, <1>8 DEF TargetFits, OneTarget
<1>11. QED BY <1>1, <1>9, <1>10, CampaignWritten

LEMMA ArchiveCampaignStep ==
    ASSUME PromotionInv, NEW k \in Campaign, archiveCampaign(k) PROVE PromotionInv'
<1> DEFINE row == [campaign[k] EXCEPT !.status = "ARCHIVED"]
<1>1. /\ campaign[k] \in CampaignRow /\ TargetFits(campaign[k])
      /\ OneTarget(campaign[k]) /\ campaign[k].placements # {}
      /\ campaign' = [campaign EXCEPT ![k] = row]
      /\ UNCHANGED <<coupon, order, checkout, edit, now>>
  BY DEF archiveCampaign, PromotionInv, CampaignsFit
<1>2. /\ row \in CampaignRow /\ TargetFits(row) /\ OneTarget(row)
      /\ row.placements # {}
  <2>1. row \in CampaignRow BY <1>1 DEF CampaignRow, CouponStatus
  <2>2. row.type = campaign[k].type /\ row.product = campaign[k].product
        /\ row.category = campaign[k].category /\ row.path = campaign[k].path
        /\ row.placements = campaign[k].placements
    BY <1>1 DEF CampaignRow
  <2> HIDE DEF row
  <2>3. QED BY <1>1, <2>1, <2>2 DEF TargetFits, OneTarget
<1> HIDE DEF row
<1>3. QED BY <1>1, <1>2, CampaignWritten

LEMMA NextInv == PromotionInv /\ [Next]_vars => PromotionInv'
<1> SUFFICES ASSUME PromotionInv, [Next]_vars PROVE PromotionInv'
  OBVIOUS
<1>1. CASE Tick
  <2>1. now' \in Time BY <1>1, PromotionsAssumption
    DEF Tick, Time, PromotionInv, CheckoutsFit
  <2>2. QED
    BY <1>1, <2>1 DEF Tick, PromotionInv, CheckoutsFit, EditsHold, CouponsFit, CampaignsFit
<1>2. ASSUME NEW o \in Order,
             \/ PlaceOrder(o) \/ DropCheckout(o) \/ Cancel(o)
             \/ \E u \in Customer, cart \in Carts, code \in Codes :
                   Quote(o, u, cart, code)
      PROVE  PromotionInv'
  BY <1>2, PlaceStep, DropStep, QuoteStep
<1>3. ASSUME NEW c \in Coupon,
             \/ archiveCoupon(c)
             \/ \E dto \in Creations[c] : createCoupon(c, dto)
             \/ \E a \in Admin : \/ WriteCoupon(a, c)
                                 \/ \E dto \in Edits[c] : ReadCoupon(a, c, dto)
      PROVE  PromotionInv'
  BY <1>3, ArchiveCouponStep, CreateCouponStep, WriteCouponStep, ReadCouponStep
<1>4. ASSUME NEW k \in Campaign,
             \/ archiveCampaign(k)
             \/ \E dto \in Creations[k] : createCampaign(k, dto)
             \/ \E a \in Admin :
                   \/ WriteCampaign(a, k)
                   \/ \E dto \in Edits[k] : ReadCampaign(a, k, dto)
      PROVE  PromotionInv'
  BY <1>4, ArchiveCampaignStep, CreateCampaignStep, WriteCampaignStep,
     ReadCampaignStep
<1>5. CASE UNCHANGED vars
  BY <1>5 DEF vars, PromotionInv, EditsHold, CouponsFit, CampaignsFit, CheckoutsFit
<1>6. QED BY <1>1, <1>2, <1>3, <1>4, <1>5 DEF Next

LEMMA PromotionInvariant == Spec => []PromotionInv
BY InitInv, NextInv, PTL DEF Spec

\* Coupons, campaigns and orders keep their types, a discount has the amount of
\* its type, a campaign its target, and no total is negative, in whatever order
\* updates are read and written (updateCoupon, updateCampaign, placeOrder).
THEOREM PromotionTypes == Spec => []TypeOK
BY PromotionInvariant, InvIsTyped, PTL

-----------------------------------------------------------------------------
(* An archived coupon *)

\* A coupon changes by its creation, its archiving or the write of an update.
LEMMA CouponSteps ==
    ASSUME Next, NEW c \in Coupon, coupon'[c] # coupon[c], DOMAIN coupon = Coupon
    PROVE  \/ archiveCoupon(c)
           \/ \E dto \in Creations[c] : createCoupon(c, dto)
           \/ \E a \in Admin : WriteCoupon(a, c)
<1>1. coupon' # coupon OBVIOUS
<1>2. ASSUME NEW o \in Order,
             \/ PlaceOrder(o) \/ DropCheckout(o) \/ Cancel(o)
             \/ \E u \in Customer, cart \in Carts, code \in Codes :
                   Quote(o, u, cart, code)
      PROVE  FALSE
  BY <1>1, <1>2 DEF PlaceOrder, DropCheckout, Cancel, Quote
<1>3. ASSUME NEW k \in Campaign,
             \/ archiveCampaign(k)
             \/ \E dto \in Creations[k] : createCampaign(k, dto)
             \/ \E a \in Admin :
                   \/ WriteCampaign(a, k)
                   \/ \E dto \in Edits[k] : ReadCampaign(a, k, dto)
      PROVE  FALSE
  BY <1>1, <1>3 DEF archiveCampaign, createCampaign, WriteCampaign, ReadCampaign
<1>4. ~Tick BY <1>1 DEF Tick
<1>5. PICK d \in Coupon :
         \/ archiveCoupon(d)
         \/ \E dto \in Creations[d] : createCoupon(d, dto)
         \/ \E a \in Admin : \/ WriteCoupon(a, d)
                             \/ \E dto \in Edits[d] : ReadCoupon(a, d, dto)
  BY <1>2, <1>3, <1>4 DEF Next
<1>6. ~\E a \in Admin : \E dto \in Edits[d] : ReadCoupon(a, d, dto)
  BY <1>1 DEF ReadCoupon
<1>7. \A row : coupon' = [coupon EXCEPT ![d] = row] => d = c
  OBVIOUS
<1>8. d = c
  <2>1. CASE archiveCoupon(d)
    BY <2>1, <1>7 DEF archiveCoupon
  <2>2. CASE \E dto \in Creations[d] : createCoupon(d, dto)
    BY <2>2, <1>7 DEF createCoupon
  <2>3. CASE \E a \in Admin : WriteCoupon(a, d)
    BY <2>3, <1>7 DEF WriteCoupon
  <2>4. QED BY <1>5, <1>6, <2>1, <2>2, <2>3
<1>9. QED BY <1>5, <1>6, <1>8

LEMMA ArchivedStep ==
    ASSUME PromotionInv, [Next]_vars, NEW c \in Coupon,
           coupon[c] # None, coupon[c].status = "ARCHIVED",
           coupon'[c].status # "ARCHIVED"
    PROVE  \E a \in Admin : edit[a] # None /\ edit[a].id = c
                               /\ "status" \in DOMAIN edit[a].dto
<1>1. DOMAIN coupon = Coupon /\ coupon[c] \in CouponRow
  BY DEF PromotionInv, CouponsFit
<1>2. Next /\ coupon'[c] # coupon[c] BY DEF vars
<1>3. ASSUME archiveCoupon(c) PROVE FALSE
  <2>1. coupon'[c] = [coupon[c] EXCEPT !.status = "ARCHIVED"]
    BY <1>1, <1>3 DEF archiveCoupon
  <2>2. QED BY <1>1, <2>1 DEF CouponRow
<1>4. ~\E dto \in Creations[c] : createCoupon(c, dto) BY DEF createCoupon
<1>5. PICK a \in Admin : WriteCoupon(a, c)
  BY <1>1, <1>2, <1>3, <1>4, CouponSteps
<1>6. /\ edit[a] # None /\ edit[a].id = c
      /\ coupon'[c] = WrittenCoupon(coupon[c], edit[a].seen, edit[a].dto)
  BY <1>1, <1>5 DEF WriteCoupon
<1>7. CouponEdit(edit[a]) BY <1>6, EditOf
<1>8. "status" \in DOMAIN edit[a].dto
  BY <1>1, <1>6, <1>7, WrittenCouponFacts
<1>9. QED BY <1>6, <1>8

\* An archived coupon comes back only by an update whose request names the
\* status: one that read the row before it was archived and is about something
\* else leaves it archived (updateCoupon, archiveCoupon).
THEOREM ArchivedStays == Spec => ArchivedCouponStays
<1>1. PromotionInv /\ [Next]_vars =>
         \A c \in Coupon :
            coupon[c] # None /\ coupon[c].status = "ARCHIVED"
                             /\ coupon'[c].status # "ARCHIVED"
            => \E a \in Admin : edit[a] # None /\ edit[a].id = c
                                  /\ "status" \in DOMAIN edit[a].dto
  BY ArchivedStep
<1>2. QED BY <1>1, PromotionInvariant, PTL DEF Spec, ArchivedCouponStays

-----------------------------------------------------------------------------
(* What an order is charged *)

\* An order comes to be by placeOrder alone.
LEMMA OrderMade ==
    ASSUME PromotionInv, [Next]_vars, NEW o \in Order, order[o] = None,
           order'[o] # None
    PROVE  PlaceOrder(o)
<1>1. DOMAIN order = Order BY DEF PromotionInv, CheckoutsFit
<1>2. Next /\ order' # order BY DEF vars
<1>3. ASSUME NEW c \in Coupon,
             \/ archiveCoupon(c)
             \/ \E dto \in Creations[c] : createCoupon(c, dto)
             \/ \E a \in Admin : \/ WriteCoupon(a, c)
                                 \/ \E dto \in Edits[c] : ReadCoupon(a, c, dto)
      PROVE  FALSE
  BY <1>2, <1>3 DEF archiveCoupon, createCoupon, WriteCoupon, ReadCoupon
<1>4. ASSUME NEW k \in Campaign,
             \/ archiveCampaign(k)
             \/ \E dto \in Creations[k] : createCampaign(k, dto)
             \/ \E a \in Admin :
                   \/ WriteCampaign(a, k)
                   \/ \E dto \in Edits[k] : ReadCampaign(a, k, dto)
      PROVE  FALSE
  BY <1>2, <1>4 DEF archiveCampaign, createCampaign, WriteCampaign, ReadCampaign
<1>5. ~Tick BY <1>2 DEF Tick
<1>6. PICK p \in Order :
         \/ PlaceOrder(p) \/ DropCheckout(p) \/ Cancel(p)
         \/ \E u \in Customer, cart \in Carts, code \in Codes :
               Quote(p, u, cart, code)
  BY <1>2, <1>3, <1>4, <1>5 DEF Next
<1>7. PlaceOrder(p) \/ Cancel(p) BY <1>2, <1>6 DEF DropCheckout, Quote
<1>8. ASSUME Cancel(p) PROVE FALSE
  BY <1>1, <1>8 DEF Cancel
<1>9. PlaceOrder(p) BY <1>7, <1>8
<1>10. p = o BY <1>1, <1>9 DEF PlaceOrder
<1>11. QED BY <1>9, <1>10

\* What the rules count when an order is added, here of its customer or coupon.
LEMMA OneMore ==
    ASSUME NEW S \in SUBSET Order, NEW o \in Order, o \notin S
    PROVE  /\ Cardinality(S) \in Nat
           /\ Cardinality(S \cup {o}) = Cardinality(S) + 1
<1>1. IsFiniteSet(S) BY PromotionsAssumption, FS_Subset
<1>2. QED BY <1>1, FS_AddElement, FS_CardinalityType

\* What placing order o by customer u adds to the counts.
LEMMA Counted ==
    ASSUME NEW o \in Order, order[o] = None, order'[o] # None,
           \A p \in Order : p # o => order'[p] = order[p],
           order'[o].status = "PLACED",
           NEW u, order'[o].customer = u, NEW c
    PROVE  /\ PriorOrders(u)' = PriorOrders(u) \cup {o}
           /\ c = order'[o].offer.coupon =>
                 /\ Uses(c)' = Uses(c) \cup {o} /\ o \notin Uses(c)
                 /\ UsesBy(c, u)' = UsesBy(c, u) \cup {o} /\ o \notin UsesBy(c, u)
           /\ c # order'[o].offer.coupon =>
                 Uses(c)' = Uses(c) /\ UsesBy(c, u)' = UsesBy(c, u)
<1>1. PriorOrders(u)' = PriorOrders(u) \cup {o}
  BY DEF PriorOrders
<1>2. ASSUME c = order'[o].offer.coupon
      PROVE  Uses(c)' = Uses(c) \cup {o} /\ o \notin Uses(c)
  BY <1>2 DEF Uses
<1>3. ASSUME c # order'[o].offer.coupon PROVE Uses(c)' = Uses(c)
  BY <1>3 DEF Uses
<1>4. \A p \in Uses(c) : p # o /\ p \in Order
  BY DEF Uses
<1>5. ASSUME c = order'[o].offer.coupon
      PROVE  UsesBy(c, u)' = UsesBy(c, u) \cup {o} /\ o \notin UsesBy(c, u)
  BY <1>2, <1>4, <1>5 DEF UsesBy
<1>6. ASSUME c # order'[o].offer.coupon PROVE UsesBy(c, u)' = UsesBy(c, u)
  BY <1>3, <1>4, <1>6 DEF UsesBy
<1>7. QED BY <1>1, <1>2, <1>3, <1>5, <1>6

LEMMA PlacedFairly ==
    ASSUME PromotionInv, NEW o \in Order, PlaceOrder(o), order[o] = None
    PROVE  FairlyCharged(o)'
<1>1. PICK u, cart, code, s, offer :
         /\ u \in Customer /\ cart \in Carts /\ code \in Codes /\ s \in Store
         /\ offer \in calculateDiscount(u, code, cart, s)
         /\ \A p \in Order : p # o => order'[p] = order[p]
         /\ order'[o] \in OrderRow
         /\ order'[o].customer = u /\ order'[o].store = s
         /\ order'[o].cart = cart /\ order'[o].offer = offer
         /\ order'[o].status = "PLACED"
         /\ UNCHANGED <<coupon, now>>
  <2> DEFINE q == checkout[o]
  <2>1. PromotionInv' BY PlaceStep
  <2>2. q \in Checkout /\ DOMAIN order = Order
    BY DEF PlaceOrder, PromotionInv, CheckoutsFit
  <2>3. order'[o] = [customer |-> q.customer, store |-> q.store, cart |-> q.cart,
              total |-> Subtotal(q.cart) + computeDeliveryFee(Distance[q.store])
                           - q.offer.discount,
              offer |-> q.offer, status |-> "PLACED"]
    BY <2>2 DEF PlaceOrder
  <2>4. order'[o] \in OrderRow
    BY <2>2, OrderRowOf, <2>3 DEF PlaceOrder
  <2>5. /\ q.customer \in Customer /\ q.cart \in Carts /\ q.code \in Codes
        /\ q.store \in Store
    BY <2>2 DEF Checkout
  <2>6. q.offer \in calculateDiscount(q.customer, q.code, q.cart, q.store)
    BY DEF PlaceOrder, StillOffered
  <2>7. /\ \A p \in Order : p # o => order'[p] = order[p]
        /\ UNCHANGED <<coupon, now>>
    BY <2>2 DEF PlaceOrder
  <2>8. /\ order'[o].customer = q.customer /\ order'[o].store = q.store
        /\ order'[o].cart = q.cart /\ order'[o].offer = q.offer
        /\ order'[o].status = "PLACED"
    BY <2>3
  <2> HIDE DEF q
  <2>9. QED BY <2>4, <2>5, <2>6, <2>7, <2>8
<1>2. order'[o] # None BY <1>1, PromotionsAssumption
<1>3. coupon \in [Coupon -> CouponRow \cup {None}]
  BY DEF PromotionInv, CouponsFit
<1>4. CASE offer.coupon # None
  <2>1. PICK c \in Coupon : c = offer.coupon
    BY <1>1, <1>3, <1>4, OffersAre
  <2>2. PICK row : row = coupon[c] OBVIOUS
  <2>3. /\ row \in CouponRow /\ AmountFits(row) /\ Applies(c, u, cart, s)
        /\ offer.discount = Discount(row, cart, FeeOf(s))
    <3>1. /\ coupon[offer.coupon] \in CouponRow
          /\ Applies(offer.coupon, u, cart, s)
          /\ offer.discount = Discount(coupon[offer.coupon], cart, FeeOf(s))
      BY <1>1, <1>3, <1>4, OffersAre
    <3>2. coupon[c] # None BY <2>1, <3>1, PromotionsAssumption
    <3>3. AmountFits(coupon[c]) BY <3>2 DEF PromotionInv, CouponsFit
    <3>4. QED BY <2>1, <2>2, <3>1, <3>3
  <2>4. /\ Live(row) /\ row.store \in {None, s}
        /\ row.firstOnly => PriorOrders(u) = {}
        /\ row.limit # None => ~(Cardinality(Uses(c)) >= row.limit)
        /\ Cardinality(UsesBy(c, u)) < row.perCustomer
    BY <2>2, <2>3 DEF Applies, Exhausted
  <2>5. row.type # "FREE_DELIVERY" => offer.discount <= EligibleSubtotal(row, cart)
    BY <1>1, <2>3, FeeNatural, DiscountFacts, PromotionsAssumption DEF FeeOf
  <2>6. /\ PriorOrders(u)' = PriorOrders(u) \cup {o}
        /\ Cardinality(Uses(c))' = Cardinality(Uses(c)) + 1
        /\ Cardinality(UsesBy(c, u))' = Cardinality(UsesBy(c, u)) + 1
        /\ Cardinality(Uses(c)) \in Nat /\ Cardinality(UsesBy(c, u)) \in Nat
    <3>1. Uses(c) \in SUBSET Order /\ UsesBy(c, u) \in SUBSET Order
      BY DEF Uses, UsesBy
    <3>2. /\ PriorOrders(u)' = PriorOrders(u) \cup {o}
          /\ Uses(c)' = Uses(c) \cup {o} /\ o \notin Uses(c)
          /\ UsesBy(c, u)' = UsesBy(c, u) \cup {o} /\ o \notin UsesBy(c, u)
      BY <1>1, <1>2, <2>1, Counted
    <3>3. /\ Cardinality(Uses(c) \cup {o}) = Cardinality(Uses(c)) + 1
          /\ Cardinality(Uses(c)) \in Nat
      BY <3>1, <3>2, OneMore
    <3>4. /\ Cardinality(UsesBy(c, u) \cup {o}) = Cardinality(UsesBy(c, u)) + 1
          /\ Cardinality(UsesBy(c, u)) \in Nat
      BY <3>1, <3>2, OneMore
    <3>5. QED BY <3>2, <3>3, <3>4
  <2>7. /\ row.limit \in Nat \cup {None} /\ row.perCustomer \in Nat
    BY <2>3, CouponNumbers
  <2>8. /\ row.limit # None => Cardinality(Uses(c))' <= row.limit
        /\ Cardinality(UsesBy(c, u))' <= row.perCustomer
    BY <2>4, <2>6, <2>7
  <2>9. row.firstOnly => PriorOrders(u)' = {o}
    BY <2>4, <2>6
  <2>10. Live(row)' BY <1>1, <2>4 DEF Live
  <2>11. Entitled(o)'
    BY <1>1, <2>1, <2>2, <2>4, <2>5, <2>8, <2>9, <2>10 DEF Entitled
  <2>12. QED BY <1>1, <2>11, <1>4 DEF FairlyCharged
<1>5. CASE offer.coupon = None
  <2>1. \A c \in AutoCoupons(s) : ~Applies(c, u, cart, s)
    BY <1>1, <1>3, <1>5, OffersAre
  <2>2. AutoCoupons(s)' = AutoCoupons(s)
    BY <1>1 DEF AutoCoupons, Live, Before
  <2>3. ASSUME NEW c \in AutoCoupons(s), ~coupon[c].firstOnly
        PROVE  Applies(c, u, cart, s)' <=> Applies(c, u, cart, s)
    <3>1. c \in Coupon BY DEF AutoCoupons
    <3>2. c # None BY <3>1, PromotionsAssumption
    <3>3. Uses(c)' = Uses(c) /\ UsesBy(c, u)' = UsesBy(c, u)
      BY <1>1, <1>2, <1>5, <3>2, Counted
    <3>4. Exhausted(c)' <=> Exhausted(c)
      BY <1>1, <3>3 DEF Exhausted
    <3>5. Live(coupon[c])' <=> Live(coupon[c])
      BY <1>1 DEF Live
    <3>6. QED BY <1>1, <2>3, <3>3, <3>4, <3>5 DEF Applies
  <2>4. ASSUME NEW c \in AutoCoupons(s)
        PROVE  \/ coupon'[c].firstOnly \/ UsesBy(c, u)' # {}
               \/ ~Applies(c, u, cart, s)'
    BY <1>1, <2>1, <2>3
  <2>5. QED BY <1>1, <1>5, <2>2, <2>4 DEF FairlyCharged
<1>6. QED BY <1>4, <1>5

\* An order is charged by the rules in force when it is created, whatever
\* administrators and other customers did since its quote: its coupon is live,
\* within both limits with this order counted, and worth no more than what it
\* is for; without a coupon no automatic one applied (placeOrder,
\* calculateDiscount, evaluateCoupon).
THEOREM ChargedFairly == Spec => ChargedAsOffered
<1>1. PromotionInv /\ [Next]_vars =>
         \A o \in Order : order[o] = None /\ order'[o] # None
            => FairlyCharged(o)'
  BY OrderMade, PlacedFairly
<1>2. QED BY <1>1, PromotionInvariant, PTL DEF Spec, ChargedAsOffered
-----------------------------------------------------------------------------
(***************************************************************************)
(* What customers are shown.  A campaign's code is looked up in the table  *)
(* of coupons, so the coupon has to be there: it was when the request that *)
(* names it was checked, and coupons are archived, never deleted.          *)
(***************************************************************************)

HasRow(c) == c # None => coupon[c] # None

\* The coupon a campaign names, or is about to, has a row.
CodesExist ==
    /\ \A k \in Campaign : campaign[k] # None => HasRow(campaign[k].coupon)
    /\ \A a \in Admin : edit[a] # None /\ edit[a].id \in Campaign =>
          HasRow(Merged(edit[a].dto, edit[a].seen).coupon)

CouponsStay == \A c \in Coupon : coupon[c] # None => coupon'[c] # None

LEMMA CouponsPersist ==
    ASSUME PromotionInv, [Next]_vars
    PROVE  CouponsStay
<1> SUFFICES ASSUME NEW c \in Coupon, coupon[c] # None, coupon'[c] = None
             PROVE  FALSE
  BY DEF CouponsStay
<1>1. DOMAIN coupon = Coupon /\ coupon[c] \in CouponRow
  BY DEF PromotionInv, CouponsFit
<1>2. Next /\ coupon'[c] # coupon[c] BY DEF vars
<1>3. \A row : row \in CouponRow => row # None
  BY PromotionsAssumption
<1>4. ASSUME archiveCoupon(c) PROVE FALSE
  <2>1. coupon'[c] = [coupon[c] EXCEPT !.status = "ARCHIVED"]
    BY <1>1, <1>4 DEF archiveCoupon
  <2>2. coupon'[c] \in CouponRow BY <1>1, <2>1 DEF CouponRow, CouponStatus
  <2>3. QED BY <1>3, <2>2
<1>5. ~\E dto \in Creations[c] : createCoupon(c, dto) BY DEF createCoupon
<1>6. PICK a \in Admin : WriteCoupon(a, c)
  BY <1>1, <1>2, <1>4, <1>5, CouponSteps
<1>7. /\ edit[a] # None /\ edit[a].id = c
      /\ coupon'[c] = WrittenCoupon(coupon[c], edit[a].seen, edit[a].dto)
  BY <1>1, <1>6 DEF WriteCoupon
<1>8. CouponEdit(edit[a]) BY <1>7, EditOf
<1>9. QED BY <1>1, <1>3, <1>7, <1>8, WrittenCouponFacts

LEMMA TargetedKeepsCoupon ==
    ASSUME NEW row \in CampaignRow
    PROVE  Targeted(row).coupon = row.coupon /\ row.coupon \in Coupon \cup {None}
BY DEF Targeted, CampaignRow

\* A row still has its coupon after a step.
LEMMA CodeStays ==
    ASSUME CouponsStay, NEW row \in CampaignRow, HasRow(row.coupon)
    PROVE  row.coupon # None => coupon'[row.coupon] # None
BY TargetedKeepsCoupon DEF CouponsStay, HasRow

\* A step keeps the codes if every row and every update in flight that it makes
\* names a coupon with a row.
LEMMA CodesGoOn ==
    ASSUME PromotionInv, CodesExist, CouponsStay,
           \A k \in Campaign : campaign'[k] # None =>
               \/ campaign'[k] = campaign[k]
               \/ campaign'[k] \in CampaignRow /\ HasRow(campaign'[k].coupon),
           \A a \in Admin : edit'[a] # None /\ edit'[a].id \in Campaign =>
               \/ edit'[a] = edit[a]
               \/ /\ Merged(edit'[a].dto, edit'[a].seen) \in CampaignRow
                  /\ HasRow(Merged(edit'[a].dto, edit'[a].seen).coupon)
    PROVE  CodesExist'
<1>1. ASSUME NEW k \in Campaign, campaign'[k] # None
      PROVE  HasRow(campaign[k].coupon)'
  <2> PICK row : row = campaign'[k] OBVIOUS
  <2>1. row \in CampaignRow /\ HasRow(row.coupon)
    BY <1>1 DEF CodesExist, PromotionInv, CampaignsFit
  <2>2. row.coupon # None => coupon'[row.coupon] # None
    BY <2>1, CodeStays
  <2>3. QED BY <2>2 DEF HasRow
<1>2. ASSUME NEW a \in Admin, edit'[a] # None, edit'[a].id \in Campaign
      PROVE  HasRow(Merged(edit[a].dto, edit[a].seen).coupon)'
  <2> PICK row : row = Merged(edit'[a].dto, edit'[a].seen) OBVIOUS
  <2>1. row \in CampaignRow /\ HasRow(row.coupon)
    <3>1. CASE edit'[a] = edit[a]
      <4>1. CampaignEdit(edit[a]) BY <1>2, <3>1, EditOf
      <4>2. QED
        BY <1>2, <3>1, <4>1, CampaignMerged DEF CampaignEdit, CodesExist
    <3>2. CASE edit'[a] # edit[a]
      BY <1>2, <3>2
    <3>3. QED BY <3>1, <3>2
  <2>2. row.coupon # None => coupon'[row.coupon] # None
    BY <2>1, CodeStays
  <2>3. QED BY <2>2 DEF HasRow
<1>3. QED BY <1>1, <1>2 DEF CodesExist

LEMMA CampaignCodes ==
    ASSUME PromotionInv, CodesExist, CouponsStay, NEW k \in Campaign,
           \/ archiveCampaign(k)
           \/ \E dto \in Creations[k] : createCampaign(k, dto)
           \/ \E a \in Admin :
                 \/ WriteCampaign(a, k)
                 \/ \E dto \in Edits[k] : ReadCampaign(a, k, dto)
    PROVE  CodesExist'
<1>1. /\ campaign \in [Campaign -> CampaignRow \cup {None}]
      /\ DOMAIN edit = Admin
  BY DEF PromotionInv, CampaignsFit, EditsHold
<1>2. ASSUME NEW row \in CampaignRow, HasRow(row.coupon),
             campaign' = [campaign EXCEPT ![k] = row],
             edit' = edit \/ (\E a \in Admin : edit' = [edit EXCEPT ![a] = None])
      PROVE  CodesExist'
  <2>1. \A j \in Campaign : campaign'[j] = IF j = k THEN row ELSE campaign[j]
    BY <1>1, <1>2
  <2>2. \A a \in Admin : edit'[a] = edit[a] \/ edit'[a] = None
    BY <1>1, <1>2
  <2>3. QED BY <1>2, <2>1, <2>2, CodesGoOn
<1>3. CASE archiveCampaign(k)
  <2> DEFINE row == [campaign[k] EXCEPT !.status = "ARCHIVED"]
  <2>1. campaign[k] \in CampaignRow /\ campaign[k] # None
    BY <1>1, <1>3 DEF archiveCampaign
  <2>2. row \in CampaignRow /\ row.coupon = campaign[k].coupon
    BY <2>1 DEF CampaignRow, CouponStatus
  <2>3. campaign' = [campaign EXCEPT ![k] = row] /\ edit' = edit
    BY <1>1, <1>3 DEF archiveCampaign
  <2>4. HasRow(campaign[k].coupon) BY <2>1 DEF CodesExist
  <2> HIDE DEF row
  <2>5. QED BY <1>2, <2>2, <2>3, <2>4
<1>4. ASSUME NEW dto \in Creations[k], createCampaign(k, dto)
      PROVE  CodesExist'
  <2> DEFINE new == Merged(dto, CampaignDefaults)
  <2>1. /\ validateCampaignTarget(new) /\ edit' = edit
        /\ campaign' = [campaign EXCEPT ![k] = Targeted(new)]
    BY <1>4 DEF createCampaign
  <2>2. new \in CampaignRow BY CampaignMerged, DefaultsAreRows
  <2> HIDE DEF new
  <2>3. HasRow(new.coupon) BY <2>1 DEF validateCampaignTarget, HasRow
  <2>4. Targeted(new) \in CampaignRow /\ Targeted(new).coupon = new.coupon
    BY <2>1, <2>2, TargetedFits, TargetedKeepsCoupon
       DEF validateCampaignTarget, TargetNamed
  <2>5. QED BY <1>2, <2>1, <2>3, <2>4
<1>5. ASSUME NEW a \in Admin, WriteCampaign(a, k) PROVE CodesExist'
  <2> DEFINE e == edit[a]
             old == campaign[k]
             merged == Merged(e.dto, e.seen)
             row == WrittenCampaign(old, e.seen, e.dto)
  <2>1. /\ e # None /\ e.id = k
        /\ campaign' = [campaign EXCEPT ![k] = row]
        /\ edit' = [edit EXCEPT ![a] = None]
    BY <1>5 DEF WriteCampaign
  <2>2. CampaignEdit(e) /\ old # None BY <2>1, EditOf
  <2>3. merged \in CampaignRow /\ old \in CampaignRow
    BY <1>1, <2>2, CampaignMerged DEF CampaignEdit
  <2>5. row \in CampaignRow
    <3> DEFINE new == Targeted(merged)
    <3>1. new \in CampaignRow
      BY <2>2, <2>3, TargetedFits DEF CampaignEdit
    <3>2. DOMAIN old = CampaignFields BY <2>3, CampaignDomain
    <3>3. /\ row = [f \in CampaignFields |-> row[f]]
          /\ \A f \in CampaignFields : row[f] = old[f] \/ row[f] = new[f]
      BY <3>2 DEF WrittenCampaign
    <3> HIDE DEF new, row, old
    <3>4. QED BY <2>3, <3>1, <3>3, CampaignMix
  <2>6. HasRow(merged.coupon) /\ HasRow(old.coupon)
    BY <2>1, <2>2 DEF CodesExist
  <2>7. row.coupon = old.coupon \/ row.coupon = merged.coupon
    <3>1. Targeted(merged).coupon = merged.coupon
      BY <2>3, TargetedKeepsCoupon
    <3>2. DOMAIN old = CampaignFields BY <2>3, CampaignDomain
    <3>3. row.coupon = old.coupon \/ row.coupon = Targeted(merged).coupon
      BY <3>2 DEF WrittenCampaign, CampaignFields
    <3>4. QED BY <3>1, <3>3
  <2>8. HasRow(row.coupon)
    <3> HIDE DEF row, merged, old
    <3>1. QED BY <2>6, <2>7
  <2> HIDE DEF row
  <2>9. QED BY <1>2, <2>1, <2>5, <2>8
<1>6. ASSUME NEW a \in Admin, NEW dto \in Edits[k], ReadCampaign(a, k, dto)
      PROVE  CodesExist'
  <2> DEFINE e == [id |-> k, dto |-> dto, seen |-> campaign[k]]
             new == Merged(dto, campaign[k])
  <2>1. /\ campaign[k] # None /\ validateCampaignTarget(new)
        /\ edit' = [edit EXCEPT ![a] = e] /\ campaign' = campaign
    BY <1>6 DEF ReadCampaign
  <2>2. new \in CampaignRow BY <1>1, <2>1, CampaignMerged
  <2>3. Merged(e.dto, e.seen) = new OBVIOUS
  <2> HIDE DEF new, e
  <2>4. HasRow(new.coupon) BY <2>1 DEF validateCampaignTarget, HasRow
  <2>5. \A b \in Admin : edit'[b] = IF b = a THEN e ELSE edit[b]
    BY <1>1, <2>1
  <2>6. QED BY <2>1, <2>2, <2>3, <2>4, <2>5, CodesGoOn
<1>7. QED BY <1>3, <1>4, <1>5, <1>6

LEMMA NextCodes == PromotionInv /\ CodesExist /\ [Next]_vars => CodesExist'
<1> SUFFICES ASSUME PromotionInv, CodesExist, [Next]_vars PROVE CodesExist'
  OBVIOUS
<1>1. CouponsStay BY CouponsPersist
<1>2. CASE UNCHANGED <<campaign, edit>>
  BY <1>1, <1>2, CodesGoOn
<1>3. CASE Tick \/ UNCHANGED vars
  BY <1>2, <1>3 DEF Tick, vars
<1>4. ASSUME NEW o \in Order,
             \/ PlaceOrder(o) \/ DropCheckout(o) \/ Cancel(o)
             \/ \E u \in Customer, cart \in Carts, code \in Codes :
                   Quote(o, u, cart, code)
      PROVE  CodesExist'
  BY <1>2, <1>4 DEF PlaceOrder, DropCheckout, Cancel, Quote
<1>5. ASSUME NEW c \in Coupon,
             \/ archiveCoupon(c)
             \/ \E dto \in Creations[c] : createCoupon(c, dto)
      PROVE  CodesExist'
  BY <1>2, <1>5 DEF archiveCoupon, createCoupon
<1>6. DOMAIN edit = Admin BY DEF PromotionInv, EditsHold
<1>7. ASSUME NEW c \in Coupon, NEW a \in Admin, WriteCoupon(a, c)
      PROVE  CodesExist'
  <2>1. campaign' = campaign /\ edit' = [edit EXCEPT ![a] = None]
    BY <1>7 DEF WriteCoupon
  <2>2. \A b \in Admin : edit'[b] = edit[b] \/ edit'[b] = None
    BY <1>6, <2>1
  <2>3. QED BY <1>1, <2>1, <2>2, CodesGoOn
<1>8. ASSUME NEW c \in Coupon, NEW a \in Admin, NEW dto \in Edits[c],
             ReadCoupon(a, c, dto)
      PROVE  CodesExist'
  <2> DEFINE e == [id |-> c, dto |-> dto, seen |-> coupon[c]]
  <2>1. campaign' = campaign /\ edit' = [edit EXCEPT ![a] = e]
    BY <1>8 DEF ReadCoupon
  <2>2. e.id \notin Campaign BY PromotionsAssumption
  <2> HIDE DEF e
  <2>3. \A b \in Admin : edit'[b] = IF b = a THEN e ELSE edit[b]
    BY <1>6, <2>1
  <2>4. QED BY <1>1, <2>1, <2>2, <2>3, CodesGoOn
<1>9. ASSUME NEW k \in Campaign,
             \/ archiveCampaign(k)
             \/ \E dto \in Creations[k] : createCampaign(k, dto)
             \/ \E a \in Admin :
                   \/ WriteCampaign(a, k)
                   \/ \E dto \in Edits[k] : ReadCampaign(a, k, dto)
      PROVE  CodesExist'
  BY <1>1, <1>9, CampaignCodes
<1>10. QED BY <1>3, <1>4, <1>5, <1>7, <1>8, <1>9 DEF Next

\* The offers a customer is shown are those checkout takes, whatever edits of
\* coupons and campaigns overlap: the code on a campaign that is shown is listed,
\* and a coupon that applies is listed and marked eligible (publicCampaign,
\* publicCoupons, evaluateCoupon).
THEOREM DealsAgree == Spec => []DealsAgreeWithCheckout
<1>1. Init => CodesExist
  BY DEF Init, CodesExist
<1>2. PromotionInv /\ CodesExist => DealsAgreeWithCheckout
  <2> SUFFICES ASSUME PromotionInv, CodesExist PROVE DealsAgreeWithCheckout
    OBVIOUS
  <2>1. ASSUME NEW c \in Coupon, NEW u \in Customer, NEW cart \in Carts,
               coupon[c] # None, Applies(c, u, cart, resolveStore[cart])
        PROVE  c \in Listed /\ Eligible(c, u)
    BY <2>1 DEF Applies, Listed, Eligible
  <2>2. ASSUME NEW u \in Customer, NEW k \in Shown(u), ShownCode(k) # None
        PROVE  ShownCode(k) \in Listed
    <3>1. k \in Campaign /\ campaign[k] # None BY DEF Shown
    <3>2. campaign[k] \in CampaignRow BY <3>1 DEF PromotionInv, CampaignsFit
    <3>3. /\ ShownCode(k) = campaign[k].coupon
          /\ Live(coupon[campaign[k].coupon])
      BY <2>2 DEF ShownCode
    <3>4. ShownCode(k) \in Coupon BY <2>2, <3>2, <3>3, TargetedKeepsCoupon
    <3>5. coupon[ShownCode(k)] # None
      BY <2>2, <3>1, <3>3 DEF CodesExist, HasRow
    <3>6. QED BY <3>3, <3>4, <3>5 DEF Listed
  <2>3. QED BY <2>1, <2>2 DEF DealsAgreeWithCheckout
<1>3. QED
  BY <1>1, <1>2, NextCodes, PromotionInvariant, PTL DEF Spec

-----------------------------------------------------------------------------
(* The pages of the administrators.  What they send is merged with the row, *)
(* so each request is followed through Merged, field by field.              *)

FormFields == CouponFields \ {"created"}

LEMMA FormDomain == CouponForm = FormFields
BY CouponDomain, DefaultsAreRows DEF CouponForm, FormFields

\* No number of a row is 0, so no field is emptied by being 0.
LEMMA FormOpened ==
    ASSUME NEW row \in CouponRow
    PROVE  openCoupon(row) = [f \in FormFields |-> row[f]]
<1>1. \A f \in {"bps", "amount", "cap", "limit"} : OrEmpty(row[f]) = row[f]
  BY CouponNumbers DEF OrEmpty
<1>2. QED BY <1>1, FormDomain DEF openCoupon

\* What dto says of the row that form shows with a type and a scope of its own.
SavedAs(row, form, dto, t, s) ==
    /\ form.bps = row.bps /\ form.amount = row.amount
    /\ form.products = row.products /\ form.categories = row.categories
    /\ form.starts = row.starts /\ form.ends = row.ends
    /\ form.type = t /\ form.scope = s
    /\ DOMAIN dto = FormFields
    /\ \A f \in FormFields \ {"bps", "amount", "cap", "products", "categories",
                              "type", "scope"} : dto[f] = row[f]
    /\ dto.type = t /\ dto.scope = s
    /\ dto.bps = IF t = "PERCENTAGE" THEN Number(row.bps) ELSE None
    /\ dto.cap = IF t = "PERCENTAGE" THEN row.cap ELSE None
    /\ dto.amount = IF t = "FIXED_AMOUNT" THEN row.amount ELSE None
    /\ dto.products = IF s = "PRODUCTS" THEN row.products ELSE {}
    /\ dto.categories = IF s = "CATEGORIES" THEN row.categories ELSE {}

LEMMA FormSaved ==
    ASSUME NEW row \in CouponRow, NEW t \in DiscountType, NEW s \in Scope,
           NEW form,
           form = [openCoupon(row) EXCEPT !.type = t, !.scope = s]
    PROVE  SavedAs(row, form, saveCoupon(form), t, s)
<1>1. DOMAIN form = FormFields
  BY FormOpened
<1>2. /\ form.type = t /\ form.scope = s
      /\ \A f \in FormFields \ {"type", "scope"} : form[f] = row[f]
  BY FormOpened DEF FormFields, CouponFields
<1>3. /\ form.bps = row.bps /\ form.amount = row.amount /\ form.cap = row.cap
      /\ form.products = row.products /\ form.categories = row.categories
      /\ form.starts = row.starts /\ form.ends = row.ends
  BY <1>2 DEF FormFields, CouponFields
<1>4. DOMAIN saveCoupon(form) = FormFields
  BY <1>1 DEF saveCoupon
<1>5. \A f \in FormFields \ {"bps", "amount", "cap", "products", "categories"} :
         saveCoupon(form)[f] = form[f]
  BY <1>1 DEF saveCoupon
<1>6. /\ saveCoupon(form).bps =
             IF t = "PERCENTAGE" THEN Number(form.bps) ELSE None
      /\ saveCoupon(form).cap = IF t = "PERCENTAGE" THEN form.cap ELSE None
      /\ saveCoupon(form).amount =
             IF t = "FIXED_AMOUNT" THEN form.amount ELSE None
      /\ saveCoupon(form).products =
             IF s = "PRODUCTS" THEN form.products ELSE {}
      /\ saveCoupon(form).categories =
             IF s = "CATEGORIES" THEN form.categories ELSE {}
  BY <1>1, <1>2 DEF saveCoupon, FormFields, CouponFields
<1>7. saveCoupon(form).type = t /\ saveCoupon(form).scope = s
  BY <1>2, <1>5 DEF FormFields, CouponFields
<1>8. \A f \in FormFields \ {"bps", "amount", "cap", "products", "categories",
                            "type", "scope"} : saveCoupon(form)[f] = row[f]
  BY <1>2, <1>5
<1>9. QED BY <1>2, <1>3, <1>4, <1>6, <1>7, <1>8 DEF SavedAs

\* The merge of a row with a request that names the fields of the form.
LEMMA FormMerged ==
    ASSUME NEW row \in CouponRow, NEW dto, DOMAIN dto = FormFields
    PROVE  /\ DOMAIN Merged(dto, row) = CouponFields
           /\ Merged(dto, row).created = row.created
           /\ \A f \in FormFields \cap Nullable : Merged(dto, row)[f] = dto[f]
           /\ \A f \in FormFields \ Nullable :
                 Merged(dto, row)[f] = IF dto[f] # None THEN dto[f] ELSE row[f]
<1>1. DOMAIN row = CouponFields BY CouponDomain
<1>2. "created" \in CouponFields \ FormFields /\ FormFields \subseteq CouponFields
  BY DEF FormFields, CouponFields
<1>3. QED BY <1>1, <1>2 DEF Merged, Given

\* Two rows that agree in what their type and scope count are written alike.
LEMMA NormalisedAlike ==
    ASSUME NEW row \in CouponRow, NEW new, DOMAIN new = CouponFields,
           \A f \in CouponFields \ {"bps", "amount", "cap", "products",
                                    "categories"} : new[f] = row[f],
           row.type = "PERCENTAGE" => new.bps = row.bps /\ new.cap = row.cap,
           row.type = "FIXED_AMOUNT" => new.amount = row.amount,
           row.scope = "PRODUCTS" => new.products = row.products,
           row.scope = "CATEGORIES" => new.categories = row.categories
    PROVE  Normalised(new) = Normalised(row)
<1>1. DOMAIN row = CouponFields BY CouponDomain
<1>2. new.type = row.type /\ new.scope = row.scope BY DEF CouponFields
<1>3. /\ Normalised(new) = [f \in CouponFields |-> Normalised(new)[f]]
      /\ Normalised(row) = [f \in CouponFields |-> Normalised(row)[f]]
  BY <1>1 DEF Normalised
<1>4. \A f \in CouponFields : Normalised(new)[f] = Normalised(row)[f]
  <2>1. \A f \in CouponFields \ {"bps", "amount", "cap", "products",
                                 "categories"} :
           Normalised(new)[f] = new[f] /\ Normalised(row)[f] = row[f]
    BY <1>1 DEF Normalised
  <2>2. /\ Normalised(new).bps = Normalised(row).bps
        /\ Normalised(new).cap = Normalised(row).cap
        /\ Normalised(new).amount = Normalised(row).amount
        /\ Normalised(new).products = Normalised(row).products
        /\ Normalised(new).categories = Normalised(row).categories
    BY <1>1, <1>2 DEF Normalised, CouponFields
  <2>3. QED BY <2>1, <2>2
<1>5. QED BY <1>3, <1>4

\* The dialog opened and saved unchanged.
LEMMA CouponUnchanged ==
    ASSUME NEW row \in CouponRow, CouponDialog(openCoupon(row))
    PROVE  WrittenCoupon(row, row, saveCoupon(openCoupon(row))) = Normalised(row)
<1> DEFINE form == openCoupon(row)
           dto == saveCoupon(form)
           new == Merged(dto, row)
           out == WrittenCoupon(row, row, dto)
<1>1. DOMAIN row = CouponFields BY CouponDomain
<1>2. row.type \in DiscountType /\ row.scope \in Scope
  BY DEF CouponRow
<1>3. form = [form EXCEPT !.type = row.type, !.scope = row.scope]
  BY FormOpened DEF FormFields, CouponFields
<1>4. SavedAs(row, form, dto, row.type, row.scope)
  <2> HIDE DEF form
  <2>1. form = [openCoupon(row) EXCEPT !.type = row.type, !.scope = row.scope]
    BY <1>3 DEF form
  <2>2. QED BY <1>2, <2>1, FormSaved
<1>5. row.type = "PERCENTAGE" => dto.bps = row.bps
  <2>1. row.type = "PERCENTAGE" => row.bps # None
    BY <1>4 DEF CouponDialog, DiscountField, SavedAs
  <2> HIDE DEF dto
  <2>2. QED BY <1>4, <2>1 DEF Number, SavedAs
<1> HIDE DEF dto
<1>6. Normalised(new) = Normalised(row)
  <2>1. /\ DOMAIN new = CouponFields /\ new.created = row.created
        /\ \A f \in FormFields \cap Nullable : new[f] = dto[f]
        /\ \A f \in FormFields \ Nullable :
              new[f] = IF dto[f] # None THEN dto[f] ELSE row[f]
    BY <1>4, FormMerged DEF SavedAs
  <2> HIDE DEF new
  <2>2. \A f \in CouponFields \ {"bps", "amount", "cap", "products",
                                 "categories"} : new[f] = row[f]
    BY <1>4, <2>1 DEF FormFields, SavedAs
  <2>3. /\ new.cap = dto.cap
        /\ new.bps = IF dto.bps # None THEN dto.bps ELSE row.bps
        /\ new.amount = IF dto.amount # None THEN dto.amount ELSE row.amount
        /\ new.products = IF dto.products # None THEN dto.products
                          ELSE row.products
        /\ new.categories = IF dto.categories # None THEN dto.categories
                            ELSE row.categories
    BY <2>1 DEF FormFields, CouponFields, Nullable
  <2>4. QED BY <1>4, <1>5, <2>1, <2>2, <2>3, NormalisedAlike DEF SavedAs
<1>7. out = [f \in CouponFields |-> out[f]]
  BY <1>1 DEF WrittenCoupon
<1>8. \A f \in CouponFields : out[f] = Normalised(row)[f]
  <2>1. Normalised(row).created = row.created
    BY <1>1 DEF Normalised, CouponFields
  <2>2. \A f \in FormFields : out[f] = Normalised(new)[f]
    BY <1>1, <1>4
    DEF WrittenCoupon, RuleFields, FormFields, CouponFields, SavedAs
  <2>3. out.created = row.created
    BY <1>1, <1>4
    DEF WrittenCoupon, RuleFields, FormFields, CouponFields, SavedAs
  <2> HIDE DEF out, new
  <2>4. QED BY <1>6, <2>1, <2>2, <2>3 DEF FormFields
<1>9. Normalised(row) = [f \in CouponFields |-> Normalised(row)[f]]
  BY <1>1 DEF Normalised
<1> HIDE DEF out
<1>10. out = Normalised(row) BY <1>7, <1>8, <1>9
<1>11. QED BY <1>10 DEF out, dto

\* What the browser lets through after a change of type or scope.
LEMMA CouponChanged ==
    ASSUME NEW c \in Coupon, coupon[c] \in CouponRow, NEW t \in DiscountType,
           NEW s \in Scope, NEW form, form = EditedForm(c, t, s),
           CouponDialog(form), Scheduled(form)
    PROVE  TakesCoupon(c, saveCoupon(form))
<1> DEFINE row == coupon[c]
           dto == saveCoupon(form)
           new == Merged(dto, row)
<1>1. form = [openCoupon(row) EXCEPT !.type = t, !.scope = s]
  BY DEF EditedForm
<1> HIDE DEF row
<1>2. SavedAs(row, form, dto, t, s)
  BY <1>1, FormSaved DEF row
<1>3. t # None /\ s # None BY PromotionsAssumption
<1> HIDE DEF dto
<1>4. /\ dto.starts = row.starts /\ dto.ends = row.ends
  BY <1>2 DEF FormFields, CouponFields, SavedAs
<1>5. validateSchedule(Given(dto, row, "starts"), Given(dto, row, "ends"))
  BY <1>2, <1>4 DEF Scheduled, Given, SavedAs
<1>6. /\ new.type = t /\ new.scope = s
      /\ new.bps = IF dto.bps # None THEN dto.bps ELSE row.bps
      /\ new.amount = IF dto.amount # None THEN dto.amount ELSE row.amount
      /\ new.products = IF dto.products # None THEN dto.products
                        ELSE row.products
      /\ new.categories = IF dto.categories # None THEN dto.categories
                          ELSE row.categories
  <2>1. \A f \in FormFields \ Nullable :
           new[f] = IF dto[f] # None THEN dto[f] ELSE row[f]
    BY <1>2, FormMerged DEF SavedAs, row
  <2> HIDE DEF new
  <2>2. QED BY <1>2, <1>3, <2>1 DEF FormFields, CouponFields, Nullable, SavedAs
<1> HIDE DEF new
<1>7. /\ t = "PERCENTAGE" => row.bps # None /\ row.bps \in Bps
      /\ t = "FIXED_AMOUNT" => row.amount # None
      /\ s = "PRODUCTS" => row.products # {}
      /\ s = "CATEGORIES" => row.categories # {}
  BY <1>2 DEF CouponDialog, DiscountField, EligibilityField, SavedAs
<1>8. t = "PERCENTAGE" => new.bps = row.bps
  BY <1>2, <1>6, <1>7 DEF Number, SavedAs
<1>9. t = "FIXED_AMOUNT" => new.amount = row.amount /\ row.amount >= 1
  <2>1. row.amount \in Nat \cup {None} /\ row.amount # 0
    BY CouponNumbers DEF row
  <2>2. QED BY <1>2, <1>6, <1>7, <2>1 DEF SavedAs
<1>10. /\ s = "PRODUCTS" => new.products # {}
       /\ s = "CATEGORIES" => new.categories # {}
  BY <1>2, <1>6, <1>7 DEF SavedAs
<1>11. validateCouponRule(new)
  BY <1>6, <1>7, <1>8, <1>9, <1>10 DEF validateCouponRule
<1>12. QED BY <1>5, <1>11 DEF TakesCoupon, new, dto, row

\* The request of the status button changes the status of the merge alone.
LEMMA StatusMerged ==
    ASSUME NEW row, NEW st \in CouponStatus, "status" \in DOMAIN row
    PROVE  /\ DOMAIN Merged([status |-> st], row) = DOMAIN row
           /\ Merged([status |-> st], row).status = st
           /\ \A f \in DOMAIN row \ {"status"} :
                 Merged([status |-> st], row)[f] = row[f]
           /\ \A f : f # "status" => Given([status |-> st], row, f) = row[f]
<1>1. st # None BY PromotionsAssumption
<1>2. "status" \notin Nullable BY DEF Nullable
<1> DEFINE dto == [status |-> st]
<1>3. DOMAIN dto = {"status"} /\ dto.status = st
  OBVIOUS
<1> HIDE DEF dto
<1>4. /\ DOMAIN Merged(dto, row) = DOMAIN row
      /\ Merged(dto, row).status = st
      /\ \A f \in DOMAIN row \ {"status"} : Merged(dto, row)[f] = row[f]
      /\ \A f : f # "status" => Given(dto, row, f) = row[f]
  BY <1>1, <1>2, <1>3 DEF Merged, Given
<1>5. QED BY <1>4 DEF dto

LEMMA ButtonIsStatus == \A row : StatusButton(row) \in CouponStatus
BY DEF StatusButton, CouponStatus

LEMMA AmountNamed ==
    ASSUME NEW row, AmountFits(row)
    PROVE  /\ row.type = "PERCENTAGE" => row.bps # None /\ row.bps \in Bps
           /\ row.type = "FIXED_AMOUNT" => row.amount # None /\ row.amount >= 1
<1>1. row.type = "PERCENTAGE" => row.bps \in Bps BY DEF AmountFits
<1>2. row.type = "FIXED_AMOUNT" => row.amount \in Nat \ {0} BY DEF AmountFits
<1>3. \A n \in Bps : n \in Nat BY DEF Bps
<1>4. \A n \in Nat \ {0} : n \in Nat /\ n >= 1 OBVIOUS
<1>5. None \notin Nat BY PromotionsAssumption
<1>6. QED BY <1>1, <1>2, <1>3, <1>4, <1>5

LEMMA CouponPressed ==
    ASSUME NEW c \in Coupon, coupon[c] \in CouponRow, AmountFits(coupon[c])
    PROVE  /\ TakesCoupon(c, setCouponStatus(c)) <=>
                 EligibilityField(coupon[c]) /\ Scheduled(coupon[c])
           /\ CouponLine(c).pressed.status = StatusButton(coupon[c])
<1> DEFINE row == coupon[c]
           st == StatusButton(row)
           dto == [status |-> st]
           new == Merged(dto, row)
<1>1. DOMAIN row = CouponFields /\ st \in CouponStatus
  BY CouponDomain, ButtonIsStatus
<1>2. setCouponStatus(c) = dto /\ DOMAIN dto = {"status"}
  BY DEF setCouponStatus
<1>3. /\ DOMAIN new = CouponFields /\ new.status = st
      /\ \A f \in CouponFields \ {"status"} : new[f] = row[f]
      /\ \A f : f # "status" => Given(dto, row, f) = row[f]
  <2>1. "status" \in DOMAIN row
    BY <1>1 DEF CouponFields
  <2> HIDE DEF st
  <2>2. QED BY <1>1, <2>1, StatusMerged
<1> HIDE DEF dto, st
<1>4. validateCouponRule(new) <=> EligibilityField(row)
  <2>1. /\ new.type = row.type /\ new.bps = row.bps /\ new.amount = row.amount
        /\ new.scope = row.scope /\ new.products = row.products
        /\ new.categories = row.categories
    BY <1>3 DEF CouponFields
  <2>2. /\ row.type = "PERCENTAGE" => row.bps # None /\ row.bps \in Bps
        /\ row.type = "FIXED_AMOUNT" => row.amount # None /\ row.amount >= 1
    BY AmountNamed
  <2> HIDE DEF new
  <2>3. QED BY <2>1, <2>2 DEF validateCouponRule, EligibilityField
<1>5. TakesCoupon(c, setCouponStatus(c)) <=>
         EligibilityField(row) /\ Scheduled(row)
  BY <1>2, <1>3, <1>4 DEF TakesCoupon, Scheduled
<1>6. CouponLine(c).pressed.status = Normalised(new).status
  BY <1>1, <1>2 DEF CouponLine, WrittenCoupon, RuleFields, CouponFields
<1>7. Normalised(new).status = new.status
  BY <1>3 DEF Normalised, CouponFields
<1>8. QED BY <1>3, <1>5, <1>6, <1>7 DEF st

LEMMA CouponEditor ==
    ASSUME PromotionInv PROVE CouponEditorIsSafe
<1> SUFFICES ASSUME NEW c \in Coupon, coupon[c] # None
             PROVE  /\ CouponDialog(openCoupon(coupon[c])) =>
                          WrittenCoupon(coupon[c], coupon[c],
                                        saveCoupon(openCoupon(coupon[c])))
                              = Normalised(coupon[c])
                    /\ \A type \in DiscountType, scope \in Scope :
                          CouponDialog(EditedForm(c, type, scope))
                          /\ Scheduled(EditedForm(c, type, scope))
                             => TakesCoupon(c, saveCoupon(EditedForm(c, type, scope)))
                    /\ TakesCoupon(c, setCouponStatus(c)) <=>
                          EligibilityField(coupon[c]) /\ Scheduled(coupon[c])
  BY DEF CouponEditorIsSafe
<1>1. coupon[c] \in CouponRow /\ AmountFits(coupon[c])
  BY DEF PromotionInv, CouponsFit
<1>2. QED BY <1>1, CouponUnchanged, CouponChanged, CouponPressed

LEMMA CampaignUnchanged ==
    ASSUME NEW row \in CampaignRow, OneTarget(row)
    PROVE  /\ Merged(row, row) = row
           /\ WrittenCampaign(row, row, row) = row
<1>1. row = [f \in DOMAIN row |-> row[f]]
  BY DEF CampaignRow
<1>2. Merged(row, row) = row BY <1>1 DEF Merged, Given
<1>3. DOMAIN row = CampaignFields BY CampaignDomain
<1>4. Targeted(row) = row
  <2> DEFINE new == Targeted(row)
  <2>1. new = [f \in CampaignFields |-> new[f]] BY <1>3 DEF Targeted
  <2>2. \A f \in CampaignFields : new[f] = row[f]
    <3>1. \A f \in CampaignFields \ {"path", "product", "category"} :
             new[f] = row[f]
      BY <1>3 DEF Targeted
    <3>2. /\ new.path = row.path /\ new.product = row.product
          /\ new.category = row.category
      BY <1>3 DEF Targeted, OneTarget, CampaignFields
    <3>3. QED BY <3>1, <3>2
  <2> HIDE DEF new
  <2>3. new = row BY <1>1, <1>3, <2>1, <2>2
  <2>4. QED BY <2>3 DEF new
<1>5. WrittenCampaign(row, row, row) = row
  BY <1>1, <1>2, <1>4 DEF WrittenCampaign
<1>6. QED BY <1>2, <1>5

\* A row that has its target is refused only because its coupon is archived.
LEMMA TargetTaken ==
    ASSUME PromotionInv, CodesExist, NEW k \in Campaign, campaign[k] # None,
           NEW row, row.type = campaign[k].type, row.path = campaign[k].path,
           row.product = campaign[k].product,
           row.category = campaign[k].category, row.coupon = campaign[k].coupon
    PROVE  /\ validateCampaignTarget(row) <=>
                 campaign[k].coupon \in LinkableCoupons \cup {None}
           /\ TargetPanel(campaign[k])
<1>1. campaign[k] \in CampaignRow /\ TargetFits(campaign[k])
  BY DEF PromotionInv, CampaignsFit
<1>2. TargetPanel(campaign[k])
  BY <1>1, PromotionsAssumption DEF TargetFits, TargetPanel
<1>3. HasRow(campaign[k].coupon) BY DEF CodesExist
<1>4. campaign[k].coupon \in Coupon \cup {None}
  BY <1>1, TargetedKeepsCoupon
<1>5. QED
  BY <1>2, <1>3, <1>4
  DEF TargetPanel, validateCampaignTarget, LinkableCoupons, HasRow

LEMMA CampaignPressed ==
    ASSUME NEW k \in Campaign, campaign[k] \in CampaignRow
    PROVE  /\ \A f \in CampaignFields \ {"status"} :
                 Merged(setCampaignStatus(k), campaign[k])[f] = campaign[k][f]
           /\ \A f : f # "status" =>
                 Given(setCampaignStatus(k), campaign[k], f) = campaign[k][f]
           /\ CampaignCard(k).pressed.status = StatusButton(campaign[k])
<1> DEFINE row == campaign[k]
           st == StatusButton(row)
           dto == [status |-> st]
           new == Merged(dto, row)
<1>1. DOMAIN row = CampaignFields /\ st \in CouponStatus
  BY CampaignDomain, ButtonIsStatus
<1>2. setCampaignStatus(k) = dto BY DEF setCampaignStatus
<1>3. /\ DOMAIN new = CampaignFields /\ new.status = st
      /\ \A f \in CampaignFields \ {"status"} : new[f] = row[f]
      /\ \A f : f # "status" => Given(dto, row, f) = row[f]
  <2>1. "status" \in DOMAIN row BY <1>1 DEF CampaignFields
  <2> HIDE DEF st
  <2>2. QED BY <1>1, <2>1, StatusMerged
<1>4. WrittenCampaign(row, row, dto).status = Targeted(new).status
  BY <1>1 DEF WrittenCampaign, CampaignFields
<1> HIDE DEF dto, st
<1>5. Targeted(new).status = new.status
  BY <1>3 DEF Targeted, CampaignFields
<1>6. CampaignCard(k).pressed.status = st
  BY <1>2, <1>3, <1>4, <1>5 DEF CampaignCard
<1>7. QED BY <1>2, <1>3, <1>6 DEF st

LEMMA CampaignEditor ==
    ASSUME PromotionInv, CodesExist PROVE CampaignEditorIsSafe
<1> SUFFICES ASSUME NEW k \in Campaign, campaign[k] # None
             PROVE  LET linked == campaign[k].coupon
                                     \in LinkableCoupons \cup {None}
                    IN /\ CampaignDialog(openCampaign(k))
                       /\ WrittenCampaign(campaign[k], campaign[k],
                                          openCampaign(k)) = campaign[k]
                       /\ TakesCampaign(k, openCampaign(k)) <=>
                             linked /\ Scheduled(campaign[k])
                       /\ TakesCampaign(k, setCampaignStatus(k)) <=>
                             linked /\ Scheduled(campaign[k])
  BY DEF CampaignEditorIsSafe
<1> DEFINE row == campaign[k]
           dto == setCampaignStatus(k)
           linked == row.coupon \in LinkableCoupons \cup {None}
<1>1. row \in CampaignRow /\ OneTarget(row) /\ row.placements # {}
  BY DEF PromotionInv, CampaignsFit
<1>2. CampaignDialog(openCampaign(k))
  BY <1>1, TargetTaken DEF CampaignDialog, saveCampaign, openCampaign
<1>3. Merged(row, row) = row /\ WrittenCampaign(row, row, row) = row
  BY <1>1, CampaignUnchanged
<1>4. TakesCampaign(k, row) <=> linked /\ Scheduled(row)
  <2>1. validateCampaignTarget(row) <=> linked BY TargetTaken
  <2>2. /\ Given(row, row, "starts") = row.starts
        /\ Given(row, row, "ends") = row.ends
    BY DEF Given
  <2>3. QED BY <1>3, <2>1, <2>2 DEF TakesCampaign, Scheduled
<1>5. TakesCampaign(k, dto) <=> linked /\ Scheduled(row)
  <2> DEFINE new == Merged(dto, row)
  <2>1. /\ \A f \in CampaignFields \ {"status"} : new[f] = row[f]
        /\ Given(dto, row, "starts") = row.starts
        /\ Given(dto, row, "ends") = row.ends
    BY <1>1, CampaignPressed
  <2>2. /\ new.type = row.type /\ new.path = row.path
        /\ new.product = row.product /\ new.category = row.category
        /\ new.coupon = row.coupon
    BY <2>1 DEF CampaignFields
  <2> HIDE DEF new, dto
  <2>3. validateCampaignTarget(new) <=> linked BY <2>2, TargetTaken
  <2>4. QED BY <2>1, <2>3 DEF TakesCampaign, Scheduled, new
<1>6. QED BY <1>2, <1>3, <1>4, <1>5 DEF openCampaign

-----------------------------------------------------------------------------
(* The pages of the customers *)

\* The status a list shows, and the one its button writes.
LEMMA StatusesShown ==
    ASSUME now \in Time, NEW row, row.status \in CouponStatus,
           row.starts \in Time \cup {None}, row.ends \in Time \cup {None},
           NEW card, card.shown = effectiveStatus(row),
           card.pressed.status = StatusButton(row)
    PROVE  StatusesAreTrue(row, card)
<1> DEFINE sent == card.pressed
<1>1. \A t \in Time : t \in Nat BY PromotionsAssumption DEF Time
<1>2. Live(row) => card.shown = "ACTIVE" /\ sent.status = "PAUSED"
  BY <1>1 DEF Live, effectiveStatus, StatusButton
<1>3. card.shown = "ACTIVE" /\ row.ends # now => Live(row)
  BY <1>1 DEF Live, effectiveStatus, CouponStatus
<1>4. ~(Live(row) /\ Live(sent)) BY <1>2 DEF Live
<1>5. StatusButton(row) # "PAUSED" =>
         effectiveStatus(sent) \in {"ACTIVE", "SCHEDULED", "EXPIRED"}
  BY DEF effectiveStatus, StatusButton
<1>6. QED BY <1>2, <1>3, <1>4, <1>5 DEF StatusesAreTrue

\* Of finitely many coupons one comes before all others.
LEMMA OneIsBest ==
    ASSUME PromotionInv, NEW fit \in SUBSET Coupon, fit # {},
           \A c \in fit : coupon[c] # None
    PROVE  \E b \in fit : \A d \in fit : ~Before(d, b)
<1>1. \A c \in fit : coupon[c].priority \in Int /\ coupon[c].created \in Nat
  BY DEF PromotionInv, CouponsFit, CouponRow
<1> DEFINE better(b) == {d \in fit : Before(d, b)}
           ranks == {Cardinality(better(b)) : b \in fit}
<1>2. \A b \in fit : IsFiniteSet(better(b)) /\ Cardinality(better(b)) \in Nat
  BY PromotionsAssumption, FS_Subset, FS_CardinalityType
<1>3. PICK n \in ranks : \A m \in ranks : n <= m
  <2>1. ranks \in SUBSET Nat /\ ranks # {} BY <1>2
  <2> HIDE DEF ranks
  <2>2. QED BY <2>1, LeastNumber
<1>4. PICK b \in fit : n = Cardinality(better(b)) OBVIOUS
<1>5. ASSUME NEW e \in fit, Before(e, b) PROVE FALSE
  <2>1. better(e) \in SUBSET better(b)
    BY <1>1, <1>5 DEF Before
  <2>2. e \in better(b) /\ e \notin better(e)
    BY <1>1, <1>5 DEF Before
  <2>3. n <= Cardinality(better(e)) BY <1>3
  <2> HIDE DEF better, ranks
  <2>4. /\ Cardinality(better(e)) <= Cardinality(better(b))
        /\ Cardinality(better(b)) = Cardinality(better(e))
              => better(b) = better(e)
    BY <1>2, <2>1, FS_Subset
  <2>5. Cardinality(better(e)) \in Nat /\ Cardinality(better(b)) \in Nat
    BY <1>2
  <2>6. QED BY <1>4, <2>2, <2>3, <2>4, <2>5
<1>6. QED BY <1>5

\* A coupon taken from the deals page gives its offer, or a better one.
LEMMA DealsKept ==
    ASSUME PromotionInv, NEW u, NEW cart, NEW s, NEW c \in Coupon,
           coupon[c] # None, Applies(c, u, cart, s),
           coupon[c].mode = "AUTO" => c \in AutoCoupons(s)
    PROVE  \E offer \in calculateDiscount(u, useCoupon(c), cart, s) :
              \/ offer.coupon = c
              \/ coupon[c].mode = "AUTO" /\ ~Before(c, offer.coupon)
<1>1. c # None BY PromotionsAssumption
<1>2. \A d : OfferOf(d, cart, s).coupon = d BY DEF OfferOf
<1>3. CASE coupon[c].mode = "CODE"
  <2>1. useCoupon(c) = c BY <1>3 DEF useCoupon
  <2>2. OfferOf(c, cart, s) \in calculateDiscount(u, useCoupon(c), cart, s)
    BY <1>1, <2>1 DEF calculateDiscount
  <2>3. QED BY <1>2, <2>2
<1>4. CASE coupon[c].mode = "AUTO"
  <2> DEFINE fit == {d \in AutoCoupons(s) : Applies(d, u, cart, s)}
  <2>1. useCoupon(c) = None BY <1>4 DEF useCoupon
  <2>2. c \in fit BY <1>4
  <2>3. fit \in SUBSET Coupon /\ \A d \in fit : coupon[d] # None
    BY DEF AutoCoupons
  <2>4. PICK b \in fit : \A d \in fit : ~Before(d, b)
    <3> HIDE DEF fit
    <3>1. QED BY <2>2, <2>3, OneIsBest
  <2>5. OfferOf(b, cart, s) \in calculateDiscount(u, useCoupon(c), cart, s)
    BY <2>1, <2>2, <2>4 DEF calculateDiscount
  <2>6. QED BY <1>2, <1>4, <2>2, <2>4, <2>5
<1>5. coupon[c].mode \in {"CODE", "AUTO"}
  BY DEF PromotionInv, CouponsFit, CouponRow
<1>6. QED BY <1>3, <1>4, <1>5

\* The code the checkout page remembers gives the offer it was remembered from.
LEMMA CodeRemembered ==
    ASSUME NEW u, NEW cart, NEW s,
           NEW offer \in calculateDiscount(u, None, cart, s),
           Remembered(offer) # None
    PROVE  calculateDiscount(u, Remembered(offer), cart, s) = {offer}
<1> DEFINE fit == {d \in AutoCoupons(s) : Applies(d, u, cart, s)}
<1>1. NoOffer.coupon = None BY DEF NoOffer
<1>2. PICK c \in fit : offer = OfferOf(c, cart, s)
  BY <1>1 DEF calculateDiscount, Remembered
<1>3. Remembered(offer) = c BY <1>2 DEF Remembered, OfferOf
<1>4. coupon[c] # None /\ Applies(c, u, cart, s) BY DEF AutoCoupons
<1>5. QED BY <1>2, <1>3, <1>4 DEF calculateDiscount

LEMMA ShopKept ==
    ASSUME PromotionInv PROVE ShopKeepsPromises
<1> SUFFICES ASSUME NEW u \in Customer
             PROVE  /\ \A k \in HeroCarousel(u) \cup OfferBanner(u)
                                   \cup FeaturedCampaigns(u) :
                          campaign[k].type # "NONE"
                             => campaignTargetUrl(campaign[k]) # None
                    /\ \A cart \in Carts :
                          LET s == resolveStore[cart]
                          IN /\ \A c \in DealsPage(u) :
                                   /\ Applies(c, u, cart, s)
                                   /\ coupon[c].mode = "AUTO"
                                         => c \in AutoCoupons(s)
                                   => \E offer \in calculateDiscount(
                                                u, useCoupon(c), cart, s) :
                                         \/ offer.coupon = c
                                         \/ /\ coupon[c].mode = "AUTO"
                                            /\ ~Before(c, offer.coupon)
                             /\ \A code \in Codes :
                                   Quotes(u, cart, code) # {} <=>
                                      /\ PlaceOrderButton(u, cart, code)
                                      /\ InStock(s, cart)
                             /\ \A offer \in calculateDiscount(u, None, cart, s) :
                                   Remembered(offer) # None =>
                                      calculateDiscount(u, Remembered(offer),
                                                        cart, s) = {offer}
  BY DEF ShopKeepsPromises
<1>1. ASSUME NEW k \in HeroCarousel(u) \cup OfferBanner(u) \cup FeaturedCampaigns(u),
             campaign[k].type # "NONE"
      PROVE  campaignTargetUrl(campaign[k]) # None
  <2>1. k \in Campaign /\ campaign[k] # None
    BY DEF HeroCarousel, OfferBanner, FeaturedCampaigns, Banners, Shown
  <2>2. campaign[k] \in CampaignRow /\ TargetFits(campaign[k])
    BY <2>1 DEF PromotionInv, CampaignsFit
  <2>3. campaign[k].type \in TargetType BY <2>2 DEF CampaignRow
  <2>4. None \notin Product \cup Categories \cup {"/shop/deals"}
    BY PromotionsAssumption
  <2>5. QED
    BY <1>1, <2>2, <2>3, <2>4 DEF TargetFits, TargetType, campaignTargetUrl
<1>2. ASSUME NEW cart \in Carts, NEW code \in Codes
      PROVE  Quotes(u, cart, code) # {} <=>
                /\ PlaceOrderButton(u, cart, code)
                /\ InStock(resolveStore[cart], cart)
  BY DEF Quotes, PlaceOrderButton
<1>3. \A c \in DealsPage(u) : c \in Coupon /\ coupon[c] # None
  BY DEF DealsPage, Listed
<1>4. QED BY <1>1, <1>2, <1>3, DealsKept, CodeRemembered

\* What the promotions, shop, deals and checkout pages show and send agrees
\* with what the server does with it, however edits and checkouts overlap: a
\* dialog saved unchanged changes nothing, a form the browser lets through is
\* taken, a status button takes a row from customers or publishes it, a banner
\* leads somewhere, and an offer used or remembered is the offer given.
THEOREM PagesMatch == Spec => []PagesMatchServer
<1>1. Init => CodesExist
  BY DEF Init, CodesExist
<1>2. PromotionInv /\ CodesExist =>
         /\ CouponEditorIsSafe /\ CampaignEditorIsSafe /\ ShopKeepsPromises
         /\ \A c \in Coupon : coupon[c] # None =>
               StatusesAreTrue(coupon[c], CouponLine(c))
         /\ \A k \in Campaign : campaign[k] # None =>
               StatusesAreTrue(campaign[k], CampaignCard(k))
  <2> SUFFICES ASSUME PromotionInv, CodesExist
               PROVE  /\ \A c \in Coupon : coupon[c] # None =>
                            StatusesAreTrue(coupon[c], CouponLine(c))
                      /\ \A k \in Campaign : campaign[k] # None =>
                            StatusesAreTrue(campaign[k], CampaignCard(k))
    BY CouponEditor, CampaignEditor, ShopKept
  <2>1. now \in Time BY DEF PromotionInv, CheckoutsFit
  <2>2. ASSUME NEW c \in Coupon, coupon[c] # None
        PROVE  StatusesAreTrue(coupon[c], CouponLine(c))
    <3>1. coupon[c] \in CouponRow /\ AmountFits(coupon[c])
      BY <2>2 DEF PromotionInv, CouponsFit
    <3>2. CouponLine(c).pressed.status = StatusButton(coupon[c])
      BY <3>1, CouponPressed
    <3>3. CouponLine(c).shown = effectiveStatus(coupon[c]) BY DEF CouponLine
    <3>4. /\ coupon[c].status \in CouponStatus
          /\ coupon[c].starts \in Time \cup {None}
          /\ coupon[c].ends \in Time \cup {None}
      BY <3>1 DEF CouponRow
    <3>5. QED BY <2>1, <3>2, <3>3, <3>4, StatusesShown
  <2>3. ASSUME NEW k \in Campaign, campaign[k] # None
        PROVE  StatusesAreTrue(campaign[k], CampaignCard(k))
    <3>1. campaign[k] \in CampaignRow
      BY <2>3 DEF PromotionInv, CampaignsFit
    <3>2. CampaignCard(k).pressed.status = StatusButton(campaign[k])
      BY <3>1, CampaignPressed
    <3>3. CampaignCard(k).shown = effectiveStatus(campaign[k])
      BY DEF CampaignCard
    <3>4. /\ campaign[k].status \in CouponStatus
          /\ campaign[k].starts \in Time \cup {None}
          /\ campaign[k].ends \in Time \cup {None}
      BY <3>1 DEF CampaignRow
    <3>5. QED BY <2>1, <3>2, <3>3, <3>4, StatusesShown
  <2>4. QED BY <2>2, <2>3
<1>3. QED
  BY <1>1, <1>2, DealsAgree, NextCodes, PromotionInvariant, PTL
  DEF Spec, PagesMatchServer
=============================================================================
