-------------------------- MODULE PromotionScreens --------------------------
(***************************************************************************)
(* The pages through which administrators edit coupons and campaigns and   *)
(* customers meet them: the promotions page of the dashboard, the shop's   *)
(* banners, the deals page and the checkout page.  Each definition is what *)
(* a page loaded now shows, or the request it sends; the server's answer   *)
(* is that of Promotions.                                                  *)
(*                                                                         *)
(* An empty field of a form is None.  A form holds dates to the minute,    *)
(* the least a step of Time stands for.                                    *)
(***************************************************************************)
EXTENDS Promotions

-----------------------------------------------------------------------------
(* The coupon dialog *)

CouponForm == DOMAIN CouponDefaults \ {"created"}

couponDefaults ==
    [f \in CouponForm |-> CASE f = "type" -> "PERCENTAGE" [] f = "bps" -> 1000
                              [] OTHER -> CouponDefaults[f]]

\* A number that is 0 is shown as an empty field.
OrEmpty(value) == IF value = 0 THEN None ELSE value

\* A mutant: the field of the total limit is not filled in.
openCouponWithoutLimit(row) ==
    [f \in CouponForm |-> CASE f \in {"bps", "amount", "cap"} -> OrEmpty(row[f])
                              [] f = "limit" -> None
                              [] OTHER -> row[f]]

openCoupon(row) ==
    [f \in CouponForm |-> IF f \in {"bps", "amount", "cap", "limit"}
                            THEN OrEmpty(row[f]) ELSE row[f]]

\* The request names every field of the form.
saveCoupon(form) ==
    [form EXCEPT
        !.bps = IF form.type = "PERCENTAGE" THEN Number(@) ELSE None,
        !.cap = IF form.type = "PERCENTAGE" THEN @ ELSE None,
        !.amount = IF form.type = "FIXED_AMOUNT" THEN @ ELSE None,
        !.products = IF form.scope = "PRODUCTS" THEN @ ELSE {},
        !.categories = IF form.scope = "CATEGORIES" THEN @ ELSE {}]

DiscountField(form) ==
    /\ form.type = "PERCENTAGE" => form.bps # None /\ form.bps \in Bps
    /\ form.type = "FIXED_AMOUNT" => form.amount # None

EligibilityField(form) ==
    /\ form.scope = "PRODUCTS" => form.products # {}
    /\ form.scope = "CATEGORIES" => form.categories # {}

\* The fields the browser insists on before it submits the dialog.
CouponDialog(form) == DiscountField(form) /\ EligibilityField(form)

-----------------------------------------------------------------------------
(* The campaign dialog, whose form and request are the campaign's fields *)

campaignDefaults ==
    [CampaignDefaults EXCEPT !.placements = {"HOME_TODAY_OFFERS"}]

openCampaign(k) == campaign[k]

TargetPanel(form) ==
    /\ form.type = "PRODUCT" => form.product # None
    /\ form.type = "CATEGORY" => form.category # None
    /\ form.type = "INTERNAL_PATH" => form.path # None

\* The linked coupon keeps its place in the form when the list no longer
\* offers it.
LinkableCoupons == {c \in Coupon : coupon[c] # None
                                      /\ coupon[c].status # "ARCHIVED"}

\* The request is the form; it is not sent without a placement.
saveCampaign(form) == form.placements # {}

CampaignDialog(form) == TargetPanel(form) /\ saveCampaign(form)

-----------------------------------------------------------------------------
(* The lists *)

effectiveStatus(row) ==
    CASE row.status \in {"ARCHIVED", "PAUSED", "DRAFT"} -> row.status
      [] row.status \in {"ACTIVE", "SCHEDULED"} ->
            IF row.starts # None /\ row.starts > now THEN "SCHEDULED"
            ELSE IF row.ends # None /\ row.ends < now THEN "EXPIRED"
            ELSE "ACTIVE"

\* The one status button of a row, of a coupon and of a campaign.
StatusButton(row) ==
    CASE row.status \in {"ACTIVE", "SCHEDULED"} -> "PAUSED"
      [] row.starts # None /\ row.starts > now -> "SCHEDULED"
      [] OTHER -> "ACTIVE"

setCouponStatus(c) == [status |-> StatusButton(coupon[c])]
setCampaignStatus(k) == [status |-> StatusButton(campaign[k])]

\* What a card or a line tells of its row, and where its button takes it.
CouponLine(c) == [shown |-> effectiveStatus(coupon[c]),
                  pressed |-> WrittenCoupon(coupon[c], coupon[c],
                                            setCouponStatus(c))]
CampaignCard(k) == [shown |-> effectiveStatus(campaign[k]),
                    pressed |-> WrittenCampaign(campaign[k], campaign[k],
                                                setCampaignStatus(k))]

-----------------------------------------------------------------------------
(* The customer's pages *)

\* Where the button of a banner leads; it is dead for None.
campaignTargetUrl(row) ==
    CASE row.type = "PRODUCT" -> row.product
      [] row.type = "CATEGORY" -> row.category
      [] row.type = "INTERNAL_PATH" -> row.path
      [] row.type = "DEALS" -> "/shop/deals"
      [] OTHER -> None

Banners(u, placement) == {k \in Shown(u) : placement \in campaign[k].placements}

HeroCarousel(u) == Banners(u, "HOME_HERO")
OfferBanner(u) == Banners(u, "HOME_TODAY_OFFERS")
FeaturedCampaigns(u) == Banners(u, "DEALS_PAGE")

DealsPage(u) == {c \in Listed : Eligible(c, u)}

\* The code a card of the deals page takes to the checkout page.
useCoupon(c) == IF coupon[c].mode = "CODE" THEN c ELSE None

\* The code the checkout page remembers of a quote and enters at its next one.
Remembered(offer) == offer.coupon

\* The button needs a quote of a store in reach and does not look at the stock.
PlaceOrderButton(u, cart, code) ==
    LET s == resolveStore[cart]
    IN Serviceable(s) /\ calculateDiscount(u, code, cart, s) # {}

-----------------------------------------------------------------------------
(* Properties *)

TakesCoupon(c, dto) ==
    /\ validateSchedule(Given(dto, coupon[c], "starts"),
                        Given(dto, coupon[c], "ends"))
    /\ validateCouponRule(Merged(dto, coupon[c]))

TakesCampaign(k, dto) ==
    /\ validateSchedule(Given(dto, campaign[k], "starts"),
                        Given(dto, campaign[k], "ends"))
    /\ validateCampaignTarget(Merged(dto, campaign[k]))

Scheduled(row) == validateSchedule(row.starts, row.ends)

\* The form of a coupon, with another type or scope chosen.
EditedForm(c, type, scope) ==
    [openCoupon(coupon[c]) EXCEPT !.type = type, !.scope = scope]

\* Opened and saved unchanged, the dialog leaves the coupon as it is; and what
\* the browser lets through after a change, the server takes.
CouponEditorIsSafe ==
    \A c \in Coupon : coupon[c] # None =>
        /\ CouponDialog(openCoupon(coupon[c])) =>
              WrittenCoupon(coupon[c], coupon[c],
                            saveCoupon(openCoupon(coupon[c])))
                  = Normalised(coupon[c])
        /\ \A type \in DiscountType, scope \in Scope :
              LET form == EditedForm(c, type, scope)
              IN CouponDialog(form) /\ Scheduled(form)
                    => TakesCoupon(c, saveCoupon(form))
        /\ TakesCoupon(c, setCouponStatus(c)) <=>
              EligibilityField(coupon[c]) /\ Scheduled(coupon[c])

\* The same of a campaign, whose dialog and button the server refuses exactly
\* when its coupon has been archived.
CampaignEditorIsSafe ==
    \A k \in Campaign : campaign[k] # None =>
        LET linked == campaign[k].coupon \in LinkableCoupons \cup {None}
        IN /\ CampaignDialog(openCampaign(k))
           /\ WrittenCampaign(campaign[k], campaign[k], openCampaign(k))
                 = campaign[k]
           /\ TakesCampaign(k, openCampaign(k)) <=>
                 linked /\ Scheduled(campaign[k])
           /\ TakesCampaign(k, setCampaignStatus(k)) <=>
                 linked /\ Scheduled(campaign[k])

\* A status shown as ACTIVE is what customers meet, but for the instant a row
\* ends; and the button takes a row from customers or publishes it.
StatusesAreTrue(row, card) ==
    /\ Live(row) => card.shown = "ACTIVE"
    /\ card.shown = "ACTIVE" /\ row.ends # now => Live(row)
    /\ ~(Live(row) /\ Live(card.pressed))
    /\ StatusButton(row) # "PAUSED" =>
          effectiveStatus(card.pressed) \in {"ACTIVE", "SCHEDULED", "EXPIRED"}

\* A banner leads somewhere unless it is meant not to; a coupon used from the
\* deals page, or remembered by the checkout page, gives what was promised; and
\* an order the button is offered for is refused for want of stock only.
ShopKeepsPromises ==
    \A u \in Customer :
        /\ \A k \in HeroCarousel(u) \cup OfferBanner(u) \cup FeaturedCampaigns(u) :
              campaign[k].type # "NONE" => campaignTargetUrl(campaign[k]) # None
        /\ \A cart \in Carts :
              LET s == resolveStore[cart]
              IN /\ \A c \in DealsPage(u) :
                       /\ Applies(c, u, cart, s)
                       /\ coupon[c].mode = "AUTO" => c \in AutoCoupons(s)
                       => \E offer \in
                                calculateDiscount(u, useCoupon(c), cart, s) :
                             \/ offer.coupon = c
                             \/ /\ coupon[c].mode = "AUTO"
                                /\ ~Before(c, offer.coupon)
                 /\ \A code \in Codes :
                       Quotes(u, cart, code) # {} <=>
                          PlaceOrderButton(u, cart, code) /\ InStock(s, cart)
                 /\ \A offer \in calculateDiscount(u, None, cart, s) :
                       Remembered(offer) # None =>
                          calculateDiscount(u, Remembered(offer), cart, s)
                              = {offer}

\* What the pages show and send agrees with what the server does with it, and
\* what the server lists with what its checkout takes (the promotions, shop,
\* deals and checkout pages; promotions.service.ts).
PagesMatchServer ==
    /\ DealsAgreeWithCheckout
    /\ CouponEditorIsSafe /\ CampaignEditorIsSafe /\ ShopKeepsPromises
    /\ \A c \in Coupon : coupon[c] # None =>
          StatusesAreTrue(coupon[c], CouponLine(c))
    /\ \A k \in Campaign : campaign[k] # None =>
          StatusesAreTrue(campaign[k], CampaignCard(k))
=============================================================================
