---------------------------- MODULE Promotions ----------------------------
(***************************************************************************)
(* Offers and coupons: what an admin may create and change of them         *)
(* (admin.validator.js, admin.service.js), and when one is worth something *)
(* (pricing.service.js, coupon.service.js).  An offer is a discount of a   *)
(* product.  A value is in hundredths, of a peso when FIXED and of one per *)
(* cent when PERCENTAGE; a form is a record of the fields it sends.        *)
(***************************************************************************)
EXTENDS Integers

CONSTANT Null   \* no value: null, or a field that is not set

ASSUME NullAssumption == Null \notin Int

Percentage == "PERCENTAGE"

States(sent, field) == field \in DOMAIN sent

\* A row with the fields a form sends.
Over(sent, old) == [f \in DOMAIN old |-> IF States(sent, f) THEN sent[f] ELSE old[f]]

TooMuch(p) == p.type = Percentage /\ p.value > 10000

NotNegative(sent, fields) == \A f \in fields \cap DOMAIN sent : sent[f] = Null \/ sent[f] >= 0

-----------------------------------------------------------------------------
(* Offers.                                                                  *)

\* The validator of POST /discounts, where the value is required.
DiscountValid(sent) == sent.value >= 0 /\ ~TooMuch(sent)

NewOffer == [type |-> Null, value |-> Null, startsAt |-> Null, endsAt |-> Null, isActive |-> TRUE]

CreateDiscount(sent) == Over(sent, NewOffer)

\* The validator of an edit looks at no percentage: the service does.
DiscountChangeValid(sent) == NotNegative(sent, {"value"})

\* An edit is refused when what it leaves is more than everything.
UpdateDiscount(sent, existing) ==
    IF TooMuch(Over(sent, existing)) THEN existing ELSE Over(sent, existing)

\* What is left of an offer created and then changed; what is not valid is refused.
SavedDiscount(change) ==
    LET made == CreateDiscount(change.create)
    IN  IF DiscountChangeValid(change.edit) THEN UpdateDiscount(change.edit, made) ELSE made

SavedDiscounts(changes) == {SavedDiscount(c) : c \in {d \in changes : DiscountValid(d.create)}}

-----------------------------------------------------------------------------
(* Coupons.                                                                 *)

CouponValid(sent) ==
    /\ sent.value >= 0 /\ ~TooMuch(sent)
    /\ NotNegative(sent, {"minPurchase"})
    /\ States(sent, "maxUses") => sent.maxUses >= 1

NewCoupon ==
    [type |-> Null, value |-> Null, minPurchase |-> Null, maxUses |-> Null,
     startsAt |-> Null, endsAt |-> Null, isActive |-> TRUE, usedCount |-> 0]

\* No minimum and a minimum of nothing are the same.
OrNull(n) == IF n = 0 THEN Null ELSE n

CreateCoupon(sent) ==
    LET made == Over(sent, NewCoupon) IN [made EXCEPT !.minPurchase = OrNull(@)]

CouponChangeValid(sent) ==
    /\ NotNegative(sent, {"value", "minPurchase"})
    /\ States(sent, "maxUses") => sent.maxUses = Null \/ sent.maxUses >= 1

\* The edit of a coupon does not look at the percentage it leaves.
UpdateCoupon(sent, existing) ==
    LET left == Over(sent, existing) IN [left EXCEPT !.minPurchase = OrNull(@)]

SavedCoupon(change) ==
    LET made == CreateCoupon(change.create)
    IN  IF ~CouponValid(change.create) THEN Null
        ELSE IF CouponChangeValid(change.edit) THEN UpdateCoupon(change.edit, made) ELSE made

-----------------------------------------------------------------------------
(* What they are worth.                                                     *)

\* isDiscountActive and activeWindowWhere: the ends of the window belong to it.
InForce(p, now) ==
    /\ p.isActive
    /\ p.startsAt = Null \/ p.startsAt <= now
    /\ p.endsAt = Null \/ p.endsAt >= now

\* validateCoupon; the code may be of no coupon, which is Null.
ValidateCoupon(coupon, subtotal, now) ==
    /\ coupon # Null
    /\ InForce(coupon, now)
    /\ coupon.maxUses = Null \/ coupon.usedCount < coupon.maxUses
    /\ coupon.minPurchase = Null \/ subtotal >= coupon.minPurchase

=============================================================================
