------------------------------ MODULE Billing ------------------------------
(***************************************************************************)
(* What an order costs and what its invoice says (tax.service.js,          *)
(* pricing.service.js, coupon.service.js, einvoice/amounts.js).  Money is  *)
(* in cents and a rate of VAT in basis points.                             *)
(***************************************************************************)
EXTENDS Promotions, Sequences, FiniteSets, Functions

\* Math.round of n / d, for what is not negative.
Round(n, d) == (2 * n + d) \div (2 * d)

Smaller(a, b) == IF a < b THEN a ELSE b
Total(f)      == SumFunction(f)

\* Numbers, the lesser before the greater.
InOrder(S) ==
    CHOOSE f \in [1..Cardinality(S) -> S] : \A i, j \in DOMAIN f : i < j => f[i] < f[j]

\* finalPrice: the published price includes VAT, in whole pesos.
FinalPrice(base, vat) == 100 * Round(base * (10000 + vat), 1000000)

-----------------------------------------------------------------------------
(* The quote (buildQuote), of the lines that are asked for and of the shop: *)
(* its goods (a product, or a variant of one), its coupons by their codes,  *)
(* what it takes for shipping and the time.                                 *)

MaxLines == 30
MaxQty   == 10

\* normalizeItems: the lines of the same item are one, in the place of the first.
NormalizeItems(request) ==
    LET Same(k)  == {j \in DOMAIN request : request[j].item = request[k].item}
        firsts   == {k \in DOMAIN request : \A j \in Same(k) : k <= j}
        order    == InOrder(firsts)
    IN  [i \in DOMAIN order |->
            [item     |-> request[order[i]].item,
             quantity |-> Total([k \in Same(order[i]) |-> request[k].quantity])]]

\* A line asks for one unit or more, and what is merged is not too much.
Acceptable(request) ==
    LET lines == NormalizeItems(request) IN
    /\ request # <<>> /\ \A k \in DOMAIN request : request[k].quantity >= 1
    /\ Len(lines) <= MaxLines /\ \A i \in DOMAIN lines : lines[i].quantity <= MaxQty

\* What an offer makes of a price.
With(offer, price) ==
    IF offer.type = Percentage THEN Round(price * (10000 - offer.value), 10000)
                               ELSE price - offer.value

\* applyProductDiscounts: the best of the offers in force.
Discounted(price, offers, now) ==
    LET candidates == {price} \cup {With(o, price) : o \in {p \in offers : InForce(p, now)}}
        best       == CHOOSE c \in candidates : \A d \in candidates : c <= d
    IN  IF best < 0 THEN 0 ELSE best

\* computeCouponDiscount, never more than the products cost.
CouponDiscount(coupon, subtotal) ==
    Smaller(IF coupon.type = Percentage THEN Round(subtotal * coupon.value, 10000)
                                        ELSE coupon.value, subtotal)

\* computeShipping: freeFrom 0 is never.
Shipping(ship, amount) ==
    IF ship.freeFrom > 0 /\ amount >= ship.freeFrom THEN 0 ELSE ship.flat

\* An item as the order keeps it.
Item(line, shop) ==
    LET good == shop.goods[line.item] IN
    [price    |-> Discounted(good.price, good.offers, shop.now),
     rate     |-> good.rate,
     quantity |-> line.quantity]

Subtotal(items) == Total([i \in DOMAIN items |-> items[i].price * items[i].quantity])

\* What speaks against a request.  A coupon that is not valid refuses an order,
\* and a summary goes without it (strictCoupon).
Complaints(request, code, shop, strict) ==
    LET lines == NormalizeItems(request)
        items == [i \in DOMAIN lines |-> Item(lines[i], shop)]
        Good(i) == shop.goods[lines[i].item]
        Holds(c) ==
            CASE c = "BAD_REQUEST"         -> ~Acceptable(request)
              [] c = "PRODUCT_UNAVAILABLE" -> \E i \in DOMAIN lines : ~Good(i).isActive
              [] c = "INSUFFICIENT_STOCK"  -> \E i \in DOMAIN lines : Good(i).stock < lines[i].quantity
              [] c = "INVALID_COUPON"      ->
                     strict /\ code # Null /\
                     ~ValidateCoupon(shop.coupons[code], Subtotal(items), shop.now)
    IN  {c \in {"BAD_REQUEST", "PRODUCT_UNAVAILABLE", "INSUFFICIENT_STOCK", "INVALID_COUPON"} :
            Holds(c)}

\* What items cost with a coupon's code.
OrderOf(items, code, shop) ==
    LET subtotal == Subtotal(items)
        applies  == code # Null /\ ValidateCoupon(shop.coupons[code], subtotal, shop.now)
        discount == IF applies THEN CouponDiscount(shop.coupons[code], subtotal) ELSE 0
        shipping == Shipping(shop.ship, subtotal - discount)
    IN  [items    |-> items,
         coupon   |-> IF applies THEN code ELSE Null,
         discount |-> discount,
         shipping |-> shipping,
         total    |-> subtotal - discount + shipping]

Order(request, code, shop) ==
    LET lines == NormalizeItems(request)
    IN  OrderOf([i \in DOMAIN lines |-> Item(lines[i], shop)], code, shop)

-----------------------------------------------------------------------------
(* The invoice (computeInvoiceAmounts).                                     *)

\* allocate: in proportion to the weights, the cents left over to the largest
\* remainders.
Allocate(amount, weights) ==
    LET sum        == Total(weights)
        floor      == [i \in DOMAIN weights |-> (amount * weights[i]) \div sum]
        left       == [i \in DOMAIN weights |-> (amount * weights[i]) % sum]
        rest       == amount - Total(floor)
        Ahead(j, i) == left[j] > left[i] \/ (left[j] = left[i] /\ j < i)
        rank(i)    == Cardinality({j \in DOMAIN weights : Ahead(j, i)})
    IN  IF amount <= 0 \/ sum <= 0 THEN [i \in DOMAIN weights |-> 0]
        ELSE [i \in DOMAIN weights |-> floor[i] + IF rank(i) < rest THEN 1 ELSE 0]

BaseFromGross(gross, vat) == Round(gross * 10000, 10000 + vat)

\* buildLine.  The mode is taxed, exempt (0 %, which is reported) or excluded (no
\* VAT is reported).
Line(quantity, gross, discount, vat, mode) ==
    LET unit      == Round(BaseFromGross(gross, vat), quantity)
        grossBase == unit * quantity
        base      == IF discount = 0 THEN grossBase
                     ELSE Smaller(BaseFromGross(gross - discount, vat), grossBase)
    IN  [quantity  |-> quantity,
         unit      |-> unit,
         allowance |-> grossBase - base,
         base      |-> base,
         tax       |-> IF mode = "excluded" THEN 0 ELSE Round(base * vat, 10000),
         rate      |-> vat,
         mode      |-> mode]

\* The gross of every product line, and its share of the coupon's discount.
Grosses(order) == [i \in DOMAIN order.items |-> order.items[i].price * order.items[i].quantity]
Shares(order)  == Allocate(order.discount, Grosses(order))

ProductLines(order) ==
    LET grosses == Grosses(order)
        shares  == Shares(order)
        Mode(i) == IF order.items[i].rate > 0 THEN "taxed" ELSE "exempt"
    IN  [i \in DOMAIN order.items |->
            Line(order.items[i].quantity, grosses[i], shares[i], order.items[i].rate, Mode(i))]

ShippingLines(order, vat) ==
    IF order.shipping = 0 THEN <<>>
    ELSE <<Line(1, order.shipping, 0, vat, IF vat > 0 THEN "taxed" ELSE "excluded")>>

\* What the lines that report VAT report, in all for each of their rates.
TaxSubtotals(lines) ==
    LET Reported(r) == {i \in DOMAIN lines : lines[i].mode # "excluded" /\ lines[i].rate = r}
    IN  [r \in {lines[i].rate : i \in {j \in DOMAIN lines : lines[j].mode # "excluded"}} |->
            [taxable |-> Total([i \in Reported(r) |-> lines[i].base]),
             tax     |-> Total([i \in Reported(r) |-> lines[i].tax])]]

\* The totals, and what rounds them to what was charged (PayableRoundingAmount).
Totals(lines, subtotals, charged) ==
    LET extension == Total([i \in DOMAIN lines |-> lines[i].base])
        tax       == Total([r \in DOMAIN subtotals |-> subtotals[r].tax])
    IN  [lineExtension |-> extension,
         taxExclusive  |-> Total([r \in DOMAIN subtotals |-> subtotals[r].taxable]),
         taxTotal      |-> tax,
         taxInclusive  |-> extension + tax,
         rounding      |-> charged - (extension + tax),
         payable       |-> charged]

\* computeInvoiceAmounts, of lines and of an order.
Amounts(lines, charged) ==
    LET subtotals == TaxSubtotals(lines)
    IN  [lines     |-> lines,
         subtotals |-> subtotals,
         totals    |-> Totals(lines, subtotals, charged)]

InvoiceAmounts(order, shippingRate) ==
    Amounts(ProductLines(order) \o ShippingLines(order, shippingRate), order.total)

=============================================================================
