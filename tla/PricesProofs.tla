---------------------------- MODULE PricesProofs ----------------------------
(***************************************************************************)
(* Proofs about Prices, for every number of products, forms and checks and *)
(* for any rates, base prices and purchases: what the shop charges fits the *)
(* rate of each product, an exemption outlives every general rate, and what *)
(* is bought of what is on sale is accounted for and paid in full.         *)
(*                                                                         *)
(* A save computes with the rate it read.  If that is still the product's  *)
(* when it writes, price and rate fit; if not, the product is torn, until  *)
(* a save or a change of the rate writes both at once.  A change of the    *)
(* rate finds variants first and products later: what it found of a product *)
(* still holds when it commits, unless a save crossed it (SwitchOK).  An   *)
(* exempt product never follows the general rate because that rate never   *)
(* becomes zero, and no change to zero goes on, while there is one.        *)
(*                                                                         *)
(* Torn or not, a product costs what some base price costs with some rate, *)
(* and of such products every cart makes orders whose documents add up and *)
(* that the providers take the whole price of.                             *)
(***************************************************************************)
EXTENDS Prices, BillingProofs

\* What products and variants may cost, torn or not.
Finals == {FinalPrice(b, r) : b \in Base, r \in Rate}

\* And those that may have no price.
Costs == {PriceOf(b, r) : b \in Base \cup {None}, r \in Rate}

RowType ==
    [there : BOOLEAN, base : Base \cup {None}, own : Rate \cup {None},
     price : Costs, vbase : Base \cup {None}, vprice : Costs]

FormType ==
    [at : {"idle", "open", "sent", "read"}, product : Product \cup {None},
     own : Rate \cup {None}, general : Rate \cup {None}, base : Base \cup {None},
     sends : Rate \cup {None}, vbase : Base \cup {None}, seen : Rate \cup {None}]

CheckType ==
    [at : {"idle", "read", "fetched"}, rate : Rate \cup {None}, found : Rate \cup {None}]

\* A product that is there has a rate, a base price and a price.
RowOK(p) ==
    IF row[p].there THEN row[p].own \in Rate /\ row[p].base \in Base /\ row[p].price \in Finals
                    ELSE row[p].own = None

\* A form is of a product; a save has read a rate, and one that leaves the
\* product as it is, of a product that is there, sends no rate.
FormOK(e) ==
    LET f == form[e]
    IN  /\ f.at # "idle" => f.product \in Product
        /\ f.at = "read" => f.seen \in Rate
        /\ f.at \in {"sent", "read"} /\ f.base = None => f.own # None /\ f.sends = None

SwitchType ==
    [at : {"idle", "checked", "variants", "products"}, to : Rate \cup {None},
     found : SUBSET Product, priced : SUBSET Product, moved : SUBSET Product,
     crossed : SUBSET Product]

CheckOK(c) == check[c].at = "fetched" => check[c].found \in Rate

Types ==
    /\ rate \in Rate /\ official \in Rate
    /\ pending \in Rate \cup {None} /\ chosen \in Rate \cup {None}
    /\ row \in [Product -> RowType] /\ \A p \in Product : RowOK(p)
    /\ form \in [Editor -> FormType] /\ \A e \in Editor : FormOK(e)
    /\ check \in [Checker -> CheckType] /\ \A c \in Checker : CheckOK(c)
    /\ switch \in SwitchType
    /\ torn \subseteq Product /\ exempt \subseteq Product
    /\ work \in 0..MaxWork

\* A variant without a base of its own has no price of its own either.
Bare == \A p \in Product : row[p].vbase = None => row[p].vprice = None

\* What a change has found and locked: of the products no save has crossed, just
\* those whose variant, and then those which, follow the old rate.
SwitchOK ==
    /\ switch.at # "idle" => switch.to \in Rate
    /\ switch.at = "checked" =>
           switch.priced = {} /\ switch.moved = {} /\ switch.crossed = {}
    /\ switch.at = "variants" =>
           /\ switch.moved = {}
           /\ \A p \in Product \ switch.crossed :
                  p \in Variants <=> p \in switch.found \cup switch.priced
    /\ switch.at = "products" =>
           \A p \in Product \ switch.crossed :
               /\ p \in Variants <=> p \in switch.priced
               /\ p \in Followers <=> p \in switch.found \cup switch.moved
    /\ switch.moved \subseteq Followers

\* An exempt product is there, and the general rate is another and becomes another.
Exempted ==
    \A p \in exempt :
        /\ row[p].there /\ row[p].own = 0 /\ rate # 0
        /\ switch.at # "idle" => switch.to # 0

PricesInv == Types /\ Bare /\ SwitchOK /\ PricesFit /\ Exempted

-----------------------------------------------------------------------------

LEMMA PriceTyped ==
    ASSUME NEW b \in Base \cup {None}, NEW r \in Rate
    PROVE  PriceOf(b, r) \in Costs
  BY DEF Costs

\* What has a base has a price, and what has none has none.
LEMMA PriceFinal ==
    /\ \A b \in Base, r \in Rate : PriceOf(b, r) \in Finals
    /\ Costs \subseteq Finals \cup {None}
  <1>1. ASSUME NEW b \in Base, NEW r \in Rate PROVE PriceOf(b, r) \in Finals
    <2>1. b # None BY PricesAssumption
    <2> QED BY <2>1 DEF PriceOf, Finals
  <1>2. ASSUME NEW b \in Base \cup {None}, NEW r \in Rate
        PROVE  PriceOf(b, r) \in Finals \cup {None}
    <2>1. CASE b = None BY <2>1 DEF PriceOf
    <2>2. CASE b \in Base BY <1>1, <2>2
    <2> QED BY <2>1, <2>2
  <1> QED BY <1>1, <1>2 DEF Costs

LEMMA NoPrice == None \in Costs
  <1>1. 0 \in Rate BY PricesAssumption
  <1>2. PriceOf(None, 0) = None BY DEF PriceOf
  <1> QED BY <1>1, <1>2, PriceTyped

LEMMA InitPrices == PricesInit => PricesInv
  <1> SUFFICES ASSUME PricesInit PROVE PricesInv
    OBVIOUS
  <1> USE PricesAssumption DEF PricesInit
  <1>1. NoRow \in RowType BY NoPrice DEF NoRow, RowType
  <1>2. NoForm \in FormType BY DEF NoForm, FormType
  <1>3. NoCheck \in CheckType BY DEF NoCheck, CheckType
  <1>4. \A p \in Product : RowOK(p) BY DEF RowOK, NoRow
  <1>5. \A e \in Editor : FormOK(e) BY DEF FormOK, NoForm
  <1>6. \A c \in Checker : CheckOK(c) BY DEF CheckOK, NoCheck
  <1>7. NoChange \in SwitchType BY DEF NoChange, SwitchType
  <1>8. Types BY <1>1, <1>2, <1>3, <1>4, <1>5, <1>6, <1>7 DEF Types
  <1>9. PricesFit /\ Bare BY DEF PricesFit, Bare, NoRow
  <1>10. SwitchOK BY DEF SwitchOK, NoChange
  <1>11. Exempted BY DEF Exempted
  <1> QED BY <1>8, <1>9, <1>10, <1>11 DEF PricesInv

\* Steps of the checks, of forms and of a save before it writes.
LEMMA RowsStay ==
    ASSUME PricesInv, Types', UNCHANGED <<rate, row, torn, exempt, switch>>
    PROVE  PricesInv'
  <1>1. PricesFit' /\ Bare' BY DEF PricesInv, PricesFit, Fits, Bare
  <1>2. Exempted' BY DEF PricesInv, Exempted
  <1>3. SwitchOK' BY DEF PricesInv, SwitchOK, Variants, Followers
  <1> QED BY <1>1, <1>2, <1>3 DEF PricesInv

LEMMA CheckKeeps ==
    ASSUME PricesInv, NEW c \in Checker, CheckStep(c)
    PROVE  PricesInv'
  <1>1. UNCHANGED <<rate, row, torn, exempt, switch, form, work, official, chosen>>
    BY DEF CheckStep, CheckRead, CheckFetch, CheckWrite, CheckFails
  <1>2. /\ check \in [Checker -> CheckType] /\ \A d \in Checker : CheckOK(d)
        /\ rate \in Rate /\ official \in Rate /\ pending \in Rate \cup {None}
    BY DEF PricesInv, Types
  <1>3. check[c] \in CheckType BY <1>2
  <1>4. \E k \in CheckType :
            /\ check' = [check EXCEPT ![c] = k]
            /\ k.at = "fetched" => k.found \in Rate
            /\ pending' \in Rate \cup {None}
    <2>1. CASE CheckRead(c)
      <3> DEFINE k == [NoCheck EXCEPT !.at = "read", !.rate = rate]
      <3>1. k \in CheckType /\ k.at = "read" BY <1>2 DEF CheckType, NoCheck
      <3>2. check' = [check EXCEPT ![c] = k] BY <2>1 DEF CheckRead
      <3>3. pending' \in Rate \cup {None} BY <1>2, <2>1 DEF CheckRead
      <3> QED BY <3>1, <3>2, <3>3
    <2>2. CASE CheckFetch(c)
      <3> DEFINE k == [check[c] EXCEPT !.at = "fetched", !.found = official]
      <3>1. k \in CheckType /\ k.found \in Rate BY <1>2, <1>3 DEF CheckType
      <3>2. check' = [check EXCEPT ![c] = k] BY <1>2, <1>3, <2>2 DEF CheckFetch, CheckType
      <3>3. pending' \in Rate \cup {None} BY <1>2, <2>2 DEF CheckFetch
      <3> QED BY <3>1, <3>2, <3>3
    <2>3. CASE CheckWrite(c) \/ CheckFails(c)
      <3>1. NoCheck \in CheckType /\ NoCheck.at = "idle" BY DEF NoCheck, CheckType
      <3>2. check' = [check EXCEPT ![c] = NoCheck] BY <2>3 DEF CheckWrite, CheckFails
      <3>3. pending' \in Rate \cup {None}
        BY <1>2, <2>3 DEF CheckWrite, CheckFails, Found, CheckOK
      <3> QED BY <3>1, <3>2, <3>3
    <2> QED BY <2>1, <2>2, <2>3 DEF CheckStep
  <1>5. /\ check' \in [Checker -> CheckType] /\ pending' \in Rate \cup {None}
        /\ \A d \in Checker : CheckOK(d)'
    BY <1>2, <1>4 DEF CheckOK
  <1>6. Types' BY <1>1, <1>5 DEF PricesInv, Types, RowOK, FormOK
  <1> QED BY <1>1, <1>6, RowsStay

\* A form or a save goes on.
LEMMA FillsKeeps ==
    ASSUME PricesInv, NEW e \in Editor, NEW f \in FormType, Fills(e, f),
           f.at # "idle" => f.product \in Product,
           f.at = "read" => f.seen \in Rate,
           f.at \in {"sent", "read"} /\ f.base = None => f.own # None /\ f.sends = None
    PROVE  PricesInv'
  <1>1. UNCHANGED <<rate, row, torn, exempt, switch, check, work, official, chosen, pending>>
    BY DEF Fills
  <1>2. form \in [Editor -> FormType] /\ \A d \in Editor : FormOK(d)
    BY DEF PricesInv, Types
  <1>3. form' = [form EXCEPT ![e] = f] BY DEF Fills
  <1>4. form' \in [Editor -> FormType] BY <1>2, <1>3
  <1>5. \A d \in Editor : FormOK(d)'
    <2>1. FormOK(e)' BY <1>2, <1>3 DEF FormOK
    <2>2. ASSUME NEW d \in Editor, d # e PROVE FormOK(d)'
      BY <1>2, <1>3, <2>2 DEF FormOK
    <2> QED BY <2>1, <2>2
  <1>6. Types' BY <1>1, <1>4, <1>5 DEF PricesInv, Types, RowOK, CheckOK
  <1> QED BY <1>1, <1>6, RowsStay

LEMMA OpenKeeps ==
    ASSUME PricesInv, NEW e \in Editor, NEW p \in Product, NEW g \in {rate, None},
           OpenForm(e, p, g)
    PROVE  PricesInv'
  <1>1. row[p] \in RowType /\ rate \in Rate BY DEF PricesInv, Types
  <1> DEFINE f == [NoForm EXCEPT !.at = "open", !.product = p, !.own = row[p].own, !.general = g]
  <1>2. f \in FormType BY <1>1 DEF NoForm, FormType, RowType
  <1>3. f.at = "open" /\ f.product = p BY DEF NoForm
  <1>4. Fills(e, f) BY DEF OpenForm
  <1> HIDE DEF f
  <1> QED BY <1>2, <1>3, <1>4, FillsKeeps

LEMMA SubmitKeeps ==
    ASSUME PricesInv, NEW e \in Editor, NEW ex \in BOOLEAN, NEW b \in Base,
           NEW v \in Base \cup {None}, Submit(e, ex, b, v)
    PROVE  PricesInv'
  <1>1. form[e] \in FormType /\ FormOK(e) BY DEF PricesInv, Types
  <1>2. form[e].at = "open" BY DEF Submit
  <1>3. form[e].product \in Product BY <1>1, <1>2 DEF FormOK
  <1>4. Sends(form[e], ex) \in Rate \cup {None}
    BY <1>1, PricesAssumption DEF Sends, FormType
  <1> DEFINE f == [form[e] EXCEPT !.at = "sent", !.base = b, !.vbase = v,
                                  !.sends = Sends(form[e], ex)]
  <1>5. f \in FormType BY <1>1, <1>4 DEF FormType
  <1>6. f.at = "sent" /\ f.base = b /\ f.product \in Product BY <1>1, <1>3 DEF FormType
  <1>7. b # None BY PricesAssumption
  <1>8. Fills(e, f) BY DEF Submit
  <1> HIDE DEF f
  <1> QED BY <1>5, <1>6, <1>7, <1>8, FillsKeeps

LEMMA PatchKeeps ==
    ASSUME PricesInv, NEW e \in Editor, NEW p \in Product, NEW v \in Base \cup {None},
           PatchVariants(e, p, v)
    PROVE  PricesInv'
  <1>1. row[p] \in RowType /\ RowOK(p) BY DEF PricesInv, Types
  <1>2. row[p].own \in Rate /\ row[p].own # None
    BY <1>1, PricesAssumption DEF RowOK, PatchVariants
  <1> DEFINE f == [NoForm EXCEPT !.at = "sent", !.product = p, !.own = row[p].own, !.vbase = v]
  <1>3. f \in FormType BY <1>2 DEF NoForm, FormType
  <1>4. f.at = "sent" /\ f.product = p /\ f.own # None /\ f.sends = None
    BY <1>2 DEF NoForm
  <1>5. Fills(e, f) BY DEF PatchVariants
  <1> HIDE DEF f
  <1> QED BY <1>3, <1>4, <1>5, FillsKeeps

LEMMA FormEndKeeps ==
    ASSUME PricesInv, NEW e \in Editor, Fills(e, NoForm)
    PROVE  PricesInv'
  <1>1. NoForm \in FormType /\ NoForm.at = "idle" BY DEF NoForm, FormType
  <1> QED BY <1>1, FillsKeeps

LEMMA FormKeeps ==
    ASSUME PricesInv, NEW e \in Editor, FormStep(e)
    PROVE  PricesInv'
  BY OpenKeeps, SubmitKeeps, PatchKeeps, FormEndKeeps DEF FormStep, CloseForm

LEMMA SaveReadKeeps ==
    ASSUME PricesInv, NEW e \in Editor, SaveRead(e)
    PROVE  PricesInv'
  <1>1. form[e] \in FormType /\ FormOK(e) BY DEF PricesInv, Types
  <1>2. form[e].at = "sent" BY DEF SaveRead
  <1>3. form[e].product \in Product BY <1>1, <1>2 DEF FormOK
  <1> DEFINE r == IF IsNew(form[e]) THEN rate ELSE row[form[e].product].own
             f == [form[e] EXCEPT !.at = "read", !.seen = r]
  <1>4. r \in Rate
    BY <1>3 DEF SaveRead, PricesInv, Types, RowOK
  <1> HIDE DEF r
  <1>5. f \in FormType BY <1>1, <1>4 DEF FormType
  <1>6. /\ f.at = "read" /\ f.seen = r /\ f.product \in Product
        /\ f.base = form[e].base /\ f.own = form[e].own /\ f.sends = form[e].sends
    BY <1>1, <1>3 DEF FormType
  <1>7. f.base = None => f.own # None /\ f.sends = None BY <1>1, <1>2, <1>6 DEF FormOK
  <1>8. Fills(e, f) BY DEF SaveRead, r
  <1> HIDE DEF f
  <1> QED BY <1>4, <1>5, <1>6, <1>7, <1>8, FillsKeeps

-----------------------------------------------------------------------------
(* The changes of the general rate.                                         *)

\* A change goes on: it finds, it locks, or it is undone.
LEMMA SwitchGoesOn ==
    ASSUME PricesInv, NEW c \in SwitchType, switch' = c,
           UNCHANGED <<rate, row, torn, exempt, form, check, official>>,
           chosen' \in Rate \cup {None}, pending' \in Rate \cup {None}, work' \in 0..MaxWork,
           SwitchOK', c.at # "idle" => \A p \in exempt : c.to # 0
    PROVE  PricesInv'
  <1>1. Types' BY DEF PricesInv, Types, RowOK, FormOK, CheckOK
  <1>2. PricesFit' /\ Bare' BY DEF PricesInv, PricesFit, Fits, Bare
  <1>3. Exempted' BY DEF PricesInv, Exempted
  <1> QED BY <1>1, <1>2, <1>3 DEF PricesInv

LEMMA RateBeginKeeps ==
    ASSUME PricesInv, NEW r \in Rate, RateBegin(r),
           chosen' \in Rate \cup {None}, work' \in 0..MaxWork
    PROVE  PricesInv'
  <1> DEFINE c == [NoChange EXCEPT !.at = "checked", !.to = r]
  <1>1. c \in SwitchType BY DEF SwitchType, NoChange
  <1>2. /\ c.at = "checked" /\ c.to = r
        /\ c.priced = {} /\ c.moved = {} /\ c.crossed = {} /\ c.found = {}
    BY DEF NoChange
  <1>3. switch' = c BY DEF RateBegin
  <1>4. UNCHANGED <<rate, row, torn, exempt, form, check, official, pending>> BY DEF RateBegin
  <1>5. \A p \in exempt : r # 0
    BY DEF PricesInv, Types, Exempted, RateBegin, Clash
  <1>6. pending' \in Rate \cup {None} BY <1>4 DEF PricesInv, Types
  <1> HIDE DEF c
  <1>7. SwitchOK' BY <1>2, <1>3 DEF SwitchOK
  <1> QED BY <1>1, <1>2, <1>3, <1>4, <1>5, <1>6, <1>7, SwitchGoesOn

LEMMA ChangeGoesOnKeeps ==
    ASSUME PricesInv, NEW c \in SwitchType, ChangeGoesOn(c), SwitchOK',
           c.at # "idle" => switch.at # "idle" /\ c.to = switch.to
    PROVE  PricesInv'
  <1>1. /\ switch' = c /\ UNCHANGED <<rate, row, torn, exempt, form, check, official>>
        /\ UNCHANGED <<chosen, pending, work>>
    BY DEF ChangeGoesOn
  <1>2. /\ chosen' \in Rate \cup {None} /\ pending' \in Rate \cup {None}
        /\ work' \in 0..MaxWork
    BY <1>1 DEF PricesInv, Types
  <1>3. c.at # "idle" => \A p \in exempt : c.to # 0 BY DEF PricesInv, Exempted
  <1> QED BY <1>1, <1>2, <1>3, SwitchGoesOn

\* The statements before the commit.
LEMMA StatementKeeps ==
    ASSUME PricesInv,
           \/ FindVariants \/ FindProducts \/ RateFails
           \/ \E p \in Product : PriceVariant(p) \/ MoveProduct(p)
    PROVE  PricesInv'
  <1>1. switch \in SwitchType /\ SwitchOK BY DEF PricesInv, Types
  <1>2. CASE FindVariants
    <2> DEFINE c == [switch EXCEPT !.at = "variants", !.found = Variants]
    <2>1. c \in SwitchType BY <1>1 DEF SwitchType, Variants, Followers
    <2>2. /\ c.at = "variants" /\ c.to = switch.to /\ c.found = Variants
          /\ c.priced = switch.priced /\ c.moved = switch.moved /\ c.crossed = switch.crossed
      BY <1>1 DEF SwitchType
    <2>3. ChangeGoesOn(c) /\ switch.at = "checked" BY <1>2 DEF FindVariants
    <2>4. switch' = c /\ row' = row /\ rate' = rate BY <2>3 DEF ChangeGoesOn
    <2> HIDE DEF c
    <2>5. SwitchOK' BY <1>1, <2>2, <2>3, <2>4 DEF SwitchOK, Variants, Followers
    <2> QED BY <2>1, <2>2, <2>3, <2>5, ChangeGoesOnKeeps
  <1>3. CASE FindProducts
    <2> DEFINE c == [switch EXCEPT !.at = "products", !.found = Followers]
    <2>1. c \in SwitchType BY <1>1 DEF SwitchType, Followers
    <2>2. /\ c.at = "products" /\ c.to = switch.to /\ c.found = Followers
          /\ c.priced = switch.priced /\ c.moved = switch.moved /\ c.crossed = switch.crossed
      BY <1>1 DEF SwitchType
    <2>3. ChangeGoesOn(c) /\ switch.at = "variants" /\ switch.found = {} BY <1>3 DEF FindProducts
    <2>4. switch' = c /\ row' = row /\ rate' = rate BY <2>3 DEF ChangeGoesOn
    <2> HIDE DEF c
    <2>5. SwitchOK' BY <1>1, <2>2, <2>3, <2>4 DEF SwitchOK, Variants, Followers
    <2> QED BY <2>1, <2>2, <2>3, <2>5, ChangeGoesOnKeeps
  <1>4. ASSUME NEW p \in Product, PriceVariant(p) PROVE PricesInv'
    <2> DEFINE c == [switch EXCEPT !.found = @ \ {p},
                         !.priced = IF row[p].vbase # None THEN @ \cup {p} ELSE @]
    <2>1. c \in SwitchType BY <1>1 DEF SwitchType
    <2>2. /\ c.at = switch.at /\ c.to = switch.to /\ c.found = switch.found \ {p}
          /\ c.priced = IF row[p].vbase # None THEN switch.priced \cup {p} ELSE switch.priced
          /\ c.moved = switch.moved /\ c.crossed = switch.crossed
      BY <1>1 DEF SwitchType
    <2>3. ChangeGoesOn(c) /\ switch.at = "variants" /\ p \in switch.found
      BY <1>4 DEF PriceVariant
    <2>4. switch' = c /\ row' = row /\ rate' = rate BY <2>3 DEF ChangeGoesOn
    <2> HIDE DEF c
    <2>5. SwitchOK' BY <1>1, <2>2, <2>3, <2>4 DEF SwitchOK, Variants, Followers
    <2> QED BY <2>1, <2>2, <2>3, <2>5, ChangeGoesOnKeeps
  <1>5. ASSUME NEW p \in Product, MoveProduct(p) PROVE PricesInv'
    <2> DEFINE c == [switch EXCEPT !.found = @ \ {p},
                         !.moved = IF row[p].own = rate THEN @ \cup {p} ELSE @]
    <2>1. c \in SwitchType BY <1>1 DEF SwitchType
    <2>2. /\ c.at = switch.at /\ c.to = switch.to /\ c.found = switch.found \ {p}
          /\ c.moved = IF row[p].own = rate THEN switch.moved \cup {p} ELSE switch.moved
          /\ c.priced = switch.priced /\ c.crossed = switch.crossed
      BY <1>1 DEF SwitchType
    <2>3. ChangeGoesOn(c) /\ switch.at = "products" /\ p \in switch.found
      BY <1>5 DEF MoveProduct
    <2>4. switch' = c /\ row' = row /\ rate' = rate BY <2>3 DEF ChangeGoesOn
    <2>5. row[p].own = rate => p \in Followers
      <3>1. RowOK(p) /\ rate # None BY PricesAssumption DEF PricesInv, Types
      <3> QED BY <3>1 DEF RowOK, Followers
    <2> HIDE DEF c
    <2>6. SwitchOK' BY <1>1, <2>2, <2>3, <2>4, <2>5 DEF SwitchOK, Variants, Followers
    <2> QED BY <2>1, <2>2, <2>3, <2>6, ChangeGoesOnKeeps
  <1>6. CASE RateFails
    <2>1. NoChange \in SwitchType /\ NoChange.at = "idle" /\ NoChange.moved = {}
      BY DEF SwitchType, NoChange
    <2>2. ChangeGoesOn(NoChange) BY <1>6 DEF RateFails
    <2>3. SwitchOK' BY <2>1, <2>2 DEF SwitchOK, ChangeGoesOn
    <2> QED BY <2>1, <2>2, <2>3, ChangeGoesOnKeeps
  <1> QED BY <1>2, <1>3, <1>4, <1>5, <1>6

\* What a change writes of a product.
LEMMA RecalculatedIs ==
    ASSUME PricesInv, switch.at = "products", NEW p \in Product
    PROVE  LET q == Recalculated(p)
           IN  /\ q \in RowType /\ q.there = row[p].there
               /\ q.base = row[p].base /\ q.vbase = row[p].vbase
               /\ q.own = IF p \in switch.moved THEN switch.to ELSE row[p].own
               /\ q.price = IF p \in switch.moved THEN PriceOf(row[p].base, switch.to)
                                                  ELSE row[p].price
               /\ q.vprice = IF p \in switch.priced THEN PriceOf(row[p].vbase, switch.to)
                                                    ELSE row[p].vprice
  <1>1. row[p] \in RowType /\ switch.to \in Rate BY DEF PricesInv, Types, SwitchOK
  <1>2. PriceOf(row[p].base, switch.to) \in Costs /\ PriceOf(row[p].vbase, switch.to) \in Costs
    BY <1>1, PriceTyped DEF RowType
  <1> QED BY <1>1, <1>2 DEF Recalculated, RowType

LEMMA RateCommitKeeps ==
    ASSUME PricesInv, RateCommit
    PROVE  PricesInv'
  <1>1. /\ switch.at = "products" /\ switch.found = {}
        /\ row' = [p \in Product |-> Recalculated(p)] /\ rate' = switch.to
        /\ pending' = None /\ torn' = (torn \ switch.moved) \cup switch.crossed
        /\ switch' = NoChange
        /\ UNCHANGED <<official, check, chosen, form, exempt, work>>
    BY DEF RateCommit
  <1>2. switch \in SwitchType /\ SwitchOK /\ switch.to \in Rate
    BY <1>1 DEF PricesInv, Types, SwitchOK
  <1>3. \A p \in Product : row'[p] = Recalculated(p) BY <1>1
  <1>4. switch.moved \subseteq Followers BY <1>2 DEF SwitchOK
  <1>5. Types'
    <2>1. row' \in [Product -> RowType] BY <1>1, RecalculatedIs
    <2>2. ASSUME NEW p \in Product PROVE RowOK(p)'
      <3>1. RowOK(p) BY DEF PricesInv, Types
      <3>2. CASE p \in switch.moved
        <4>1. row[p].there /\ row[p].base \in Base
          BY <1>4, <3>1, <3>2 DEF Followers, RowOK
        <4>2. PriceOf(row[p].base, switch.to) \in Finals BY <1>2, <4>1, PriceFinal
        <4> QED BY <1>1, <1>2, <1>3, <3>2, <4>1, <4>2, RecalculatedIs DEF RowOK
      <3>3. CASE p \notin switch.moved
        BY <1>1, <1>3, <3>1, <3>3, RecalculatedIs DEF RowOK
      <3> QED BY <3>2, <3>3
    <2>3. torn' \subseteq Product BY <1>1, <1>2 DEF PricesInv, Types, SwitchType
    <2>4. NoChange \in SwitchType BY DEF NoChange, SwitchType
    <2> QED BY <1>1, <1>2, <2>1, <2>2, <2>3, <2>4 DEF PricesInv, Types, FormOK, CheckOK
  <1>6. Bare'
    <2>1. PriceOf(None, switch.to) = None BY DEF PriceOf
    <2> QED BY <1>1, <1>3, <2>1, RecalculatedIs DEF PricesInv, Bare
  <1>7. SwitchOK' BY <1>1 DEF SwitchOK, NoChange
  <1>8. PricesFit'
    <2> SUFFICES ASSUME NEW p \in Product, row'[p].there, p \notin torn'
                 PROVE  Fits(p)'
      BY DEF PricesFit
    <2>1. p \notin switch.crossed BY <1>1
    <2>2. /\ p \in Variants <=> p \in switch.priced
          /\ p \in Followers <=> p \in switch.moved
      BY <1>1, <1>2, <2>1 DEF SwitchOK
    <2>3. row[p].there BY <1>1, <1>3, RecalculatedIs
    <2>4. CASE p \in switch.moved
      <3>1. p \notin switch.priced => row[p].vprice = None /\ row[p].vbase = None
        BY <2>2, <2>4 DEF Variants, PricesInv, Bare
      <3>2. PriceOf(None, switch.to) = None BY DEF PriceOf
      <3> QED BY <1>1, <1>3, <2>4, <3>1, <3>2, RecalculatedIs DEF Fits
    <2>5. CASE p \notin switch.moved
      <3>1. p \notin switch.priced BY <2>2, <2>5 DEF Variants
      <3>2. p \notin torn BY <1>1, <2>5
      <3>3. Fits(p) BY <2>3, <3>2 DEF PricesInv, PricesFit
      <3> QED BY <1>1, <1>3, <2>5, <3>1, <3>3, RecalculatedIs DEF Fits
    <2> QED BY <2>4, <2>5
  <1>9. Exempted'
    <2> SUFFICES ASSUME NEW p \in exempt
                 PROVE  row'[p].there /\ row'[p].own = 0 /\ rate' # 0
      BY <1>1 DEF Exempted, NoChange
    <2>1. /\ p \in Product /\ row[p].there /\ row[p].own = 0 /\ rate # 0 /\ switch.to # 0
      BY <1>1 DEF PricesInv, Types, Exempted
    <2>2. p \notin switch.moved BY <1>4, <2>1 DEF Followers
    <2> QED BY <1>1, <1>3, <2>1, <2>2, RecalculatedIs
  <1> QED BY <1>5, <1>6, <1>7, <1>8, <1>9 DEF PricesInv

LEMMA RateKeeps ==
    ASSUME PricesInv,
           \/ \E r \in Rate : AdminSetsRate(r) \/ SourceChanges(r)
           \/ ApplyRead \/ ApplySet \/ ApplyEnds \/ ChangeStep
    PROVE  PricesInv'
  <1> USE PricesAssumption
  <1>1. ASSUME NEW r \in Rate, AdminSetsRate(r) PROVE PricesInv'
    <2>1. chosen' \in Rate \cup {None} /\ work' \in 0..MaxWork
      BY <1>1 DEF AdminSetsRate, Works, PricesInv, Types
    <2> QED BY <1>1, <2>1, RateBeginKeeps DEF AdminSetsRate
  <1>2. CASE ApplySet
    <2>1. chosen \in Rate /\ chosen' = None /\ work' \in 0..MaxWork
      BY <1>2 DEF ApplySet, PricesInv, Types
    <2> QED BY <1>2, <2>1, RateBeginKeeps DEF ApplySet
  <1>3. ASSUME NEW r \in Rate, SourceChanges(r) PROVE PricesInv'
    <2>1. Types' BY <1>3 DEF SourceChanges, Works, RowOK, FormOK, CheckOK, PricesInv, Types
    <2> QED BY <1>3, <2>1, RowsStay DEF SourceChanges
  <1>4. CASE ApplyRead \/ ApplyEnds
    <2>1. Types'
      BY <1>4 DEF ApplyRead, ApplyEnds, RowOK, FormOK, CheckOK, PricesInv, Types
    <2> QED BY <1>4, <2>1, RowsStay DEF ApplyRead, ApplyEnds
  <1>5. CASE ChangeStep BY <1>5, StatementKeeps, RateCommitKeeps DEF ChangeStep
  <1> QED BY <1>1, <1>2, <1>3, <1>4, <1>5

-----------------------------------------------------------------------------
(* A save writes.                                                           *)

\* What a save has under way, and its product.
Writing(f) ==
    /\ f \in FormType /\ f.product \in Product /\ f.seen \in Rate
    /\ f.base = None => f.own # None /\ f.sends = None
    /\ row[f.product].there = ~IsNew(f)

LEMMA SavedTyped ==
    ASSUME PricesInv, NEW f, Writing(f)
    PROVE  /\ Applies(f) \in Rate
           /\ Saved(f) \in RowType /\ Saved(f).there
           /\ Saved(f).own \in Rate /\ Saved(f).base \in Base /\ Saved(f).price \in Finals
           /\ Saved(f).vbase = None => Saved(f).vprice = None
  <1> DEFINE p == f.product
  <1>1. row[p] \in RowType /\ RowOK(p) BY DEF PricesInv, Types, Writing
  <1>2. f \in FormType /\ f.seen \in Rate BY DEF Writing
  <1>3. f.base \in Base \cup {None} /\ f.vbase \in Base \cup {None}
        /\ f.sends \in Rate \cup {None}
    BY <1>2 DEF FormType
  <1>4. Applies(f) \in Rate BY <1>2, <1>3 DEF Applies
  <1>5. Variant(f) \in Costs /\ (f.vbase = None => Variant(f) = None)
    BY <1>3, <1>4, PriceTyped DEF Variant, PriceOf
  <1>6. CASE f.base = None
    <2>1. row[p].there BY <1>6 DEF Writing, IsNew
    <2>2. row[p].own \in Rate /\ row[p].base \in Base /\ row[p].price \in Finals
      BY <1>1, <2>1 DEF RowOK
    <2>3. Saved(f) = [row[p] EXCEPT !.vbase = f.vbase, !.vprice = Variant(f)]
      BY <1>6 DEF Saved
    <2>4. /\ Saved(f) \in RowType /\ Saved(f).there = row[p].there
          /\ Saved(f).own = row[p].own /\ Saved(f).base = row[p].base
          /\ Saved(f).price = row[p].price
          /\ Saved(f).vbase = f.vbase /\ Saved(f).vprice = Variant(f)
      BY <1>1, <1>3, <1>5, <2>3 DEF RowType
    <2> QED BY <1>4, <1>5, <2>1, <2>2, <2>4
  <1>7. CASE f.base # None
    <2>1. Own(f) \in Rate BY <1>1, <1>4 DEF Own, RowOK, Writing
    <2>2. PriceOf(f.base, Applies(f)) \in Costs /\ PriceOf(f.base, Applies(f)) \in Finals
      BY <1>3, <1>4, <1>7, PriceTyped, PriceFinal
    <2>3. Saved(f) = [there |-> TRUE, base |-> f.base, own |-> Own(f),
                      price |-> PriceOf(f.base, Applies(f)),
                      vbase |-> f.vbase, vprice |-> Variant(f)]
      BY <1>7 DEF Saved
    <2>4. Saved(f) \in RowType BY <1>3, <1>5, <2>1, <2>2, <2>3 DEF RowType
    <2> QED BY <1>3, <1>4, <1>5, <1>7, <2>1, <2>2, <2>3, <2>4
  <1> QED BY <1>6, <1>7

\* The rate that is written is the one the prices were computed with, unless the
\* product has another by now.
LEMMA SavedFits ==
    ASSUME PricesInv, NEW f, Writing(f), ~Overtaken(f)
    PROVE  /\ Saved(f).own = Applies(f)
           /\ Saved(f).vprice = PriceOf(Saved(f).vbase, Saved(f).own)
           /\ f.base # None => Saved(f).price = PriceOf(Saved(f).base, Saved(f).own)
           /\ f.base = None => /\ Saved(f).price = row[f.product].price
                               /\ Saved(f).base = row[f.product].base
                               /\ Saved(f).own = row[f.product].own
  <1> DEFINE p == f.product
  <1>1. row[p] \in RowType BY DEF PricesInv, Types, Writing
  <1>2. CASE f.base = None
    <2>1. ~IsNew(f) /\ f.sends = None BY <1>2 DEF Writing, IsNew
    <2>2. Applies(f) = row[p].own BY <2>1 DEF Applies, Overtaken
    <2>3. Saved(f) = [row[p] EXCEPT !.vbase = f.vbase, !.vprice = Variant(f)]
      BY <1>2 DEF Saved
    <2>4. /\ Saved(f).own = row[p].own /\ Saved(f).price = row[p].price
          /\ Saved(f).base = row[p].base /\ Saved(f).vbase = f.vbase
          /\ Saved(f).vprice = Variant(f)
      BY <1>1, <2>3 DEF RowType
    <2> QED BY <1>2, <2>2, <2>4 DEF Variant
  <1>3. CASE f.base # None
    <2>1. Own(f) = Applies(f) BY DEF Own, Overtaken
    <2>2. Saved(f) = [there |-> TRUE, base |-> f.base, own |-> Own(f),
                      price |-> PriceOf(f.base, Applies(f)),
                      vbase |-> f.vbase, vprice |-> Variant(f)]
      BY <1>3 DEF Saved
    <2> QED BY <1>3, <2>1, <2>2 DEF Variant
  <1> QED BY <1>2, <1>3

LEMMA SaveWriteKeeps ==
    ASSUME PricesInv, NEW e \in Editor, SaveWrite(e)
    PROVE  PricesInv'
  <1> DEFINE f == form[e]
             p == f.product
  <1>1. Writing(f) BY DEF PricesInv, Types, FormOK, SaveWrite, Writing
  <1>2. p \in Product /\ row \in [Product -> RowType] /\ torn \subseteq Product
        /\ exempt \subseteq Product
    BY <1>1 DEF Writing, PricesInv, Types
  <1>3. /\ row' = [row EXCEPT ![p] = Saved(f)]
        /\ torn' = IF Overtaken(f) THEN torn \cup {p}
                   ELSE IF f.base = None THEN torn ELSE torn \ {p}
        /\ exempt' = CASE f.sends = None -> exempt
                       [] f.sends = 0 /\ rate # 0 /\ ~Overtaken(f) /\ ~Slips -> exempt \cup {p}
                       [] OTHER -> exempt \ {p}
        /\ switch' = IF Crossing THEN [switch EXCEPT !.crossed = @ \cup {p}] ELSE switch
        /\ Unlocked(f)
        /\ form' = [form EXCEPT ![e] = NoForm]
        /\ UNCHANGED <<rate, pending, official, check, chosen>>
    BY DEF SaveWrite
  <1>4. work' \in 0..MaxWork BY PricesAssumption DEF SaveWrite, Works, PricesInv, Types
  <1> HIDE DEF f, p
  <1>5. row'[p] = Saved(f) /\ \A q \in Product : q # p => row'[q] = row[q]
    BY <1>2, <1>3
  <1>6. torn' \subseteq Product /\ exempt' \subseteq Product BY <1>2, <1>3
  <1>7. Types'
    <2>1. row' \in [Product -> RowType] BY <1>1, <1>2, <1>3, SavedTyped
    <2>2. \A q \in Product : RowOK(q)'
      BY <1>1, <1>5, SavedTyped DEF PricesInv, Types, RowOK
    <2>3. NoForm \in FormType /\ NoForm.at = "idle" BY DEF NoForm, FormType
    <2>4. form' \in [Editor -> FormType] /\ \A d \in Editor : FormOK(d)'
      BY <1>3, <2>3 DEF PricesInv, Types, FormOK
    <2>5. switch' \in SwitchType BY <1>2, <1>3 DEF PricesInv, Types, SwitchType
    <2> QED BY <1>3, <1>4, <1>6, <2>1, <2>2, <2>4, <2>5 DEF PricesInv, Types, CheckOK
  <1>8. PricesFit'
    <2> SUFFICES ASSUME NEW q \in Product, row'[q].there, q \notin torn'
                 PROVE  Fits(q)'
      BY DEF PricesFit
    <2>1. CASE q # p
      <3>1. row'[q] = row[q] /\ q \notin torn BY <1>3, <1>5, <2>1
      <3> QED BY <3>1 DEF PricesInv, PricesFit, Fits
    <2>2. CASE q = p
      <3>1. ~Overtaken(f) BY <1>3, <2>2
      <3>2. CASE f.base # None BY <1>1, <1>5, <2>2, <3>1, <3>2, SavedFits DEF Fits
      <3>3. CASE f.base = None
        <4>1. row[p].there BY <1>1, <3>3 DEF Writing, IsNew, p
        <4>2. p \notin torn BY <1>3, <2>2, <3>1, <3>3
        <4>3. row[p].price = PriceOf(row[p].base, row[p].own)
          BY <1>2, <4>1, <4>2 DEF PricesInv, PricesFit, Fits
        <4> QED BY <1>1, <1>5, <2>2, <3>1, <3>3, <4>3, SavedFits DEF Fits, p
      <3> QED BY <3>2, <3>3
    <2> QED BY <2>1, <2>2
  <1>9. Exempted'
    <2> SUFFICES ASSUME NEW q \in exempt'
                 PROVE  /\ row'[q].there /\ row'[q].own = 0 /\ rate # 0
                        /\ switch.at # "idle" => switch.to # 0
      <3>1. switch'.at = switch.at /\ switch'.to = switch.to
        BY <1>3 DEF PricesInv, Types, SwitchType
      <3> QED BY <1>3, <3>1 DEF Exempted
    <2>1. CASE q # p
      <3>1. q \in exempt /\ q \in Product /\ row'[q] = row[q]
        BY <1>2, <1>3, <1>5, <2>1
      <3> QED BY <3>1 DEF PricesInv, Exempted
    <2>2. CASE q = p /\ f.sends = None
      <3>1. q \in exempt BY <1>3, <2>2, PricesAssumption
      <3>2. /\ row[p].there /\ row[p].own = 0 /\ rate # 0
            /\ switch.at # "idle" => switch.to # 0
        BY <2>2, <3>1 DEF PricesInv, Exempted
      <3>3. Saved(f).own = row[p].own
        <4>1. ~IsNew(f) BY <1>1, <3>2 DEF Writing, p
        <4>2. Own(f) = row[p].own BY <2>2, <4>1 DEF Own, Applies, p
        <4>3. row[p] \in RowType BY <1>2
        <4> QED BY <4>2, <4>3 DEF Saved, p, RowType
      <3> QED BY <1>1, <1>5, <2>2, <3>2, <3>3, SavedTyped
    <2>3. CASE q = p /\ f.sends # None
      <3>1. f.sends = 0 /\ rate # 0 /\ ~Overtaken(f) /\ ~Slips BY <1>3, <2>3
      <3>2. Applies(f) = 0 BY <2>3, <3>1 DEF Applies
      <3> QED BY <1>1, <1>5, <2>3, <3>1, <3>2, SavedTyped, SavedFits DEF Slips
    <2> QED BY <2>1, <2>2, <2>3
  <1>10. Bare' BY <1>1, <1>5, SavedTyped DEF PricesInv, Bare
  <1>11. SwitchOK'
    <2>1. /\ switch'.at = switch.at /\ switch'.to = switch.to
          /\ switch'.found = switch.found /\ switch'.priced = switch.priced
          /\ switch'.moved = switch.moved
          /\ switch'.crossed = IF Crossing THEN switch.crossed \cup {p} ELSE switch.crossed
      BY <1>3 DEF PricesInv, Types, SwitchType
    <2>2. \A q \in Product : q # p => /\ q \in Followers' <=> q \in Followers
                                      /\ q \in Variants' <=> q \in Variants
      BY <1>3, <1>5 DEF Followers, Variants
    <2>3. p \in switch.moved => p \in Followers'
      <3> SUFFICES ASSUME p \in switch.moved PROVE p \in Followers'
        OBVIOUS
      <3>1. f.base = None /\ p \in Followers
        BY <1>3 DEF Unlocked, PricesInv, SwitchOK, p
      <3>2. Saved(f) = [row[p] EXCEPT !.vbase = f.vbase, !.vprice = Variant(f)]
        BY <3>1 DEF Saved, p
      <3>3. row[p] \in RowType BY <1>2
      <3>4. Saved(f).there = row[p].there /\ Saved(f).own = row[p].own
        BY <3>2, <3>3 DEF RowType
      <3> QED BY <1>2, <1>3, <1>5, <3>1, <3>4 DEF Followers
    <2>4. switch.moved \subseteq Followers'
      <3> SUFFICES ASSUME NEW q \in switch.moved PROVE q \in Followers'
        OBVIOUS
      <3>1. q \in Followers /\ q \in Product BY DEF PricesInv, SwitchOK, Followers
      <3>2. CASE q = p BY <2>3, <3>2
      <3>3. CASE q # p BY <2>2, <3>1, <3>3
      <3> QED BY <3>2, <3>3
    <2>5. CASE ~Crossing
      BY <2>1, <2>4, <2>5 DEF SwitchOK, PricesInv, Crossing
    <2>6. CASE Crossing
      <3>1. \A q \in Product \ switch'.crossed :
                /\ q \in Product \ switch.crossed
                /\ q \in Followers' <=> q \in Followers
                /\ q \in Variants' <=> q \in Variants
        <4> SUFFICES ASSUME NEW q \in Product \ switch'.crossed
                     PROVE  /\ q \in Product \ switch.crossed
                            /\ q \in Followers' <=> q \in Followers
                            /\ q \in Variants' <=> q \in Variants
          OBVIOUS
        <4>1. q \notin switch.crossed /\ q # p BY <2>1, <2>6
        <4> QED BY <2>2, <4>1
      <3> QED BY <2>1, <2>4, <2>6, <3>1 DEF SwitchOK, PricesInv, Crossing
    <2> QED BY <2>5, <2>6
  <1> QED BY <1>7, <1>8, <1>9, <1>10, <1>11 DEF PricesInv

-----------------------------------------------------------------------------

LEMMA NextPrices == PricesInv /\ [PricesNext]_vars => PricesInv'
  <1> SUFFICES ASSUME PricesInv, [PricesNext]_vars PROVE PricesInv'
    OBVIOUS
  <1>1. CASE UNCHANGED vars
    <2>1. Types' BY <1>1 DEF vars, PricesInv, Types, RowOK, FormOK, CheckOK
    <2> QED BY <1>1, <2>1, RowsStay DEF vars
  <1>2. ASSUME NEW c \in Checker, CheckStep(c) PROVE PricesInv'
    BY <1>2, CheckKeeps
  <1>3. ASSUME NEW e \in Editor, FormStep(e) \/ SaveStep(e) PROVE PricesInv'
    BY <1>3, FormKeeps, SaveReadKeeps, SaveWriteKeeps, FormEndKeeps DEF SaveStep, SaveFails
  <1> QED BY <1>1, <1>2, <1>3, RateKeeps DEF PricesNext

\* Types, prices and exemptions hold together in every reachable state.
THEOREM PricesInvariance == PricesSpec => []PricesInv
  <1> QED BY InitPrices, NextPrices, PTL DEF PricesSpec

\* Every field keeps its type, in particular no product is without a rate, for
\* any products, forms, checks, rates and base prices.
THEOREM PricesTypeCorrect == PricesSpec => []PricesTypeOK
  <1>1. PricesInv => PricesTypeOK
    BY DEF PricesInv, Types, PricesTypeOK, RowOK, RowType, CheckOK, SwitchType
  <1> QED BY <1>1, PricesInvariance, PTL

\* What the shop charges is the base with the product's own VAT, however saves
\* and the statements of the changes of the rate interleave, unless a change
\* overtook the save or the save crossed one (setRate, createProduct,
\* updateProduct).
THEOREM PricesFollowRate == PricesSpec => []PricesFit
  <1>1. PricesInv => PricesFit BY DEF PricesInv
  <1> QED BY <1>1, PricesInvariance, PTL

\* A product that was made exempt keeps its rate of zero through every change of
\* the general rate (setRate and its check for a clash), unless it was saved
\* while a change to zero was under way, past that check.
THEOREM ExemptionsStay == PricesSpec => []ExemptStays
  <1>1. PricesInv => ExemptStays BY DEF PricesInv, Exempted, ExemptStays
  <1> QED BY <1>1, PricesInvariance, PTL

-----------------------------------------------------------------------------
(* Offers and coupons, as they are saved and as they are applied.           *)

\* Round of any number is a number.
LEMMA RoundInt ==
    ASSUME NEW n \in Int, NEW d \in Nat \ {0}
    PROVE  Round(n, d) \in Int
<1> DEFINE a == 2 * n + d
           e == 2 * d
<1>1. a \in Int /\ e \in Nat \ {0}
  OBVIOUS
<1>2. Round(n, d) = a \div e
  BY DEF Round
<1> HIDE DEF a, e
<1> QED
  BY <1>1, <1>2, DivMod

\* A form over what was saved: what it states, and otherwise what there was.
LEMMA OverIs ==
    ASSUME NEW sent, NEW old, NEW f \in DOMAIN old
    PROVE  /\ DOMAIN Over(sent, old) = DOMAIN old
           /\ States(sent, f) => Over(sent, old)[f] = sent[f]
           /\ ~States(sent, f) => Over(sent, old)[f] = old[f]
  BY DEF Over

\* What an offer that was saved takes off is a number.
LEMMA SavedDiscountIs ==
    ASSUME NEW change, Worth(change)
    PROVE  SavedDiscount(change).value \in Int
<1> DEFINE made == CreateDiscount(change.create)
           left == Over(change.edit, made)
<1>1. DOMAIN NewOffer = {"type", "value", "startsAt", "endsAt", "isActive"}
  BY DEF NewOffer
<1>2. DOMAIN made = DOMAIN NewOffer /\ made["value"] = change.create["value"]
  BY <1>1, OverIs DEF CreateDiscount, Worth
<1>3. made.value \in Int
  BY <1>2 DEF Worth
<1>5. left.value \in Int
  BY <1>1, <1>2, <1>3, OverIs DEF Worth
<1>6. SavedDiscount(change) \in {made, left}
  BY DEF SavedDiscount, UpdateDiscount
<1> QED
  BY <1>3, <1>5, <1>6

\* A coupon that was saved takes nothing less than nothing off.
LEMMA SavedCouponIs ==
    ASSUME NEW change, Worth(change), SavedCoupon(change) # Null
    PROVE  SavedCoupon(change).value \in Nat
<1> DEFINE over == Over(change.create, NewCoupon)
           made == CreateCoupon(change.create)
           left == Over(change.edit, made)
           edited == UpdateCoupon(change.edit, made)
<1>1. DOMAIN NewCoupon = {"type", "value", "minPurchase", "maxUses", "startsAt", "endsAt",
                          "isActive", "usedCount"}
  BY DEF NewCoupon
<1>2. CouponValid(change.create)
  BY DEF SavedCoupon
<1>3. DOMAIN over = DOMAIN NewCoupon /\ over["value"] = change.create["value"]
  BY <1>1, OverIs DEF Worth
<1>4. made = [over EXCEPT !["minPurchase"] = OrNull(@)]
  BY DEF CreateCoupon
<1>5. DOMAIN made = DOMAIN NewCoupon /\ made["value"] = change.create["value"]
  <2> HIDE DEF over, made
  <2> QED
    BY <1>1, <1>3, <1>4
<1>6. made.value \in Nat
  BY <1>2, <1>5 DEF Worth, CouponValid
<1>7. SavedCoupon(change) = IF CouponChangeValid(change.edit) THEN edited ELSE made
  BY <1>2 DEF SavedCoupon
<1>8. ASSUME CouponChangeValid(change.edit)
      PROVE  edited.value \in Nat
  <2> HIDE DEF made
  <2>1. DOMAIN left = DOMAIN made
    BY DEF Over
  <2>2. edited = [left EXCEPT !["minPurchase"] = OrNull(@)]
    BY DEF UpdateCoupon
  <2>3. edited["value"] = left["value"]
    <3> HIDE DEF left, edited
    <3> QED
      BY <1>1, <1>5, <2>1, <2>2
  <2>4. CASE States(change.edit, "value")
    <3>1. left["value"] = change.edit["value"]
      BY <1>1, <1>5, <2>4, OverIs
    <3>2. change.edit["value"] \in Int /\ change.edit["value"] # Null
      BY <2>4, NullAssumption DEF Worth
    <3>3. change.edit["value"] >= 0
      BY <1>8, <2>4, <3>2 DEF CouponChangeValid, NotNegative, States
    <3> QED
      BY <2>3, <3>1, <3>2, <3>3
  <2>5. CASE ~States(change.edit, "value")
    <3>1. left["value"] = made["value"]
      BY <1>1, <1>5, <2>5, OverIs
    <3> QED
      BY <1>6, <2>3, <3>1
  <2> QED
    BY <2>4, <2>5
<1> HIDE DEF made, edited
<1> QED
  BY <1>6, <1>7, <1>8

\* applyProductDiscounts: a price, whatever the offers are.
LEMMA DiscountedIs ==
    ASSUME NEW price \in Nat, NEW offers, IsFiniteSet(offers), NEW now,
           \A o \in offers : o.value \in Int
    PROVE  Discounted(price, offers, now) \in Nat
<1> DEFINE inForce == {p \in offers : InForce(p, now)}
           w == [o \in inForce |-> With(o, price)]
           W == {With(o, price) : o \in inForce}
           C == {price} \cup W
           best == CHOOSE c \in C : \A d \in C : c <= d
<1>1. IsFiniteSet(inForce)
  BY FS_Subset
<1>2. w \in Surjection(inForce, W)
  BY DEF Surjection
<1>3. IsFiniteSet(W)
  <2> HIDE DEF inForce, w, W
  <2> QED
    BY <1>1, <1>2, FS_Surjection
<1>4. ASSUME NEW o \in inForce PROVE With(o, price) \in Int
  <2>1. o.value \in Int
    OBVIOUS
  <2> DEFINE k == price * (10000 - o.value)
  <2>2. k \in Int /\ 10000 \in Nat \ {0}
    BY <2>1
  <2> HIDE DEF k
  <2>3. Round(k, 10000) \in Int
    BY <2>2, RoundInt
  <2>4. price - o.value \in Int
    BY <2>1
  <2> QED
    BY <2>3, <2>4 DEF With, k
<1>5. C \subseteq Int /\ C # {}
  BY <1>4
<1>6. IsFiniteSet(C)
  <2>1. IsFiniteSet({price})
    BY FS_Singleton
  <2> HIDE DEF W
  <2> QED
    BY <1>3, <2>1, FS_Union
<1>7. Discounted(price, offers, now) = IF best < 0 THEN 0 ELSE best
  BY DEF Discounted
<1> HIDE DEF C
<1>8. best \in Int
  BY <1>5, <1>6, Least
<1> HIDE DEF best
<1> QED
  BY <1>7, <1>8

\* The offers that are saved of finitely many forms.
LEMMA SavedDiscountsAre ==
    ASSUME NEW changes, IsFiniteSet(changes), \A c \in changes : Worth(c)
    PROVE  /\ IsFiniteSet(SavedDiscounts(changes))
           /\ \A o \in SavedDiscounts(changes) : o.value \in Int
<1> DEFINE V == {d \in changes : DiscountValid(d.create)}
           w == [c \in V |-> SavedDiscount(c)]
           W == SavedDiscounts(changes)
<1>1. IsFiniteSet(V)
  BY FS_Subset
<1>2. w \in Surjection(V, W)
  BY DEF Surjection, SavedDiscounts
<1>3. IsFiniteSet(W)
  <2> HIDE DEF V, w, W
  <2> QED
    BY <1>1, <1>2, FS_Surjection
<1>4. \A c \in V : SavedDiscount(c).value \in Int
  BY SavedDiscountIs
<1> QED
  BY <1>3, <1>4 DEF SavedDiscounts

-----------------------------------------------------------------------------
(* What is bought, of any cart.                                             *)

\* Prices are naturals.
LEMMA FinalIs == Finals \subseteq Nat
<1>1. ASSUME NEW b \in Base, NEW r \in Rate PROVE FinalPrice(b, r) \in Nat
  <2> DEFINE n == b * (10000 + r)
  <2>1. b \in Nat /\ r \in 0..3000
    BY PricesAssumption
  <2>2. r \in Nat /\ 10000 + r \in Nat
    BY <2>1
  <2>3. n \in Nat /\ 1000000 \in Nat \ {0}
    BY <2>1, <2>2, NatTimes
  <2> HIDE DEF n
  <2>4. Nearest(n, 1000000)
    BY <2>3, RoundIs
  <2>5. Round(n, 1000000) \in Nat
    BY <2>4 DEF Nearest
  <2>6. FinalPrice(b, r) = 100 * Round(n, 1000000)
    BY DEF FinalPrice, n
  <2> QED
    BY <2>5, <2>6
<1> QED
  BY <1>1 DEF Finals

\* What is asked for is a request of what is in the cart.
LEMMA RequestIs ==
    ASSUME NEW u \in Purchase
    PROVE  IsRequest(u.request, Len(u.request), 1..Lines)
<1>1. u.request \in Seq([item : 1..Lines, quantity : Int])
  BY PurchaseAssumption
<1>2. Len(u.request) \in Nat /\ DOMAIN u.request = 1..Len(u.request)
  BY <1>1
<1>3. \A k \in 1..Len(u.request) : u.request[k] \in [item : 1..Lines, quantity : Int]
  <2> DEFINE R == [item : 1..Lines, quantity : Int]
             s == u.request
  <2>1. s \in Seq(R)
    BY <1>1
  <2> HIDE DEF R, s
  <2>2. \A k \in 1..Len(s) : s[k] \in R
    BY <2>1
  <2> QED
    BY <2>2 DEF R, s
<1> QED
  BY <1>2, <1>3 DEF IsRequest

\* The items of an order: of what is in the shop, at a price, in some quantity.
LEMMA ItemsAre ==
    ASSUME NEW cart \in Carts, NEW u \in Purchase,
           NEW line, line.item \in 1..Lines, line.quantity \in Nat \ {0}
    PROVE  LET it == Item(line, Shop(cart, u))
           IN  /\ it.price \in Nat /\ it.rate \in VatRate /\ it.quantity = line.quantity
<1> DEFINE shop == Shop(cart, u)
           good == shop.goods[line.item]
           it == Item(line, shop)
           i == line.item
<1>1. cart[i] \in Finals \X Rate
  BY DEF Carts, Finals
<1>2. cart[i][1] \in Finals /\ cart[i][2] \in Rate
  BY <1>1
<1>3. cart[i][1] \in Nat /\ cart[i][2] \in VatRate
  <2>1. cart[i][1] \in Nat
    BY <1>2, FinalIs
  <2>2. Rate \subseteq VatRate
    BY PricesAssumption DEF VatRate
  <2> QED
    BY <1>2, <2>1, <2>2
<1>4. good.price = cart[i][1] /\ good.rate = cart[i][2] /\ good.offers = SavedDiscounts(u.offers)
  BY DEF Shop
<1>5. IsFiniteSet(u.offers) /\ \A c \in u.offers : Worth(c)
  BY PurchaseAssumption
<1>6. IsFiniteSet(SavedDiscounts(u.offers)) /\ \A o \in SavedDiscounts(u.offers) : o.value \in Int
  BY <1>5, SavedDiscountsAre
<1>7. Discounted(cart[i][1], SavedDiscounts(u.offers), shop.now) \in Nat
  <2> HIDE DEF shop
  <2> QED
    BY <1>3, <1>6, DiscountedIs
<1>8. /\ it.price = Discounted(good.price, good.offers, shop.now) /\ it.rate = good.rate
      /\ it.quantity = line.quantity
  BY DEF Item
<1> HIDE DEF shop, good, it
<1>9. it.price \in Nat /\ it.rate \in VatRate /\ it.quantity = line.quantity
  BY <1>3, <1>4, <1>7, <1>8
<1> QED
  BY <1>9 DEF it, shop

\* The discount of a coupon is some share of what the products cost.
LEMMA CouponDiscountIs ==
    ASSUME NEW coupon, coupon.value \in Nat, NEW subtotal \in Nat
    PROVE  CouponDiscount(coupon, subtotal) \in 0..subtotal
<1> DEFINE n == subtotal * coupon.value
           x == IF coupon.type = Percentage THEN Round(n, 10000) ELSE coupon.value
<1>1. n \in Nat /\ 10000 \in Nat \ {0}
  BY NatTimes
<1>2. Nearest(n, 10000)
  <2> HIDE DEF n
  <2> QED
    BY <1>1, RoundIs
<1>3. x \in Nat
  <2> HIDE DEF n
  <2>1. Round(n, 10000) \in Nat
    BY <1>2 DEF Nearest
  <2> QED
    BY <2>1
<1>4. CouponDiscount(coupon, subtotal) = Smaller(x, subtotal)
  BY DEF CouponDiscount
<1> HIDE DEF x
<1> QED
  BY <1>3, <1>4 DEF Smaller

\* A subtotal of naturals is one.
LEMMA SubtotalIs ==
    ASSUME NEW items, NEW n \in Nat, DOMAIN items = 1..n,
           \A i \in 1..n : items[i].price \in Nat /\ items[i].quantity \in Nat
    PROVE  Subtotal(items) \in Nat
<1> DEFINE D == 1..n
           f == [i \in DOMAIN items |-> items[i].price * items[i].quantity]
           z == [i \in D |-> 0]
<1>1. IsFiniteSet(D)
  BY FS_Interval
<1>2. \A i \in D : f[i] \in Nat
  BY NatTimes
<1>3. Subtotal(items) = Sum(f, D)
  BY TotalIsSum DEF Subtotal
<1>4. \A i \in D : z[i] = 0 /\ z[i] \in Int /\ f[i] \in Int /\ z[i] <= f[i]
  BY <1>2
<1> HIDE DEF D, f, z
<1>5. Sum(z, D) = 0
  BY <1>1, <1>4, SumZero
<1>6. Sum(z, D) <= Sum(f, D)
  BY <1>1, <1>4, SumLeq
<1>7. Sum(f, D) \in Int
  BY <1>1, <1>4, SumInt
<1> QED
  BY <1>3, <1>5, <1>6, <1>7

\* A request that is not refused asks for a unit or more in every line.
LEMMA NotRefused ==
    ASSUME NEW request, NEW code, NEW shop, Complaints(request, code, shop, TRUE) = {}
    PROVE  \A k \in DOMAIN request : request[k].quantity >= 1
<1>1. Acceptable(request)
  BY DEF Complaints
<1> QED
  BY <1>1 DEF Acceptable

\* What is bought is an order for all the units that were asked for.
LEMMA BoughtIs ==
    ASSUME NEW cart \in Carts, NEW u \in Purchase, NEW order \in Bought(cart, u)
    PROVE  /\ \E n \in Nat : IsOrder(order, n)
           /\ Total([i \in DOMAIN order.items |-> order.items[i].quantity])
                = Total(Quantities(u.request))
<1> DEFINE shop == Shop(cart, u)
           lines == NormalizeItems(u.request)
           m == Cardinality(Firsts(u.request))
           N == Len(u.request)
           items == [i \in DOMAIN lines |-> Item(lines[i], shop)]
           sub == Subtotal(items)
           coupon == shop.coupons[u.code]
           applies == u.code # Null /\ ValidateCoupon(coupon, sub, shop.now)
           discount == IF applies THEN CouponDiscount(coupon, sub) ELSE 0
           shipping == Shipping(shop.ship, sub - discount)
<1>1. Complaints(u.request, u.code, shop, TRUE) = {} /\ order = Order(u.request, u.code, shop)
  BY DEF Bought
<1>2. /\ order.items = items /\ order.discount = discount /\ order.shipping = shipping
      /\ order.total = sub - discount + shipping
  BY <1>1 DEF Order, OrderOf
<1>3. IsRequest(u.request, N, 1..Lines)
  BY RequestIs
<1>4. \A k \in 1..N : u.request[k].quantity >= 1
  <2>1. \A k \in DOMAIN u.request : u.request[k].quantity >= 1
    BY <1>1, NotRefused
  <2> QED
    BY <1>3, <2>1 DEF IsRequest
<1> HIDE DEF lines, N, m, shop
<1>5. /\ m \in Nat /\ DOMAIN lines = 1..m
      /\ \A i \in 1..m : lines[i].item \in 1..Lines /\ lines[i].quantity \in Int
      /\ \A i \in 1..m : lines[i].quantity >= 1
      /\ Total([i \in DOMAIN lines |-> lines[i].quantity]) = Total(Quantities(u.request))
  <2> DEFINE I == 1..Lines
  <2>a. /\ IsRequest(u.request, N, I) /\ lines = NormalizeItems(u.request)
        /\ m = Cardinality(Firsts(u.request))
    BY <1>3 DEF lines, m
  <2> HIDE DEF I
  <2>1. /\ m \in Nat /\ DOMAIN lines = 1..m
        /\ \A i \in 1..m : lines[i].item \in I /\ lines[i].quantity \in Int
        /\ (\A k \in 1..N : u.request[k].quantity >= 1) => \A i \in 1..m : lines[i].quantity >= 1
        /\ Total([i \in DOMAIN lines |-> lines[i].quantity]) = Total(Quantities(u.request))
    BY <2>a, NormalizeKeeps
  <2> QED
    BY <1>4, <2>1 DEF I
<1>6. ASSUME NEW i \in 1..m
      PROVE  /\ items[i].price \in Nat /\ items[i].rate \in VatRate
             /\ items[i].quantity \in Nat \ {0} /\ items[i].quantity = lines[i].quantity
  <2>1. lines[i].item \in 1..Lines /\ lines[i].quantity \in Nat \ {0}
    BY <1>5
  <2>2. items[i] = Item(lines[i], Shop(cart, u))
    BY <1>5 DEF shop
  <2> HIDE DEF items
  <2> QED
    BY <2>1, <2>2, ItemsAre
<1>7. DOMAIN items = 1..m
  BY <1>5
<1>8. [i \in DOMAIN items |-> items[i].quantity] = [i \in DOMAIN lines |-> lines[i].quantity]
  <2> HIDE DEF items
  <2> QED
    BY <1>5, <1>6, <1>7
<1> HIDE DEF items
<1>9. sub \in Nat
  <2>1. \A i \in 1..m : items[i].price \in Nat /\ items[i].quantity \in Nat
    BY <1>6
  <2> QED
    BY <1>5, <1>7, <2>1, SubtotalIs
<1> HIDE DEF sub
<1>10. coupon = SavedCoupon(u.coupon)
  BY DEF shop, Shop
<1>11. applies => coupon.value \in Nat
  <2>1. applies => coupon # Null
    BY DEF ValidateCoupon
  <2>2. Worth(u.coupon)
    BY PurchaseAssumption
  <2> QED
    BY <1>10, <2>1, <2>2, SavedCouponIs
<1> HIDE DEF coupon
<1>12. discount \in 0..sub
  <2>1. CASE applies
    BY <1>9, <1>11, <2>1, CouponDiscountIs
  <2>2. CASE ~applies
    BY <1>9, <2>2
  <2> QED
    BY <2>1, <2>2
<1> HIDE DEF discount
<1>13. shipping \in Nat
  <2>1. shop.ship = u.ship /\ u.ship \in [flat : Nat, freeFrom : Nat]
    BY PurchaseAssumption DEF shop, Shop
  <2> QED
    BY <2>1 DEF Shipping
<1> HIDE DEF shipping
<1>14. IsOrder(order, m)
  BY <1>2, <1>5, <1>6, <1>7, <1>12, <1>13 DEF IsOrder, sub
<1> QED
  BY <1>2, <1>5, <1>8, <1>14

\* Every cart makes sound documents, whatever is bought with it.
LEMMA CartsAreSound ==
    ASSUME NEW cart \in Carts
    PROVE  [i \in 1..Lines |-> cart[i]] \in SoundCarts
<1>1. ASSUME NEW u \in Purchase, NEW order \in Bought(cart, u)
      PROVE  Accounts(order, u)
  <2>1. PICK n \in Nat : IsOrder(order, n)
    BY BoughtIs
  <2>2. \A c \in Circumstance : ConfigErrors(c.env) = {} /\ ConfigErrors(c.envLater) = {} => AddsUp(order, c)
    BY <2>1, OrderAddsUp
  <2>3. Total([i \in DOMAIN order.items |-> order.items[i].quantity])
          = Total([k \in DOMAIN u.request |-> u.request[k].quantity])
    BY BoughtIs DEF Quantities
  <2> QED
    BY <2>2, <2>3 DEF Accounts
<1> QED
  BY <1>1 DEF SoundCarts

-----------------------------------------------------------------------------
(* What the providers report of its price.                                  *)

\* The order that is paid.
IsPaying(order) ==
    order \in [id : {"o1"}, total : Nat, shipping : Nat, docType : {Null}, docNumber : {Null}]

SettlesAll(S, order) == S # {} /\ \A r \in S : Settles(r, order)

\* Identifiers and references are set.
LEMMA NullIs == Null # "o1" /\ Null # "a1" /\ \A now \in Nat : Null # <<"KAES", "o1", now>>
<1> DEFINE S == Words \cup Int
<1>1. Null \notin Words /\ Null \notin Seq(S)
  BY WordsAssumption
<1>2. "KAES" \in Words /\ "o1" \in Words /\ "a1" \in Words
  BY DEF Words
<1>3. ASSUME NEW now \in Nat PROVE <<"KAES", "o1", now>> \in Seq(S)
  <2>1. now \in S /\ "KAES" \in S /\ "o1" \in S
    BY <1>2
  <2> HIDE DEF S
  <2> QED
    BY <2>1
<1> HIDE DEF S
<1> QED
  BY <1>1, <1>2, <1>3

\* sameAmount, of what is right to half a peso.
LEMMA SettlesIt ==
    ASSUME NEW order, IsPaying(order), NEW r, r.order = "o1",
           \/ r.amount = Null
           \/ r.amount \in Nat /\ r.amount - order.total \in -100..100
    PROVE  Settles(r, order)
  BY DEF IsPaying, Settles, SameAmount

\* The reports of Wompi pay for an order in full: the signed one of the charge, and its polls.
LEMMA WompiPays ==
    ASSUME NEW order, IsPaying(order), NEW c \in Account, IsWompiConfigured(c.env)
    PROVE  SettlesAll(WompiReports(order, c), order)
<1> DEFINE url == BuildCheckoutUrl(order, c.now, c.env)
           charged == WompiCharge(url, c.account)
           ref == <<"KAES", "o1", c.now>>
           t == [id |-> "w1", status |-> "APPROVED", reference |-> ref,
                 amountInCents |-> order.total, currency |-> "COP"]
           events == {WompiEvent(x, c.account) : x \in charged}
           A == {FromTransaction(e.transaction) : e \in {f \in events : WompiWebhookTakes(f, c.env)}}
           V == VerifiedTransactions(charged, order.id, c.env)
           B == {FromTransaction(x) : x \in V}
<1>1. c.env.integritySecret = c.account.integritySecret /\ c.now \in Nat
  BY AccountAssumption
<1>2. order.id = "o1" /\ order.total \in Nat
  BY DEF IsPaying
<1>3. /\ url.asked.reference = ref /\ url.asked.amountInCents = order.total
      /\ url.asked.currency = "COP"
      /\ url.signature = IntegritySignature(url.asked, c.env.integritySecret)
  BY <1>2 DEF BuildCheckoutUrl, BuildReference
<1>4. charged = {t}
  <2> HIDE DEF url
  <2> QED
    BY <1>1, <1>3 DEF WompiCharge
<1>5. OrderIdFromReference(ref) = "o1"
  <2>1. ref # Null
    BY <1>1, NullIs
  <2>2. ref[1] = "KAES" /\ Len(ref) = 3 /\ ref[2] = "o1"
    OBVIOUS
  <2> QED
    BY <2>1, <2>2 DEF OrderIdFromReference
<1>6. t.reference = ref /\ t.amountInCents = order.total
  OBVIOUS
<1> HIDE DEF t, ref, charged
<1>7. V = {t}
  BY <1>2, <1>4, <1>5, <1>6 DEF VerifiedTransactions
<1> DEFINE r == FromTransaction(t)
<1>8. r.order = "o1" /\ r.amount = order.total
  BY <1>5, <1>6 DEF FromTransaction
<1>9. \A e \in events : e.transaction = t
  BY <1>4 DEF WompiEvent
<1>10. A \subseteq {r} /\ B = {r}
  <2> HIDE DEF events, V
  <2> QED
    BY <1>7, <1>9
<1>11. Settles(r, order)
  <2> HIDE DEF r
  <2>1. r.amount \in Nat /\ r.amount - order.total \in -100..100
    BY <1>2, <1>8
  <2> QED
    BY <1>8, <2>1, SettlesIt
<1>12. WompiReports(order, c) = A \cup B
  BY Zenon DEF WompiReports, charged
<1> HIDE DEF A, B, r
<1> QED
  BY <1>10, <1>11, <1>12 DEF SettlesAll

\* And those of MercadoPago, which takes nothing for an order of 0.
LEMMA MercadoPagoPays ==
    ASSUME NEW order, IsPaying(order), NEW c \in Account, IsMercadoPagoConfigured(c.env),
           order.total > 0
    PROVE  SettlesAll(MercadoPagoReports(order, c), order)
<1> DEFINE pref == Preference(order, c.now)
           charged == MercadoPagoCharge(pref)
           p == [id |-> "m1", status |-> "approved", transactionAmount |-> order.total,
                 externalReference |-> "o1"]
           Told(x) == \E n \in MercadoPagoNotices(x, c.account) : MercadoPagoWebhookTakes(n, c.env)
           A == {FromPayment(x) : x \in {q \in charged : Told(q)}}
           V == VerifiedPayments(charged, order.id, c.env)
           B == {FromPayment(x) : x \in V}
           f == [i \in DOMAIN pref.items |-> pref.items[i].quantity * pref.items[i].unitPrice]
<1>1. order.id = "o1" /\ order.total \in Nat
  BY DEF IsPaying
<1>2. /\ pref.items = <<[quantity |-> 1, unitPrice |-> order.total]>>
      /\ pref.externalReference = "o1"
  BY <1>1 DEF Preference
<1> HIDE DEF pref
<1>3. DOMAIN f = {1} /\ f[1] = order.total /\ f[1] \in Int
  <2>1. /\ DOMAIN pref.items = {1} /\ pref.items[1].quantity = 1
        /\ pref.items[1].unitPrice = order.total
    BY <1>2
  <2> QED
    BY <1>1, <2>1
<1>4. Total(f) = order.total
  <2> HIDE DEF f
  <2> QED
    BY <1>3, TotalOne
<1>5. charged = {p}
  BY <1>1, <1>2, <1>4 DEF MercadoPagoCharge
<1>6. p.externalReference = "o1" /\ p.transactionAmount = order.total
  OBVIOUS
<1> HIDE DEF p, charged
<1>7. V = {p}
  BY <1>1, <1>5, <1>6 DEF VerifiedPayments
<1> DEFINE r == FromPayment(p)
<1>8. r.order = "o1" /\ r.amount = order.total
  BY <1>6 DEF FromPayment
<1>9. A \subseteq {r} /\ B = {r}
  <2> HIDE DEF V, Told
  <2> QED
    BY <1>5, <1>7
<1>10. Settles(r, order)
  <2> HIDE DEF r
  <2>1. r.amount \in Nat /\ r.amount - order.total \in -100..100
    BY <1>1, <1>8
  <2> QED
    BY <1>8, <2>1, SettlesIt
<1>11. MercadoPagoReports(order, c) = A \cup B
  BY Zenon DEF MercadoPagoReports, charged, pref
<1> HIDE DEF A, B, r
<1> QED
  BY <1>9, <1>10, <1>11 DEF SettlesAll

\* Addi, in whole pesos, with a token it gave for this order or another.
LEMMA AddiPays ==
    ASSUME NEW order, IsPaying(order), NEW c \in Account, IsAddiConfigured(c.env)
    PROVE  SettlesAll(AddiReports(order, c), order)
<1> DEFINE Issued(at) == [givenAt |-> at, ttl |-> c.ttl]
           before == GetToken(NoToken, 0, Issued(0))
           token == GetToken(before, c.later, Issued(c.later)).token
           body == BuildApplicationBody(order)
           calls == AddiCallbacks(body, token, c.later, c.account)
           a == Pesos(order.total)
           call(x) == [authorization |-> <<c.account.callbackUser, c.account.callbackPassword>>,
                       orderId |-> "o1", applicationId |-> "a1", approvedAmount |-> x]
           taken == {d \in calls : AddiCallbackTakes(d, c.env)}
<1>1. /\ c.env.callbackUser = c.account.callbackUser
      /\ c.env.callbackPassword = c.account.callbackPassword
      /\ c.later \in Nat /\ c.ttl \in Nat /\ c.ttl >= 30
  BY AccountAssumption
<1>2. order.id = "o1" /\ order.total \in Nat
  BY DEF IsPaying
\* The token holds.
<1>3. c.later < token.givenAt + token.ttl
  <2>1. /\ before.token = Issued(0)
        /\ before.expiresAt = 0 + (IF c.ttl - 60 > 30 THEN c.ttl - 60 ELSE 30)
    BY DEF GetToken, NoToken
  <2>2. before.expiresAt <= c.ttl /\ before.expiresAt \in Int
    BY <1>1, <2>1
  <2> HIDE DEF before
  <2>3. CASE before.token # Null /\ c.later < before.expiresAt
    <3>1. token = Issued(0)
      BY <2>1, <2>3 DEF GetToken
    <3> HIDE DEF token
    <3>2. token.givenAt = 0 /\ token.ttl = c.ttl
      BY <3>1
    <3> QED
      BY <1>1, <2>2, <2>3, <3>2
  <2>4. CASE ~(before.token # Null /\ c.later < before.expiresAt)
    <3>1. token = Issued(c.later)
      BY <2>4 DEF GetToken
    <3> HIDE DEF token
    <3>2. token.givenAt = c.later /\ token.ttl = c.ttl
      BY <3>1
    <3> QED
      BY <1>1, <3>2
  <2> QED
    BY <2>3, <2>4
<1>4. /\ token.givenAt + token.ttl \in Int
  <2>1. token \in {Issued(0), Issued(c.later)}
    BY DEF GetToken, NoToken
  <2> HIDE DEF token
  <2>2. token.givenAt \in Nat /\ token.ttl \in Nat
    BY <1>1, <2>1
  <2> QED
    BY <2>2
<1>5. body.orderId = "o1" /\ body.totalAmount = a
  BY <1>2 DEF BuildApplicationBody
<1> HIDE DEF token, body
<1>6. calls = {call(x) : x \in {a, Null}}
  <2>1. ~(c.later >= token.givenAt + token.ttl)
    BY <1>1, <1>3, <1>4
  <2> QED
    BY <1>5, <2>1 DEF AddiCallbacks
<1>7. \A x : AddiCallbackTakes(call(x), c.env)
  <2>1. c.env["callbackUser"] # Null /\ c.env["callbackPassword"] # Null
    BY DEF IsAddiConfigured, IsSet
  <2>2. IsSet(c.env, {"callbackUser", "callbackPassword"})
    BY <2>1 DEF IsSet
  <2>3. \A x : VerifyCallbackAuth(call(x).authorization, c.env)
    BY <1>1, <2>2 DEF VerifyCallbackAuth
  <2> QED
    BY <2>3, NullIs DEF AddiCallbackTakes
<1>8. taken = {call(x) : x \in {a, Null}}
  <2> HIDE DEF calls, call
  <2> QED
    BY <1>6, <1>7
<1>9. /\ a \in Nat /\ 100 * a - order.total \in -100..100
  <2> DEFINE n == order.total
             r == Round(n, 100)
  <2>1. n \in Nat /\ 100 \in Nat \ {0} /\ a = r
    BY <1>2 DEF Pesos
  <2> HIDE DEF n, a
  <2>2. Nearest(n, 100)
    BY <2>1, RoundIs
  <2>3. r \in Nat /\ 2 * (100 * r) <= 2 * n + 100 /\ 2 * n < 2 * (100 * r) + 100
    BY <2>2 DEF Nearest
  <2> HIDE DEF r
  <2>4. r \in Nat /\ 100 * r - n \in -100..100
    BY <2>1, <2>3
  <2> QED
    BY <2>1, <2>4 DEF n
<1>10. ASSUME NEW x \in {a, Null}
       PROVE  Settles(FromCallback(call(x)), order)
  <2> DEFINE r == FromCallback(call(x))
  <2>1. r.order = "o1" /\ r.amount = IF x = Null \/ x = 0 THEN Null ELSE 100 * x
    BY DEF FromCallback
  <2> HIDE DEF r, a
  <2>2. \/ r.amount = Null
        \/ r.amount \in Nat /\ r.amount - order.total \in -100..100
    BY <1>9, <2>1
  <2>3. Settles(r, order)
    BY <2>1, <2>2, SettlesIt
  <2> QED
    BY <2>3 DEF r
<1>11. AddiReports(order, c) = {FromCallback(b) : b \in taken}
  BY Zenon DEF AddiReports, token, body
<1> HIDE DEF taken, call, a
<1> QED
  BY <1>8, <1>10, <1>11 DEF SettlesAll

\* Whichever provider is offered, what it asks pays for the order.
LEMMA JustPaysIt ==
    ASSUME NEW order, IsPaying(order), NEW c \in Account
    PROVE  JustPays(order, c)
<1> SUFFICES ASSUME NEW p \in Takers(order, c)
             PROVE  SettlesAll(Reports(p, order, c), order)
  BY DEF JustPays, SettlesAll
<1>1. p \in {"wompi", "mercadopago", "addi", "transfer"}
  BY DEF Takers, Offered
<1>2. CASE p = "wompi"
  <2>1. IsWompiConfigured(c.env)
    BY <1>2 DEF Takers, Offered
  <2>2. Reports(p, order, c) = WompiReports(order, c)
    BY <1>2 DEF Reports
  <2> QED
    BY <2>1, <2>2, WompiPays
<1>3. CASE p = "mercadopago"
  <2>1. IsMercadoPagoConfigured(c.env) /\ order.total > 0
    BY <1>3 DEF Takers, Offered
  <2>2. Reports(p, order, c) = MercadoPagoReports(order, c)
    BY <1>3 DEF Reports
  <2> QED
    BY <2>1, <2>2, MercadoPagoPays
<1>4. CASE p = "addi"
  <2>1. IsAddiConfigured(c.env)
    BY <1>4 DEF Takers, Offered
  <2>2. Reports(p, order, c) = AddiReports(order, c)
    BY <1>4 DEF Reports
  <2> QED
    BY <2>1, <2>2, AddiPays
<1>5. CASE p = "transfer"
  <2>1. Reports(p, order, c) = {ApprovedTransfer(order)}
    BY <1>5 DEF Reports
  <2>2. ApprovedTransfer(order).order = "o1" /\ ApprovedTransfer(order).amount = order.total
        /\ order.total \in Nat
    BY DEF ApprovedTransfer, IsPaying
  <2>3. Settles(ApprovedTransfer(order), order)
    BY <2>2, SettlesIt
  <2> QED
    BY <2>1, <2>3 DEF SettlesAll
<1> QED
  BY <1>1, <1>2, <1>3, <1>4, <1>5

\* Whatever products of any base price and rate are bought.
LEMMA CartsArePaid ==
    ASSUME NEW cart \in Carts
    PROVE  [i \in 1..Lines |-> cart[i]] \in PaidCarts
<1>1. ASSUME NEW u \in Purchase, NEW o \in Bought(cart, u), NEW a \in Account
      PROVE  JustPays([id |-> "o1", total |-> o.total, shipping |-> o.shipping,
                       docType |-> Null, docNumber |-> Null], a)
  <2>1. PICK n \in Nat : IsOrder(o, n)
    BY BoughtIs
  <2>2. Subtotal(o.items) \in Int
    BY <2>1, ItemsArePaid
  <2>3. o.total \in Nat /\ o.shipping \in Nat
    BY <2>1, <2>2 DEF IsOrder
  <2>4. IsPaying([id |-> "o1", total |-> o.total, shipping |-> o.shipping,
                  docType |-> Null, docNumber |-> Null])
    BY <2>3 DEF IsPaying
  <2> QED
    BY <2>4, JustPaysIt
<1> QED
  BY <1>1 DEF PaidCarts

-----------------------------------------------------------------------------
(* What is on sale, in every reachable state.                               *)

\* It costs what some base price costs with some rate.
LEMMA OnSalePriced == Types => OnSale \subseteq Finals \X Rate
  <1> SUFFICES ASSUME Types PROVE OnSale \subseteq Finals \X Rate
    OBVIOUS
  <1>1. ASSUME NEW p \in Product, row[p].there
        PROVE  /\ <<row[p].price, row[p].own>> \in Finals \X Rate
               /\ \A v \in {row[p].vprice} \ {None} : <<v, row[p].own>> \in Finals \X Rate
    <2>1. row[p] \in RowType /\ row[p].own \in Rate /\ row[p].price \in Finals
      BY <1>1 DEF Types, RowOK
    <2>2. row[p].vprice \in Finals \cup {None} BY <2>1, PriceFinal DEF RowType
    <2> QED BY <2>1, <2>2
  <1>2. ASSUME NEW x \in OnSale PROVE x \in Finals \X Rate
    <2>1. PICK p \in {q \in Product : row[q].there} :
              x \in {<<row[p].price, row[p].own>>} \cup
                   {<<v, row[p].own>> : v \in {row[p].vprice} \ {None}}
      BY Zenon DEF OnSale
    <2> QED BY <1>1, <2>1
  <1> QED BY <1>2

\* So that what a request takes from it is one of the carts.
LEMMA CartOnSale ==
    ASSUME Types, NEW cart \in [1..Lines -> OnSale]
    PROVE  cart \in Carts /\ cart = [i \in 1..Lines |-> cart[i]]
  <1>1. cart \in [1..Lines -> Finals \X Rate] BY OnSalePriced
  <1> QED BY <1>1 DEF Carts, Finals

\* Whatever is bought, in whatever quantities, with whatever offers and coupon,
\* of products of any price and rate that saves and changes of the rate have
\* led to: the order is for the units asked for, its coupon is shared out to the
\* last cent, and its invoice and the note that annuls it add up, on paper too
\* (createOrder, allocateProportionally, buildInvoice, buildCreditNote).
THEOREM SalesAddUp == PricesSpec => []InvoicesAddUp
  <1>1. PricesInv => InvoicesAddUp
    <2> SUFFICES ASSUME PricesInv, NEW cart \in [1..Lines -> OnSale]
                 PROVE  cart \in SoundCarts
      BY DEF InvoicesAddUp
    <2> QED BY CartOnSale, CartsAreSound DEF PricesInv
  <1> QED BY <1>1, PricesInvariance, PTL

\* And whichever provider it is paid with, what the provider is asked for is what
\* its report leads back to, and the order is taken as paid in full (the
\* checkouts and webhooks of Wompi, MercadoPago, Addi, and bank transfers).
THEOREM SalesArePaid == PricesSpec => []PaidInFull
  <1>1. PricesInv => PaidInFull
    <2> SUFFICES ASSUME PricesInv, NEW cart \in [1..Lines -> OnSale]
                 PROVE  cart \in PaidCarts
      BY DEF PaidInFull
    <2> QED BY CartOnSale, CartsArePaid DEF PricesInv
  <1> QED BY <1>1, PricesInvariance, PTL

=============================================================================
