------------------------------- MODULE Prices -------------------------------
(***************************************************************************)
(* The general rate of VAT and the prices that depend on it: the tax       *)
(* settings (tax-settings.service.js), the check of the official rate      *)
(* (tax-check.service.js), and admins' forms, creations and edits of       *)
(* products (ProductFormModal.jsx, admin-products.service.js).             *)
(*                                                                         *)
(* A form is filled in from what was loaded when it was opened, and a save *)
(* reads the rate it computes with before it uploads images and opens its  *)
(* transaction, which is one step.  The change of the general rate is one  *)
(* transaction too, but at READ COMMITTED each of its statements finds what *)
(* is committed by then, and it locks products and variants only as it      *)
(* comes to them: saves commit between its statements.                      *)
(***************************************************************************)
EXTENDS Documents, Providers

CONSTANTS
    Product,
    Editor,   \* forms and saves that may be under way at once
    Checker,  \* the daily job, and an admin's "Revisar ahora"
    Rate,     \* rates of VAT, in basis points
    None,     \* null
    Base,     \* prices without VAT that admins write, in cents
    Lines,    \* the lines of an order
    Purchase, \* requests, with the offers, the coupon and the shipping there are
    Circumstance, \* who an order says buys it and the environment in force,
                  \* when it is invoiced and when that is annulled
    Account,  \* how the shop and its accounts with the providers are set up
    MaxWork   \* bound: saves and changes of a rate

ASSUME PricesAssumption ==
    /\ Rate \subseteq 0..3000 /\ 0 \in Rate /\ Base \subseteq Nat /\ MaxWork \in Nat
    /\ None \notin Rate \cup Base
    /\ Lines \in Nat

\* A form of an offer or a coupon: a value is required of a new one (the
\* validators), and a number whenever it is sent.
Worth(change) ==
    /\ States(change.create, "value") /\ change.create.value \in Int
    /\ States(change.edit, "value") => change.edit.value \in Int

\* A request asks for what there is.
ASSUME PurchaseAssumption ==
    \A u \in Purchase :
        /\ u.request \in Seq([item : 1..Lines, quantity : Int])
        /\ IsFiniteSet(u.offers) /\ \A change \in u.offers \cup {u.coupon} : Worth(change)
        /\ u.ship \in [flat : Nat, freeFrom : Nat]

\* Where a provider is set up, it is with the secrets of the shop's account; and
\* a token of Addi holds for half a minute or more.
ASSUME AccountAssumption ==
    \A c \in Account :
        /\ IsWompiConfigured(c.env) => c.env.integritySecret = c.account.integritySecret
                                     /\ c.env.eventsSecret = c.account.eventsSecret
        /\ IsAddiConfigured(c.env) => c.env.callbackUser = c.account.callbackUser
                                    /\ c.env.callbackPassword = c.account.callbackPassword
        /\ {c.now, c.later, c.ttl} \subseteq Nat /\ c.ttl >= 30

VARIABLES
    rate,     \* TaxSetting.rate
    pending,  \* TaxSetting.pendingRate
    official, \* what the source says
    check,    \* what each check has read
    chosen,   \* what applyPendingRate has read
    row,      \* the products, with one variant each
    form,     \* what each form has loaded, and the save made of it
    switch,   \* setRate under way: how far it got, the rows its statement has
              \* still to come to, and those it has locked to write
    torn,     \* ghost: saved by a rate no longer the product's, or while the
              \* general rate was being changed
    exempt,   \* ghost: made exempt while the general rate was another
    work      \* the saves and changes so far

vars == <<rate, pending, official, check, chosen, row, form, switch, torn, exempt, work>>

NoCheck == [at |-> "idle", rate |-> None, found |-> None]
NoForm  == [at |-> "idle", product |-> None, own |-> None, general |-> None,
            base |-> None, sends |-> None, vbase |-> None, seen |-> None]
NoChange == [at |-> "idle", to |-> None, found |-> {}, priced |-> {}, moved |-> {},
             crossed |-> {}]
NoRow   == [there |-> FALSE, base |-> None, own |-> None, price |-> None,
            vbase |-> None, vprice |-> None]

PricesInit ==
    /\ rate \in Rate \ {0} /\ pending = None /\ official = rate
    /\ check = [c \in Checker |-> NoCheck]
    /\ chosen = None
    /\ row = [p \in Product |-> NoRow]
    /\ form = [e \in Editor |-> NoForm]
    /\ switch = NoChange
    /\ torn = {} /\ exempt = {}
    /\ work = 0

Works == work < MaxWork /\ work' = work + 1

\* The price of what has a base of its own, and null of what has none.
PriceOf(base, r) == IF base = None THEN None ELSE FinalPrice(base, r)

-----------------------------------------------------------------------------
(* The general rate (setRate), under the lock of its row.                   *)

\* Mutant: a rate some exempt product has is taken all the same.
ClashNever(r) == FALSE

\* A product with a rate of its own would be mixed up with the others.
Clash(r) == \E p \in Product : row[p].there /\ row[p].own = r /\ r # rate

\* The lock, the old rate and the look for a clash.
RateBegin(r) ==
    /\ switch.at = "idle"
    /\ r # rate /\ ~Clash(r)
    /\ switch' = [NoChange EXCEPT !.at = "checked", !.to = r]
    /\ UNCHANGED <<rate, pending, official, check, row, form, torn, exempt>>

AdminSetsRate(r) == RateBegin(r) /\ Works /\ UNCHANGED chosen

\* applyPendingRate reads outside of the transaction.
ApplyRead ==
    /\ chosen = None /\ pending # None
    /\ IF pending = rate THEN switch.at = "idle" /\ pending' = None /\ UNCHANGED chosen
                         ELSE chosen' = pending /\ UNCHANGED pending
    /\ UNCHANGED <<rate, official, check, row, form, switch, torn, exempt, work>>

ApplySet == chosen # None /\ RateBegin(chosen) /\ chosen' = None /\ UNCHANGED work

\* It was the rate already, or it clashes (409).
ApplyEnds ==
    /\ switch.at = "idle"
    /\ chosen # None /\ (chosen = rate \/ Clash(chosen))
    /\ chosen' = None
    /\ UNCHANGED <<rate, pending, official, check, row, form, switch, torn, exempt, work>>

Followers == {p \in Product : row[p].there /\ row[p].own = rate}

\* Mutant: the products first, so that no variant is found by the old rate.
VariantsLate ==
    {p \in Product : row[p].there /\ row[p].own = switch.to /\ row[p].vbase # None}

\* The variants with a base of their own, of products with the old rate.
Variants == {p \in Followers : row[p].vbase # None}

ChangeGoesOn(c) ==
    /\ switch' = c
    /\ UNCHANGED <<rate, pending, official, check, chosen, row, form, torn, exempt, work>>

FindVariants ==
    /\ switch.at = "checked"
    /\ ChangeGoesOn([switch EXCEPT !.at = "variants", !.found = Variants])

\* What was saved since the statement began is looked at again, but the variant
\* alone: its product is as the statement found it.
PriceVariant(p) ==
    /\ switch.at = "variants" /\ p \in switch.found
    /\ ChangeGoesOn([switch EXCEPT
           !.found = @ \ {p}, !.priced = IF row[p].vbase # None THEN @ \cup {p} ELSE @])

FindProducts ==
    /\ switch.at = "variants" /\ switch.found = {}
    /\ ChangeGoesOn([switch EXCEPT !.at = "products", !.found = Followers])

MoveProduct(p) ==
    /\ switch.at = "products" /\ p \in switch.found
    /\ ChangeGoesOn([switch EXCEPT
           !.found = @ \ {p}, !.moved = IF row[p].own = rate THEN @ \cup {p} ELSE @])

\* The row of p after the change, which has locked what it writes.
Recalculated(p) ==
    LET m == p \in switch.moved
        v == p \in switch.priced
    IN  [row[p] EXCEPT !.own = IF m THEN switch.to ELSE @,
                       !.price = IF m THEN PriceOf(row[p].base, switch.to) ELSE @,
                       !.vprice = IF v THEN PriceOf(row[p].vbase, switch.to) ELSE @]

RateCommit ==
    /\ switch.at = "products" /\ switch.found = {}
    /\ row' = [p \in Product |-> Recalculated(p)]
    /\ rate' = switch.to
    /\ pending' = None
    /\ torn' = (torn \ switch.moved) \cup switch.crossed
    /\ switch' = NoChange
    /\ UNCHANGED <<official, check, chosen, form, exempt, work>>

\* A statement fails, waits for too long or in a circle with a save, or the
\* process dies: all of it is undone.
RateFails == switch.at # "idle" /\ ChangeGoesOn(NoChange)

ChangeStep ==
    \/ FindVariants \/ FindProducts \/ RateCommit \/ RateFails
    \/ \E p \in Product : PriceVariant(p) \/ MoveProduct(p)

-----------------------------------------------------------------------------
(* The check (checkTaxRate): it reads the setting, waits for the source and *)
(* writes what it found.                                                    *)

SourceChanges(r) ==
    /\ official # r /\ official' = r
    /\ Works
    /\ UNCHANGED <<rate, pending, check, chosen, row, form, switch, torn, exempt>>

CheckRead(c) ==
    /\ check[c].at = "idle"
    /\ check' = [check EXCEPT ![c] = [NoCheck EXCEPT !.at = "read", !.rate = rate]]
    /\ UNCHANGED <<rate, pending, official, chosen, row, form, switch, torn, exempt, work>>

CheckFetch(c) ==
    /\ check[c].at = "read"
    /\ check' = [check EXCEPT ![c].at = "fetched", ![c].found = official]
    /\ UNCHANGED <<rate, pending, official, chosen, row, form, switch, torn, exempt, work>>

\* Mutant: when nothing changed nothing is written.
FoundUnchanged(c) == IF check[c].found = check[c].rate THEN pending ELSE check[c].found

\* What the check leaves pending.
Found(c) == IF check[c].found = check[c].rate THEN None ELSE check[c].found

CheckWrite(c) ==
    /\ check[c].at = "fetched" /\ switch.at = "idle"
    /\ pending' = Found(c)
    /\ check' = [check EXCEPT ![c] = NoCheck]
    /\ UNCHANGED <<rate, official, chosen, row, form, switch, torn, exempt, work>>

\* No answer, or none it understands: only the date is written.
CheckFails(c) ==
    /\ check[c].at = "read"
    /\ check' = [check EXCEPT ![c] = NoCheck]
    /\ UNCHANGED <<rate, pending, official, chosen, row, form, switch, torn, exempt, work>>

-----------------------------------------------------------------------------
(* The form (ProductFormModal).                                             *)

Fills(e, f) ==
    /\ form' = [form EXCEPT ![e] = f]
    /\ UNCHANGED <<rate, pending, official, check, chosen, row, switch, torn, exempt, work>>

\* The product as it is loaded; the general rate may fail to load.
OpenForm(e, p, general) ==
    /\ form[e].at = "idle" /\ general \in {rate, None}
    /\ Fills(e, [NoForm EXCEPT !.at = "open", !.product = p, !.own = row[p].own,
                               !.general = general])

CloseForm(e) == form[e].at = "open" /\ Fills(e, NoForm)

\* The rate is sent only when the exemption changes, and to end one the form
\* must know the general rate.
Sends(f, ex) ==
    IF ex /\ f.own # 0 THEN 0 ELSE IF ~ex /\ f.own = 0 THEN f.general ELSE None

Submit(e, ex, base, vbase) ==
    LET f == form[e]
    IN  /\ f.at = "open" /\ ~(~ex /\ f.own = 0 /\ f.general = None)
        /\ Fills(e, [f EXCEPT !.at = "sent", !.base = base, !.vbase = vbase,
                              !.sends = Sends(f, ex)])

\* PATCH variants: no form of the shop sends it, and it writes no product.
PatchVariants(e, p, vbase) ==
    /\ form[e].at = "idle" /\ row[p].there
    /\ Fills(e, [NoForm EXCEPT !.at = "sent", !.product = p, !.own = row[p].own,
                               !.vbase = vbase])

-----------------------------------------------------------------------------
(* The save: createProduct, updateProduct, upsertVariants.                  *)

\* The form was of a new product.
IsNew(f) == f.own = None

\* The rate the save goes by: of the setting for a new product, its own for one
\* that is there.
SaveRead(e) ==
    LET f == form[e]
    IN  /\ f.at = "sent"
        /\ IF IsNew(f) THEN TRUE ELSE row[f.product].there
        /\ Fills(e, [f EXCEPT !.at = "read",
                              !.seen = IF IsNew(f) THEN rate ELSE row[f.product].own])

Applies(f) == IF f.sends = None THEN f.seen ELSE f.sends

Variant(f) == PriceOf(f.vbase, Applies(f))

\* Mutant: the rate is written as the form sent it, null when it sent none.
OwnAsSent(f) == f.sends

\* The rate is only written when it changes.
Own(f) ==
    IF IsNew(f) \/ Applies(f) # f.seen THEN Applies(f) ELSE row[f.product].own

\* The form writes all of it, PATCH only the variants.
Saved(f) ==
    LET r == row[f.product]
    IN  IF f.base = None THEN [r EXCEPT !.vbase = f.vbase, !.vprice = Variant(f)]
        ELSE [there |-> TRUE, base |-> f.base, own |-> Own(f),
              price |-> PriceOf(f.base, Applies(f)),
              vbase |-> f.vbase, vprice |-> Variant(f)]

\* The rate of the product has changed since it was read.
Overtaken(f) == ~IsNew(f) /\ row[f.product].own # f.seen

\* What a save that commits now writes is not locked by a change of the rate:
\* the variant, and but for PATCH the product.
Unlocked(f) ==
    /\ f.product \notin switch.priced
    /\ f.base # None => f.product \notin switch.moved

\* A save that commits now does so between the statements of a change, after it
\* has looked for the variants.
Crossing == switch.at \in {"variants", "products"}

\* An exemption saved now has slipped past the look for a clash of a change to 0.
Slips == switch.at # "idle" /\ switch.to = 0

\* The transaction, after the images are uploaded.
SaveWrite(e) ==
    LET f == form[e]
        p == f.product
    IN  /\ f.at = "read"
        /\ row[p].there = ~IsNew(f) /\ Unlocked(f)
        /\ Works
        /\ row' = [row EXCEPT ![p] = Saved(f)]
        /\ torn' = IF Overtaken(f) THEN torn \cup {p}
                   ELSE IF f.base = None THEN torn ELSE torn \ {p}
        /\ switch' = IF Crossing THEN [switch EXCEPT !.crossed = @ \cup {p}] ELSE switch
        /\ exempt' = CASE f.sends = None -> exempt
                       [] f.sends = 0 /\ rate # 0 /\ ~Overtaken(f) /\ ~Slips -> exempt \cup {p}
                       [] OTHER -> exempt \ {p}
        /\ form' = [form EXCEPT ![e] = NoForm]
        /\ UNCHANGED <<rate, pending, official, check, chosen>>

\* An upload, the transaction or the process fails: nothing is written.
SaveFails(e) == form[e].at \in {"sent", "read"} /\ Fills(e, NoForm)

-----------------------------------------------------------------------------

CheckStep(c) == CheckRead(c) \/ CheckFetch(c) \/ CheckWrite(c) \/ CheckFails(c)

FormStep(e) ==
    \/ \E p \in Product, g \in {rate, None} : OpenForm(e, p, g)
    \/ \E ex \in BOOLEAN, b \in Base, v \in Base \cup {None} : Submit(e, ex, b, v)
    \/ \E p \in Product, v \in Base \cup {None} : PatchVariants(e, p, v)
    \/ CloseForm(e)

SaveStep(e) == SaveRead(e) \/ SaveWrite(e) \/ SaveFails(e)

PricesNext ==
    \/ \E r \in Rate : AdminSetsRate(r) \/ SourceChanges(r)
    \/ ApplyRead \/ ApplySet \/ ApplyEnds \/ ChangeStep
    \/ \E c \in Checker : CheckStep(c)
    \/ \E e \in Editor : FormStep(e) \/ SaveStep(e)

PricesSpec == PricesInit /\ [][PricesNext]_vars

\* The job checks every day, a check ends, the source answers at times, a change
\* of the rate comes to an end, and whoever waits for its lock gets it.
CheckFairness ==
    /\ \A c \in Checker :
          WF_vars(CheckRead(c)) /\ SF_vars(CheckFetch(c)) /\ SF_vars(CheckWrite(c))
    /\ WF_vars(ChangeStep)

FairPricesSpec == PricesSpec /\ CheckFairness

-----------------------------------------------------------------------------
(* Properties.                                                              *)

\* The fields keep their types; in particular no rate is ever null.
PricesTypeOK ==
    /\ rate \in Rate /\ official \in Rate
    /\ {pending, chosen} \subseteq Rate \cup {None}
    /\ \A p \in Product : row[p].there =>
           /\ row[p].own \in Rate /\ row[p].base \in Base
           /\ row[p].vbase \in Base \cup {None}
    /\ \A c \in Checker : check[c].at = "fetched" => check[c].found \in Rate
    /\ switch.to \in Rate \cup {None}
    /\ torn \subseteq Product /\ exempt \subseteq Product
    /\ work \in 0..MaxWork

\* What the shop charges is the base with the product's own VAT, for the product
\* and for its variant, through changes of the rate, exemptions and edits.  Two
\* kinds of edit leave it otherwise, until the next change or edit: one that went
\* by a rate another change of that product's had replaced, and one saved while
\* the general rate was being changed, after its variants were looked for.
Fits(p) ==
    /\ row[p].price = PriceOf(row[p].base, row[p].own)
    /\ row[p].vprice = PriceOf(row[p].vbase, row[p].own)

PricesFit == \A p \in Product : row[p].there /\ p \notin torn => Fits(p)

\* A product made exempt while the others paid VAT stays exempt whatever general
\* rates come and go, 0 included, until an admin ends its exemption: except one
\* whose exemption was saved while the general rate was being changed to 0, after
\* the look for a clash, which follows the others from then on.
ExemptStays == \A p \in exempt : row[p].own = 0

\* Products and variants as the shop has them now, torn ones too: what they cost
\* and the VAT that is in it.
OnSale ==
    UNION {{<<row[p].price, row[p].own>>} \cup
           {<<v, row[p].own>> : v \in {row[p].vprice} \ {None}} :
               p \in {q \in Product : row[q].there}}

Shop(cart, u) ==
    [goods   |-> [i \in 1..Lines |->
                     [price  |-> cart[i][1], rate |-> cart[i][2], stock |-> u.stock,
                      offers |-> SavedDiscounts(u.offers), isActive |-> TRUE]],
     coupons |-> [c \in {u.code} |-> SavedCoupon(u.coupon)],
     ship    |-> u.ship,
     now     |-> u.now]

\* The orders a request makes: one, or none when it is refused.
Bought(cart, u) ==
    IF Complaints(u.request, u.code, Shop(cart, u), TRUE) # {} THEN {}
    ELSE {Order(u.request, u.code, Shop(cart, u))}

Carts == [1..Lines -> {FinalPrice(b, r) : b \in Base, r \in Rate} \X Rate]

\* An order is made for all the units that were asked for, and its documents add
\* up, of those built: a configuration in error builds none, and a buyer that is
\* not valid makes no order.
Accounts(order, u) ==
    /\ Total([i \in DOMAIN order.items |-> order.items[i].quantity])
         = Total([k \in DOMAIN u.request |-> u.request[k].quantity])
    /\ \A c \in Circumstance :
           /\ ValidBuyer(c.by.buyer)
           /\ ConfigErrors(c.env) = {} /\ ConfigErrors(c.envLater) = {}
           => AddsUp(order, c)

\* The carts whose documents do, whatever is bought with them.
SoundCarts ==
    {[i \in 1..Lines |-> cart[i]] :
        cart \in {c \in Carts : \A u \in Purchase : \A o \in Bought(c, u) : Accounts(o, u)}}

\* Whatever is bought of what is on sale, in whatever quantities and with
\* whatever offers and coupons an admin may make: the invoice accounts for what
\* was charged, and the note that annuls it for the invoice, on paper too.
InvoicesAddUp == [1..Lines -> OnSale] \subseteq SoundCarts

\* The carts that any provider the shop offers takes the whole price of.
PaidCarts ==
    {[i \in 1..Lines |-> cart[i]] :
        cart \in {c \in Carts : \A u \in Purchase : \A o \in Bought(c, u) : \A a \in Account :
                     JustPays([id |-> "o1", total |-> o.total, shipping |-> o.shipping,
                               docType |-> Null, docNumber |-> Null], a)}}

\* Whoever pays what a provider asks has paid for the order: the report of the
\* charge passes the check of its origin, leads back to the order, and is not
\* taken for another amount, whatever cents the offers, the coupon and the whole
\* pesos of Addi leave.
PaidInFull == [1..Lines -> OnSale] \subseteq PaidCarts

\* Once nobody changes anything, the banner shows the official rate just when
\* the shop uses another: no check that read too early has the last word.
NewsSettles == <>[](pending = IF rate = official THEN None ELSE official)

=============================================================================
