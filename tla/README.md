# Formal verification of the KAES store

TLA+ models of the store, the TLC configurations that check them and the TLAPS
proofs about them. Paths are relative to the repository; `services/`, `routes/`,
`config/` and `jobs/` stand for those directories of `src/backend/src/`.

The store sells clothes. A customer fills a cart, places an order and pays for
it through Wompi, MercadoPago, Addi or a bank transfer with an uploaded proof;
an admin ships it, and the tax authority (DIAN) gets an electronic invoice.
Everything that can go wrong happens between parties that do not wait for one
another: providers that notify late, twice and out of order, customers with two
tabs, admins, and a job that runs every ten minutes.

## 1. Inventory

| component | state it keeps | operations | correct when |
|---|---|---|---|
| payment processing (`services/payment.service.js`) | `payments`, `payment_events`, status, `stockDeducted`, `needsReview` and `paymentProvider` of `orders`, `order_status_logs` | `processPaymentUpdate`, `expireStaleOrders` | each report takes effect once; money is never passed over; stock, flag and status agree |
| stock (`services/stock.service.js`) | `stock` of products and variants | conditional decrement row by row, return | all of an order's units are taken or none; nothing is lost or given back twice |
| coupons and discounts (`services/coupon.service.js`, `pricing.service.js`) | `usedCount`, offers, coupons | create, edit, validate, consume | nobody pays less than nothing; each sale counts once |
| orders and pricing (`services/order.service.js`) | `orders`, `order_items` | quote, create | the total is what the catalogue says |
| order administration (`services/admin-orders.service.js`) | status, flags, log | `updateOrderStatus`, `resolveReview` | only allowed moves; stock goes back once |
| checkout and payment routes (`routes/payment.routes.js`) | `paymentProvider`, `mpPreferenceId` | three checkouts, webhooks, callback, `verify` | nobody pays twice; an unpaid order can be paid |
| bank transfers (`services/bank-transfer.service.js`) | proof and review columns of `orders` | start, upload, review | a proof can be reviewed until it is decided |
| payment providers (`config/wompi.js`, `mercadopago.js`, `addi.js`, `bank-transfer.js`) | Addi's token | requests, signatures, reading of answers | who pays what is asked has paid |
| maintenance job (`jobs/maintenance.js`) | a timer | expiry, purges, tax check, invoices | what must happen in the end happens |
| electronic invoicing (`services/einvoice/einvoice.service.js`, `dian-client.js`) | `electronic_documents`, `invoice_sequences` | enqueue, claim, number, sign, send, accept, reject, retry, mail, wake | one number per document, no credit note before its invoice, verdicts are the DIAN's |
| invoice documents (`services/einvoice/`) | none | amounts, XML, keys, PDF | they account for what was charged |
| sessions (`services/auth.service.js`, `src/frontend/src/lib/api.js`) | `refresh_tokens`, verification links, reset codes, the cookie | login, refresh with rotation and grace, logout, verify, reset | a deactivated customer's sessions end; two tabs are not a theft |
| users (`services/admin.service.js`) | `users` | update, role, password, deactivate, erase | what was taken from a user stays taken |
| products and tax (`services/admin-products.service.js`, `tax-settings.service.js`, `tax-check.service.js`, the product form) | products, variants, photos, the tax rate | save with variants and photos, delete, apply a rate, check the official rate | price is base price with the product's rate; photos and rows agree; orders keep their variant |
| cart (`services/cart.service.js`, `src/frontend/src/stores/cart.store.js`) | `cart_items`, localStorage, the memory of each page | add, change, sync at login, order, empty at confirmation | nothing is lost or doubled but where the code has it so |
| dashboard (`services/dashboard.service.js`) | none | sales, series, products, categories | its figures agree with the orders and the stock |
| catalogue lists, contact, mail, middleware, validators, pages | rows, or nothing | single statements, reads, texts | not modelled, see section 8 |

How they interact. A handler in `payment.routes.js` reads the order, waits for a
provider and writes `paymentProvider` by id; the provider later reports to a
webhook, or `verify` asks it; all reports meet in `processPaymentUpdate`, one
transaction under a row lock of the order, which calls stock and coupon inside
it and triggers mail, invoice and the emptying of the cart after it. Admins write
the same rows through transactions of their own and `reviewTransfer` through
`processPaymentUpdate`. The maintenance job writes order status in three
statements with no transaction, takes up due invoices, purges tokens and checks
the official VAT. Orders, saves of products and returns meet in the rows of
stock. A change of the general VAT rewrites prices that open forms still show.

What is hard: reports in any order and number; the gap between a read and a write
by id, in handlers, in the job, in the token rotation and in the product form;
transactions that lock the same rows in different orders; work that the database
cannot undo (Cloudinary, the DIAN, mail) beside transactions that it can; pages
that are left half way. `PROJECT.json` lists these hazards by line.

## 2. Modules

| module | models | rests on |
|---|---|---|
| `Orders` | the order core: quote, creation, `processPaymentUpdate`, stock, coupon, admin transactions, expiry job | |
| `Dashboard` | the queries of the dashboard, over the variables of `Orders` | `Orders` |
| `Checkout` | the handlers and the providers around it, statement by statement | `Orders` |
| `Shelf` | what the stock promises: each sale, return and save is one step | |
| `Stock` | the same row by row, under the row locks of PostgreSQL | refines `Shelf` |
| `Invoicing` | documents, leases, numbers, mails and credit notes, and the DIAN | |
| `Promotions` | forms and validators of offers and coupons, and when they are worth something | |
| `Billing` | the quote, the order and the amounts of its documents | `Promotions` |
| `Documents` | what invoice, credit note, container and PDF state | `Billing` |
| `Providers` | what each provider is asked and which answers are taken | `Billing` |
| `Prices` | the VAT rate, its check, product forms and saves; purchases of what is on sale | `Documents`, `Providers` |
| `Gallery` | photos in the database and at Cloudinary | |
| `Catalog` | saves with variants and photos, the form, orders placed meanwhile | `Gallery` |
| `Users` | the users table and the requests of admins | |
| `Secrets` | verification links and reset codes | `Users` |
| `Sessions` | refresh tokens, cookies and tabs | `Users` |
| `Cart` | the server's lines and the browser's copies | |
| `MCOrders`, `MCCheckout`, `MCInvoicing`, `MCSecrets`, `MCSessions`, `MCCart`, `MCStock`, `MCPrices`, `MCCatalog` | the instances TLC checks | |
| `OrdersProofs` | theorems about the order core, the dashboard and the handlers, also that these implement the core | `Checkout`, `Dashboard`, TLAPS |
| `BillingProofs` | sums, and what orders and their documents add up to | `Documents`, TLAPS |
| `PricesProofs` | theorems about prices and about all that can be bought | `Prices`, `BillingProofs` |
| `AccountProofs` | theorems about codes and sessions | `Secrets`, `Sessions`, TLAPS |
| `StockProofs`, `InvoicingProofs`, `CatalogProofs`, `CartProofs` | theorems | the module of the name, TLAPS |

**Orders.** A transaction under `SELECT ... FOR UPDATE` is one action. Its
variables are the columns (the comment beside each names its column), the job's
local state (`job`, `batch`) and one ghost, `supply`, the units admins have put
on sale. `processPaymentUpdate` is a disjunction of one action per outcome,
each guarded by the conditions that lead to it in the code: `OrderNotFound`,
`ApprovedAgain` (DUPLICATE_PAYMENT and ALREADY_PAID), `AmountMismatch`,
`OutOfStock`, `ConfirmPaid`, `VoidedAfterPayment`, `IgnoredOrderPaid` and
`StillUnpaid` (PENDING and DECLINED). A report whose event row exists is a
stutter, as the code returns before it reads the order. `event` keeps the
outcome stored with the row. The order's age is abstracted to the two cutoffs
of the expiry job, the date of a review to the one it is compared with. `logged`
is the `toStatus` of the newest log entry that records a move. Reports come
from nowhere here: any report of `Reports` may come at any time. That is on
purpose: the theorems then hold whatever providers do.

**Checkout** adds what happens between reports. `charge` is the truth at the
provider, which the code only learns by reports; `Passed` says which states it
may still report: every one the charge has been in, at any time, any number of
times, since webhooks are retried and `verify` and the MercadoPago webhook fetch
a state and process it later. `visits` are handlers past `loadPayableOrder`,
`links` the checkouts handed out (which stay usable after the order closes),
`upload` and `reviews` the handlers of bank transfers between their statements.
A handler that dies is one that takes no further step. Handlers keep their
names: `WompiCheckout`, `CreatePreference`, `AddiCheckout` and `StartTransfer`
are the second half of a checkout, after `OpenCheckout`; `WompiWebhook`,
`MercadoPagoWebhook`, `AddiCallback` and `Verify` deliver what a charge has been.
`Checkout` implements `Orders`: its actions conjoin actions of `Orders` with what
is its own, `Spec` of `Orders` is a property of its runs, and `OrdersProofs`
proves it.

**Invoicing.** A document is an order with a type, `row` the table
`electronic_documents` with a record per document. A worker is a call of `processDocument`, kept
in `work` with its document, the step it is at and the `attempts` it read: it
claims the document (`Claim`), reads it (`Inspect`), and then numbers, signs,
sends, writes the answer and releases, one action per statement that others can
tell apart. `calls` are calls not begun yet, `retry` an admin's retry between its
read and its update. A document is `issue`d anew when a rejected one is
retried, which gives it another cufe: `signed` is the issue the row holds,
`valid` the one the DIAN holds as validated, `received` the one it is validating
(only in the test environment, which answers later). The number range starts
at 1. `Fail` is what the `catch` of `processClaimed` records, `Escape` what gets past
it: results are returned there without `await`, so that a failed update leaves
the row as it was. `Crash` stops every worker and forgets what was in memory.
The lease (five minutes) runs out only after a crash or during the mail, since
a request to the DIAN ends after one minute and a mail may take ten. When the
shop asks for a document is left open: the triggers may come at any time.

Between the mail of an accepted document and the release lie steps of their own:
the mail that fails is sent again by the job (`Redeliver`), and the note that
waits for its invoice is woken by another update (`WakeNotes`).

**Dashboard.** `SalesSeries`, `TopProducts`, `SalesByCategory` and `Overview` are
functions of the tables of `Orders`. A sum of money is modelled as the set of
orders summed and a sum of quantities as a set of units, so that two figures
agree exactly when they sum the same rows. It has no action: its properties are
said of every reachable state of `Orders`.

**Shelf and Stock.** `Shelf` knows the stock of all rows and what came of each
transaction. `Stock` has `row` (the rows as changed), `seen` (the rows as
committed, which is what everybody else reads), and for each transaction its
phase, the rows it still has to change (`todo`), holds and has decremented
(`applied`). `Take`, `Miss` and `PutBack` are the conditional decrement, the
shortage and the compensation of `tryDeductStockForItems`, `GiveBackRow` the return, `SaveRow` an
admin's save. A transaction waits for a row another holds; `Abort` is the victim
PostgreSQL chooses in a deadlock, `Dies` a lost connection. `Promise` maps `seen` and
the phases to `Shelf`.

**Promotions, Billing, Documents, Providers** are functions: an input is a record
of what a form, an order or an answer holds, and an XML document is a record of
what it states. Money is in cents, a rate in basis points, and rounding is that
of the code (`Math.round` of a half goes up). A hash or a signature is the tuple
of what it is taken of, so that it matches when its inputs do.

**Prices.** `row` has base price, own rate and final price of a product and one
variant, `form` an admin's form and its save: filled in from what was loaded when
it was opened (`OpenForm`), sent (`Submit`), the rate read before images go up
(`SaveRead`), and the transaction (`SaveWrite`). `setRate` is one transaction, but at
READ COMMITTED each statement sees what is committed by then, and only the row
of `tax_settings` is locked from the start: so `RateBegin` locks it and looks for a
clash, `FindVariants` and `FindProducts` are the snapshots of the two UPDATEs,
`PriceVariant` and `MoveProduct` lock a row they found and look at it again, and
`RateCommit` shows all of it to the others at once. `switch` is what the change has found
and locked; saves commit between any two of these steps unless they want a row
it has locked, and `RateFails` undoes it all (a deadlock with a save, a timeout, a
crash). `ApplyRead` and `ApplySet` are the two steps of applying a proposal,
`CheckStep` the daily check, which reads the rate, waits for the source and
writes. Two ghosts: `torn`, the products that a change of rate overtook between
`SaveRead` and `SaveWrite` or that were saved between its statements
(`Crossing`), and `exempt`, those made exempt, but for an exemption saved while a
change to zero was past its look for a clash (`Slips`).
The purchases are no action: `InvoicesAddUp` and `PaidInFull` take in every state
every cart of what is on sale then, with the requests, offers, coupons, buyers
and configurations of the instance.

**Gallery and Catalog.** `photos` are the rows, `stored` the images that Cloudinary
has, `save` the request that uploads, counts in its transaction and writes, `erasing` the
deletion of a photo between its statements. Uploads and deletions may fail, and
the server may die; `strays` are the images that this leaves, `blurred` says that a
save counted a photo that was deleted meanwhile. The panel compares pasted URLs
as they are written (`ImageUploader.jsx:72`, and not within one paste), the
server takes the `publicId` out of them (`cloudinary.utils.js:37`): so any URL may be
of an image that is pasted twice, shown, being deleted or gone, which
`Repeated` says and `again` remembers. Orders are placed (`item` with a
link to its variant), paid for (`Sell`) and closed while a save is under way.

**Users, Secrets, Sessions.** An admin's request (`Op`) checks, writes and revokes in
statements of its own. `Secrets` gives a user one link and numbered codes.
A request for a code is a `deleteMany` and a `create` in one READ COMMITTED
transaction: `RequestClear` is what the first finds (`clearing`) and the new row,
which nobody sees before `RequestCreate` commits ("coming"); `beside` are the
requests under way at once, whose rows it cannot find. `ResetRead` and `ResetCommit` are the halves of `resetPasswordWithOtp` around
bcrypt. In `Sessions` a token has a `row` (fresh, in grace, aged or none) and a
browser a cookie (`jar`); a tab's call to login, refresh or logout runs step by
step, and its answer may be late or lost. `excused` marks a browser that lost an
answer, signed out or was revoked.

**Cart.** Three places hold a cart: the rows (`server`), localStorage (`stored`), and
the memory of each of two pages (`items`), which read localStorage when they open
(`Open`) and write all of it when they save. `page` is what a page is at, `todo` what
its `initCart` has still to upload, `calls` are the requests on their way, of each page and
one of a page that was left. A page that reads a user in localStorage runs
`initCart`; one that reads none waits for `bootstrapAuth` (`Boot`), which may sign it in
in memory alone, without `localStorage.user`, and only `checkout.astro` calls
`initCart` then. `Logout` may happen while anything else goes on, and leaves the
session alone when its request fails. `Read` and `AddWrite` or `ChangeWrite` are the two
statements of a request. `PlaceOrder` takes what the page shows, and `PayApproved`
deletes every row, ordered or not. The ghosts: `owed`, what the customer asked for;
`short`, `doubled` and `mixed`, the lines that met a case in which the code loses,
repeats or confuses units, all named at `NothingLost` and `NothingDoubled`; `taken`, the
lines of localStorage that a page uploads, so that units in two places count
once; `plain`, that there was no second page and no sign-in by `bootstrapAuth` yet: until
then nothing is ever `mixed`, which is what makes the two properties strict for
one page at a time.

Abstractions. In `Orders` amounts are right or wrong (`RightAmount`), a coupon is
one counter with its limit (one without a limit is one whose limit is never met), the target of an item is fixed (`Items`), and mail is
left out; the invoice, the amounts and the target of an item have modules of
their own. `take: 200` of the expiry job is above every instance.

## 3. Runs

| run | question | instance |
|---|---|---|
| `orders_sales` | do stock, coupon, payments rows, order states and the dashboard agree under any order of reports and admin work? | two orders (2 and 1 units) for 2 units, a coupon with one use, three payments of which two for one order, and one of no order, one annulled and one refused |
| `orders_expiry` | does the job, whatever overtakes it, never cancel an order that holds stock? | one order of any age up to both cutoffs, a bank transfer, a card payment of a wrong amount, a report of no order, one unit |
| `checkout_bank` | does an attempt that fails leave the order payable; are refunds and completed rows real; do uploads and reviews implement `Orders`? | one order, a Wompi charge and a bank proof |
| `checkout_settle` | does an order nobody pays close? | one order, a MercadoPago or an Addi charge and a bank transfer with proof, reports that are pending or refused, one review at a time, both cutoffs (without the annulment of `checkout_cancelled`) |
| `checkout_cancelled` | violated: see section 5 | one order, one MercadoPago charge |
| `invoicing_notes` | does what the shop believes of a document agree with the DIAN, does the note wait, are numbers dense? | one order with invoice and note, two workers, both environments, a range of no and of one number, two attempts, two issues |
| `stock` | do transactions over several rows look like one step, and do they end? | three orders over two rows with up to 2 units, and a save of both |
| `prices` | do prices follow the rate, and do documents and charges account for them? | one product with a variant, one form, one check, rates 0 and 19 %, two base prices, orders of three lines with 6 sets of offers and coupons, 5 buyers and configurations, 3 accounts at the providers |
| `catalog` | do photos, main photo and variants survive saves, failures and crashes? | a product with at most one variant, two uploads, whose URLs may be pasted again, two photos, one order |
| `secrets` | does a code stop working when another takes its place? | a customer with two codes, asked for one after the other or at once, two submissions of each, and an admin's five requests |
| `sessions` | do sessions survive two tabs, and end when their customer is deactivated? | a browser with two tabs, three tokens, an admin |
| `cart` | is a cart lost or doubled? | two pages, one line with size and color, two units asked for, the cap at two, one order |

What the properties say:

- `DeductedIffFulfilling`: `stockDeducted` holds exactly in CONFIRMED,
  PROCESSING, SHIPPED and DELIVERED. Payments, admins and the job write the two
  columns in different transactions, the job after reading them in another statement.
- `FiguresAgree`: the units the dashboard calls sold are those the orders hold,
  so that shelf and sold add up to what was put on sale (`UnitsAgree`, with the
  conservation `StockConserved` of `Orders`), each order is in one bucket of the
  chart, and the categories share out the units.
- `CouponCounted`: the counter is the number of coupon sales confirmed by a
  payment, cut off at the limit. A confirmation by hand consumes no use.
- `NoMoveBack`: the only way back is a payment that reopens a closed order.
- `ApprovalAnswered`: an approved payment confirms its order and is recorded as
  its payment, or the order is flagged. The two exceptions are the code's own:
  orders confirmed by hand (ALREADY_PAID) and an annulment processed first.
- `CompletedNotDegraded`: late notifications do not degrade a completed payment.
- `OpenOrdersSettle`: no handler leaves an unpaid order where neither a payment
  nor the job can take it up, whatever runs of the job die, attempts are pending
  (three days instead of two hours) and proofs are rejected (two hours from the review). The
  exception is an admin who reviews it for ever (`ReviewedForEver`): each review
  dates the order anew.
- `CompletedIsBacked`, `RefundsAreReal`: what the payments row says is true of
  the money at the provider.
- `UnpaidStaysRetriable`: an open order for which no money was taken can be
  paid again and can expire.
- `Spec` (in `checkout_bank`): `Checkout` implements `Orders`.
- `VerdictsAreReal`: what is accepted here and mailed is what the DIAN holds as
  validated, by its cufe (`AcceptedIsValid`), and in production nothing it holds is
  shown as rejected (`RejectedIsNotValid`). The second is said of production only:
  in the test environment a second sending may be refused while the first is
  still under validation.
- `NoteAfterInvoice`: no credit note before the invoice it annuls is validated.
- `OneSender`: the lease keeps workers apart from claim to answer.
- `NumbersDense`: the documentation's "sin huecos", with no duplicates and no
  number past the range, through failures, rejections, retries and crashes. The
  run has one order, hence at most one number of each kind: it shows that none is
  skipped or taken outside the range; the theorem says it of any orders.
- `Atomic` (refinement of `Shelf`), `NobodyHangs` (liveness): see section 4 for the
  first, for every instance.
- `PricesFit`, `ExemptStays`: a price is its base with the product's own rate
  except where a change overtook a save or a save came between the statements of
  a change; an exemption outlives every rate, except one saved while a change to
  zero was past its look for a clash.
- `InvoicesAddUp`: invoice, credit note, container and PDF of anything bought
  agree line by line with the order and with each other, to the cent, and the
  note repeats the buyer of the invoice even if the order's was corrected since.
- `PaidInFull`: the answer to what was asked of each provider passes the check of
  its origin, leads back to the order and is not taken for another amount.
- `NewsSettles` (liveness): in the end the banner proposes the official rate
  just when the shop uses another.
- `ImagesAccounted`: nothing that is shown was destroyed, except an image pasted
  by a URL that was no new one; and nothing that was uploaded is forgotten, except
  by a failure of Cloudinary or a crash.
- `OneMainPhoto`: never two main photos, and one if there is any, but for a
  deletion not over and a save that counted a photo deleted since.
- `HistoryKept`: an order keeps the variant it sold, except one placed while the
  save was between count and deletion.
- `SupersededCodeFails`: a reset goes through on no unused code after a request
  made later than it has committed, even if it was waiting for bcrypt then.
  Requests under way at once are excepted: they leave two codes that work (section 5).
- `SessionsSurvive`, `AlarmsAreEarned`, `DeactivatedDrain`: two tabs do not close a
  session; a token is taken for a stolen one only after a lost or late answer or a
  revocation; a customer who stays deactivated is in the end without sessions,
  also with a login that was between check and store, since no token is renewed
  then. (That revocation itself ends every session is not so: section 5.)
- `NothingLost`, `NothingDoubled`: the units the customer asked for are on the server,
  on their way or still local, no more and no less, line by line, except for the
  cases that the comments of `Cart` list one by one (section 5 has them too). What is
  left is strict. With one page at a time nothing is lost by leaving it, by a login
  or a logout at any moment, or by a session that ends; nothing is doubled by a
  page left before an upload was sent or after the sync was over, or by a second
  sync; and a payment takes no unit unseen.

Each module has one type invariant. Every property has a mutant in
`PROJECT.json`: a plausible bug of the code, written as an operator before the
definition it replaces, that TLC finds.

Deadlock is not checked: each of the systems may stop, with every order closed,
every report processed, every bound reached.

### Bounds

`MaxQty`, `MaxStock`, `MaxUses`, `MaxAge`, `MaxCheckouts` and `MaxReviews` are all
the bounds of the order core and `Checkout`.
Two orders and two units are the least for a race on the last unit and for a
partial deduction that is undone; two payments of one order for a duplicate and
for a late report of another attempt; one use of a coupon with two orders for a
quote that outlives the limit. Orders meet only over stock, the coupon and the
batch of the job, so `Checkout` is checked with one. `MaxAge` is 0 where expiry
is not the question. A report is processed once, hence `Reports` bounds the
number of steps payments can take. `MaxReviews` is 1: one review under way. `MaxCheckouts` is 1: an order tries one of
the online providers, beside the bank transfer; the theorems hold for any number.

In `Invoicing` the bounds are `MaxClaims` and `MaxIssues`. Two workers are the least
for a race on a document, and two claims the least for a first attempt that
fails and a last one that gives up (`MaxAttempts` is 2 in place of 10). Two issues
let a rejected document be made anew once, which is enough for two cufes under
one number. Orders share only the numbers, so one is enough for the rest.

In `Stock` two rows are the least for a deadlock and for an order that finds one
row and misses the other, three orders let a third take what is put back.
`MaxStock` bounds what a save may write. In `Prices`, `MaxWork` bounds the changes of
rates, and saves of a product under way; two rates, with zero, are the least for a change and
for a clash with an exemption (the documents' arithmetic is proved for every rate);
three lines are the least for a coupon
shared over two rates with a rest, the base prices are chosen so that rates and
discounts leave half cents. In `Catalog` `MaxImages` is 2 where the code has 10,
the least for a photo and its successor. In `Users` `MaxOps` is one request under
way; in `Secrets` `MaxCodes` is the number of codes asked for, `MaxTries` and
`MaxConfirms` the attempts and the submissions of one: two codes are the least for
one that supersedes another and for two requests at once; in `Sessions` a token with
no row that nobody holds is issued again, so that three do for ever (two tabs and
one being rotated). In `Cart` `MaxQty` is 2 in place of 10, the least where the cap cuts a sum, and
`Asks` the units of each line the customer asks for, two. Lines meet only in
what is saved as a whole, which treats each alike, so the run has one; it has size
and color, so that lines without (`Loose`) are covered by the proofs alone. The
constraint `Tells` cuts what says nothing more: states where every line is mixed,
or both short and doubled, and, with two pages, requests that outlive theirs.
In `Catalog` the run has no library of its own, nor another account: what is pasted is an image
the product shows, and fresh images of the library are covered by the proofs.
Symmetry is used for workers, for uploads and for pages, which are interchangeable.

### Fairness

`FairCheckoutSpec` assumes that the timer of `startMaintenanceJobs`
keeps firing (weak fairness of the read), that a run that goes on reaches its
log (weak fairness), that not every run dies between read and update (strong
fairness of the update, since `JobDies` may disable it again and again), and
that time passes, for orders and for the dates of reviews (`GrowOlder`,
`ReviewGrowsOld`). No fairness is assumed of customers, providers, admins or
handlers: they may stop anywhere. In `Stock` a transaction under way that can go
on goes on (strong fairness, since PostgreSQL grants the locks of a row in turn)
and a deadlock is found (`deadlock_timeout`); that sales begin is not assumed. In
`Prices` the daily check runs, ends, and the source answers at times (strong
fairness, since it may be out of reach again and again); a change of the rate ends,
committed or undone (weak fairness of its next statement), and a check that
waits for the lock of the setting gets it (strong fairness, since changes may
take it in between). In `Sessions` time
passes, the job purges, and every call of a browser ends, with an answer or an
error; that anybody logs in or out is not assumed.

## 4. Proofs

For any finite sets and any values that meet the assumptions named in the modules:

| module | theorem | statement |
|---|---|---|
| `OrdersProofs` | `TypeCorrect` | `Spec => []TypeOK`: in particular stock never goes below zero and the coupon never past its limit |
| | `DeductedAgrees` | `Spec => []DeductedIffFulfilling` |
| | `NoUnitLost` | `Spec => []StockConserved` |
| | `NeverDegraded`, `OnlyForward` | `Spec => CompletedNotDegraded`, `Spec => NoMoveBack` |
| | `CouponExact` | `Spec => []CouponCounted` |
| | `NoMoneyIgnored` | `Spec => ApprovalAnswered` |
| | `FiguresAlwaysAgree` | `Spec => []FiguresAgree` |
| | `CheckoutImplementsOrders` | `CheckoutSpec => Spec` |
| | `CompletedBacked` | `CheckoutSpec => []CompletedIsBacked` |
| | `RefundsReal` | `CheckoutSpec => []RefundsAreReal`, if no payment runs over MercadoPago |
| | `RetriableUntilPaid` | `CheckoutSpec => []UnpaidStaysRetriable`, under the same assumption |
| `StockProofs` | `StockTypeCorrect` | `Spec => []TypeOK` |
| | `SalesAreAtomic` | `Spec => Atomic`: `Stock` implements `Shelf` |
| `PricesProofs` | `PricesTypeCorrect` | `PricesSpec => []PricesTypeOK` |
| | `PricesFollowRate`, `ExemptionsStay` | `PricesSpec => []PricesFit`, `PricesSpec => []ExemptStays` |
| | `SalesAddUp`, `SalesArePaid` | `PricesSpec => []InvoicesAddUp`, `PricesSpec => []PaidInFull` |
| `BillingProofs` | `AllocateShares` | `Allocate` gives out the whole amount, and to no line more than its weight |
| `InvoicingProofs` | `InvoicingTypeCorrect` | `Spec => []TypeOK` |
| | `VerdictsStayReal`, `NotesFollowInvoices` | `Spec => []VerdictsAreReal`, `Spec => []NoteAfterInvoice` |
| | `OneSenderAtATime`, `NumbersStayDense` | `Spec => []OneSender`, `Spec => []NumbersDense` |
| `AccountProofs` | `SessionsTypeCorrect` | `SessionsSpec => []SessionsTypeOK` |
| | `TabsKeepTheSession`, `NoFalseAlarm` | `SessionsSpec => []SessionsSurvive`, `SessionsSpec => []AlarmsAreEarned` |
| | `SecretsTypeCorrect`, `SupersededNeverReset` | `SecretsSpec => []SecretsTypeOK`, `SecretsSpec => SupersededCodeFails` |
| `CatalogProofs` | `CatalogTypeCorrect` | `Spec => []TypeOK` |
| | `EveryImageAccounted`, `TheMainPhoto` | `Spec => []ImagesAccounted`, `Spec => []OneMainPhoto` |
| | `OrdersKeepTheirVariant` | `Spec => HistoryKept` |
| `CartProofs` | `CartTypeCorrect` | `Spec => []TypeOK`: no line with size and color exceeds the cap |
| | `CartLosesNothing`, `CartDoublesNothing` | `Spec => []NothingLost`, `Spec => []NothingDoubled` |

`Invariance`, `MoneyInvariance`, `PricesInvariance`, `InvoicingInvariance`, `SessionsInvariance`,
`SecretsInvariance`, `CatalogInvariant` and `Accounts` (of `CartProofs`) state the inductive invariants behind them.

**The order core.** `Inv` is `TypeOK`, `DeductedIffFulfilling` and
`StockConserved`, and none stands alone. The types go through by one lemma
per group of actions (`PaymentTypes`, `OrderTypes`, `JobTypes`); the guard of
every decrement is what keeps `stock` in `Nat`. Only what an admin puts on sale
needs more: that `supply` stays a natural number rests on the conservation
(`SetStockTypes`), and the conservation on `DeductedIffFulfilling`: a deduction
adds exactly the order's units to `Held` only because the order held none
before. The agreement needs the repeated condition of the job's update, which
must not touch an order with stock, and that `AllowedTransitions` never leads
from an order with stock to PENDING. The arithmetic is in `HeldGrows` and
`HeldShrinks`: when one order turns, `Held(t)` gains or loses a set in bijection
with `1..Items[o][t]` (`UnitsCount`), disjoint from the rest. Every other action
leaves `deducted` and `stock` alone (`ConservedStutter`).

**Money.** `MoneyInv` is `CouponCounted` and `PaidOrders`: once a payment has
confirmed an order, the order never waits again, keeps its payments row, and
while it holds stock its row names a payment that was reported approved or
annulled (`RowAnswered`). The last part is what makes `ApprovalAnswered`
provable. When an approval finds the order confirmed already, the code compares the row
with the payment reported to tell an old report from a second payment. Only a
fact that ties that row to a report already processed shows that a second
payment is never taken for an old one. `PaidReport` goes through the outcomes of a report,
`PaidStatus` through what admins and the job do to a paid order. `CouponConfirm`
counts: a confirmation adds one pair to `CouponSales`, which is finite.

**Checkout.** `CheckoutInv` is the types of the handlers' state and `DeskOK`:
whatever the bank handlers hold is a bank proof. With it every step is a step
of the core or a stutter (`CheckoutStep`), one case per group of handlers, so
every theorem above holds of `CheckoutSpec` too. `RowsBacked` is inductive because a
charge never leaves the states `Backed` asks for (`ChargeMoves`) and a row
becomes COMPLETED only by a report of its own payment (`WhatAReportWrites`),
which a provider makes only of a state the charge was in (`WhatIsReported`).
`RowsRefunded` adds that no charge is cancelled, which is where MercadoPago is
excluded: its `cancelled` is taken for a refund (section 5). `RetriableUntilPaid`
rests on the same two and on `ClosedByMoney`: what closes an order to new attempts
(a flag, a completed or a refunded row) is there only if money was taken for it.

**Dashboard.** `Held` of `Orders` is the set of units that orders with stock hold;
`UnitsSoldAreHeld` shows from `DeductedIffFulfilling` that it is the set the
dashboard's query selects by status, which carries the conservation over to the
figures. `OneBucket` and `CategoriesShare` are about the queries alone.

**Stock.** Two-phase locking. The invariant says that no row has two holders
(`OneHolder`), that a row nobody holds is as committed (`FreeIsCommitted`), and
that the rows a sale or a return holds differ from the committed ones by exactly
its units (`Selling`, `Returning`). So the step that commits changes all of `seen` at
once by what the promise says, and every other step leaves `seen` alone. That a
shortage is real at the moment it is found needs `FreeIsCommitted`: the row
that was too small was read as committed, or put back by the sale itself.

**Prices.** `PricesInv` adds to types and `PricesFit` what a change under way knows
(`SwitchOK`): of the products no save has crossed, those whose variant it found or
locked are just those whose variant follows the old rate, and likewise for the
products. So at the commit price and rate of a product move together unless it was
crossed, which makes it `torn` (`RateCommitKeeps`). `Exempted` says that neither the
general rate nor the one a change is on its way to is zero while a product is
exempt: the look for a clash sees the exemptions saved before it, and those
saved after it are `Slips`. `Bare`: a variant without a base has no price. A save
computes with the rate it read: if a change came between, the product is `torn`;
otherwise price and rate are written together (`SavedFits`).

**Sums, documents and purchases.** A total folds over a set of indices; the
library's induction takes an operator, which no prover here can instantiate.
`Smallest` does without: among the parts of a finite set of which something is
wrong there is a smallest one, by the well-foundedness of strict inclusion. From
it come the equations of the recursive function behind `Total` (`IterAgrees`,
`IterExists`), that any index may be taken first (`SumPick`), induction over a
finite set given as a set of sets (`OneByOne`), and what is said of sums: by parts, by
groups, in another order. `AllocateShares` is then arithmetic: the floors fall
short of the amount by the sum of the remainders divided by the total, which is
less than the number of remainders that are not zero (`FirstOnes`, `RankIs`), so
that the cents left over go one each to lines that can bear them. `LineIs` says
what rounding leaves of one line, `SubtotalsAre` and `RatesMakeAll` that the rates of a
document make up its lines, and `OrderAddsUp` puts invoice, note and paper together,
for every order that `IsOrder`: prices and shipping that are not negative, a coupon
of at most the subtotal. `BoughtIs` shows that all that `buildQuote` lets pass is
such an order, with as many units as were asked for (`NormalizeKeeps`): no offer makes
a price negative and no saved coupon adds to one. `WompiPays`,
`MercadoPagoPays` and `AddiPays` follow the amount to the provider and back. In the state
only one thing is needed, a part of `PricesInv`: what is on sale costs what some
base price costs with some rate, also while it is torn.

What these two theorems assume of the constants is in `Prices`, beside the
constants: rates are at most 30 %, as the validators have it; a request asks for
integers (a quantity below one is refused by the code, and in the proof); an
offer or coupon states a number as its value when it is created, and what an
edit sends as one is one (`PurchaseAssumption`); a provider is set up with the secrets of the
shop's own account, and a token of Addi is good for the 30 s the code keeps it
(`AccountAssumption`). In `Promotions` and `Providers`, `Null` is no number, none of the words
that identifiers are made of and no list of them.

**Invoicing.** `InvoicingInv` rests on `Sole`: until a document is accepted at most
one worker has it. Two workers could have it only after the lease ran out under
the first, and a lease outlives every step but the mail, which comes after the
acceptance. Hence what a worker knows of its document is still so when it writes:
`StepFits` says for each step what that is (before the answer the status is an
open one, with contents signed before a sending, and a "valid" about the issue
that the row holds). `RowFits` ties row and DIAN. An accepted document stays
accepted, so a note cleared by its invoice stays cleared (`Cleared`), whoever
retries what. `NumberGiven` is the arithmetic of the numbers. Every step writes at
most one document: `WorkerStep`, `BareStep` and `QuietStep` say once what that
preserves, for a worker's step, the shop's or the DIAN's, and a step that writes none.

**Sessions and codes.** `SessionsSurvive` says that a browser which lost no answer
and was not revoked has a cookie whose row is live. It is not inductive: a
refresh puts that row in its grace, where it will age, and the browser survives
only because another answer is on its way. `RotationIsAnswered` says so;
`AnswersAreNew` that a token under way is unknown to every other cookie and
call, hence that taking it up or losing it concerns one browser; `OneBrowser`
that a revoked or rotated token is nobody else's cookie; and `SentInTime` that a
refresh the browser was not excused for finds its row, which is what makes an
alarm impossible without an excuse. `TokenIsStored`, `RowsGo` and `CallEnds` are the three
ways in which rows and calls change, whoever does it. The numbers of tokens
are reused once nobody holds them, so that `Least` and `NextTokenIsFree` show that the next
one is in nobody's hands. For codes, `CodesInv` orders those of a user (`Orderly`): of two, the
earlier is used or deleted, or was under way when the later was asked for
(`beside`), or will be deleted when the request for the later commits
(`clearing`). So a code that was read as unused by a submission is superseded by
nothing committed when that submission commits, or its update finds it gone.

**Catalog.** Three requests (the save, the deletion of a photo, the removal of the
product) act on what they read before. `OneEditor` says which of them exclude each
other, `NothingLeft` that a product that is not there has neither photos nor
orders. The main photo (`MainInv`): besides at most one, and one unless it is
being deleted or a save is in doubt, it needs that during the deletion only a
new first photo can be one (`OnlyFirstMain`), as its successor is the first, and
that a save which counted photos still finds some unless one was deleted
meanwhile (`CountHolds`), as it makes its own main only if it counted none. The
images (`ImagesInv`): an upload is in exactly one place, a row, the hand of the save
or the deletion under way (`RowsApart`, `HeldApart`, `Apart`), since otherwise the
cleanup of one request would destroy what another shows; the images of `again` are
excepted from all three, as two rows may name them, and a save destroys on failure
only what it uploaded itself (`own`), which is never one of them; and all that
Cloudinary has is in one of those places, apart from the strays (`ImagesKept`).
`HistoryKept` is an
action property of one transaction (`SaveWrites`) and needs only the types.

**Cart.** Both properties compare what is held of a line (its row, the requests
under way, what a page has still to upload and what localStorage has and no page
has taken) with what is owed. The invariant has three parts. `CartInv`: types, and
that a page with a request is uploading or waits for one, and has something to
upload only in its sync (`Calm`). `Alone`: until a second page or a sign-in by
`bootstrapAuth`, a guest's page and localStorage agree, localStorage has nothing
once its lines are taken, and what is still to be uploaded is there should the
page be left (`AloneAt`). Without it a page that is opened anew could bring back
items it had uploaded, or lose those it had not; it is proved step by step
(`AloneSteps`), and is the reason why nothing is `mixed` until then. `Balanced`: every
line is `Fine`, the two bounds at once, and every step is shown to move both sides
by the same number (`Together`), to replace units on purpose (`OnPurpose`), or to
name the line in a ghost (`MixedFine`). `SumFits` is the arithmetic of the cap, and
`SameBrings` says that reading, losing the row and sending again leave a request
what it was.

Only model-checked: all liveness (`OpenOrdersSettle`,
`NobodyHangs`, `NewsSettles`, `DeactivatedDrain`), which is outside what the prover does,
like the fairness it needs. `UnpaidStaysRetriable` is proved without MercadoPago; with
it, it is false (section 5).

## 5. Where code and docs disagree

- `checkout_cancelled`: MercadoPago's `cancelled` is taken for an annulment, so
  an order nobody paid can be neither paid nor expired.

Seen while modelling and described here only. Orders and payments:

- `expireStaleOrders` repeats only two conditions of its read, so an order that
  was flagged in between (money was taken), or whose proof arrived in between, is
  cancelled (`services/payment.service.js:293`; the test
  `payments.db.test.js:247` and `src/docs/PAGOS.md:61` say it never is), and it
  logs the whole batch it read, also an order paid since (line 297).
- A late report of a card attempt rewrites the provider of an order whose proof
  waits for a review, which is then refused (line 220; `src/docs/PAGOS.md:53`).
- A rejection is logged and mailed although the order was paid while it was under
  way; a payment that reopens a REFUNDED order, and one annulled before its
  approval was processed, confirm without a flag.
- A crash after the commit and before `triggerInvoice` leaves a sale without an
  invoice; an order closed before its invoice is queued gets no credit note for
  it, and a reopened one keeps its annulled invoice.
- A checkout writes `paymentProvider` after it waited for the provider, by id and
  in any state of the order (`routes/payment.routes.js:99`): also of one that was
  paid or given a proof meanwhile, whose review is then refused.
- An annulment processed before its approval finds no stock deducted and is
  recorded as a refusal (line 208): a real refund then stands as FAILED, where
  `RefundsAreReal` sees only a refund that was none.
- A proof whose upload dies before its payment is processed
  (`services/bank-transfer.service.js:71`) has no payments row: the order is
  cancelled at the earlier cutoff although the proof waits for a review.
- The quote shown and the one `createOrder` charges may differ when an offer's
  window, a coupon or a price changes in between (`services/pricing.service.js:107`).
  The comment at lines 5-7 says that what the customer sees is exactly what is
  charged: that is so of two quotes of one moment.
- An edited coupon is not checked against 100 % (the discount is cut off at the
  subtotal, as `MCPrices` has it).
- Addi's token is kept for at least 30 s even if it lives shorter (the comment at
  `config/addi.js:71` says until a minute before its end); an approval without an
  amount skips the comparison of amounts. Without `MP_WEBHOOK_SECRET` signed
  webhooks of MercadoPago are refused while `/methods` offers it; `verify` still
  takes the payment.

Invoicing:

- A crash while the mail of an accepted invoice goes out leaves the note that
  waited for it stopped for good: it is woken in a statement after the mail
  (`einvoice.service.js:366`), where the comment at line 278 says it is woken.
- `processDocument` is documented never to throw ("Nunca lanza"), but its results
  are returned without `await`. A mail may go out twice, when it takes longer
  than the lease or the server dies before the update.
- A range whose end is not a number is no error of the configuration, and is
  never exhausted.

Sessions and codes:

- A request for a reset code deletes the unused ones "para que solo haya uno
  activo" (`services/auth.service.js:298`), but two requests at once do not see
  each other's row: two codes work, and the older one still resets the password
  after the newer was asked for. `SupersededCodeFails` excepts just these.
- A rotation that read its token before a logout, a password reset or a
  deactivation deleted the user's tokens stores the new one after it
  (`services/auth.service.js:167`, `370-372`), and so does a login
  (`services/admin.service.js:155`). That session ends when its token expires, or at the
  next refresh if the account is inactive; after a password reset it can be
  renewed. `DeactivatedDrain` says only that a customer who stays deactivated
  drains.

Cart: the cases that `NothingLost` and `NothingDoubled` except.

- Adds are repeated after a lost answer, overlap (each writes the sum with the row
  it read), fail on the unique index when both create the row, or get two rows
  without size or color; what does not fit under the cap is dropped, and so is an
  add that is refused.
- A page left, or signed out, after an item was sent and before localStorage was
  emptied or the server's cart shown has the item in localStorage again, and the
  next sync sends it once more (`stores/cart.store.js:42`).
- Units a guest adds to or takes from a copy of the server's cart are never told
  to the server.
- A confirmation deletes the whole cart, also what was added after the order
  (`services/payment.service.js:203`).
- Two pages have one localStorage and two memories: each save of one replaces
  what the other saved (`stores/cart.store.js:57-66`); a page that still shows a
  guest's lines after the other has uploaded them writes them back, and they are
  uploaded again; one that was left uploading may be emptied by another.
- `bootstrapAuth` signs a page in without a user in localStorage and, but in
  `checkout.astro`, without `initCart` (`lib/api.js:134-146`): what the page showed
  of a guest is then neither uploaded nor the server's.
- A logout whose request fails (`Header.astro:138-143`, `perfil.astro:80-84`) leaves
  the session, and `bootstrapAuth` signs the next page in again.

Products:

- A save whose rate changed while its images went up writes price and rate that
  do not fit. So does one that commits between the statements of `setRate`
  (`services/tax-settings.service.js:36-72`): between the variants' UPDATE and the
  products' it leaves a product at the new rate with a variant at the old price
  (`torn`). An exemption saved after the look for a clash of a change to zero is
  taken for a product that follows the general rate, and follows the next one
  (`Slips`); ending an exemption in a form opened before a change of
  rate gives the product a rate of its own that does not follow any more; an edit
  locks a product before its variants and `setRate` the variants first, which
  PostgreSQL may have to break as a deadlock.
- The tax check stores a proposal before it sends the alert, which goes out only
  when the stored one was another: a crash in between loses it, and two checks
  at once alert twice.
- The product form writes the stock as it was when the form was opened
  (`services/admin-products.service.js:341`): units sold meanwhile are on the
  shelf again. A product saved without variants after one was ordered leaves that
  order without stock to sell.
- `syncVariants` deletes variants by a count that may be stale (lines 386-391 say
  that a variant with orders is kept); a save that counted the last photo before
  it was deleted leaves none as the main one; two admins' requests about photos
  may leave two; images are left behind at Cloudinary by a crash.
- `ImageUploader.jsx:72` compares pasted URLs with one another's text, and the panel
  shows transformed ones, where the server keeps the `publicId`: one image may be
  in two rows of a product, or in two products, and deleting one of them destroys
  the image the other still shows (`services/admin-products.service.js:471-472`).

## 6. Plan

Done: the order core, handlers and providers, with proofs; stock under locks as a
refinement, with proofs; invoicing with proofs; prices and tax with proofs;
amounts and documents as functions, with proofs; users, codes and sessions, cart, and products
with variants and photos, with proofs; the dashboard.

Left, in this order: two orders in `Invoicing`'s run; liveness of a queued document; the
composition of `Invoicing` with `Orders` for the triggers, and of `Stock` with
`Catalog` for saves of several variants; the file names of the invoices.

## 7. How to run

    tlc -config MCOrdersSales.cfg MCOrders.tla
    tlc -config MCInvoicingNotes.cfg MCInvoicing.tla
    tlapm OrdersProofs.tla

and so on: `PROJECT.json` names the module and configuration of each run, the
mutants, the source lines behind each definition, hazards, findings and
theorems. The longest runs are `invoicing_notes` and `prices`, of some minutes.

## 8. Not modelled

Formats: the text of XML and PDF, the cryptography of signatures, SOAP envelopes,
mail texts, provider URLs and headers. The year's counter of invoice file names.
Listings, searches and pages: reads. Single-statement CRUD under unique indexes:
sizes, colors, categories, contact messages. Slugs of products. Stateless
middleware and validators other than those of offers, coupons and buyers. Rate
limits, whose counters no other state depends on. The signature of access
tokens, which is taken as good. Lists of the panel that may show the answer of an
earlier filter. Test fixtures and scripts.

In `Cart`: clicks while `initCart` still runs on the same page, two `initCart` of one
page, more than two pages, more than one unpaid order at a time, and more than one
customer per browser. In `Catalog`: more than one form and more than one request
about a photo at once. In `Prices`: more than one variant of a product, and which
savers of two changes wait for each other, beyond the lock of the setting.
