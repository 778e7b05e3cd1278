------------------------------- MODULE Orders -------------------------------
(***************************************************************************)
(* The order core of the shop's backend: the tables orders, payments,      *)
(* payment_events, order_status_logs, coupons and the stock columns, and   *)
(* the transactions that write them (payment.service.js, stock.service.js, *)
(* coupon.service.js, order.service.js, admin-orders.service.js).          *)
(*                                                                         *)
(* Every transaction locks its order row (SELECT ... FOR UPDATE) and       *)
(* decrements stock and coupon with conditional UPDATEs, so one            *)
(* transaction is one step.  Work that spans several statements without a  *)
(* transaction (creating an order from a quote, the expiry job) is split   *)
(* where the database lets other work in.                                  *)
(*                                                                         *)
(* Here reports of payments arrive in any order and whenever they like;    *)
(* module Checkout adds the providers and the handlers that send them.     *)
(***************************************************************************)
EXTENDS Naturals, FiniteSets

CONSTANTS
    Order,        \* orders customers may place
    NoOrder,      \* the order of a report whose reference matches no row
    Target,       \* rows that hold stock: variants, or products without any
    Payment,      \* ids of payments at the providers, bank proofs included
    NoPayment,    \* the id of a payments row that does not exist
    Provider,     \* PaymentProvider values in use
    NoProvider,   \* order.paymentProvider = null
    MaxQty,       \* the most units of one target an order may ask for
    Items,        \* Items[o][t]: units of t in the items of order o
    PaidFor,      \* the order a payment's reference names
    Rail,         \* the provider a payment belongs to
    RightAmount,  \* payments of the order's total, or reported with no amount
    Reports,      \* the <<payment, status>> pairs that may be reported
    CouponOrders, \* orders placed with the shop's coupon
    MaxUses,      \* coupon.maxUses; null is a limit the orders never reach
    MaxStock,     \* bound: the largest stock an admin writes
    MaxAge,       \* bound: how old orders grow, 2 being past three days
    InitStock     \* stock of every target at the start

PayStatus == {"APPROVED", "PENDING", "DECLINED", "VOIDED", "ERROR"}

OrderStatus == {"PENDING", "CONFIRMED", "PROCESSING", "SHIPPED", "DELIVERED",
                "CANCELLED", "REFUNDED"}

RowStatus == {"PENDING", "COMPLETED", "FAILED", "REFUNDED"}

Outcomes == {"ORDER_NOT_FOUND", "DUPLICATE_PAYMENT", "ALREADY_PAID",
             "AMOUNT_MISMATCH", "OUT_OF_STOCK", "CONFIRMED",
             "VOIDED_AFTER_PAYMENT", "IGNORED_ORDER_PAID", "PENDING",
             "DECLINED"}

ASSUME OrderAssumption ==
    /\ IsFiniteSet(Order) /\ NoOrder \notin Order
    /\ NoPayment \notin Payment /\ NoProvider \notin Provider

ASSUME ItemsAssumption ==
    /\ MaxQty \in Nat
    /\ Items \in [Order -> [Target -> 0..MaxQty]]

ASSUME PaymentAssumption ==
    /\ IsFiniteSet(Payment)
    /\ PaidFor \in [Payment -> Order \cup {NoOrder}]
    /\ Rail \in [Payment -> Provider]
    /\ RightAmount \subseteq Payment
    /\ Reports \subseteq Payment \X PayStatus

ASSUME StockAssumption ==
    /\ MaxStock \in Nat /\ InitStock \in [Target -> Nat]
    /\ CouponOrders \subseteq Order /\ MaxUses \in Nat
    /\ MaxAge \in 0..2

VARIABLES
    status,    \* order.status; "NONE" and "QUOTED" before the row exists
    deducted,  \* order.stockDeducted
    review,    \* order.needsReview
    via,       \* order.paymentProvider
    age,       \* order.createdAt: 0 recent, 1 past the cutoff, 2 past 3 days
    reviewed,  \* order.transferReviewedAt against the cutoff
    rowStatus, \* payment.status of the order's payments row, or "NONE"
    rowId,     \* payment.providerPaymentId of that row
    event,     \* payment_events: the outcome stored for a report, or "NONE"
    logged,    \* the newest state order_status_logs says the order moved to
    stock,     \* stock column of a target
    used,      \* coupon.usedCount
    job,       \* where expireStaleOrders stands
    batch,     \* the ids expireStaleOrders holds in memory
    supply     \* not in the code: units admins have put on sale in total

orderVars == <<status, deducted, review, via, age, reviewed>>
rowVars   == <<rowStatus, rowId>>
jobVars   == <<job, batch>>
vars == <<orderVars, rowVars, event, logged, stock, used, jobVars, supply>>

TypeOK ==
    /\ status \in [Order -> OrderStatus \cup {"NONE", "QUOTED"}]
    /\ deducted \in [Order -> BOOLEAN]
    /\ review \in [Order -> BOOLEAN]
    /\ via \in [Order -> Provider \cup {NoProvider}]
    /\ age \in [Order -> 0..2]
    /\ reviewed \in [Order -> {"never", "recent", "past"}]
    /\ rowStatus \in [Order -> RowStatus \cup {"NONE"}]
    /\ rowId \in [Order -> Payment \cup {NoPayment}]
    /\ event \in [Reports -> Outcomes \cup {"NONE"}]
    /\ logged \in [Order -> OrderStatus \cup {"NONE"}]
    /\ stock \in [Target -> Nat]
    /\ used \in 0..MaxUses
    /\ job \in {"idle", "read", "updated"}
    /\ batch \subseteq Order
    /\ supply \in [Target -> Nat]

Init ==
    /\ status = [o \in Order |-> "NONE"]
    /\ deducted = [o \in Order |-> FALSE]
    /\ review = [o \in Order |-> FALSE]
    /\ via = [o \in Order |-> NoProvider]
    /\ age = [o \in Order |-> 0]
    /\ reviewed = [o \in Order |-> "never"]
    /\ rowStatus = [o \in Order |-> "NONE"]
    /\ rowId = [o \in Order |-> NoPayment]
    /\ event = [r \in Reports |-> "NONE"]
    /\ logged = [o \in Order |-> "NONE"]
    /\ stock = InitStock
    /\ used = 0
    /\ job = "idle"
    /\ batch = {}
    /\ supply = InitStock

Exists(o) == status[o] \in OrderStatus

-----------------------------------------------------------------------------
(* Stock and coupon: conditional UPDATEs inside the caller's transaction.  *)

\* Mutant: any stock will do, whatever the quantity.
CanTakeAnyStock(o) == \A t \in Target : stock[t] > 0

\* tryDeductStockForItems succeeds: every decrement found stock >= quantity.
CanTake(o) == \A t \in Target : stock[t] >= Items[o][t]

\* Mutant: one unit comes back, whatever the quantity.
RestoreOneUnit(o) == stock' = [t \in Target |-> stock[t] + 1]

\* On success each target loses its units; after a shortage every decrement
\* already applied is undone, which leaves the column as it was.
Deduct(o)  == stock' = [t \in Target |-> stock[t] - Items[o][t]]
Restore(o) == stock' = [t \in Target |-> stock[t] + Items[o][t]]

\* Mutant: off by one at the limit.
ConsumeCouponShort(o) ==
    used' = IF o \in CouponOrders /\ used + 1 < MaxUses THEN used + 1 ELSE used

\* usedCount + 1 WHERE usedCount < maxUses; over the limit it only warns.
ConsumeCoupon(o) ==
    used' = IF o \in CouponOrders /\ used < MaxUses THEN used + 1 ELSE used

-----------------------------------------------------------------------------
(* Placing an order: buildQuote reads stock and coupon outside the          *)
(* transaction that inserts the row.                                        *)

Quote(o) ==
    /\ status[o] = "NONE"
    /\ CanTake(o)
    /\ o \in CouponOrders => (MaxUses = 0 \/ used < MaxUses)
    /\ status' = [status EXCEPT ![o] = "QUOTED"]
    /\ UNCHANGED <<deducted, review, via, age, reviewed, rowVars, event,
                   logged, stock, used, jobVars, supply>>

CreateOrder(o) ==
    /\ status[o] = "QUOTED"
    /\ status' = [status EXCEPT ![o] = "PENDING"]
    /\ logged' = [logged EXCEPT ![o] = "PENDING"]
    /\ UNCHANGED <<deducted, review, via, age, reviewed, rowVars, event,
                   stock, used, jobVars, supply>>

-----------------------------------------------------------------------------
(* processPaymentUpdate: one transaction per report.  A report whose key    *)
(* is already in payment_events changes nothing.                            *)

\* Mutant: a payment in process counts as paid.
RowOfPendingPaid(s) == IF s \in {"APPROVED", "PENDING"} THEN "COMPLETED" ELSE "FAILED"

RowOf(s) == CASE s = "APPROVED" -> "COMPLETED"
              [] s = "PENDING"  -> "PENDING"
              [] s = "VOIDED"   -> "REFUNDED"
              [] OTHER          -> "FAILED"

\* Mutant: reports of other attempts are let through.
KeepsRowOfSame(o, p, s) == /\ rowStatus[o] = "COMPLETED"
                           /\ RowOf(s) # "REFUNDED"
                           /\ rowId[o] = p

\* A COMPLETED row yields only to a refund or to another approved payment.
KeepsRow(o, p, s) == /\ rowStatus[o] = "COMPLETED"
                     /\ RowOf(s) # "REFUNDED"
                     /\ rowId[o] = p \/ s # "APPROVED"

UpsertPaymentRow(o, p, s) ==
    IF KeepsRow(o, p, s)
    THEN UNCHANGED rowVars
    ELSE /\ rowStatus' = [rowStatus EXCEPT ![o] = RowOf(s)]
         /\ rowId' = [rowId EXCEPT ![o] = p]

\* The event row is inserted once, with the outcome of its processing.
Record(p, s, outcome) ==
    /\ event[<<p, s>>] = "NONE"
    /\ event' = [event EXCEPT ![<<p, s>>] = outcome]

\* Mutant: nobody is told.
FlagForgotten(o) == UNCHANGED review

FlagForReview(o) == review' = [review EXCEPT ![o] = TRUE]

OrderNotFound(p, s) ==
    /\ PaidFor[p] = NoOrder
    /\ Record(p, s, "ORDER_NOT_FOUND")
    /\ UNCHANGED <<orderVars, rowVars, logged, stock, used, jobVars, supply>>

\* An approval for an order that already holds its stock.
ApprovedAgain(o, p) ==
    /\ deducted[o]
    /\ IF rowStatus[o] # "NONE" /\ rowId[o] # p
       THEN FlagForReview(o) /\ Record(p, "APPROVED", "DUPLICATE_PAYMENT")
       ELSE UNCHANGED review /\ Record(p, "APPROVED", "ALREADY_PAID")
    /\ UNCHANGED <<status, deducted, via, age, reviewed, rowVars, logged,
                   stock, used, jobVars, supply>>

AmountMismatch(o, p) ==
    /\ ~deducted[o] /\ p \notin RightAmount
    /\ FlagForReview(o)
    /\ UpsertPaymentRow(o, p, "APPROVED")
    /\ Record(p, "APPROVED", "AMOUNT_MISMATCH")
    /\ UNCHANGED <<status, deducted, via, age, reviewed, logged, stock, used,
                   jobVars, supply>>

OutOfStock(o, p) ==
    /\ ~deducted[o] /\ p \in RightAmount /\ ~CanTake(o)
    /\ FlagForReview(o)
    /\ UpsertPaymentRow(o, p, "APPROVED")
    /\ Record(p, "APPROVED", "OUT_OF_STOCK")
    /\ UNCHANGED <<status, deducted, via, age, reviewed, logged, stock, used,
                   jobVars, supply>>

\* Whatever the order's status: only a cancelled order is flagged.
ConfirmPaid(o, p) ==
    /\ ~deducted[o] /\ p \in RightAmount /\ CanTake(o)
    /\ Deduct(o)
    /\ UpsertPaymentRow(o, p, "APPROVED")
    /\ status' = [status EXCEPT ![o] = "CONFIRMED"]
    /\ deducted' = [deducted EXCEPT ![o] = TRUE]
    /\ via' = [via EXCEPT ![o] = Rail[p]]
    /\ IF status[o] = "CANCELLED" THEN FlagForReview(o) ELSE UNCHANGED review
    /\ logged' = [logged EXCEPT ![o] = "CONFIRMED"]
    /\ ConsumeCoupon(o)
    /\ Record(p, "APPROVED", "CONFIRMED")
    /\ UNCHANGED <<age, reviewed, jobVars, supply>>

VoidedAfterPayment(o, p) ==
    /\ deducted[o]
    /\ FlagForReview(o)
    /\ UpsertPaymentRow(o, p, "VOIDED")
    /\ Record(p, "VOIDED", "VOIDED_AFTER_PAYMENT")
    /\ UNCHANGED <<status, deducted, via, age, reviewed, logged, stock, used,
                   jobVars, supply>>

IgnoredOrderPaid(o, p, s) ==
    /\ deducted[o] /\ s \notin {"APPROVED", "VOIDED"}
    /\ Record(p, s, "IGNORED_ORDER_PAID")
    /\ UNCHANGED <<orderVars, rowVars, logged, stock, used, jobVars, supply>>

\* Pending, refused or voided before the order held stock.
StillUnpaid(o, p, s) ==
    /\ ~deducted[o] /\ s # "APPROVED"
    /\ UpsertPaymentRow(o, p, s)
    /\ via' = [via EXCEPT ![o] = Rail[p]]
    /\ Record(p, s, IF s = "PENDING" THEN "PENDING" ELSE "DECLINED")
    /\ UNCHANGED <<status, deducted, review, age, reviewed, logged, stock,
                   used, jobVars, supply>>

ProcessPaymentUpdate(p, s) ==
    \/ OrderNotFound(p, s)
    \/ \E o \in Order \cap {PaidFor[p]} :
          /\ Exists(o)
          /\ \/ /\ s = "APPROVED"
                /\ \/ ApprovedAgain(o, p)
                   \/ AmountMismatch(o, p)
                   \/ OutOfStock(o, p)
                   \/ ConfirmPaid(o, p)
             \/ s = "VOIDED" /\ VoidedAfterPayment(o, p)
             \/ IgnoredOrderPaid(o, p, s)
             \/ StillUnpaid(o, p, s)

-----------------------------------------------------------------------------
(* The admin's transactions.                                                *)

\* Mutant: an admin may take up a cancelled order again.
AllowedReopening ==
    [s \in OrderStatus |->
       CASE s \in {"PENDING", "CANCELLED"} -> {"CONFIRMED", "CANCELLED"} \ {s}
         [] s = "CONFIRMED"               -> {"SHIPPED", "CANCELLED", "REFUNDED"}
         [] OTHER                         -> {}]

AllowedTransitions ==
    [s \in OrderStatus |->
       CASE s = "PENDING"    -> {"CONFIRMED", "CANCELLED"}
         [] s = "CONFIRMED"  -> {"PROCESSING", "SHIPPED", "CANCELLED", "REFUNDED"}
         [] s = "PROCESSING" -> {"SHIPPED", "CANCELLED", "REFUNDED"}
         [] s = "SHIPPED"    -> {"DELIVERED", "REFUNDED"}
         [] s = "DELIVERED"  -> {"REFUNDED"}
         [] OTHER            -> {}]

\* Mutant: a refund gives no stock back.
ClosesByCancel(to) == to = "CANCELLED"

Closes(to) == to \in {"CANCELLED", "REFUNDED"}

\* Asking for the present status, one not allowed, or a confirmation without
\* stock changes nothing.  A confirmation by hand consumes no coupon and
\* writes no payments row.
UpdateOrderStatus(o, to) ==
    LET takes == to = "CONFIRMED" /\ ~deducted[o]
        gives == Closes(to) /\ deducted[o]
    IN  /\ Exists(o)
        /\ to \in AllowedTransitions[status[o]]
        /\ takes => CanTake(o)
        /\ CASE takes -> Deduct(o)
             [] gives -> Restore(o)
             [] OTHER -> UNCHANGED stock
        /\ deducted' = [deducted EXCEPT ![o] = (@ \/ takes) /\ ~gives]
        /\ status' = [status EXCEPT ![o] = to]
        /\ review' = [review EXCEPT ![o] = @ /\ ~Closes(to) /\ to # "DELIVERED"]
        /\ logged' = [logged EXCEPT ![o] = to]
        /\ UNCHANGED <<via, age, reviewed, rowVars, event, used, jobVars, supply>>

\* Its log entry names the same status twice: it records no move.
ResolveReview(o) ==
    /\ Exists(o)
    /\ review' = [review EXCEPT ![o] = FALSE]
    /\ UNCHANGED <<status, deducted, via, age, reviewed, rowVars, event,
                   logged, stock, used, jobVars, supply>>

\* An admin writes the stock of a target after a count or a delivery.
SetStock(t, n) ==
    /\ stock' = [stock EXCEPT ![t] = n]
    /\ supply' = [supply EXCEPT ![t] = (@ - stock[t]) + n]
    /\ UNCHANGED <<orderVars, rowVars, event, logged, used, jobVars>>

\* Column writes of the checkout handlers and of reviewTransfer: plain UPDATEs
\* by id, whatever happened to the order since the handler read it.
SetProvider(o, v) ==
    /\ Exists(o) /\ via[o] # v
    /\ via' = [via EXCEPT ![o] = v]
    /\ UNCHANGED <<status, deducted, review, age, reviewed, rowVars, event,
                   logged, stock, used, jobVars, supply>>

\* Only an order with a proof of a bank transfer is reviewed.
MarkReviewed(o) ==
    /\ Exists(o)
    /\ \E p \in Payment : PaidFor[p] = o /\ Rail[p] = "BANK_TRANSFER"
    /\ reviewed' = [reviewed EXCEPT ![o] = "recent"]
    /\ UNCHANGED <<status, deducted, review, via, age, rowVars, event, logged,
                   stock, used, jobVars, supply>>

-----------------------------------------------------------------------------
(* Time, as far as the expiry job tells it apart.                           *)

GrowOlder(o) ==
    /\ Exists(o) /\ age[o] < MaxAge
    /\ age' = [age EXCEPT ![o] = @ + 1]
    /\ UNCHANGED <<status, deducted, review, via, reviewed, rowVars, event,
                   logged, stock, used, jobVars, supply>>

ReviewGrowsOld(o) ==
    /\ reviewed[o] = "recent"
    /\ reviewed' = [reviewed EXCEPT ![o] = "past"]
    /\ UNCHANGED <<status, deducted, review, via, age, rowVars, event, logged,
                   stock, used, jobVars, supply>>

-----------------------------------------------------------------------------
(* expireStaleOrders: it reads, then updates, then logs, with no            *)
(* transaction around the three statements.                                 *)

\* Mutant: the deadline a review sets never runs out.
ExpirableUnreviewed(o) ==
    /\ status[o] = "PENDING" /\ ~deducted[o] /\ ~review[o]
    /\ age[o] >= 1
    /\ rowStatus[o] \in {"NONE", "FAILED", "PENDING"}
    /\ reviewed[o] = "never"
    /\ rowStatus[o] = "PENDING" => age[o] = 2

Expirable(o) ==
    /\ status[o] = "PENDING" /\ ~deducted[o] /\ ~review[o]
    /\ age[o] >= 1
    /\ rowStatus[o] \in {"NONE", "FAILED", "PENDING"}
    /\ reviewed[o] # "recent"
    /\ rowStatus[o] = "PENDING" => age[o] = 2

ExpireRead ==
    /\ job = "idle"
    /\ \E o \in Order : Expirable(o)
    /\ batch' = {o \in Order : Expirable(o)}
    /\ job' = "read"
    /\ UNCHANGED <<orderVars, rowVars, event, logged, stock, used, supply>>

\* Mutant: the update repeats no condition at all.
StillCancelsBlindly(o) == o \in batch

\* The update repeats only two of the conditions of the read.
StillCancels(o) == o \in batch /\ status[o] = "PENDING" /\ ~deducted[o]

ExpireUpdate ==
    /\ job = "read"
    /\ status' = [o \in Order |-> IF StillCancels(o) THEN "CANCELLED" ELSE status[o]]
    /\ job' = "updated"
    /\ UNCHANGED <<deducted, review, via, age, reviewed, rowVars, event,
                   logged, stock, used, batch, supply>>

\* Every id of the batch is logged as cancelled, updated or not.
ExpireLog ==
    /\ job = "updated"
    /\ logged' = [o \in Order |-> IF o \in batch THEN "CANCELLED" ELSE logged[o]]
    /\ job' = "idle" /\ batch' = {}
    /\ UNCHANGED <<orderVars, rowVars, event, stock, used, supply>>

\* A statement fails or the process restarts: what it held is forgotten.
JobDies ==
    /\ job # "idle"
    /\ job' = "idle" /\ batch' = {}
    /\ UNCHANGED <<orderVars, rowVars, event, logged, stock, used, supply>>

-----------------------------------------------------------------------------
OrderStep(o) ==
    \/ Quote(o) \/ CreateOrder(o)
    \/ \E to \in OrderStatus : UpdateOrderStatus(o, to)
    \/ ResolveReview(o) \/ MarkReviewed(o)
    \/ \E v \in Provider : SetProvider(o, v)
    \/ GrowOlder(o) \/ ReviewGrowsOld(o)

JobStep == ExpireRead \/ ExpireUpdate \/ ExpireLog

Next ==
    \/ \E o \in Order : OrderStep(o)
    \/ \E r \in Reports : ProcessPaymentUpdate(r[1], r[2])
    \/ \E t \in Target, n \in 0..MaxStock : SetStock(t, n)
    \/ JobStep \/ JobDies

Spec == Init /\ [][Next]_vars

-----------------------------------------------------------------------------
(* Properties.                                                              *)

Fulfilling == {"CONFIRMED", "PROCESSING", "SHIPPED", "DELIVERED"}

\* An order holds stock exactly while it is being fulfilled, although the
\* flag and the status are written by payments, admins and the expiry job:
\* stock goes back once, and no order is shipped that took none.
DeductedIffFulfilling ==
    \A o \in Order : deducted[o] <=> status[o] \in Fulfilling

\* The units of a target that orders hold, one element per unit.
Held(t) == {u \in Order \X (1..MaxQty) : deducted[u[1]] /\ u[2] <= Items[u[1]][t]}

\* No unit is lost or invented: what is on the shelf and what orders hold add
\* up to what admins put on sale, through shortages, late payments,
\* cancellations and refunds of any orders in any order.
StockConserved ==
    \A t \in Target : stock[t] + Cardinality(Held(t)) = supply[t]

\* The confirmations by payment of orders that carry the coupon.
CouponSales == {r \in Reports : event[r] = "CONFIRMED" /\ PaidFor[r[1]] \in CouponOrders}

\* The coupon counts each sale it was part of once, and stops at its limit
\* however many orders were quoted with it before the limit was reached.
CouponCounted ==
    used = IF Cardinality(CouponSales) < MaxUses THEN Cardinality(CouponSales)
                                                 ELSE MaxUses

Progress(s) == CASE s = "PENDING"    -> 0
                 [] s = "CONFIRMED"  -> 1
                 [] s = "PROCESSING" -> 2
                 [] s = "SHIPPED"    -> 3
                 [] s = "DELIVERED"  -> 4
                 [] OTHER            -> 5

\* The report r is processed by this step, with this outcome.
Answered(r, outcome) == event[r] = "NONE" /\ event'[r] = outcome

\* An order moves forward only.  The one way back is a new payment that
\* reopens a closed order; nothing sends an order under way back to the start.
NoMoveBack ==
    [][\A o \in Order :
         Exists(o) /\ status'[o] # status[o] =>
           \/ Progress(status'[o]) > Progress(status[o])
           \/ /\ Closes(status[o])
              /\ \E r \in Reports : PaidFor[r[1]] = o /\ Answered(r, "CONFIRMED")]_vars

\* Some other payment than p has confirmed order o.
PaidByOther(o, p) ==
    \E r \in Reports : r[1] # p /\ PaidFor[r[1]] = o /\ event[r] = "CONFIRMED"

\* The report r of an approved payment that this step answers.
ApprovalDue(r) ==
    LET p == r[1]
        o == PaidFor[p]
    IN  /\ o # NoOrder /\ r[2] = "APPROVED"
        /\ event[r] = "NONE" /\ event'[r] # "NONE"
        /\ deducted[o] => PaidByOther(o, p)
        /\ \A x \in Reports : x = <<p, "VOIDED">> => event[x] = "NONE"

\* It confirms the order as its payment, or asks for a review.
ApprovalTaken(r) ==
    LET o == PaidFor[r[1]]
    IN  \/ review'[o]
        \/ /\ status'[o] = "CONFIRMED"
           /\ rowStatus'[o] = "COMPLETED" /\ rowId'[o] = r[1]

\* Money that comes in is never passed over: a new approval of p leaves the
\* order confirmed with p recorded as its payment, or flagged for review.
\* Two exceptions the code makes: an admin had confirmed the order by hand,
\* or the annulment of p itself was processed before its approval.
ApprovalAnswered ==
    [][\A r \in Reports : ApprovalDue(r) => ApprovalTaken(r)]_vars

\* A completed payment is not degraded by late notifications of any attempt.
CompletedNotDegraded ==
    [][\A o \in Order : rowStatus[o] = "COMPLETED" =>
                         rowStatus'[o] \in {"COMPLETED", "REFUNDED"}]_vars

=============================================================================
