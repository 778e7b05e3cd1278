---------------------------- MODULE OrdersProofs ----------------------------
(***************************************************************************)
(* Proofs about Orders, Dashboard and Checkout, for any orders, targets,   *)
(* payments and reports.                                                   *)
(*                                                                         *)
(* The inductive invariant Inv joins the types, the agreement of           *)
(* stockDeducted with the status, and the conservation of stock: the type  *)
(* of supply needs the conservation, and the conservation the agreement.   *)
(* The coupon counts each sale once and no approved payment is passed      *)
(* over: both rest on MoneyInv, what the rows of payment_events say of an  *)
(* order.  The queries of the dashboard ask for the status and the stock   *)
(* goes by stockDeducted: that they speak of the same orders is Inv.       *)
(*                                                                         *)
(* With its handlers and providers the system still implements the order   *)
(* core, so that every theorem about the core holds of it, and no order of *)
(* reports makes up a payment or a refund.                                 *)
(***************************************************************************)
EXTENDS Checkout, Dashboard, FiniteSetTheorems, TLAPS

Inv == TypeOK /\ DeductedIffFulfilling /\ StockConserved

-----------------------------------------------------------------------------
(* Counting the units an order holds.                                       *)

\* The units of one order are as many as the quantity it asks for.
LEMMA UnitsCount ==
    ASSUME NEW o, NEW q \in Nat
    PROVE  /\ IsFiniteSet({o} \X (1..q))
           /\ Cardinality({o} \X (1..q)) = q
<1> DEFINE f == [i \in 1..q |-> <<o, i>>]
<1>1. f \in Bijection(1..q, {o} \X (1..q))
  <2>1. f \in [1..q -> {o} \X (1..q)]
    OBVIOUS
  <2>2. \A i, j \in 1..q : f[i] = f[j] => i = j
    OBVIOUS
  <2>3. \A u \in {o} \X (1..q) : \E i \in 1..q : f[i] = u
    OBVIOUS
  <2> QED
    BY <2>1, <2>2, <2>3 DEF Bijection, Injection, Surjection, IsInjective
<1>2. ExistsBijection(1..q, {o} \X (1..q))
  BY <1>1 DEF ExistsBijection
<1>3. IsFiniteSet(1..q) /\ Cardinality(1..q) = q
  BY FS_Interval
<1> QED
  BY <1>2, <1>3, FS_Bijection

\* The units held are finitely many.
LEMMA HeldFinite ==
    ASSUME NEW t \in Target
    PROVE  IsFiniteSet(Held(t)) /\ Cardinality(Held(t)) \in Nat
<1>1. IsFiniteSet(1..MaxQty)
  BY FS_Interval, ItemsAssumption
<1>2. IsFiniteSet(Order \X (1..MaxQty))
  BY <1>1, FS_Product, OrderAssumption
<1>3. Held(t) \subseteq Order \X (1..MaxQty)
  BY DEF Held
<1>4. IsFiniteSet(Held(t))
  BY <1>2, <1>3, FS_Subset
<1> QED
  BY <1>4, FS_CardinalityType

\* An order that takes its stock adds its quantity to the units held.
LEMMA HeldGrows ==
    ASSUME NEW o \in Order, NEW t \in Target,
           deducted \in [Order -> BOOLEAN], ~deducted[o],
           deducted' = [deducted EXCEPT ![o] = TRUE]
    PROVE  Cardinality(Held(t)') = Cardinality(Held(t)) + Items[o][t]
<1> DEFINE U == {o} \X (1..Items[o][t])
<1>1. Items[o][t] \in Nat /\ Items[o][t] <= MaxQty /\ MaxQty \in Nat
  <2>1. Items[o][t] \in 0..MaxQty /\ MaxQty \in Nat
    BY ItemsAssumption
  <2> QED
    BY <2>1
<1>2. IsFiniteSet(U) /\ Cardinality(U) = Items[o][t]
  BY <1>1, UnitsCount
<1>3. IsFiniteSet(Held(t)) /\ Cardinality(Held(t)) \in Nat
  BY HeldFinite
<1>4. Held(t)' = Held(t) \cup U
  BY <1>1 DEF Held
<1>5. Held(t) \cap U = {}
  BY DEF Held
<1>6. Cardinality(Held(t) \cup U)
        = Cardinality(Held(t)) + Cardinality(U) - Cardinality(Held(t) \cap U)
  BY <1>2, <1>3, FS_Union
<1>7. Cardinality(Held(t)') = Cardinality(Held(t) \cup U)
  BY <1>4
<1>8. Cardinality(Held(t) \cap U) = 0
  BY <1>5, FS_EmptySet
<1> QED
  BY <1>1, <1>2, <1>3, <1>6, <1>7, <1>8

\* An order that gives its stock back takes its quantity out of the units held.
LEMMA HeldShrinks ==
    ASSUME NEW o \in Order, NEW t \in Target,
           deducted \in [Order -> BOOLEAN], deducted[o],
           deducted' = [deducted EXCEPT ![o] = FALSE]
    PROVE  /\ Cardinality(Held(t)') \in Nat
           /\ Cardinality(Held(t)) = Cardinality(Held(t)') + Items[o][t]
<1> DEFINE U == {o} \X (1..Items[o][t])
<1>1. Items[o][t] \in Nat /\ Items[o][t] <= MaxQty /\ MaxQty \in Nat
  <2>1. Items[o][t] \in 0..MaxQty /\ MaxQty \in Nat
    BY ItemsAssumption
  <2> QED
    BY <2>1
<1>2. IsFiniteSet(U) /\ Cardinality(U) = Items[o][t]
  BY <1>1, UnitsCount
<1>3. IsFiniteSet(Held(t)) /\ Cardinality(Held(t)) \in Nat
  BY HeldFinite
<1>4. Held(t)' = Held(t) \ U
  BY <1>1 DEF Held
<1>5. Held(t) \cap U = U
  BY <1>1 DEF Held
<1>6. Cardinality(Held(t) \ U) = Cardinality(Held(t)) - Cardinality(Held(t) \cap U)
  BY <1>3, FS_Difference
<1>7. Cardinality(Held(t)') = Cardinality(Held(t) \ U)
  BY <1>4
<1>8. Cardinality(Held(t) \cap U) = Items[o][t]
  BY <1>2, <1>5
<1>9. Cardinality(Held(t) \ U) \in Nat
  BY <1>3, FS_Difference, FS_CardinalityType
<1> QED
  BY <1>1, <1>3, <1>6, <1>7, <1>8, <1>9

-----------------------------------------------------------------------------
(* The steps.                                                               *)

\* A report that is processed is one of Reports, of a known payment.
LEMMA ReportTypes ==
    ASSUME NEW r \in Reports
    PROVE  /\ r = <<r[1], r[2]>>
           /\ r[1] \in Payment /\ r[2] \in PayStatus
           /\ Rail[r[1]] \in Provider
           /\ PaidFor[r[1]] \in Order \cup {NoOrder}
  BY PaymentAssumption

\* An order asks for a natural number of units of each target.
LEMMA ItemsTypes ==
    ASSUME NEW o \in Order, NEW t \in Target
    PROVE  Items[o][t] \in Nat
<1>1. Items[o][t] \in 0..MaxQty /\ MaxQty \in Nat
  BY ItemsAssumption
<1> QED
  BY <1>1

\* Stock that is taken was there.
LEMMA DeductTypes ==
    ASSUME stock \in [Target -> Nat], NEW o \in Order, CanTake(o), Deduct(o)
    PROVE  stock' \in [Target -> Nat]
<1>1. \A t \in Target : stock[t] - Items[o][t] \in Nat
  BY ItemsTypes DEF CanTake
<1> QED
  BY <1>1 DEF Deduct

\* Stock that comes back adds up.
LEMMA RestoreTypes ==
    ASSUME stock \in [Target -> Nat], NEW o \in Order, Restore(o)
    PROVE  stock' \in [Target -> Nat]
<1>1. \A t \in Target : stock[t] + Items[o][t] \in Nat
  BY ItemsTypes
<1> QED
  BY <1>1 DEF Restore

\* Writing the payments row keeps its columns well typed.
LEMMA UpsertTypes ==
    ASSUME TypeOK, NEW o \in Order, NEW p \in Payment, NEW s \in PayStatus,
           UpsertPaymentRow(o, p, s)
    PROVE  /\ rowStatus' \in [Order -> RowStatus \cup {"NONE"}]
           /\ rowId' \in [Order -> Payment \cup {NoPayment}]
<1>1. RowOf(s) \in RowStatus
  BY DEF RowOf, RowStatus
<1> QED
  BY <1>1 DEF TypeOK, UpsertPaymentRow, rowVars

\* Storing an outcome keeps the event table well typed.
LEMMA RecordTypes ==
    ASSUME TypeOK, NEW p, NEW s, NEW x \in Outcomes, Record(p, s, x)
    PROVE  event' \in [Reports -> Outcomes \cup {"NONE"}]
  BY DEF TypeOK, Record

\* A report keeps the types: every branch of processPaymentUpdate.
LEMMA PaymentTypes ==
    ASSUME TypeOK, NEW r \in Reports, ProcessPaymentUpdate(r[1], r[2])
    PROVE  TypeOK'
<1> DEFINE p == r[1]
           s == r[2]
<1>1. p \in Payment /\ s \in PayStatus /\ Rail[p] \in Provider
  BY ReportTypes
<1> HIDE DEF p, s
<1>2. CASE OrderNotFound(p, s)
  <2>1. event' \in [Reports -> Outcomes \cup {"NONE"}]
    BY <1>2, RecordTypes DEF OrderNotFound, Outcomes
  <2> QED
    BY <1>2, <2>1 DEF TypeOK, OrderNotFound, orderVars, rowVars, jobVars
<1>3. ASSUME NEW o \in Order, Exists(o), ApprovedAgain(o, p)
      PROVE  TypeOK'
  <2>1. event' \in [Reports -> Outcomes \cup {"NONE"}]
    BY <1>3, RecordTypes DEF ApprovedAgain, Outcomes
  <2>2. review' \in [Order -> BOOLEAN]
    BY <1>3 DEF TypeOK, ApprovedAgain, FlagForReview
  <2> QED
    BY <1>3, <2>1, <2>2 DEF TypeOK, ApprovedAgain, rowVars, jobVars
<1>4. ASSUME NEW o \in Order, AmountMismatch(o, p) \/ OutOfStock(o, p)
      PROVE  TypeOK'
  <2>1. event' \in [Reports -> Outcomes \cup {"NONE"}]
    BY <1>4, RecordTypes DEF AmountMismatch, OutOfStock, Outcomes
  <2>2. review' \in [Order -> BOOLEAN]
    BY <1>4 DEF TypeOK, AmountMismatch, OutOfStock, FlagForReview
  <2>3. UpsertPaymentRow(o, p, "APPROVED")
    BY <1>4 DEF AmountMismatch, OutOfStock
  <2>4. /\ rowStatus' \in [Order -> RowStatus \cup {"NONE"}]
        /\ rowId' \in [Order -> Payment \cup {NoPayment}]
    BY <1>1, <2>3, UpsertTypes DEF PayStatus
  <2> QED
    BY <1>4, <2>1, <2>2, <2>4
    DEF TypeOK, AmountMismatch, OutOfStock, jobVars
<1>5. ASSUME NEW o \in Order, ConfirmPaid(o, p)
      PROVE  TypeOK'
  <2>1. event' \in [Reports -> Outcomes \cup {"NONE"}]
    BY <1>5, RecordTypes DEF ConfirmPaid, Outcomes
  <2>2. /\ rowStatus' \in [Order -> RowStatus \cup {"NONE"}]
        /\ rowId' \in [Order -> Payment \cup {NoPayment}]
    BY <1>1, <1>5, UpsertTypes DEF PayStatus, ConfirmPaid
  <2>3. stock' \in [Target -> Nat]
    BY <1>5, DeductTypes DEF TypeOK, ConfirmPaid
  <2>4. used' \in 0..MaxUses
    BY <1>5, StockAssumption DEF TypeOK, ConfirmPaid, ConsumeCoupon
  <2>5. review' \in [Order -> BOOLEAN]
    BY <1>5 DEF TypeOK, ConfirmPaid, FlagForReview
  <2>6. /\ status' \in [Order -> OrderStatus \cup {"NONE", "QUOTED"}]
        /\ deducted' \in [Order -> BOOLEAN]
        /\ via' \in [Order -> Provider \cup {NoProvider}]
        /\ logged' \in [Order -> OrderStatus \cup {"NONE"}]
    BY <1>1, <1>5 DEF TypeOK, ConfirmPaid, OrderStatus
  <2> QED
    BY <1>5, <2>1, <2>2, <2>3, <2>4, <2>5, <2>6
    DEF TypeOK, ConfirmPaid, jobVars
<1>6. ASSUME NEW o \in Order, VoidedAfterPayment(o, p)
      PROVE  TypeOK'
  <2>1. event' \in [Reports -> Outcomes \cup {"NONE"}]
    BY <1>6, RecordTypes DEF VoidedAfterPayment, Outcomes
  <2>2. /\ rowStatus' \in [Order -> RowStatus \cup {"NONE"}]
        /\ rowId' \in [Order -> Payment \cup {NoPayment}]
    BY <1>1, <1>6, UpsertTypes DEF PayStatus, VoidedAfterPayment
  <2> QED
    BY <1>6, <2>1, <2>2 DEF TypeOK, VoidedAfterPayment, FlagForReview, jobVars
<1>7. ASSUME NEW o \in Order, IgnoredOrderPaid(o, p, s)
      PROVE  TypeOK'
  <2>1. event' \in [Reports -> Outcomes \cup {"NONE"}]
    BY <1>7, RecordTypes DEF IgnoredOrderPaid, Outcomes
  <2> QED
    BY <1>7, <2>1 DEF TypeOK, IgnoredOrderPaid, orderVars, rowVars, jobVars
<1>8. ASSUME NEW o \in Order, StillUnpaid(o, p, s)
      PROVE  TypeOK'
  <2>1. event' \in [Reports -> Outcomes \cup {"NONE"}]
    BY <1>8, RecordTypes DEF StillUnpaid, Outcomes
  <2>2. /\ rowStatus' \in [Order -> RowStatus \cup {"NONE"}]
        /\ rowId' \in [Order -> Payment \cup {NoPayment}]
    BY <1>1, <1>8, UpsertTypes DEF StillUnpaid
  <2> QED
    BY <1>1, <1>8, <2>1, <2>2 DEF TypeOK, StillUnpaid, jobVars
<1>9. ProcessPaymentUpdate(p, s)
  BY DEF p, s
<1> QED
  BY <1>2, <1>3, <1>4, <1>5, <1>6, <1>7, <1>8, <1>9 DEF ProcessPaymentUpdate

\* What admins, customers and time do to one order keeps the types.
LEMMA OrderTypes ==
    ASSUME TypeOK, NEW o \in Order, OrderStep(o)
    PROVE  TypeOK'
<1>1. CASE Quote(o)
  BY <1>1 DEF TypeOK, Quote, rowVars, jobVars
<1>2. CASE CreateOrder(o)
  BY <1>2 DEF TypeOK, CreateOrder, rowVars, jobVars, OrderStatus
<1>3. ASSUME NEW to \in OrderStatus, UpdateOrderStatus(o, to)
      PROVE  TypeOK'
  <2>1. stock' \in [Target -> Nat]
    BY <1>3, DeductTypes, RestoreTypes DEF TypeOK, UpdateOrderStatus
  <2>2. /\ status' \in [Order -> OrderStatus \cup {"NONE", "QUOTED"}]
        /\ deducted' \in [Order -> BOOLEAN]
        /\ review' \in [Order -> BOOLEAN]
        /\ logged' \in [Order -> OrderStatus \cup {"NONE"}]
    BY <1>3 DEF TypeOK, UpdateOrderStatus
  <2>3. UNCHANGED <<via, age, reviewed, rowVars, event, used, jobVars, supply>>
    BY <1>3 DEF UpdateOrderStatus
  <2> QED
    BY <2>1, <2>2, <2>3 DEF TypeOK, rowVars, jobVars
<1>4. CASE ResolveReview(o)
  BY <1>4 DEF TypeOK, ResolveReview, rowVars, jobVars
<1>5. CASE MarkReviewed(o)
  BY <1>5 DEF TypeOK, MarkReviewed, rowVars, jobVars
<1>6. ASSUME NEW v \in Provider, SetProvider(o, v)
      PROVE  TypeOK'
  BY <1>6 DEF TypeOK, SetProvider, rowVars, jobVars
<1>7. CASE GrowOlder(o)
  BY <1>7, StockAssumption DEF TypeOK, GrowOlder, rowVars, jobVars
<1>8. CASE ReviewGrowsOld(o)
  BY <1>8 DEF TypeOK, ReviewGrowsOld, rowVars, jobVars
<1> QED
  BY <1>1, <1>2, <1>3, <1>4, <1>5, <1>6, <1>7, <1>8 DEF OrderStep

\* The expiry job keeps the types.
LEMMA JobTypes ==
    ASSUME TypeOK, JobStep \/ JobDies
    PROVE  TypeOK'
<1>1. CASE ExpireRead
  BY <1>1 DEF TypeOK, ExpireRead, orderVars, rowVars
<1>2. CASE ExpireUpdate
  <2>1. status' \in [Order -> OrderStatus \cup {"NONE", "QUOTED"}]
    BY <1>2 DEF TypeOK, ExpireUpdate, OrderStatus
  <2> QED
    BY <1>2, <2>1 DEF TypeOK, ExpireUpdate, rowVars
<1>3. CASE ExpireLog
  <2>1. logged' \in [Order -> OrderStatus \cup {"NONE"}]
    BY <1>3 DEF TypeOK, ExpireLog, OrderStatus
  <2> QED
    BY <1>3, <2>1 DEF TypeOK, ExpireLog, orderVars, rowVars
<1>4. CASE JobDies
  BY <1>4 DEF TypeOK, JobDies, orderVars, rowVars
<1> QED
  BY <1>1, <1>2, <1>3, <1>4 DEF JobStep

\* An admin's stock write keeps the types: what is on the shelf is part of what
\* was put on sale, so supply stays a natural number.
LEMMA SetStockTypes ==
    ASSUME Inv, NEW t \in Target, NEW n \in 0..MaxStock, SetStock(t, n)
    PROVE  TypeOK'
<1>1. n \in Nat
  BY StockAssumption
<1>2. stock[t] \in Nat /\ supply[t] \in Nat /\ Cardinality(Held(t)) \in Nat
  BY HeldFinite DEF Inv, TypeOK
<1>3. stock[t] + Cardinality(Held(t)) = supply[t]
  BY DEF Inv, StockConserved
<1>4. (supply[t] - stock[t]) + n \in Nat
  BY <1>1, <1>2, <1>3
<1> QED
  BY <1>1, <1>4 DEF Inv, TypeOK, SetStock, orderVars, rowVars, jobVars

\* Every step keeps the types.
LEMMA TypesKept ==
    ASSUME Inv, [Next]_vars
    PROVE  TypeOK'
<1> USE DEF Inv
<1>1. CASE \E o \in Order : OrderStep(o)
  BY <1>1, OrderTypes
<1>2. CASE \E r \in Reports : ProcessPaymentUpdate(r[1], r[2])
  BY <1>2, PaymentTypes
<1>3. CASE \E t \in Target, n \in 0..MaxStock : SetStock(t, n)
  BY <1>3, SetStockTypes
<1>4. CASE JobStep \/ JobDies
  BY <1>4, JobTypes
<1>5. CASE UNCHANGED vars
  BY <1>5 DEF TypeOK, vars, orderVars, rowVars, jobVars
<1> QED
  BY <1>1, <1>2, <1>3, <1>4, <1>5 DEF Next

\* Every step keeps stockDeducted in agreement with the status: a payment takes
\* stock with the confirmation, an admin with it or gives it back with the
\* closing, and the expiry job cancels only what is still open.
LEMMA AgreementKept ==
    ASSUME Inv, [Next]_vars
    PROVE  DeductedIffFulfilling'
<1> USE DEF Inv, DeductedIffFulfilling, TypeOK
<1>1. ASSUME NEW o \in Order, OrderStep(o)
      PROVE  DeductedIffFulfilling'
  <2>1. ASSUME NEW to \in OrderStatus, UpdateOrderStatus(o, to)
        PROVE  DeductedIffFulfilling'
    <3>1. /\ to \in AllowedTransitions[status[o]] /\ status[o] \in OrderStatus
          /\ status' = [status EXCEPT ![o] = to]
          /\ deducted' = [deducted EXCEPT
               ![o] = (deducted[o] \/ (to = "CONFIRMED" /\ ~deducted[o]))
                      /\ ~(Closes(to) /\ deducted[o])]
      BY <2>1 DEF UpdateOrderStatus, Exists
    <3>2. CASE to = "CONFIRMED"
      BY <3>1, <3>2 DEF Closes, Fulfilling
    <3>3. CASE Closes(to)
      BY <3>1, <3>3 DEF Closes, Fulfilling
    <3>4. CASE to \notin {"CONFIRMED"} /\ ~Closes(to)
      <4>1. to \in Fulfilling /\ status[o] \in Fulfilling
        BY <3>1, <3>4 DEF AllowedTransitions, OrderStatus, Fulfilling, Closes
      <4> QED
        BY <3>1, <3>4, <4>1
    <3> QED
      BY <3>2, <3>3, <3>4
  <2>2. CASE Quote(o)
    BY <2>2 DEF Quote, Fulfilling
  <2>3. CASE CreateOrder(o)
    BY <2>3 DEF CreateOrder, Fulfilling
  <2>4. CASE UNCHANGED <<status, deducted>>
    BY <2>4
  <2> QED
    BY <1>1, <2>1, <2>2, <2>3, <2>4
    DEF OrderStep, ResolveReview, MarkReviewed, SetProvider, GrowOlder, ReviewGrowsOld
<1>2. ASSUME NEW r \in Reports, ProcessPaymentUpdate(r[1], r[2])
      PROVE  DeductedIffFulfilling'
  <2>1. ASSUME NEW o \in Order, ConfirmPaid(o, r[1])
        PROVE  DeductedIffFulfilling'
    BY <2>1 DEF ConfirmPaid, Fulfilling
  <2>2. CASE UNCHANGED <<status, deducted>>
    BY <2>2
  <2> QED
    BY <1>2, <2>1, <2>2
    DEF ProcessPaymentUpdate, OrderNotFound, ApprovedAgain, AmountMismatch,
        OutOfStock, VoidedAfterPayment, IgnoredOrderPaid, StillUnpaid, orderVars
<1>3. CASE ExpireUpdate
  BY <1>3 DEF ExpireUpdate, StillCancels, Fulfilling
<1>4. CASE UNCHANGED <<status, deducted>>
  BY <1>4
<1> QED
  BY <1>1, <1>2, <1>3, <1>4
  DEF Next, SetStock, JobStep, ExpireRead, ExpireLog, JobDies, vars, orderVars

\* A step that moves no stock and lets no order take or give any conserves it.
LEMMA ConservedStutter ==
    ASSUME StockConserved, UNCHANGED <<stock, supply, deducted>>
    PROVE  StockConserved'
  BY DEF StockConserved, Held

\* Taking stock conserves it: the shelf loses what the order now holds.
LEMMA ConservedDeduct ==
    ASSUME Inv, NEW o \in Order, ~deducted[o], Deduct(o), UNCHANGED supply,
           deducted' = [deducted EXCEPT ![o] = TRUE]
    PROVE  StockConserved'
<1> SUFFICES ASSUME NEW t \in Target
             PROVE  (stock[t] + Cardinality(Held(t)) = supply[t])'
  BY DEF StockConserved
<1>1. /\ stock[t] \in Nat /\ Items[o][t] \in Nat
      /\ Cardinality(Held(t)) \in Nat
      /\ stock[t] + Cardinality(Held(t)) = supply[t]
  BY ItemsTypes, HeldFinite DEF Inv, TypeOK, StockConserved
<1>2. Cardinality(Held(t)') = Cardinality(Held(t)) + Items[o][t]
  BY HeldGrows DEF Inv, TypeOK
<1>3. stock'[t] = stock[t] - Items[o][t]
  BY DEF Deduct
<1> QED
  BY <1>1, <1>2, <1>3

\* Giving stock back conserves it: the shelf gains what the order held.
LEMMA ConservedRestore ==
    ASSUME Inv, NEW o \in Order, deducted[o], Restore(o), UNCHANGED supply,
           deducted' = [deducted EXCEPT ![o] = FALSE]
    PROVE  StockConserved'
<1> SUFFICES ASSUME NEW t \in Target
             PROVE  (stock[t] + Cardinality(Held(t)) = supply[t])'
  BY DEF StockConserved
<1>1. /\ stock[t] \in Nat /\ Items[o][t] \in Nat
      /\ Cardinality(Held(t)) \in Nat
      /\ stock[t] + Cardinality(Held(t)) = supply[t]
  BY ItemsTypes, HeldFinite DEF Inv, TypeOK, StockConserved
<1>2. /\ Cardinality(Held(t)') \in Nat
      /\ Cardinality(Held(t)) = Cardinality(Held(t)') + Items[o][t]
  BY HeldShrinks DEF Inv, TypeOK
<1>3. stock'[t] = stock[t] + Items[o][t]
  BY DEF Restore
<1> QED
  BY <1>1, <1>2, <1>3

\* An admin's stock write conserves stock: supply follows the shelf.
LEMMA ConservedSetStock ==
    ASSUME Inv, NEW x \in Target, NEW n \in 0..MaxStock, SetStock(x, n)
    PROVE  StockConserved'
<1> SUFFICES ASSUME NEW t \in Target
             PROVE  (stock[t] + Cardinality(Held(t)) = supply[t])'
  BY DEF StockConserved
<1>1. /\ stock[t] \in Nat /\ supply[t] \in Nat /\ n \in Nat
      /\ Cardinality(Held(t)) \in Nat
      /\ stock[t] + Cardinality(Held(t)) = supply[t]
  BY HeldFinite, StockAssumption DEF Inv, TypeOK, StockConserved
<1>2. Held(t)' = Held(t)
  BY DEF Held, SetStock, orderVars
<1>3. CASE t = x
  <2>1. stock'[t] = n /\ supply'[t] = (supply[t] - stock[t]) + n
    BY <1>3 DEF SetStock, Inv, TypeOK
  <2> QED
    BY <1>1, <1>2, <2>1
<1>4. CASE t # x
  <2>1. stock'[t] = stock[t] /\ supply'[t] = supply[t]
    BY <1>4 DEF SetStock, Inv, TypeOK
  <2> QED
    BY <1>1, <1>2, <2>1
<1> QED
  BY <1>3, <1>4

\* Every step conserves stock.
LEMMA StockKept ==
    ASSUME Inv, [Next]_vars
    PROVE  StockConserved'
<1> USE DEF Inv
<1>1. ASSUME NEW o \in Order, OrderStep(o)
      PROVE  StockConserved'
  <2>1. ASSUME NEW to \in OrderStatus, UpdateOrderStatus(o, to)
        PROVE  StockConserved'
    <3> DEFINE takes == to = "CONFIRMED" /\ ~deducted[o]
               gives == Closes(to) /\ deducted[o]
    <3>1. /\ deducted' = [deducted EXCEPT ![o] = (deducted[o] \/ takes) /\ ~gives]
          /\ deducted \in [Order -> BOOLEAN] /\ UNCHANGED supply
          /\ CASE takes -> Deduct(o)
               [] gives -> Restore(o)
               [] OTHER -> UNCHANGED stock
      BY <2>1 DEF UpdateOrderStatus, TypeOK
    <3>2. CASE takes
      <4>1. ~deducted[o] /\ Deduct(o) /\ ~gives
        BY <3>1, <3>2
      <4>2. deducted' = [deducted EXCEPT ![o] = TRUE]
        BY <3>1, <3>2, <4>1
      <4> QED
        BY <3>1, <4>1, <4>2, ConservedDeduct
    <3>3. CASE gives
      <4>1. deducted[o] /\ Restore(o) /\ ~takes
        BY <3>1, <3>3 DEF Closes
      <4>2. deducted' = [deducted EXCEPT ![o] = FALSE]
        BY <3>1, <3>3, <4>1
      <4> QED
        BY <3>1, <4>1, <4>2, ConservedRestore
    <3>4. CASE ~takes /\ ~gives
      BY <3>1, <3>4, ConservedStutter
    <3> QED
      BY <3>2, <3>3, <3>4
  <2>2. CASE UNCHANGED <<stock, supply, deducted>>
    BY <2>2, ConservedStutter
  <2> QED
    BY <1>1, <2>1, <2>2
    DEF OrderStep, Quote, CreateOrder, ResolveReview, MarkReviewed, SetProvider,
        GrowOlder, ReviewGrowsOld
<1>2. ASSUME NEW r \in Reports, ProcessPaymentUpdate(r[1], r[2])
      PROVE  StockConserved'
  <2>1. ASSUME NEW o \in Order, ConfirmPaid(o, r[1])
        PROVE  StockConserved'
    BY <2>1, ConservedDeduct DEF ConfirmPaid
  <2>2. CASE UNCHANGED <<stock, supply, deducted>>
    BY <2>2, ConservedStutter
  <2> QED
    BY <1>2, <2>1, <2>2
    DEF ProcessPaymentUpdate, OrderNotFound, ApprovedAgain, AmountMismatch,
        OutOfStock, VoidedAfterPayment, IgnoredOrderPaid, StillUnpaid, orderVars
<1>3. CASE \E t \in Target, n \in 0..MaxStock : SetStock(t, n)
  BY <1>3, ConservedSetStock
<1>4. CASE UNCHANGED <<stock, supply, deducted>>
  BY <1>4, ConservedStutter
<1> QED
  BY <1>1, <1>2, <1>3, <1>4
  DEF Next, JobStep, ExpireRead, ExpireUpdate, ExpireLog, JobDies, vars, orderVars

\* The invariant holds at the start: no order holds any unit.
LEMMA InvInit == Init => Inv
<1> SUFFICES ASSUME Init
             PROVE  Inv
  OBVIOUS
<1>1. InitStock \in [Target -> Nat]
  BY StockAssumption
<1>2. TypeOK
  BY <1>1, StockAssumption DEF Init, TypeOK
<1>3. DeductedIffFulfilling
  BY DEF Init, DeductedIffFulfilling, Fulfilling
<1>4. StockConserved
  <2> SUFFICES ASSUME NEW t \in Target
               PROVE  stock[t] + Cardinality(Held(t)) = supply[t]
    BY DEF StockConserved
  <2>1. Held(t) = {}
    BY DEF Init, Held
  <2>2. stock[t] = supply[t] /\ stock[t] \in Nat
    BY <1>1 DEF Init
  <2> QED
    BY <2>1, <2>2, FS_EmptySet
<1> QED
  BY <1>2, <1>3, <1>4 DEF Inv

\* Types, the agreement of stockDeducted with the status, and the conservation
\* of stock hold in every state of the order core.
THEOREM Invariance == Spec => []Inv
<1>1. Inv /\ [Next]_vars => Inv'
  BY TypesKept, AgreementKept, StockKept DEF Inv
<1> QED
  BY <1>1, InvInit, PTL DEF Spec

\* Every column keeps its type, however reports, admins and jobs interleave.
THEOREM TypeCorrect == Spec => []TypeOK
  BY Invariance, PTL DEF Inv

\* stockDeducted says exactly whether the order is being fulfilled.
THEOREM DeductedAgrees == Spec => []DeductedIffFulfilling
  BY Invariance, PTL DEF Inv

\* No unit of stock is lost or invented.
THEOREM NoUnitLost == Spec => []StockConserved
  BY Invariance, PTL DEF Inv

-----------------------------------------------------------------------------
(* What a step may not do.                                                  *)

\* A report never takes a completed row back to pending or failed.
LEMMA UpsertKeepsCompleted ==
    ASSUME TypeOK, NEW o \in Order, NEW x \in Order, NEW p, NEW s \in PayStatus,
           UpsertPaymentRow(o, p, s), rowStatus[x] = "COMPLETED"
    PROVE  rowStatus'[x] \in {"COMPLETED", "REFUNDED"}
<1>1. CASE KeepsRow(o, p, s)
  BY <1>1 DEF UpsertPaymentRow, rowVars
<1>2. CASE ~KeepsRow(o, p, s)
  <2>1. rowStatus' = [rowStatus EXCEPT ![o] = RowOf(s)]
    BY <1>2 DEF UpsertPaymentRow
  <2>2. CASE x # o
    BY <2>1, <2>2 DEF TypeOK
  <2>3. CASE x = o
    <3>1. rowStatus'[x] = RowOf(s)
      BY <2>1, <2>3 DEF TypeOK
    <3>2. RowOf(s) = "REFUNDED" \/ s = "APPROVED"
      BY <1>2, <2>3 DEF KeepsRow
    <3> QED
      BY <3>1, <3>2 DEF RowOf
  <2> QED
    BY <2>2, <2>3
<1> QED
  BY <1>1, <1>2

\* Late notifications never degrade a completed payment, whatever the payments
\* and their number.
THEOREM NeverDegraded == Spec => CompletedNotDegraded
<1>1. Inv /\ [Next]_vars =>
        [\A o \in Order : rowStatus[o] = "COMPLETED" =>
                           rowStatus'[o] \in {"COMPLETED", "REFUNDED"}]_vars
  <2> SUFFICES ASSUME Inv, [Next]_vars, NEW x \in Order, rowStatus[x] = "COMPLETED"
               PROVE  rowStatus'[x] \in {"COMPLETED", "REFUNDED"}
    OBVIOUS
  <2>1. ASSUME NEW r \in Reports, ProcessPaymentUpdate(r[1], r[2])
        PROVE  rowStatus'[x] \in {"COMPLETED", "REFUNDED"}
    <3>1. r[2] \in PayStatus /\ "APPROVED" \in PayStatus /\ "VOIDED" \in PayStatus
      BY ReportTypes DEF PayStatus
    <3>2. ASSUME NEW o \in Order, NEW s \in PayStatus, UpsertPaymentRow(o, r[1], s)
          PROVE  rowStatus'[x] \in {"COMPLETED", "REFUNDED"}
      BY <3>2, UpsertKeepsCompleted DEF Inv
    <3>3. CASE UNCHANGED rowStatus
      BY <3>3
    <3> QED
      BY <2>1, <3>1, <3>2, <3>3
      DEF ProcessPaymentUpdate, OrderNotFound, ApprovedAgain, AmountMismatch, OutOfStock,
          ConfirmPaid, VoidedAfterPayment, IgnoredOrderPaid, StillUnpaid, rowVars
  <2>2. CASE UNCHANGED rowStatus
    BY <2>2
  <2> QED
    BY <2>1, <2>2
    DEF Next, OrderStep, Quote, CreateOrder, UpdateOrderStatus, ResolveReview, MarkReviewed,
        SetProvider, GrowOlder, ReviewGrowsOld, SetStock, JobStep, ExpireRead,
        ExpireUpdate, ExpireLog, JobDies, vars, rowVars
<1> QED
  BY <1>1, Invariance, PTL DEF Spec, CompletedNotDegraded

\* An order moves forward, or is reopened by a payment that confirms it.
THEOREM OnlyForward == Spec => NoMoveBack
<1> DEFINE Moves(o) == \/ Progress(status'[o]) > Progress(status[o])
                       \/ /\ Closes(status[o])
                          /\ \E r \in Reports : PaidFor[r[1]] = o /\ Answered(r, "CONFIRMED")
           Forward == \A o \in Order : Exists(o) /\ status'[o] # status[o] => Moves(o)
<1>1. Inv /\ [Next]_vars => [Forward]_vars
  <2> SUFFICES ASSUME Inv, [Next]_vars, NEW o \in Order, Exists(o), status'[o] # status[o]
               PROVE  Moves(o)
    OBVIOUS
  <2> status \in [Order -> OrderStatus \cup {"NONE", "QUOTED"}] /\ status[o] \in OrderStatus
    BY DEF Inv, TypeOK, Exists
  <2>1. ASSUME NEW x \in Order, NEW to \in OrderStatus, UpdateOrderStatus(x, to)
        PROVE  Moves(o)
    <3>1. x = o /\ status'[o] = to /\ to \in AllowedTransitions[status[o]]
      BY <2>1 DEF UpdateOrderStatus
    <3>2. Progress(to) > Progress(status[o])
      BY <3>1 DEF AllowedTransitions, OrderStatus, Progress
    <3> QED
      BY <3>1, <3>2
  <2>2. ASSUME NEW r \in Reports, NEW x \in Order, PaidFor[r[1]] = x,
               r[2] = "APPROVED", ConfirmPaid(x, r[1])
        PROVE  Moves(o)
    <3>1. x = o /\ status'[o] = "CONFIRMED" /\ ~deducted[o]
      BY <2>2 DEF ConfirmPaid
    <3>2. r = <<r[1], "APPROVED">> /\ event \in [Reports -> Outcomes \cup {"NONE"}]
      BY <2>2, ReportTypes DEF Inv, TypeOK
    <3>3. Answered(r, "CONFIRMED")
      BY <2>2, <3>2 DEF ConfirmPaid, Record, Answered
    <3>4. status[o] \notin Fulfilling
      BY <3>1 DEF Inv, DeductedIffFulfilling
    <3>5. status[o] = "PENDING" \/ Closes(status[o])
      BY <3>4 DEF OrderStatus, Fulfilling, Closes
    <3>6. Progress("PENDING") = 0 /\ Progress("CONFIRMED") = 1
      BY DEF Progress
    <3> QED
      BY <2>2, <3>1, <3>3, <3>5, <3>6
  <2>3. CASE ExpireUpdate
    <3>1. status[o] = "PENDING" /\ status'[o] = "CANCELLED"
      BY <2>3 DEF ExpireUpdate, StillCancels
    <3> QED
      BY <3>1 DEF Progress
  <2>4. ASSUME NEW x \in Order, Quote(x) \/ CreateOrder(x)
        PROVE  FALSE
    <3>1. (status[x] \notin OrderStatus /\ status'[o] = status[o]) \/ x = o
      BY <2>4 DEF Quote, CreateOrder, OrderStatus
    <3> QED
      BY <2>4, <3>1 DEF Quote, CreateOrder, OrderStatus
  <2>5. ASSUME NEW r \in Reports, ProcessPaymentUpdate(r[1], r[2]), UNCHANGED status
        PROVE  FALSE
    BY <2>5
  <2>6. ASSUME NEW r \in Reports, ProcessPaymentUpdate(r[1], r[2])
        PROVE  Moves(o)
    BY <2>2, <2>5, <2>6
    DEF ProcessPaymentUpdate, OrderNotFound, ApprovedAgain, AmountMismatch, OutOfStock,
        VoidedAfterPayment, IgnoredOrderPaid, StillUnpaid, orderVars
  <2> QED
    BY <2>1, <2>3, <2>4, <2>6
    DEF Next, OrderStep, ResolveReview, MarkReviewed, SetProvider, GrowOlder,
        ReviewGrowsOld, SetStock, JobStep, ExpireRead, ExpireLog, JobDies, vars, orderVars
<1> QED
  BY <1>1, Invariance, PTL DEF Spec, NoMoveBack

-----------------------------------------------------------------------------
(* The money.                                                               *)

\* A payment confirmed the order o at some time.
WasPaid(o) == \E r \in Reports : PaidFor[r[1]] = o /\ event[r] = "CONFIRMED"

\* The payment named in the payments row of o was reported approved or annulled.
RowAnswered(o) ==
    \E s \in {"APPROVED", "VOIDED"} :
      <<rowId[o], s>> \in Reports /\ event[<<rowId[o], s>>] # "NONE"

\* An order that was paid never waits for a payment again, keeps its payments
\* row, and while it holds stock the row names a payment that was answered.
PaidOrders ==
    \A o \in Order : WasPaid(o) =>
      /\ status[o] \notin {"NONE", "QUOTED", "PENDING"}
      /\ rowStatus[o] # "NONE"
      /\ deducted[o] => RowAnswered(o)

MoneyInv == CouponCounted /\ PaidOrders

-----------------------------------------------------------------------------
(* The coupon.                                                              *)

\* The sales with the coupon are finitely many.
LEMMA SalesFinite ==
    IsFiniteSet(CouponSales) /\ Cardinality(CouponSales) \in Nat
<1>1. IsFiniteSet(PayStatus)
  <2>1. PayStatus = {"APPROVED"} \cup {"PENDING"} \cup {"DECLINED"}
                      \cup {"VOIDED"} \cup {"ERROR"}
    BY DEF PayStatus
  <2> QED
    BY <2>1, FS_Singleton, FS_Union
<1>2. IsFiniteSet(Payment \X PayStatus)
  BY <1>1, FS_Product, PaymentAssumption
<1>3. CouponSales \subseteq Payment \X PayStatus
  BY PaymentAssumption DEF CouponSales
<1> QED
  BY <1>2, <1>3, FS_Subset, FS_CardinalityType

\* A confirmation by payment is one sale more, counted up to the limit.
LEMMA CouponConfirm ==
    ASSUME Inv, CouponCounted, NEW r \in Reports, r[2] = "APPROVED",
           NEW o \in Order, PaidFor[r[1]] = o, ConfirmPaid(o, r[1])
    PROVE  CouponCounted'
<1>1. /\ r = <<r[1], "APPROVED">> /\ event[r] = "NONE"
      /\ event' = [event EXCEPT ![r] = "CONFIRMED"]
      /\ event \in [Reports -> Outcomes \cup {"NONE"}]
  BY ReportTypes DEF ConfirmPaid, Record, Inv, TypeOK
<1>2. used' = IF o \in CouponOrders /\ used < MaxUses THEN used + 1 ELSE used
  BY DEF ConfirmPaid, ConsumeCoupon
<1>3. MaxUses \in Nat /\ Cardinality(CouponSales) \in Nat
  BY StockAssumption, SalesFinite
<1>4. CASE o \in CouponOrders
  <2>1. CouponSales' = CouponSales \cup {r} /\ r \notin CouponSales
    BY <1>1, <1>4 DEF CouponSales
  <2>2. Cardinality(CouponSales)' = Cardinality(CouponSales) + 1
    BY <2>1, SalesFinite, FS_AddElement
  <2> QED
    BY <1>2, <1>3, <1>4, <2>2 DEF CouponCounted
<1>5. CASE o \notin CouponOrders
  <2>1. CouponSales' = CouponSales
    BY <1>1, <1>5 DEF CouponSales
  <2> QED
    BY <1>2, <1>5, <2>1 DEF CouponCounted
<1> QED
  BY <1>4, <1>5

\* A report with any other outcome is no sale.
LEMMA CouponOther ==
    ASSUME Inv, CouponCounted, UNCHANGED used, NEW r \in Reports,
           NEW outcome \in Outcomes \ {"CONFIRMED"}, Record(r[1], r[2], outcome)
    PROVE  CouponCounted'
<1>1. /\ r = <<r[1], r[2]>> /\ event[r] = "NONE"
      /\ event' = [event EXCEPT ![r] = outcome]
      /\ event \in [Reports -> Outcomes \cup {"NONE"}]
  BY ReportTypes DEF Record, Inv, TypeOK
<1>2. CouponSales' = CouponSales
  BY <1>1 DEF CouponSales
<1> QED
  BY <1>2 DEF CouponCounted

\* Every step counts the coupon right.
LEMMA CouponKept ==
    ASSUME Inv, CouponCounted, [Next]_vars
    PROVE  CouponCounted'
<1>1. ASSUME NEW r \in Reports, ProcessPaymentUpdate(r[1], r[2])
      PROVE  CouponCounted'
  <2>1. ASSUME NEW o \in Order, PaidFor[r[1]] = o, r[2] = "APPROVED",
               ConfirmPaid(o, r[1])
        PROVE  CouponCounted'
    BY <2>1, CouponConfirm
  <2>2. ASSUME UNCHANGED used, NEW outcome \in Outcomes \ {"CONFIRMED"},
               Record(r[1], r[2], outcome)
        PROVE  CouponCounted'
    BY <2>2, CouponOther
  <2> QED
    BY <1>1, <2>1, <2>2
    DEF ProcessPaymentUpdate, OrderNotFound, ApprovedAgain, AmountMismatch, OutOfStock,
        VoidedAfterPayment, IgnoredOrderPaid, StillUnpaid, Outcomes
<1>2. CASE UNCHANGED <<event, used>>
  BY <1>2 DEF CouponCounted, CouponSales
<1> QED
  BY <1>1, <1>2
  DEF Next, OrderStep, Quote, CreateOrder, UpdateOrderStatus, ResolveReview, MarkReviewed,
      SetProvider, GrowOlder, ReviewGrowsOld, SetStock, JobStep, ExpireRead, ExpireUpdate,
      ExpireLog, JobDies, vars

-----------------------------------------------------------------------------
(* Paid orders.                                                             *)

\* What a report leaves in payment_events: its own row, and the others as they
\* were; only the outcome CONFIRMED makes an order a paid one.
LEMMA EventGrows ==
    ASSUME Inv, NEW r \in Reports, NEW outcome \in Outcomes, Record(r[1], r[2], outcome)
    PROVE  /\ event'[r] = outcome /\ event[r] = "NONE"
           /\ \A x \in Reports : x # r => event'[x] = event[x]
           /\ \A x \in Reports : event[x] # "NONE" => event'[x] # "NONE"
           /\ outcome # "CONFIRMED" => \A o \in Order : WasPaid(o)' => WasPaid(o)
<1>1. /\ r = <<r[1], r[2]>> /\ event[r] = "NONE"
      /\ event' = [event EXCEPT ![r] = outcome]
      /\ event \in [Reports -> Outcomes \cup {"NONE"}]
  BY ReportTypes DEF Record, Inv, TypeOK
<1>2. event'[r] = outcome /\ \A x \in Reports : x # r => event'[x] = event[x]
  BY <1>1
<1>3. outcome # "NONE"
  BY DEF Outcomes
<1> QED
  BY <1>1, <1>2, <1>3 DEF WasPaid

\* A confirmation records the payment as the order's completed one.
LEMMA ConfirmRow ==
    ASSUME Inv, NEW o \in Order, NEW p \in Payment, ConfirmPaid(o, p)
    PROVE  /\ status'[o] = "CONFIRMED" /\ rowStatus'[o] = "COMPLETED" /\ rowId'[o] = p
           /\ \A x \in Order : x # o => /\ status'[x] = status[x]
                                        /\ deducted'[x] = deducted[x]
                                        /\ rowStatus'[x] = rowStatus[x]
                                        /\ rowId'[x] = rowId[x]
<1>1. /\ status' = [status EXCEPT ![o] = "CONFIRMED"]
      /\ deducted' = [deducted EXCEPT ![o] = TRUE]
      /\ UpsertPaymentRow(o, p, "APPROVED") /\ TypeOK
  BY DEF ConfirmPaid, Inv
<1>2. RowOf("APPROVED") = "COMPLETED"
  BY DEF RowOf
<1>3. CASE KeepsRow(o, p, "APPROVED")
  <2>1. rowStatus[o] = "COMPLETED" /\ rowId[o] = p
    BY <1>3 DEF KeepsRow
  <2> QED
    BY <1>1, <1>3, <2>1 DEF UpsertPaymentRow, rowVars, TypeOK
<1>4. CASE ~KeepsRow(o, p, "APPROVED")
  BY <1>1, <1>2, <1>4 DEF UpsertPaymentRow, TypeOK
<1> QED
  BY <1>3, <1>4

\* A payments row that exists goes on existing, and the rows of other orders
\* are left alone.
LEMMA UpsertRow ==
    ASSUME Inv, NEW o \in Order, NEW p \in Payment, NEW s \in PayStatus,
           UpsertPaymentRow(o, p, s)
    PROVE  /\ \A x \in Order : rowStatus[x] # "NONE" => rowStatus'[x] # "NONE"
           /\ \A x \in Order : x # o => rowId'[x] = rowId[x]
           /\ rowId'[o] \in {rowId[o], p}
<1>1. RowOf(s) # "NONE"
  BY DEF RowOf
<1> QED
  BY <1>1 DEF UpsertPaymentRow, rowVars, Inv, TypeOK

\* A report leaves the facts about paid orders true.
LEMMA PaidReport ==
    ASSUME Inv, PaidOrders, NEW r \in Reports, ProcessPaymentUpdate(r[1], r[2])
    PROVE  PaidOrders'
<1> SUFFICES ASSUME NEW x \in Order, WasPaid(x)'
             PROVE  /\ status'[x] \notin {"NONE", "QUOTED", "PENDING"}
                    /\ rowStatus'[x] # "NONE"
                    /\ deducted'[x] => RowAnswered(x)'
  BY DEF PaidOrders
<1> DEFINE p == r[1]
<1>1. /\ r = <<p, r[2]>> /\ p \in Payment /\ r[2] \in PayStatus
      /\ "APPROVED" \in PayStatus /\ "VOIDED" \in PayStatus
  BY ReportTypes DEF PayStatus
<1>2. ASSUME NEW o \in Order, r[2] = "APPROVED", PaidFor[p] = o, ConfirmPaid(o, p)
      PROVE  /\ status'[x] \notin {"NONE", "QUOTED", "PENDING"}
             /\ rowStatus'[x] # "NONE"
             /\ deducted'[x] => RowAnswered(x)'
  <2>1. Record(p, r[2], "CONFIRMED") /\ "CONFIRMED" \in Outcomes
    BY <1>2 DEF ConfirmPaid, Outcomes
  <2>2. /\ event'[r] = "CONFIRMED"
        /\ \A y \in Reports : y # r => event'[y] = event[y]
        /\ \A y \in Reports : event[y] # "NONE" => event'[y] # "NONE"
    BY <2>1, EventGrows
  <2>3. CASE x = o
    <3>1. status'[x] = "CONFIRMED" /\ rowStatus'[x] = "COMPLETED" /\ rowId'[x] = p
      BY <1>1, <1>2, <2>3, ConfirmRow
    <3>2. <<rowId'[x], "APPROVED">> = r
      BY <1>1, <1>2, <3>1
    <3>3. RowAnswered(x)'
      BY <2>2, <3>2 DEF RowAnswered
    <3> QED
      BY <3>1, <3>3
  <2>4. CASE x # o
    <3>1. WasPaid(x)
      BY <1>2, <2>2, <2>4 DEF WasPaid
    <3>2. /\ status'[x] = status[x] /\ deducted'[x] = deducted[x]
          /\ rowStatus'[x] = rowStatus[x] /\ rowId'[x] = rowId[x]
      BY <1>1, <1>2, <2>4, ConfirmRow
    <3> QED
      BY <2>2, <3>1, <3>2 DEF PaidOrders, RowAnswered
  <2> QED
    BY <2>3, <2>4
<1>3. ASSUME NEW outcome \in Outcomes \ {"CONFIRMED"}, Record(p, r[2], outcome),
             UNCHANGED status, UNCHANGED deducted,
             \/ UNCHANGED rowVars
             \/ \E o \in Order : /\ UpsertPaymentRow(o, p, r[2])
                                 /\ r[2] \in {"APPROVED", "VOIDED"} \/ ~deducted[o]
      PROVE  /\ status'[x] \notin {"NONE", "QUOTED", "PENDING"}
             /\ rowStatus'[x] # "NONE"
             /\ deducted'[x] => RowAnswered(x)'
  <2>1. /\ WasPaid(x) /\ event'[r] # "NONE"
        /\ \A y \in Reports : event[y] # "NONE" => event'[y] # "NONE"
    BY <1>3, EventGrows DEF Outcomes
  <2>2. CASE UNCHANGED rowVars
    BY <1>3, <2>1, <2>2 DEF PaidOrders, RowAnswered, rowVars
  <2>3. ASSUME NEW o \in Order, UpsertPaymentRow(o, p, r[2]),
               r[2] \in {"APPROVED", "VOIDED"} \/ ~deducted[o]
        PROVE  /\ status'[x] \notin {"NONE", "QUOTED", "PENDING"}
               /\ rowStatus'[x] # "NONE"
               /\ deducted'[x] => RowAnswered(x)'
    <3>1. /\ rowStatus[x] # "NONE" => rowStatus'[x] # "NONE"
          /\ x # o => rowId'[x] = rowId[x]
          /\ rowId'[o] \in {rowId[o], p}
      BY <1>1, <2>3, UpsertRow
    <3>2. CASE rowId'[x] = rowId[x]
      BY <1>3, <2>1, <3>1, <3>2 DEF PaidOrders, RowAnswered
    <3>3. CASE x = o /\ rowId'[x] = p
      <4>1. r[2] \in {"APPROVED", "VOIDED"} => RowAnswered(x)'
        BY <1>1, <2>1, <3>3 DEF RowAnswered
      <4> QED
        BY <1>3, <2>1, <2>3, <3>1, <3>3, <4>1 DEF PaidOrders
    <3> QED
      BY <3>1, <3>2, <3>3
  <2> QED
    BY <1>3, <2>2, <2>3
<1>4. ASSUME NEW o \in Order, PaidFor[p] = o,
             ~ConfirmPaid(o, p) \/ r[2] # "APPROVED",
             \/ /\ r[2] = "APPROVED"
                /\ ApprovedAgain(o, p) \/ AmountMismatch(o, p) \/ OutOfStock(o, p)
             \/ r[2] = "VOIDED" /\ VoidedAfterPayment(o, p)
             \/ IgnoredOrderPaid(o, p, r[2])
             \/ StillUnpaid(o, p, r[2])
      PROVE  \E outcome \in Outcomes \ {"CONFIRMED"} :
               /\ Record(p, r[2], outcome)
               /\ UNCHANGED status /\ UNCHANGED deducted
               /\ \/ UNCHANGED rowVars
                  \/ \E y \in Order : /\ UpsertPaymentRow(y, p, r[2])
                                      /\ r[2] \in {"APPROVED", "VOIDED"} \/ ~deducted[y]
  BY <1>4 DEF ApprovedAgain, AmountMismatch, OutOfStock, VoidedAfterPayment,
              IgnoredOrderPaid, StillUnpaid, Outcomes, orderVars
<1>5. CASE OrderNotFound(p, r[2])
  <2>1. /\ Record(p, r[2], "ORDER_NOT_FOUND") /\ UNCHANGED status /\ UNCHANGED deducted
        /\ UNCHANGED rowVars /\ "ORDER_NOT_FOUND" \in Outcomes \ {"CONFIRMED"}
    BY <1>5 DEF OrderNotFound, orderVars, Outcomes
  <2> QED
    BY <1>3, <2>1
<1> QED
  BY <1>2, <1>3, <1>4, <1>5 DEF ProcessPaymentUpdate

\* So does an admin: only a pending order takes stock by hand.
LEMMA PaidStatus ==
    ASSUME Inv, PaidOrders, NEW o \in Order, NEW to \in OrderStatus,
           UpdateOrderStatus(o, to)
    PROVE  PaidOrders'
<1>1. /\ to \in AllowedTransitions[status[o]] /\ status[o] \in OrderStatus
      /\ status' = [status EXCEPT ![o] = to]
      /\ UNCHANGED rowStatus /\ UNCHANGED rowId /\ UNCHANGED event
      /\ status \in [Order -> OrderStatus \cup {"NONE", "QUOTED"}]
      /\ deducted \in [Order -> BOOLEAN]
  BY DEF UpdateOrderStatus, Exists, rowVars, Inv, TypeOK
<1>2. to # "PENDING" /\ to \notin {"NONE", "QUOTED"}
  BY <1>1 DEF AllowedTransitions, OrderStatus
<1>3. to = "CONFIRMED" => status[o] = "PENDING"
  BY <1>1 DEF AllowedTransitions, OrderStatus
<1>4. \A x \in Order : deducted'[x] => deducted[x] \/ (x = o /\ to = "CONFIRMED")
  BY <1>1 DEF UpdateOrderStatus
<1>5. \A x \in Order : status'[x] = status[x] \/ (x = o /\ status'[x] = to)
  BY <1>1
<1>6. \A x \in Order : WasPaid(x)' => WasPaid(x)
  BY <1>1 DEF WasPaid
<1>7. \A x \in Order : RowAnswered(x) => RowAnswered(x)'
  BY <1>1 DEF RowAnswered
<1> QED
  BY <1>1, <1>2, <1>3, <1>4, <1>5, <1>6, <1>7 DEF PaidOrders

\* Every step leaves the facts about paid orders true.
LEMMA PaidKept ==
    ASSUME Inv, PaidOrders, [Next]_vars
    PROVE  PaidOrders'
<1>1. CASE UNCHANGED <<status, deducted, rowVars, event>>
  BY <1>1 DEF PaidOrders, WasPaid, RowAnswered, rowVars
<1>2. ASSUME UNCHANGED <<deducted, rowVars, event>>,
             status \in [Order -> OrderStatus \cup {"NONE", "QUOTED"}],
             \A x \in Order : \/ status'[x] = status[x]
                              \/ status[x] \in {"NONE", "QUOTED"}
                              \/ status'[x] = "CANCELLED"
      PROVE  PaidOrders'
  BY <1>2 DEF PaidOrders, WasPaid, RowAnswered, rowVars
<1>3. status \in [Order -> OrderStatus \cup {"NONE", "QUOTED"}]
  BY DEF Inv, TypeOK
<1>4. ASSUME NEW o \in Order, Quote(o) \/ CreateOrder(o)
      PROVE  PaidOrders'
  BY <1>2, <1>3, <1>4 DEF Quote, CreateOrder
<1>5. CASE ExpireUpdate
  BY <1>2, <1>3, <1>5 DEF ExpireUpdate
<1> QED
  BY <1>1, <1>4, <1>5, PaidReport, PaidStatus
  DEF Next, OrderStep, ResolveReview, MarkReviewed, SetProvider, GrowOlder, ReviewGrowsOld,
      SetStock, JobStep, ExpireRead, ExpireLog, JobDies, vars, orderVars

-----------------------------------------------------------------------------
(* The theorems.                                                            *)

\* At the start nothing was sold and nobody has paid.
LEMMA MoneyInit == Init => MoneyInv
<1> SUFFICES ASSUME Init
             PROVE  MoneyInv
  OBVIOUS
<1>1. \A r \in Reports : event[r] = "NONE"
  BY DEF Init
<1>2. CouponSales = {}
  BY <1>1 DEF CouponSales
<1>3. CouponCounted
  BY <1>2, FS_EmptySet, StockAssumption DEF CouponCounted, Init
<1>4. PaidOrders
  BY <1>1 DEF PaidOrders, WasPaid
<1> QED
  BY <1>3, <1>4 DEF MoneyInv

\* What the events say of coupon and orders holds in every state.
THEOREM MoneyInvariance == Spec => []MoneyInv
<1>1. Inv /\ MoneyInv /\ [Next]_vars => MoneyInv'
  BY CouponKept, PaidKept DEF MoneyInv
<1> QED
  BY <1>1, MoneyInit, Invariance, PTL DEF Spec

\* The coupon counts each sale once and stops at its limit, for any orders.
THEOREM CouponExact == Spec => []CouponCounted
  BY MoneyInvariance, PTL DEF MoneyInv

\* No approved payment is passed over: it confirms its order and is recorded,
\* or the order is flagged, for any orders, payments and order of reports.
THEOREM NoMoneyIgnored == Spec => ApprovalAnswered
<1>1. Inv /\ MoneyInv /\ [Next]_vars => [\A r \in Reports : ApprovalDue(r) => ApprovalTaken(r)]_vars
  <2> SUFFICES ASSUME Inv, PaidOrders, [Next]_vars, NEW r \in Reports, ApprovalDue(r)
               PROVE  ApprovalTaken(r)
    BY DEF MoneyInv
  <2> DEFINE p == r[1]
             o == PaidFor[p]
  <2>1. r = <<p, "APPROVED">> /\ p \in Payment /\ o \in Order
    BY ReportTypes DEF ApprovalDue
  <2>2. /\ event[r] = "NONE" /\ event'[r] # "NONE"
        /\ deducted[o] => PaidByOther(o, p)
        /\ \A x \in Reports : x = <<p, "VOIDED">> => event[x] = "NONE"
    BY DEF ApprovalDue
  <2>3. ProcessPaymentUpdate(p, "APPROVED")
    <3>1. ASSUME NEW x \in Reports, ProcessPaymentUpdate(x[1], x[2])
          PROVE  x = r
      <4>1. \E outcome \in Outcomes : Record(x[1], x[2], outcome)
        BY <3>1
        DEF ProcessPaymentUpdate, OrderNotFound, ApprovedAgain, AmountMismatch, OutOfStock,
            ConfirmPaid, VoidedAfterPayment, IgnoredOrderPaid, StillUnpaid, Outcomes
      <4> QED
        BY <2>2, <4>1, EventGrows
    <3>2. ASSUME UNCHANGED event
          PROVE  FALSE
      BY <2>2, <3>2
    <3>3. \E x \in Reports : ProcessPaymentUpdate(x[1], x[2])
      BY <3>2
      DEF Next, OrderStep, Quote, CreateOrder, UpdateOrderStatus, ResolveReview, MarkReviewed,
          SetProvider, GrowOlder, ReviewGrowsOld, SetStock, JobStep, ExpireRead, ExpireUpdate,
          ExpireLog, JobDies, vars
    <3> QED
      BY <2>1, <3>1, <3>3
  <2>4. review \in [Order -> BOOLEAN]
    BY DEF Inv, TypeOK
  <2>5. CASE ConfirmPaid(o, p)
    BY <2>1, <2>5, ConfirmRow DEF ApprovalTaken
  <2>6. CASE AmountMismatch(o, p) \/ OutOfStock(o, p)
    BY <2>1, <2>4, <2>6 DEF AmountMismatch, OutOfStock, FlagForReview, ApprovalTaken
  <2>7. CASE ApprovedAgain(o, p)
    <3>1. deducted[o] /\ WasPaid(o)
      BY <2>2, <2>7 DEF ApprovedAgain, PaidByOther, WasPaid
    <3>2. rowStatus[o] # "NONE" /\ RowAnswered(o)
      BY <2>1, <3>1 DEF PaidOrders
    <3>3. rowId[o] # p
      BY <2>1, <2>2, <3>2 DEF RowAnswered
    <3> QED
      BY <2>1, <2>4, <2>7, <3>2, <3>3 DEF ApprovedAgain, FlagForReview, ApprovalTaken
  <2>8. ~OrderNotFound(p, "APPROVED")
    BY <2>1, OrderAssumption DEF OrderNotFound
  <2>9. ~IgnoredOrderPaid(o, p, "APPROVED") /\ ~StillUnpaid(o, p, "APPROVED")
    BY DEF IgnoredOrderPaid, StillUnpaid
  <2> QED
    BY <2>3, <2>5, <2>6, <2>7, <2>8, <2>9 DEF ProcessPaymentUpdate
<1> QED
  BY <1>1, Invariance, MoneyInvariance, PTL DEF Spec, ApprovalAnswered

-----------------------------------------------------------------------------
(* The dashboard.                                                           *)

\* Of all time, what counts as sold is what holds stock.
LEMMA SalesHoldStock ==
    ASSUME Inv
    PROVE  Sales(2) = {o \in Order : deducted[o]}
<1>1. \A o \in Order : age[o] <= 2
  BY DEF Inv, TypeOK
<1>2. \A o \in Order : deducted[o] <=> status[o] \in Paid
  BY DEF Inv, DeductedIffFulfilling, Fulfilling, Paid
<1> QED
  BY <1>1, <1>2 DEF Sales

LEMMA UnitsSoldAreHeld ==
    ASSUME Inv, NEW t
    PROVE  UnitsSold(2, t) = Held(t)
  BY SalesHoldStock DEF UnitsSold, Held

\* An order of the revenue has one day, and no other has any.
LEMMA OneBucket ==
    ASSUME Inv, NEW o \in Order
    PROVE  o \in Overview.revenue <=>
             Cardinality({day \in 0..2 : o \in SalesSeries(2)[day]}) = 1
<1> DEFINE D == {day \in 0..2 : o \in SalesSeries(2)[day]}
<1>1. age[o] \in 0..2
  BY DEF Inv, TypeOK
<1>2. D = {day \in 0..2 : o \in Sales(2) /\ age[o] = day}
  BY DEF SalesSeries
<1>3. Overview.revenue = Sales(2)
  BY DEF Overview
<1>4. CASE o \in Sales(2)
  <2>1. D = {age[o]}
    BY <1>1, <1>2, <1>4
  <2>2. Cardinality(D) = 1
    BY <2>1, FS_Singleton
  <2> QED
    BY <1>3, <1>4, <2>2
<1>5. CASE o \notin Sales(2)
  <2>1. D = {}
    BY <1>2, <1>5
  <2>2. Cardinality(D) = 0
    BY <2>1, FS_EmptySet
  <2> QED
    BY <1>3, <1>5, <2>2
<1> QED
  BY <1>4, <1>5

\* Every unit sold of a product with a category is in the figure of that
\* category, and nothing else is in any.
LEMMA CategoriesShare ==
    UNION {SalesByCategory(2)[c] : c \in DOMAIN SalesByCategory(2)} =
    UNION {UnitsSold(2, t) \X {t} : t \in {x \in Target : CategoryOf[x] # NoCategory}}
<1> DEFINE C == {CategoryOf[t] : t \in DOMAIN TopProducts(2)} \ {NoCategory}
           Share(c) == UNION {UnitsSold(2, t) \X {t} : t \in {x \in Target : CategoryOf[x] = c}}
           Sold(t) == UnitsSold(2, t) \X {t}
<1>1. DOMAIN SalesByCategory(2) = C /\ \A c \in C : SalesByCategory(2)[c] = Share(c)
  BY DEF SalesByCategory
<1>2. DOMAIN TopProducts(2) = {x \in Target : UnitsSold(2, x) # {}}
  BY DEF TopProducts
<1>3. \A t \in Target : \A u : u \in Sold(t) /\ CategoryOf[t] # NoCategory =>
          CategoryOf[t] \in C /\ u \in Share(CategoryOf[t])
  <2> SUFFICES ASSUME NEW t \in Target, NEW u, u \in Sold(t), CategoryOf[t] # NoCategory
               PROVE  CategoryOf[t] \in C /\ u \in Share(CategoryOf[t])
    OBVIOUS
  <2>1. t \in DOMAIN TopProducts(2)
    BY <1>2
  <2> QED
    BY <2>1
<1>4. \A c \in C : \A u : u \in Share(c) =>
          \E t \in Target : CategoryOf[t] # NoCategory /\ u \in Sold(t)
  OBVIOUS
<1> HIDE DEF C, Share
<1> QED
  BY <1>1, <1>3, <1>4

\* The figures of the dashboard agree with the stock and with each other, for
\* any orders, quantities and products (dashboard.service.js).
THEOREM FiguresAlwaysAgree == Spec => []FiguresAgree
<1>1. Inv => FiguresAgree
  <2> SUFFICES ASSUME Inv PROVE FiguresAgree
    OBVIOUS
  <2>1. UnitsAgree
    BY UnitsSoldAreHeld DEF UnitsAgree, Inv, StockConserved
  <2> QED
    BY <2>1, OneBucket, CategoriesShare DEF FiguresAgree
<1> QED
  BY <1>1, Invariance, PTL

-----------------------------------------------------------------------------
(* Checkout: the handlers and the providers.                                *)

\* What the bank handlers hold between their steps are bank proofs.
DeskOK ==
    /\ \A p \in Payment : upload[p] # "no" => p \in Proofs /\ PaidFor[p] \in Order
    /\ \A o \in Order : proof[o] # NoPayment => proof[o] \in Proofs
    /\ \A w \in reviews : w.proof \in Proofs

CheckoutInv == CheckoutTypeOK /\ DeskOK

-----------------------------------------------------------------------------
(* The handlers' own state.                                                 *)

\* At the start no handler is under way.
LEMMA CheckoutInvInit == CheckoutInit => CheckoutInv
  BY DEF CheckoutInit, CheckoutInv, CheckoutTypeOK, DeskOK

\* Every step keeps the handlers' state in its types.
LEMMA CheckoutInvKept ==
    ASSUME CheckoutInv, [CheckoutNext]_allVars
    PROVE  CheckoutInv'
<1> USE DEF CheckoutInv, CheckoutTypeOK, DeskOK
<1>1. CASE UNCHANGED shop
  BY <1>1 DEF shop, desk
<1>2. ASSUME NEW o \in Order, NEW v \in Provider, OpenCheckout(o, v)
      PROVE  CheckoutInv'
  BY <1>2 DEF OpenCheckout, desk
<1>3. ASSUME NEW o \in Order, NEW v, Chosen(o, v),
             links' = links \cup {<<o, v>>} \/ UNCHANGED links
      PROVE  CheckoutInv'
  <2>1. <<o, v>> \in Order \X Provider
    BY <1>3 DEF Chosen
  <2> QED
    BY <1>3, <2>1 DEF Chosen, desk
<1>4. ASSUME NEW p \in Payment, Pay(p)
      PROVE  CheckoutInv'
  BY <1>4 DEF Pay, desk
<1>5. ASSUME NEW p \in Payment, NEW c \in {"approved", "declined", "failed", "cancelled", "refunded"},
             Settle(p, c)
      PROVE  CheckoutInv'
  BY <1>5 DEF Settle, desk
<1>6. ASSUME NEW p \in Payment, UploadLoad(p) \/ UploadStore(p) \/ UploadReport(p)
      PROVE  CheckoutInv'
  BY <1>6 DEF UploadLoad, UploadStore, UploadReport
<1>7. ASSUME NEW o \in Order, NEW approve \in BOOLEAN, ReviewRead(o, approve)
      PROVE  CheckoutInv'
  <2> DEFINE w == [order |-> o, proof |-> proof[o], approve |-> approve, step |-> "read"]
  <2>1. proof[o] \in Proofs /\ Proofs \subseteq Payment
    BY <1>7 DEF ReviewRead, Reviewable, Proofs
  <2>2. w \in Review /\ w.proof \in Proofs
    BY <2>1 DEF Review
  <2>3. reviews' = reviews \cup {w} /\ UNCHANGED <<charge, visits, links, upload, proof>>
    BY <1>7 DEF ReviewRead
  <2> HIDE DEF w
  <2> QED
    BY <2>2, <2>3
<1>8. ASSUME NEW w \in reviews, ReviewProcess(w)
      PROVE  CheckoutInv'
  <2> DEFINE z == [w EXCEPT !.step = "processed"]
  <2>1. z \in Review /\ z.proof \in Proofs
    BY DEF Review
  <2>2. /\ reviews' = (reviews \ {w}) \cup {z}
        /\ UNCHANGED <<charge, visits, links, upload, proof>>
    BY <1>8 DEF ReviewProcess
  <2> HIDE DEF z
  <2> QED
    BY <2>1, <2>2
<1>9. ASSUME NEW w \in reviews, ReviewFinish(w)
      PROVE  CheckoutInv'
  BY <1>9 DEF ReviewFinish
<1> QED
  BY <1>1, <1>2, <1>3, <1>4, <1>5, <1>6, <1>7, <1>8, <1>9
  DEF CheckoutNext, Core, HandOut, WompiCheckout, CreatePreference, AddiCheckout,
      StartTransfer, WompiWebhook, MercadoPagoWebhook, AddiCallback, Verify, Deliver,
      allVars

\* What the handlers hold keeps its types.
LEMMA CheckoutInvariance == CheckoutSpec => []CheckoutInv
  BY CheckoutInvInit, CheckoutInvKept, PTL DEF CheckoutSpec

-----------------------------------------------------------------------------
(* Checkout implements the order core.                                      *)

\* Every step of a handler or of a provider is a step of the core, or none.
LEMMA CheckoutStep ==
    ASSUME CheckoutInv, [CheckoutNext]_allVars
    PROVE  [Next]_vars
<1>1. CASE Core
  BY <1>1 DEF Core, Next, OrderStep
<1>2. ASSUME NEW o \in Order, NEW v, Chosen(o, v)
      PROVE  [Next]_vars
  <2>1. v \in Provider
    BY <1>2 DEF Chosen, CheckoutInv, CheckoutTypeOK
  <2> QED
    BY <1>2, <2>1 DEF Chosen, Next, OrderStep
<1>3. ASSUME NEW p \in Payment, Deliver(p)
      PROVE  [Next]_vars
  <2>1. PICK c \in Passed(p) : /\ <<p, MapStatus(c)>> \in Reports
                              /\ ProcessPaymentUpdate(p, MapStatus(c))
    BY <1>3 DEF Deliver
  <2>2. \E r \in Reports : ProcessPaymentUpdate(r[1], r[2])
    BY <2>1
  <2> QED
    BY <2>2 DEF Next
<1>4. ASSUME NEW p \in Payment, UploadStore(p)
      PROVE  [Next]_vars
  <2>1. PaidFor[p] \in Order /\ "BANK_TRANSFER" \in Provider
    BY <1>4, PaymentAssumption DEF UploadStore, CheckoutInv, DeskOK, Proofs
  <2> QED
    BY <1>4, <2>1 DEF UploadStore, Next, OrderStep
<1>5. ASSUME NEW p \in Payment, UploadReport(p)
      PROVE  [Next]_vars
  <2>1. \E r \in Reports : ProcessPaymentUpdate(r[1], r[2])
    BY <1>5 DEF UploadReport
  <2> QED
    BY <2>1 DEF Next
<1>6. ASSUME NEW w \in reviews, ReviewProcess(w)
      PROVE  [Next]_vars
  <2>1. UNCHANGED vars \/ \E r \in Reports : ProcessPaymentUpdate(r[1], r[2])
    BY <1>6 DEF ReviewProcess
  <2> QED
    BY <2>1 DEF Next
<1>7. ASSUME NEW w \in reviews, ReviewFinish(w)
      PROVE  [Next]_vars
  <2>1. w.order \in Order
    BY DEF CheckoutInv, CheckoutTypeOK, Review
  <2> QED
    BY <1>7, <2>1 DEF ReviewFinish, Next, OrderStep
<1> QED
  BY <1>1, <1>2, <1>3, <1>4, <1>5, <1>6, <1>7
  DEF CheckoutNext, OpenCheckout, HandOut, WompiCheckout, CreatePreference, AddiCheckout,
      StartTransfer, Pay, Settle, WompiWebhook, MercadoPagoWebhook, AddiCallback, Verify,
      UploadLoad, ReviewRead, allVars

\* With its handlers and providers the system does what the order core allows.
THEOREM CheckoutImplementsOrders == CheckoutSpec => Spec
<1>1. CheckoutInit => Init
  BY DEF CheckoutInit
<1> QED
  BY <1>1, CheckoutInvariance, CheckoutStep, PTL DEF CheckoutSpec, Spec

-----------------------------------------------------------------------------
(* Payments and refunds are real.                                           *)

\* The provider has taken the money of p, or an admin approved its bank proof.
Backed(p) ==
    /\ p \in Payment
    /\ \/ charge[p] \in {"approved", "refunded"}
       \/ p \in Proofs /\ \E r \in Reports : r = <<p, "APPROVED">> /\ event[r] # "NONE"

\* What the COMPLETED rows name was paid.
RowsBacked == \A o \in Order : rowStatus[o] = "COMPLETED" => Backed(rowId[o])

\* What the REFUNDED rows name was refunded, and no charge was cancelled.
RowsRefunded ==
    /\ \A p \in Payment : charge[p] # "cancelled"
    /\ \A o \in Order : rowStatus[o] = "REFUNDED" =>
                         rowId[o] \in Payment /\ charge[rowId[o]] = "refunded"

\* A step either leaves the rows and the events alone, and flags no order, or
\* processes a report:
\* an approval of money that was taken, an annulment of a charge that fell.
LEMMA WhatIsReported ==
    ASSUME TypeOK, CheckoutInv, [CheckoutNext]_allVars
    PROVE  \/ /\ UNCHANGED <<rowVars, event>>
              /\ \A o \in Order : review'[o] => review[o]
           \/ \E r \in Reports :
                /\ ProcessPaymentUpdate(r[1], r[2])
                /\ UNCHANGED charge
                /\ r[2] = "APPROVED" => \/ charge[r[1]] \in {"approved", "refunded"}
                                        \/ r[1] \in Proofs
                /\ r[2] = "VOIDED" => charge[r[1]] \in {"cancelled", "refunded"}
<1> DEFINE Quiet == /\ UNCHANGED <<rowVars, event>>
                    /\ \A o \in Order : review'[o] => review[o]
           Heard == \E r \in Reports :
                      /\ ProcessPaymentUpdate(r[1], r[2])
                      /\ UNCHANGED charge
                      /\ r[2] = "APPROVED" => \/ charge[r[1]] \in {"approved", "refunded"}
                                              \/ r[1] \in Proofs
                      /\ r[2] = "VOIDED" => charge[r[1]] \in {"cancelled", "refunded"}
<1> SUFFICES Quiet \/ Heard
  OBVIOUS
<1>1. ASSUME NEW p \in Payment, Deliver(p)
      PROVE  Heard
  <2>1. PICK c \in Passed(p) : /\ <<p, MapStatus(c)>> \in Reports
                              /\ ProcessPaymentUpdate(p, MapStatus(c))
    BY <1>1 DEF Deliver
  <2>2. /\ MapStatus(c) = "APPROVED" => charge[p] \in {"approved", "refunded"}
        /\ MapStatus(c) = "VOIDED" => charge[p] \in {"cancelled", "refunded"}
    BY DEF MapStatus, Passed, CheckoutInv, CheckoutTypeOK
  <2>3. UNCHANGED charge
    BY <1>1 DEF Deliver, shop
  <2> QED
    BY <2>1, <2>2, <2>3
<1>2. ASSUME NEW p \in Payment, UploadReport(p)
      PROVE  Heard
  <2>1. /\ <<p, "PENDING">> \in Reports /\ ProcessPaymentUpdate(p, "PENDING")
        /\ UNCHANGED charge
    BY <1>2 DEF UploadReport
  <2> QED
    BY <2>1
<1>3. ASSUME NEW w \in reviews, ReviewProcess(w)
      PROVE  Quiet \/ Heard
  <2> DEFINE s == IF w.approve THEN "APPROVED" ELSE "DECLINED"
  <2>1. w.proof \in Proofs /\ s # "VOIDED"
    BY DEF CheckoutInv, DeskOK
  <2>2. /\ <<w.proof, s>> \in Reports /\ UNCHANGED charge
        /\ ProcessPaymentUpdate(w.proof, s) \/ UNCHANGED vars
    BY <1>3 DEF ReviewProcess
  <2>3. CASE UNCHANGED vars
    BY <2>3 DEF vars, orderVars
  <2>4. CASE ProcessPaymentUpdate(w.proof, s)
    BY <2>1, <2>2, <2>4
  <2> QED
    BY <2>2, <2>3, <2>4
<1>4. CASE Core
  <2>1. ASSUME NEW o \in Order, ResolveReview(o)
        PROVE  Quiet
    BY <2>1 DEF ResolveReview, TypeOK
  <2>2. UNCHANGED <<rowVars, event, review>> => Quiet
    OBVIOUS
  <2>3. ASSUME NEW o \in Order,
               Quote(o) \/ CreateOrder(o) \/ GrowOlder(o) \/ ReviewGrowsOld(o)
        PROVE  UNCHANGED <<rowVars, event, review>>
    BY <2>3 DEF Quote, CreateOrder, GrowOlder, ReviewGrowsOld, orderVars
  <2>4. ASSUME (\E t \in Target, n \in 0..MaxStock : SetStock(t, n)) \/ JobStep \/ JobDies
        PROVE  UNCHANGED <<rowVars, event, review>>
    BY <2>4 DEF SetStock, JobStep, ExpireRead, ExpireUpdate, ExpireLog, JobDies, orderVars
  <2>5. ASSUME NEW o \in Order, NEW to \in OrderStatus, UpdateOrderStatus(o, to)
        PROVE  Quiet
    <3>1. /\ UNCHANGED <<rowVars, event>>
          /\ review' = [review EXCEPT ![o] = review[o] /\ ~Closes(to) /\ to # "DELIVERED"]
      BY <2>5 DEF UpdateOrderStatus
    <3> QED
      BY <3>1 DEF TypeOK
  <2> HIDE DEF Quiet
  <2> QED
    BY <1>4, <2>1, <2>2, <2>3, <2>4, <2>5 DEF Core
<1>5. ASSUME NEW o \in Order, NEW v, Chosen(o, v)
      PROVE  Quiet
  BY <1>5 DEF Chosen, SetProvider, vars, orderVars
<1>6. ASSUME NEW p \in Payment, UploadStore(p)
      PROVE  Quiet
  BY <1>6 DEF UploadStore, SetProvider, vars, orderVars
<1>7. ASSUME NEW w \in reviews, ReviewFinish(w)
      PROVE  Quiet
  BY <1>7 DEF ReviewFinish, MarkReviewed
<1>8. CASE UNCHANGED vars
  BY <1>8 DEF vars, orderVars
<1> HIDE DEF Quiet, Heard
<1> QED
  BY <1>1, <1>2, <1>3, <1>4, <1>5, <1>6, <1>7, <1>8
  DEF CheckoutNext, OpenCheckout, HandOut, WompiCheckout, CreatePreference, AddiCheckout,
      StartTransfer, Pay, Settle, WompiWebhook, MercadoPagoWebhook, AddiCallback, Verify,
      UploadLoad, ReviewRead, allVars

\* A charge that was approved can only be refunded, and a refund is final; only
\* MercadoPago cancels.
LEMMA ChargeMoves ==
    ASSUME CheckoutInv, [CheckoutNext]_allVars, NEW p \in Payment
    PROVE  /\ charge[p] = "approved" => charge'[p] \in {"approved", "refunded"}
           /\ charge[p] = "refunded" => charge'[p] = "refunded"
           /\ charge'[p] = "cancelled" => \/ charge[p] = "cancelled"
                                          \/ Rail[p] = "MERCADOPAGO"
<1>1. CASE UNCHANGED charge
  BY <1>1
<1>2. ASSUME NEW q \in Payment, Pay(q)
      PROVE  /\ charge[q] = "none"
             /\ charge' = [charge EXCEPT ![q] = "pending"]
  BY <1>2 DEF Pay
<1>3. ASSUME NEW q \in Payment, NEW c, Settle(q, c)
      PROVE  /\ charge[q] = "pending" \/ (charge[q] = "approved" /\ c = "refunded")
             /\ c = "cancelled" => Rail[q] = "MERCADOPAGO"
             /\ charge' = [charge EXCEPT ![q] = c]
  BY <1>3 DEF Settle
<1>4. \/ UNCHANGED charge
      \/ \E q \in Payment : \/ Pay(q) \/ Settle(q, "approved") \/ Settle(q, "declined")
                            \/ Settle(q, "failed") \/ Settle(q, "cancelled") \/ Settle(q, "refunded")
  BY DEF CheckoutNext, Core, OpenCheckout, Chosen, HandOut, WompiCheckout, CreatePreference,
         AddiCheckout, StartTransfer, WompiWebhook, MercadoPagoWebhook, AddiCallback, Verify,
         Deliver, UploadLoad, UploadStore, UploadReport, ReviewRead, ReviewProcess,
         ReviewFinish, shop, allVars
<1> QED
  BY <1>1, <1>2, <1>3, <1>4 DEF CheckoutInv, CheckoutTypeOK

\* A report writes no row, or the row of one order with its own payment and
\* status, and it is recorded; what was recorded before stays so.
LEMMA WhatAReportWrites ==
    ASSUME Inv, NEW r \in Reports, ProcessPaymentUpdate(r[1], r[2]), NEW o \in Order
    PROVE  /\ \/ rowStatus'[o] = rowStatus[o] /\ rowId'[o] = rowId[o]
              \/ rowStatus'[o] = RowOf(r[2]) /\ rowId'[o] = r[1]
           /\ \A x \in Reports : event[x] # "NONE" => event'[x] # "NONE"
           /\ event'[r] # "NONE"
<1>1. \E outcome \in Outcomes : Record(r[1], r[2], outcome)
  BY DEF ProcessPaymentUpdate, OrderNotFound, ApprovedAgain, AmountMismatch, OutOfStock,
         ConfirmPaid, VoidedAfterPayment, IgnoredOrderPaid, StillUnpaid, Outcomes
<1>2. "NONE" \notin Outcomes
  BY DEF Outcomes
<1>3. /\ \A x \in Reports : event[x] # "NONE" => event'[x] # "NONE"
      /\ event'[r] # "NONE"
  BY <1>1, <1>2, EventGrows
<1>4. \/ UNCHANGED rowVars
      \/ \E y \in Order : UpsertPaymentRow(y, r[1], r[2])
  BY DEF ProcessPaymentUpdate, OrderNotFound, ApprovedAgain, AmountMismatch, OutOfStock,
         ConfirmPaid, VoidedAfterPayment, IgnoredOrderPaid, StillUnpaid, rowVars
<1>5. \/ rowStatus'[o] = rowStatus[o] /\ rowId'[o] = rowId[o]
      \/ rowStatus'[o] = RowOf(r[2]) /\ rowId'[o] = r[1]
  BY <1>4 DEF UpsertPaymentRow, rowVars, Inv, TypeOK
<1> QED
  BY <1>3, <1>5

\* No order of reports, retries and reviews makes up a payment.
LEMMA RowsBackedKept ==
    ASSUME Inv, CheckoutInv, RowsBacked, [CheckoutNext]_allVars
    PROVE  RowsBacked'
<1>1. CASE UNCHANGED <<rowVars, event>>
  <2>1. ASSUME NEW o \in Order, rowStatus'[o] = "COMPLETED"
        PROVE  Backed(rowId[o])'
    <3>1. Backed(rowId[o]) /\ rowId'[o] = rowId[o]
      BY <1>1, <2>1 DEF RowsBacked, rowVars
    <3> QED
      BY <1>1, <3>1, ChargeMoves DEF Backed
  <2> QED
    BY <2>1 DEF RowsBacked
<1>2. ASSUME NEW r \in Reports, ProcessPaymentUpdate(r[1], r[2]), UNCHANGED charge,
             r[2] = "APPROVED" => \/ charge[r[1]] \in {"approved", "refunded"}
                                  \/ r[1] \in Proofs
      PROVE  RowsBacked'
  <2> SUFFICES ASSUME NEW o \in Order, rowStatus'[o] = "COMPLETED"
               PROVE  Backed(rowId[o])'
    BY DEF RowsBacked
  <2>1. /\ \A x \in Reports : event[x] # "NONE" => event'[x] # "NONE"
        /\ event'[r] # "NONE"
    BY <1>2, WhatAReportWrites
  <2>2. CASE rowStatus'[o] = rowStatus[o] /\ rowId'[o] = rowId[o]
    <3>1. Backed(rowId[o])
      BY <2>2 DEF RowsBacked
    <3> QED
      BY <1>2, <2>1, <2>2, <3>1 DEF Backed
  <2>3. CASE rowStatus'[o] = RowOf(r[2]) /\ rowId'[o] = r[1]
    <3>1. r[2] = "APPROVED" /\ r = <<r[1], "APPROVED">> /\ r[1] \in Payment
      BY <2>3, ReportTypes DEF RowOf
    <3> QED
      BY <1>2, <2>1, <2>3, <3>1 DEF Backed
  <2> QED
    BY <1>2, <2>2, <2>3, WhatAReportWrites
<1> QED
  BY <1>1, <1>2, WhatIsReported DEF Inv

\* Nor does it make up a refund, where no charge goes through MercadoPago.
LEMMA RowsRefundedKept ==
    ASSUME \A p \in Payment : Rail[p] # "MERCADOPAGO",
           Inv, CheckoutInv, RowsRefunded, [CheckoutNext]_allVars
    PROVE  RowsRefunded'
<1>1. \A p \in Payment : charge'[p] # "cancelled"
  BY ChargeMoves DEF RowsRefunded
<1>2. ASSUME NEW o \in Order, rowStatus'[o] = "REFUNDED",
             rowStatus'[o] = rowStatus[o], rowId'[o] = rowId[o]
      PROVE  rowId'[o] \in Payment /\ charge'[rowId'[o]] = "refunded"
  BY <1>2, ChargeMoves DEF RowsRefunded
<1>3. ASSUME NEW r \in Reports, ProcessPaymentUpdate(r[1], r[2]), UNCHANGED charge,
             r[2] = "VOIDED" => charge[r[1]] \in {"cancelled", "refunded"},
             NEW o \in Order, rowStatus'[o] = "REFUNDED"
      PROVE  rowId'[o] \in Payment /\ charge'[rowId'[o]] = "refunded"
  <2>1. CASE rowStatus'[o] = RowOf(r[2]) /\ rowId'[o] = r[1]
    <3>1. r[2] = "VOIDED" /\ r[1] \in Payment
      BY <1>3, <2>1, ReportTypes DEF RowOf
    <3> QED
      BY <1>3, <2>1, <3>1 DEF RowsRefunded
  <2> QED
    BY <1>2, <1>3, <2>1, WhatAReportWrites
<1>4. CASE UNCHANGED <<rowVars, event>>
  BY <1>1, <1>2, <1>4 DEF rowVars, RowsRefunded
<1> QED
  BY <1>1, <1>3, <1>4, WhatIsReported DEF RowsRefunded, Inv

-----------------------------------------------------------------------------
(* Orders nobody paid.                                                      *)

\* What closes an order to new attempts: a review, a payment or a refund.
Closed(o) == review[o] \/ rowStatus[o] \in {"COMPLETED", "REFUNDED"}

\* None of it without money taken for the order.
ClosedByMoney == \A o \in Order : Closed(o) => TakenMoney(o)

\* A report closes no order but its own, and only as an approval or an annulment.
LEMMA WhatAReportCloses ==
    ASSUME Inv, NEW r \in Reports, ProcessPaymentUpdate(r[1], r[2]), NEW o \in Order, Closed(o)'
    PROVE  \/ Closed(o)
           \/ PaidFor[r[1]] = o /\ r[2] \in {"APPROVED", "VOIDED"}
<1>1. TypeOK /\ r[2] \in PayStatus
  BY ReportTypes DEF Inv
<1>2. RowOf(r[2]) \in {"COMPLETED", "REFUNDED"} => r[2] \in {"APPROVED", "VOIDED"}
  BY <1>1 DEF RowOf, PayStatus
<1>3. \/ UNCHANGED rowVars
      \/ \E y \in Order : PaidFor[r[1]] = y /\ UpsertPaymentRow(y, r[1], r[2])
  BY DEF ProcessPaymentUpdate, OrderNotFound, ApprovedAgain, AmountMismatch, OutOfStock,
         ConfirmPaid, VoidedAfterPayment, IgnoredOrderPaid, StillUnpaid, rowVars
<1>4. \/ rowStatus'[o] = rowStatus[o]
      \/ PaidFor[r[1]] = o /\ rowStatus'[o] = RowOf(r[2])
  BY <1>1, <1>3 DEF UpsertPaymentRow, rowVars, TypeOK
<1>5. \/ UNCHANGED review
      \/ r[2] \in {"APPROVED", "VOIDED"} /\ \E y \in Order : PaidFor[r[1]] = y /\ FlagForReview(y)
  BY DEF ProcessPaymentUpdate, OrderNotFound, ApprovedAgain, AmountMismatch, OutOfStock,
         ConfirmPaid, VoidedAfterPayment, IgnoredOrderPaid, StillUnpaid, orderVars
<1>6. \/ review'[o] = review[o]
      \/ PaidFor[r[1]] = o /\ r[2] \in {"APPROVED", "VOIDED"}
  BY <1>1, <1>5 DEF FlagForReview, TypeOK
<1> QED
  BY <1>2, <1>4, <1>6 DEF Closed

\* Money that was taken stays taken, given back or not.
LEMMA MoneyStaysTaken ==
    ASSUME Inv, CheckoutInv, [CheckoutNext]_allVars, NEW o \in Order, TakenMoney(o)
    PROVE  TakenMoney(o)'
<1>1. \A x \in Reports : event[x] # "NONE" => event'[x] # "NONE"
  BY WhatIsReported, WhatAReportWrites DEF Inv
<1> QED
  BY <1>1, ChargeMoves DEF TakenMoney

\* Where nothing goes through MercadoPago, an order is closed to new attempts
\* only once money was taken for it.
LEMMA ClosedByMoneyKept ==
    ASSUME \A p \in Payment : Rail[p] # "MERCADOPAGO",
           Inv, CheckoutInv, RowsRefunded, ClosedByMoney, [CheckoutNext]_allVars
    PROVE  ClosedByMoney'
<1> SUFFICES ASSUME NEW o \in Order, Closed(o)'
             PROVE  TakenMoney(o)'
  BY DEF ClosedByMoney
<1>1. CASE Closed(o)
  BY <1>1, MoneyStaysTaken DEF ClosedByMoney
<1>2. CASE UNCHANGED <<rowVars, event>> /\ \A x \in Order : review'[x] => review[x]
  BY <1>1, <1>2 DEF Closed, rowVars
<1>3. ASSUME NEW r \in Reports, ProcessPaymentUpdate(r[1], r[2]), UNCHANGED charge,
             r[2] = "VOIDED" => charge[r[1]] \in {"cancelled", "refunded"}, ~Closed(o)
      PROVE  TakenMoney(o)'
  <2>1. PaidFor[r[1]] = o /\ r[2] \in {"APPROVED", "VOIDED"}
    BY <1>3, WhatAReportCloses
  <2>2. r = <<r[1], r[2]>> /\ r[1] \in Payment
    BY ReportTypes
  <2>3. CASE r[2] = "APPROVED"
    <3>1. event'[r] # "NONE"
      BY <1>3, WhatAReportWrites
    <3> QED
      BY <2>1, <2>2, <2>3, <3>1 DEF TakenMoney
  <2>4. CASE r[2] = "VOIDED"
    BY <1>3, <2>1, <2>2, <2>4 DEF RowsRefunded, TakenMoney
  <2> QED
    BY <2>1, <2>3, <2>4
<1> QED
  BY <1>1, <1>2, <1>3, WhatIsReported DEF Inv

-----------------------------------------------------------------------------
(* The theorems.                                                            *)

\* A payments row is COMPLETED only for money that was taken, whatever orders,
\* payments and providers there are.
THEOREM CompletedBacked == CheckoutSpec => []CompletedIsBacked
<1>1. CheckoutInit => RowsBacked
  BY DEF CheckoutInit, Init, RowsBacked
<1>2. RowsBacked => CompletedIsBacked
  BY DEF RowsBacked, Backed, CompletedIsBacked
<1> QED
  BY <1>1, <1>2, RowsBackedKept, CheckoutInvariance, CheckoutImplementsOrders, Invariance, PTL
  DEF CheckoutSpec

\* And REFUNDED only for a refund, as long as MercadoPago takes no payments.
THEOREM RefundsReal ==
    ASSUME \A p \in Payment : Rail[p] # "MERCADOPAGO"
    PROVE  CheckoutSpec => []RefundsAreReal
<1>1. CheckoutInit => RowsRefunded
  BY DEF CheckoutInit, Init, RowsRefunded
<1>2. RowsRefunded => RefundsAreReal
  BY DEF RowsRefunded, RefundsAreReal
<1>3. Inv /\ CheckoutInv /\ RowsRefunded /\ [CheckoutNext]_allVars => RowsRefunded'
  BY RowsRefundedKept
<1> QED
  BY <1>1, <1>2, <1>3, CheckoutInvariance, CheckoutImplementsOrders, Invariance, PTL
  DEF CheckoutSpec

\* An order for which no money was taken can always be paid again and expires
\* like any other, whatever was reported of its attempts, as long as MercadoPago
\* takes no payments.
THEOREM RetriableUntilPaid ==
    ASSUME \A p \in Payment : Rail[p] # "MERCADOPAGO"
    PROVE  CheckoutSpec => []UnpaidStaysRetriable
<1>1. CheckoutInit => RowsRefunded /\ ClosedByMoney
  BY DEF CheckoutInit, Init, RowsRefunded, ClosedByMoney, Closed
<1>2. ClosedByMoney => UnpaidStaysRetriable
  BY DEF ClosedByMoney, Closed, UnpaidStaysRetriable
<1>3. Inv /\ CheckoutInv /\ RowsRefunded /\ ClosedByMoney /\ [CheckoutNext]_allVars =>
          RowsRefunded' /\ ClosedByMoney'
  BY RowsRefundedKept, ClosedByMoneyKept
<1> QED
  BY <1>1, <1>2, <1>3, CheckoutInvariance, CheckoutImplementsOrders, Invariance, PTL
  DEF CheckoutSpec

=============================================================================
