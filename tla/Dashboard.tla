----------------------------- MODULE Dashboard -----------------------------
(***************************************************************************)
(* The figures of the admin's dashboard (dashboard.service.js), read from  *)
(* the tables of Orders.  A sum of money is the set of orders summed, and  *)
(* a sum of quantities counts units.  A target stands for its product, the *)
(* age of an order for the day or month it is placed in, and the limits of *)
(* the lists are left out.                                                 *)
(***************************************************************************)
EXTENDS Orders

CONSTANTS
    CategoryOf,  \* the category of a product
    NoCategory   \* category null

\* Mutant: the orders that have not left yet are counted alone.
PaidUndelivered == Fulfilling \ {"DELIVERED"}

\* The states whose orders count as sold, the same in every query.
Paid == {"CONFIRMED", "PROCESSING", "SHIPPED", "DELIVERED"}

\* The orders placed in a range of days that are being fulfilled.
Sales(range) == {o \in Order : age[o] <= range /\ status[o] \in Paid}

Overview ==
    [totalOrders |-> Cardinality({o \in Order : Exists(o)}),
     revenue     |-> Sales(2),
     paidOrders  |-> Cardinality(Sales(2)),
     todayOrders |-> {o \in Order : Exists(o) /\ age[o] = 0},
     today       |-> Sales(0)]

\* One bucket a day, the days without sales too.
SalesSeries(range) == [day \in 0..range |-> {o \in Sales(range) : age[o] = day}]

\* The items of those orders, one element per unit.
UnitsSold(range, t) ==
    {u \in Sales(range) \X (1..MaxQty) : u[2] <= Items[u[1]][t]}

TopProducts(range) ==
    [t \in {x \in Target : UnitsSold(range, x) # {}} |-> Cardinality(UnitsSold(range, t))]

\* Items of products without a category are passed over.
SalesByCategory(range) ==
    [c \in {CategoryOf[t] : t \in DOMAIN TopProducts(range)} \ {NoCategory} |->
        UNION {UnitsSold(range, t) \X {t} : t \in {x \in Target : CategoryOf[x] = c}}]

-----------------------------------------------------------------------------

\* The dashboard reports as sold just the units that orders took off the shelf,
\* whatever was paid late, cancelled, refunded or restocked meanwhile.
UnitsAgree ==
    \A t \in Target : stock[t] + Cardinality(UnitsSold(2, t)) = supply[t]

\* And its figures agree with each other: the chart has the orders of the
\* revenue, each in one bucket, and the categories share out the units of the
\* products that have one.
FiguresAgree ==
    /\ UnitsAgree
    /\ \A o \in Order : o \in Overview.revenue <=>
         Cardinality({day \in 0..2 : o \in SalesSeries(2)[day]}) = 1
    /\ UNION {SalesByCategory(2)[c] : c \in DOMAIN SalesByCategory(2)} =
       UNION {UnitsSold(2, t) \X {t} : t \in {x \in Target : CategoryOf[x] # NoCategory}}

=============================================================================
