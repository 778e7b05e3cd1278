------------------------------- MODULE Stock -------------------------------
(***************************************************************************)
(* The stock as PostgreSQL has it: one row for each product or variant,    *)
(* and the transactions that change rows one after the other               *)
(* (stock.service.js, the saves of admin-products.service.js).             *)
(*                                                                         *)
(* A statement that changes a row keeps it locked until its transaction    *)
(* ends.  Meanwhile others read the committed version, and wait if they    *)
(* want to change it.  The rows of an order come in no given order, so two *)
(* transactions may wait for each other: PostgreSQL then aborts one, and   *)
(* what it was doing is reported again later.                              *)
(***************************************************************************)
EXTENDS Naturals, FiniteSets

CONSTANTS
    Order,
    Row,       \* products without variants, and variants
    Qty,       \* the units of each row that an order has
    Save,      \* admins' saves of a product and its variants
    MaxStock   \* bound: what admins set

ASSUME StockAssumption ==
    /\ Qty \in [Order -> [Row -> Nat]] /\ MaxStock \in Nat
    /\ Order \cap Save = {}

Tx == Order \cup Save

VARIABLES
    row,     \* the newest version of each row, committed or not
    seen,    \* the committed version
    phase,   \* what each transaction is at
    todo,    \* the rows it has still to look at
    held,    \* the rows it has locked
    applied, \* the rows it has decremented and not put back
    short    \* there was not enough for it

vars == <<row, seen, phase, todo, held, applied, short>>

TypeOK ==
    /\ row \in [Row -> Nat] /\ seen \in [Row -> Nat]
    /\ phase \in [Tx -> {"idle", "selling", "sold", "returning", "returned",
                         "saving", "saved"}]
    /\ todo \in [Tx -> SUBSET Row]
    /\ held \in [Tx -> SUBSET Row]
    /\ applied \in [Tx -> SUBSET Row]
    /\ short \in [Tx -> BOOLEAN]

Init ==
    /\ row \in [Row -> 0..MaxStock] /\ seen = row
    /\ phase = [t \in Tx |-> "idle"]
    /\ todo = [t \in Tx |-> {}] /\ held = [t \in Tx |-> {}]
    /\ applied = [t \in Tx |-> {}] /\ short = [t \in Tx |-> FALSE]

Needed(o) == {r \in Row : Qty[o][r] > 0}

Free(t, r) == \A u \in Tx : u # t => r \notin held[u]

\* Begins a transaction over the rows of S.
Begin(t, ph, S) ==
    /\ phase' = [phase EXCEPT ![t] = ph]
    /\ todo' = [todo EXCEPT ![t] = S]
    /\ UNCHANGED <<row, seen, held, applied, short>>

Visit(t, r) == todo' = [todo EXCEPT ![t] = @ \ {r}]
Lock(t, r)  == held' = [held EXCEPT ![t] = @ \cup {r}]

-----------------------------------------------------------------------------
(* The end of a transaction.                                                *)

Ends(t, ph) ==
    /\ phase' = [phase EXCEPT ![t] = ph]
    /\ todo' = [todo EXCEPT ![t] = {}] /\ held' = [held EXCEPT ![t] = {}]
    /\ applied' = [applied EXCEPT ![t] = {}] /\ short' = [short EXCEPT ![t] = FALSE]

Commit(t, ph) ==
    /\ Ends(t, ph)
    /\ seen' = [r \in Row |-> IF r \in held[t] THEN row[r] ELSE seen[r]]
    /\ UNCHANGED row

\* Where a transaction that was undone is.
Before(t) == IF phase[t] = "returning" THEN "sold" ELSE "idle"

Rollback(t) ==
    /\ Ends(t, Before(t))
    /\ row' = [r \in Row |-> IF r \in held[t] THEN seen[r] ELSE row[r]]
    /\ UNCHANGED seen

-----------------------------------------------------------------------------
(* A sale: tryDeductStockForItems, in the transaction that confirms o.      *)

StartSale(o) == phase[o] = "idle" /\ Begin(o, "selling", Needed(o))

\* The version of r that the WHERE of the conditional update is tried on: the
\* committed one, or the transaction's own.
Version(t, r) == IF r \in held[t] THEN row[r] ELSE seen[r]

\* Mutant: one unit too few is enough.
EnoughAlmost(o, r) == Version(o, r) + 1 >= Qty[o][r]

\* WHERE stock >= quantity.
Enough(o, r) == Version(o, r) >= Qty[o][r]

Take(o, r) ==
    /\ phase[o] = "selling" /\ r \in todo[o] /\ Free(o, r) /\ Enough(o, r)
    /\ row' = [row EXCEPT ![r] = @ - Qty[o][r]]
    /\ Lock(o, r) /\ Visit(o, r)
    /\ applied' = [applied EXCEPT ![o] = @ \cup {r}]
    /\ UNCHANGED <<seen, phase, short>>

\* Mutant: the row is tried again until there is enough.
MissRetries(o, r) ==
    /\ phase[o] = "selling" /\ r \in todo[o] /\ ~Enough(o, r) /\ ~short[o]
    /\ short' = [short EXCEPT ![o] = TRUE]
    /\ UNCHANGED <<row, seen, todo, phase, held, applied>>

\* No row matched: a version that no one has locked, or the committed version
\* of one that is.  The rest of the rows are tried all the same.
Miss(o, r) ==
    /\ phase[o] = "selling" /\ r \in todo[o] /\ ~Enough(o, r)
    /\ Visit(o, r)
    /\ short' = [short EXCEPT ![o] = TRUE]
    /\ UNCHANGED <<row, seen, phase, held, applied>>

\* Mutant: the units put back are one, not the quantity.
PutBackOne(o, r) == row[r] + 1

PutBackQty(o, r) == row[r] + Qty[o][r]

\* After a shortage what was decremented is put back, its locks still held.
PutBack(o, r) ==
    /\ phase[o] = "selling" /\ todo[o] = {} /\ short[o] /\ r \in applied[o]
    /\ row' = [row EXCEPT ![r] = PutBackQty(o, r)]
    /\ applied' = [applied EXCEPT ![o] = @ \ {r}]
    /\ UNCHANGED <<seen, phase, todo, held, short>>

\* With a shortage the order is left as it was, for an admin to try again.
EndSale(o) ==
    /\ phase[o] = "selling" /\ todo[o] = {}
    /\ \/ ~short[o] /\ Commit(o, "sold")
       \/ short[o] /\ applied[o] = {} /\ Commit(o, "idle")

-----------------------------------------------------------------------------
(* A return: restoreStockForItems.                                          *)

StartReturn(o) == phase[o] = "sold" /\ Begin(o, "returning", Needed(o))

GiveBackRow(o, r) ==
    /\ phase[o] = "returning" /\ r \in todo[o] /\ Free(o, r)
    /\ row' = [row EXCEPT ![r] = @ + Qty[o][r]]
    /\ Lock(o, r) /\ Visit(o, r)
    /\ UNCHANGED <<seen, phase, applied, short>>

EndReturn(o) == phase[o] = "returning" /\ todo[o] = {} /\ Commit(o, "returned")

-----------------------------------------------------------------------------
(* A save: updateProduct and syncVariants write what the form says.         *)

StartSave(s) == phase[s] = "idle" /\ Begin(s, "saving", Row)

SaveRow(s, r, n) ==
    /\ phase[s] = "saving" /\ r \in todo[s] /\ Free(s, r)
    /\ row' = [row EXCEPT ![r] = n]
    /\ Lock(s, r) /\ Visit(s, r)
    /\ UNCHANGED <<seen, phase, applied, short>>

EndSave(s) == phase[s] = "saving" /\ todo[s] = {} /\ Commit(s, "saved")

-----------------------------------------------------------------------------
(* PostgreSQL and the process.                                              *)

\* The row t has come to, any of those it has still to do, is locked by u.
Waits(t, u) == \E r \in todo[t] : r \in held[u] /\ t # u

\* Whoever t waits for, and whom they wait for, and so on, ends in t.
Deadlocked(t) ==
    \A S \in SUBSET Tx :
        (\A u \in S \cup {t}, w \in Tx : Waits(u, w) => w \in S) => t \in S

Abort(t) == Deadlocked(t) /\ Rollback(t)

\* The connection is lost, or Prisma's five seconds are over.
Dies(t) == phase[t] \in {"selling", "returning", "saving"} /\ Rollback(t)

SaleStep(o)   == \/ EndSale(o) \/ \E r \in Row : Take(o, r) \/ Miss(o, r) \/ PutBack(o, r)
ReturnStep(o) == EndReturn(o) \/ \E r \in Row : GiveBackRow(o, r)
SaveStep(s)   == EndSave(s) \/ \E r \in Row, n \in 0..MaxStock : SaveRow(s, r, n)

Next ==
    \/ \E o \in Order : StartSale(o) \/ StartReturn(o) \/ SaleStep(o) \/ ReturnStep(o)
    \/ \E s \in Save : StartSave(s) \/ SaveStep(s)
    \/ \E t \in Tx : Abort(t) \/ Dies(t)

Spec == Init /\ [][Next]_vars

\* A transaction that can go on goes on, the locks of a row are granted in
\* turn, and a deadlock is found.
Fairness ==
    /\ \A o \in Order : SF_vars(SaleStep(o)) /\ SF_vars(ReturnStep(o))
    /\ \A s \in Save : SF_vars(SaveStep(s))
    /\ \A t \in Tx : WF_vars(Abort(t))

FairSpec == Spec /\ Fairness

-----------------------------------------------------------------------------
(* Properties.                                                              *)

Outcome(t) ==
    CASE phase[t] = "selling" /\ short[t]   -> "short"
      [] phase[t] \in {"sold", "returning"} -> "sold"
      [] phase[t] \in {"returned", "saved"} -> phase[t]
      [] OTHER                              -> "none"

Promise == INSTANCE Shelf WITH shelf <- seen, outcome <- [t \in Tx |-> Outcome(t)]

\* "Todo (orden + stock + pago) sea atomico": updates row by row, with sales,
\* returns and saves between them, aborts, and shortages found half way, look
\* to everybody else like one step on the whole shelf.
Atomic == Promise!Spec

\* No transaction waits for ever, whatever locks others take in whatever order.
Ended(t) == phase[t] \notin {"selling", "returning", "saving"}
NobodyHangs == \A t \in Tx : []<>Ended(t)

=============================================================================
