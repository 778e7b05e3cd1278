---------------------------- MODULE StockProofs ----------------------------
(***************************************************************************)
(* Proofs about Stock, for every number of orders, rows, units and saves:  *)
(* the stock never gets below zero, and transactions over the rows one     *)
(* after the other implement the shelf of Shelf.                           *)
(*                                                                         *)
(* The argument is two-phase locking.  A row has at most one holder, a row *)
(* without holder is as committed, and a row that a sale or a return holds *)
(* differs from the committed one by exactly the units of that order.      *)
(***************************************************************************)
EXTENDS Stock, TLAPS

Active == {"selling", "returning", "saving"}

\* No row has two holders.
OneHolder == \A t, u \in Tx : t # u => held[t] \cap held[u] = {}

\* A row that nobody holds is as it was committed.
FreeIsCommitted == \A r \in Row : (\A t \in Tx : r \notin held[t]) => row[r] = seen[r]

\* A transaction that is not under way holds nothing.
AtRest(t) == phase[t] \notin Active => /\ todo[t] = {} /\ held[t] = {}
                                       /\ applied[t] = {} /\ short[t] = FALSE

\* What a sale under way has locked and decremented.
Selling(o) ==
    phase[o] = "selling" =>
        /\ todo[o] \subseteq Needed(o)
        /\ held[o] \subseteq Needed(o) \ todo[o]
        /\ applied[o] \subseteq held[o]
        /\ ~short[o] => applied[o] = Needed(o) \ todo[o]
        /\ \A r \in held[o] :
               row[r] = IF r \in applied[o] THEN seen[r] - Qty[o][r] ELSE seen[r]

\* What a return under way has locked and incremented.
Returning(o) ==
    phase[o] = "returning" =>
        /\ todo[o] \subseteq Needed(o)
        /\ held[o] = Needed(o) \ todo[o]
        /\ \A r \in held[o] : row[r] = seen[r] + Qty[o][r]

\* Sales and returns are of orders, saves are of admins.
Phases ==
    /\ \A o \in Order : phase[o] \in {"idle", "selling", "sold", "returning", "returned"}
    /\ \A s \in Save : phase[s] \in {"idle", "saving", "saved"}

Inv ==
    /\ TypeOK /\ OneHolder /\ FreeIsCommitted /\ Phases
    /\ \A t \in Tx : AtRest(t)
    /\ \A o \in Order : Selling(o) /\ Returning(o)

-----------------------------------------------------------------------------

\* At the start nothing is under way and every row is as committed.
LEMMA InitInv == Init => Inv
  BY StockAssumption DEF Init, Inv, TypeOK, OneHolder, FreeIsCommitted, Phases, AtRest,
                         Selling, Returning, Active, Tx

\* A transaction begins without locks.
LEMMA BeginInv ==
  ASSUME Inv, NEW t \in Tx, NEW ph \in Active, NEW S \in SUBSET Row,
         phase[t] \notin Active, Begin(t, ph, S),
         ph = "saving" <=> t \in Save, ph # "saving" => S = Needed(t)
  PROVE  Inv'
  <1>1. /\ TypeOK' /\ OneHolder' /\ FreeIsCommitted'
    BY DEF Inv, TypeOK, OneHolder, FreeIsCommitted, Begin, Active
  <1>2. Phases'
    BY StockAssumption DEF Inv, TypeOK, Phases, Begin, Active, Tx
  <1>3. (\A u \in Tx : AtRest(u))'
    BY DEF Inv, TypeOK, AtRest, Begin, Active
  <1>4. (\A o \in Order : Selling(o) /\ Returning(o))'
    BY StockAssumption DEF Inv, TypeOK, AtRest, Selling, Returning, Begin, Active, Tx, Needed
  <1> QED BY <1>1, <1>2, <1>3, <1>4 DEF Inv

\* A transaction that ends leaves no lock, and its rows as committed.
LEMMA EndsInv ==
  ASSUME Inv, NEW t \in Tx, NEW ph, Ends(t, ph), ph \notin Active,
         t \in Order => ph \in {"idle", "sold", "returned"},
         t \in Save => ph \in {"idle", "saved"},
         row' \in [Row -> Nat], seen' \in [Row -> Nat],
         \A r \in held[t] : row'[r] = seen'[r],
         \A r \in Row \ held[t] : row'[r] = row[r] /\ seen'[r] = seen[r]
  PROVE  Inv'
  <1>1. /\ TypeOK' /\ OneHolder' /\ Phases'
    BY StockAssumption DEF Inv, TypeOK, OneHolder, Phases, Ends, Tx
  <1>2. FreeIsCommitted'
    <2> SUFFICES ASSUME NEW r \in Row, \A u \in Tx : r \notin held'[u]
                 PROVE  row'[r] = seen'[r]
      BY DEF FreeIsCommitted
    <2>1. CASE r \in held[t] BY <2>1
    <2>2. CASE r \notin held[t]
      <3>1. \A u \in Tx : r \notin held[u] BY <2>2 DEF Ends, Inv, TypeOK
      <3> QED BY <2>2, <3>1 DEF Inv, FreeIsCommitted
    <2> QED BY <2>1, <2>2
  <1>3. (\A u \in Tx : AtRest(u))'
    BY DEF Inv, TypeOK, AtRest, Ends
  <1>4. ASSUME NEW o \in Order
        PROVE  Selling(o)' /\ Returning(o)'
    <2>1. CASE o = t
      BY <2>1 DEF Selling, Returning, Ends, Inv, TypeOK, Active
    <2>2. CASE o # t
      <3>1. \A r \in held[o] : row'[r] = row[r] /\ seen'[r] = seen[r]
        BY <2>2 DEF Inv, TypeOK, OneHolder, Tx
      <3>2. /\ phase'[o] = phase[o] /\ todo'[o] = todo[o] /\ held'[o] = held[o]
            /\ applied'[o] = applied[o] /\ short'[o] = short[o]
        BY <2>2 DEF Ends, Inv, TypeOK, Tx
      <3>3. Needed(o)' = Needed(o) BY DEF Needed
      <3> HIDE DEF Needed
      <3> QED BY <3>1, <3>2, <3>3 DEF Inv, Selling, Returning
    <2> QED BY <2>1, <2>2
  <1> QED BY <1>1, <1>2, <1>3, <1>4 DEF Inv

LEMMA CommitInv ==
  ASSUME Inv, NEW t \in Tx, NEW ph, Commit(t, ph), ph \notin Active,
         t \in Order => ph \in {"idle", "sold", "returned"},
         t \in Save => ph \in {"idle", "saved"}
  PROVE  Inv'
  BY EndsInv DEF Commit, Inv, TypeOK

LEMMA RollbackInv ==
  ASSUME Inv, NEW t \in Tx, Rollback(t)
  PROVE  Inv'
  BY EndsInv, StockAssumption DEF Rollback, Inv, TypeOK, Phases, Before, Active, Tx

-----------------------------------------------------------------------------
(* The steps of a transaction under way: it changes rows it locks alone.    *)

\* What does not depend on which transaction it is.
LEMMA StepInv ==
  ASSUME Inv, NEW t \in Tx, phase[t] \in Active, TypeOK', UNCHANGED <<seen, phase>>,
         \A u \in Tx \ {t} : /\ todo'[u] = todo[u] /\ held'[u] = held[u]
                              /\ applied'[u] = applied[u] /\ short'[u] = short[u],
         held[t] \subseteq held'[t],
         \A r \in held'[t] \ held[t] : Free(t, r),
         \A r \in Row \ held'[t] : row'[r] = row[r],
         t \in Order => Selling(t)' /\ Returning(t)'
  PROVE  Inv'
  <1>1. OneHolder'
    BY DEF Inv, TypeOK, OneHolder, Free
  <1>2. FreeIsCommitted'
    BY DEF Inv, TypeOK, FreeIsCommitted
  <1>3. Phases' /\ (\A u \in Tx : AtRest(u))'
    BY DEF Inv, Phases, AtRest
  <1>4. ASSUME NEW o \in Order, o # t
        PROVE  Selling(o)' /\ Returning(o)'
    <2>1. o \in Tx BY DEF Tx
    <2>2. \A r \in held[o] : row'[r] = row[r] /\ r \in Row
      BY <1>1, <1>4, <2>1 DEF Inv, TypeOK, OneHolder
    <2>3. Needed(o)' = Needed(o) BY DEF Needed
    <2> HIDE DEF Needed
    <2> QED BY <1>4, <2>1, <2>2, <2>3 DEF Inv, Selling, Returning
  <1> QED BY <1>1, <1>2, <1>3, <1>4 DEF Inv

LEMMA TakeInv ==
  ASSUME Inv, NEW o \in Order, NEW r \in Row, Take(o, r)
  PROVE  Inv'
  <1>1. o \in Tx /\ r \notin held[o] /\ Qty[o][r] \in Nat
    BY StockAssumption DEF Inv, Selling, Take, Tx
  <1>2. \A t \in Tx : r \notin held[t]
    BY <1>1 DEF Take, Free
  <1>3. row[r] = seen[r] /\ row[r] >= Qty[o][r]
    BY <1>1, <1>2 DEF Inv, FreeIsCommitted, Take, Enough, Version
  <1>4. row[r] - Qty[o][r] \in Nat
    BY <1>1, <1>3 DEF Inv, TypeOK
  <1>5. TypeOK'
    BY <1>4 DEF Inv, TypeOK, Take, Lock, Visit
  <1>6. Selling(o)' /\ Returning(o)'
    BY <1>1, <1>3 DEF Inv, TypeOK, Selling, Returning, Take, Lock, Visit, Needed
  <1> QED BY <1>1, <1>5, <1>6, StepInv DEF Inv, TypeOK, Take, Lock, Visit, Active

LEMMA MissInv ==
  ASSUME Inv, NEW o \in Order, NEW r \in Row, Miss(o, r)
  PROVE  Inv'
  <1>1. o \in Tx BY DEF Tx
  <1>2. TypeOK' BY DEF Inv, TypeOK, Miss, Visit
  <1>3. Selling(o)' /\ Returning(o)'
    BY <1>1 DEF Inv, TypeOK, Selling, Returning, Miss, Visit, Needed
  <1> QED BY <1>1, <1>2, <1>3, StepInv DEF Inv, TypeOK, Miss, Visit, Active

LEMMA PutBackInv ==
  ASSUME Inv, NEW o \in Order, NEW r \in Row, PutBack(o, r)
  PROVE  Inv'
  <1>1. o \in Tx /\ r \in held[o] /\ Qty[o][r] \in Nat
    BY StockAssumption DEF Inv, Selling, PutBack, Tx
  <1>2. TypeOK' BY <1>1 DEF Inv, TypeOK, PutBack, PutBackQty
  <1>3. Selling(o)' /\ Returning(o)'
    <2>1. row[r] = seen[r] - Qty[o][r] /\ seen[r] \in Nat
      BY <1>1 DEF Inv, TypeOK, Selling, PutBack
    <2>2. row'[r] = seen[r]
      BY <1>1, <2>1 DEF Inv, TypeOK, PutBack, PutBackQty
    <2> QED BY <1>1, <2>2 DEF Inv, TypeOK, Selling, Returning, PutBack, Needed
  <1> QED BY <1>1, <1>2, <1>3, StepInv DEF Inv, TypeOK, PutBack, Active

LEMMA GiveBackRowInv ==
  ASSUME Inv, NEW o \in Order, NEW r \in Row, GiveBackRow(o, r)
  PROVE  Inv'
  <1>1. o \in Tx /\ r \notin held[o] /\ Qty[o][r] \in Nat
    BY StockAssumption DEF Inv, Returning, GiveBackRow, Tx
  <1>2. row[r] = seen[r]
    BY <1>1 DEF Inv, FreeIsCommitted, GiveBackRow, Free
  <1>3. TypeOK' BY <1>1 DEF Inv, TypeOK, GiveBackRow, Lock, Visit
  <1>4. Selling(o)' /\ Returning(o)'
    BY <1>1, <1>2 DEF Inv, TypeOK, Selling, Returning, GiveBackRow, Lock, Visit, Needed
  <1> QED BY <1>1, <1>3, <1>4, StepInv DEF Inv, TypeOK, GiveBackRow, Lock, Visit, Active

LEMMA SaveRowInv ==
  ASSUME Inv, NEW s \in Save, NEW r \in Row, NEW n \in 0..MaxStock, SaveRow(s, r, n)
  PROVE  Inv'
  <1>1. s \in Tx /\ s \notin Order /\ n \in Nat
    BY StockAssumption DEF Tx
  <1>2. TypeOK' BY <1>1 DEF Inv, TypeOK, SaveRow, Lock, Visit
  <1> QED BY <1>1, <1>2, StepInv DEF Inv, TypeOK, SaveRow, Lock, Visit, Active

\* Only a transaction under way can be found in a deadlock.
LEMMA DeadlockedActive ==
  ASSUME Inv, NEW t \in Tx, Deadlocked(t)
  PROVE  phase[t] \in Active
  <1>1. (\A u \in {} \cup {t}, w \in Tx : Waits(u, w) => w \in {}) => t \in {}
    <2>1. {} \in SUBSET Tx OBVIOUS
    <2> QED BY <2>1 DEF Deadlocked
  <1>2. PICK w \in Tx : Waits(t, w) BY <1>1
  <1>3. todo[t] # {} BY <1>2 DEF Waits
  <1> QED BY <1>3 DEF Inv, AtRest

\* A step on its own keeps the invariant.
LEMMA NextInv == Inv /\ [Next]_vars => Inv'
  <1> SUFFICES ASSUME Inv, [Next]_vars PROVE Inv' OBVIOUS
  <1>1. CASE UNCHANGED vars
    BY <1>1 DEF vars, Inv, TypeOK, OneHolder, FreeIsCommitted, Phases, AtRest, Selling,
                Returning, Needed
  <1>2. ASSUME NEW o \in Order, StartSale(o) \/ StartReturn(o) \/ SaleStep(o) \/ ReturnStep(o)
        PROVE  Inv'
    <2>1. o \in Tx /\ o \notin Save /\ Needed(o) \in SUBSET Row
      BY StockAssumption DEF Tx, Needed
    <2>2. CASE StartSale(o)   BY <2>1, <2>2, BeginInv DEF StartSale, Active
    <2>3. CASE StartReturn(o) BY <2>1, <2>3, BeginInv DEF StartReturn, Active
    <2>4. CASE SaleStep(o)
      <3>1. CASE EndSale(o) BY <2>1, <3>1, CommitInv DEF EndSale, Active
      <3> QED BY <2>4, <3>1, TakeInv, MissInv, PutBackInv DEF SaleStep
    <2>5. CASE ReturnStep(o)
      <3>1. CASE EndReturn(o) BY <2>1, <3>1, CommitInv DEF EndReturn, Active
      <3> QED BY <2>5, <3>1, GiveBackRowInv DEF ReturnStep
    <2> QED BY <1>2, <2>2, <2>3, <2>4, <2>5
  <1>3. ASSUME NEW s \in Save, StartSave(s) \/ SaveStep(s)
        PROVE  Inv'
    <2>1. s \in Tx /\ s \notin Order BY StockAssumption DEF Tx
    <2>2. CASE StartSave(s) BY <2>1, <2>2, BeginInv DEF StartSave, Active
    <2>3. CASE EndSave(s)   BY <2>1, <2>3, CommitInv DEF EndSave, Active
    <2> QED BY <1>3, <2>2, <2>3, SaveRowInv DEF SaveStep
  <1>4. ASSUME NEW t \in Tx, Abort(t) \/ Dies(t)
        PROVE  Inv'
    BY <1>4, RollbackInv DEF Abort, Dies
  <1> QED BY <1>1, <1>2, <1>3, <1>4 DEF Next

\* The stock of a row is never below zero, whatever sales, returns and saves do.
THEOREM StockTypeCorrect == Spec => []TypeOK
  <1>1. Inv => TypeOK BY DEF Inv
  <1> QED BY <1>1, InitInv, NextInv, PTL DEF Spec

-----------------------------------------------------------------------------
(* Stock implements Shelf.                                                  *)

\* What a step does to what the shelf shows of t.
LEMMA OutcomeOf ==
  ASSUME Inv, NEW t \in Tx, [Next]_vars
  PROVE  /\ Outcome(t) = IF phase[t] = "selling" /\ short[t] THEN "short"
                         ELSE IF phase[t] \in {"sold", "returning"} THEN "sold"
                         ELSE IF phase[t] \in {"returned", "saved"} THEN phase[t]
                         ELSE "none"
         /\ Outcome(t)' = IF phase'[t] = "selling" /\ short'[t] THEN "short"
                          ELSE IF phase'[t] \in {"sold", "returning"} THEN "sold"
                          ELSE IF phase'[t] \in {"returned", "saved"} THEN phase'[t]
                          ELSE "none"
  BY DEF Outcome

\* A step that changes neither the committed stock nor an outcome is no step.
LEMMA Stutter ==
  ASSUME UNCHANGED seen, \A t \in Tx : Outcome(t)' = Outcome(t)
  PROVE  UNCHANGED Promise!vars
  BY DEF Promise!vars

\* The shelf's record of outcomes after a step that is t's alone.
LEMMA OneOutcome ==
  ASSUME NEW t \in Tx, NEW x, Outcome(t)' = x,
         \A u \in Tx \ {t} : Outcome(u)' = Outcome(u)
  PROVE  [u \in Tx |-> Outcome(u)]' = [[u \in Tx |-> Outcome(u)] EXCEPT ![t] = x]
  OBVIOUS

\* The outcome of a transaction that a step leaves alone stays.
LEMMA OthersKeep ==
  ASSUME Inv, NEW u \in Tx, [Next]_vars, phase'[u] = phase[u], short'[u] = short[u]
  PROVE  Outcome(u)' = Outcome(u)
  BY OutcomeOf

LEMMA EndSaleRefines ==
  ASSUME Inv, Next, NEW o \in Order, EndSale(o)
  PROVE  Promise!Sell(o) \/ Promise!Again(o)
  <1>1. o \in Tx /\ \A u \in Tx \ {o} : Outcome(u)' = Outcome(u)
    <2>1. \A u \in Tx \ {o} : phase'[u] = phase[u] /\ short'[u] = short[u]
      BY DEF EndSale, Commit, Ends, Inv, TypeOK
    <2> QED BY <2>1, OthersKeep DEF Tx
  <1>2. CASE ~short[o] /\ Commit(o, "sold")
    <2>1. Outcome(o) = "none" /\ Outcome(o)' = "sold"
      BY <1>1, <1>2, OutcomeOf DEF EndSale, Commit, Ends, Inv, TypeOK
    <2>2. held[o] = Needed(o) /\ \A r \in held[o] : row[r] = seen[r] - Qty[o][r]
      BY <1>2 DEF EndSale, Inv, TypeOK, Selling, Active
    <2>3. \A r \in Row : seen[r] \in Nat /\ row[r] \in Nat /\ Qty[o][r] \in Nat
      BY StockAssumption DEF Inv, TypeOK
    <2>4. \A r \in Row : seen[r] >= Qty[o][r]
      BY <2>2, <2>3 DEF Needed
    <2>5. seen' = [r \in Row |-> seen[r] - Qty[o][r]]
      BY <1>2, <2>2, <2>3 DEF Commit, Needed
    <2> QED BY <1>1, <2>1, <2>4, <2>5, OneOutcome DEF Promise!Sell
  <1>3. CASE short[o] /\ applied[o] = {} /\ Commit(o, "idle")
    <2>1. Outcome(o) = "short" /\ Outcome(o)' = "none"
      BY <1>1, <1>3, OutcomeOf DEF EndSale, Commit, Ends, Inv, TypeOK
    <2>2. \A r \in held[o] : row[r] = seen[r]
      BY <1>3 DEF EndSale, Inv, Selling
    <2>3. seen' = seen
      BY <1>3, <2>2 DEF Commit, Inv, TypeOK
    <2> QED BY <1>1, <2>1, <2>3, OneOutcome DEF Promise!Again
  <1> QED BY <1>2, <1>3 DEF EndSale

LEMMA MissRefines ==
  ASSUME Inv, Next, NEW o \in Order, NEW r \in Row, Miss(o, r)
  PROVE  Promise!Refuse(o) \/ UNCHANGED Promise!vars
  <1>1. o \in Tx /\ \A u \in Tx \ {o} : Outcome(u)' = Outcome(u)
    <2>1. \A u \in Tx \ {o} : phase'[u] = phase[u] /\ short'[u] = short[u]
      BY DEF Miss, Inv, TypeOK
    <2> QED BY <2>1, OthersKeep DEF Tx
  <1>2. Outcome(o)' = "short"
    BY <1>1, OutcomeOf DEF Miss, Inv, TypeOK
  <1>3. CASE short[o]
    <2>1. Outcome(o) = "short" BY <1>1, <1>3, OutcomeOf DEF Miss
    <2> QED BY <1>1, <1>2, <2>1, Stutter DEF Miss
  <1>4. CASE ~short[o]
    <2>1. Outcome(o) = "none" BY <1>1, <1>4, OutcomeOf DEF Miss
    <2>2. r \notin held[o] BY DEF Miss, Inv, Selling
    <2>3. seen[r] < Qty[o][r]
      BY <2>2, StockAssumption DEF Miss, Enough, Version, Inv, TypeOK
    <2> QED BY <1>1, <1>2, <2>1, <2>3, OneOutcome DEF Promise!Refuse, Miss
  <1> QED BY <1>3, <1>4

LEMMA EndReturnRefines ==
  ASSUME Inv, Next, NEW o \in Order, EndReturn(o)
  PROVE  Promise!GiveBack(o)
  <1>1. o \in Tx /\ \A u \in Tx \ {o} : Outcome(u)' = Outcome(u)
    <2>1. \A u \in Tx \ {o} : phase'[u] = phase[u] /\ short'[u] = short[u]
      BY DEF EndReturn, Commit, Ends, Inv, TypeOK
    <2> QED BY <2>1, OthersKeep DEF Tx
  <1>2. Outcome(o) = "sold" /\ Outcome(o)' = "returned"
    BY <1>1, OutcomeOf DEF EndReturn, Commit, Ends, Inv, TypeOK
  <1>3. held[o] = Needed(o) /\ \A r \in held[o] : row[r] = seen[r] + Qty[o][r]
    BY DEF EndReturn, Inv, Returning
  <1>4. seen' = [r \in Row |-> seen[r] + Qty[o][r]]
    BY <1>3, StockAssumption DEF EndReturn, Commit, Needed, Inv, TypeOK
  <1> QED BY <1>1, <1>2, <1>4, OneOutcome DEF Promise!GiveBack

LEMMA EndSaveRefines ==
  ASSUME Inv, Next, NEW s \in Save, EndSave(s)
  PROVE  Promise!Recount(s)
  <1>1. s \in Tx /\ \A u \in Tx \ {s} : Outcome(u)' = Outcome(u)
    <2>1. \A u \in Tx \ {s} : phase'[u] = phase[u] /\ short'[u] = short[u]
      BY DEF EndSave, Commit, Ends, Inv, TypeOK
    <2> QED BY <2>1, OthersKeep DEF Tx
  <1>2. Outcome(s) = "none" /\ Outcome(s)' = "saved"
    BY <1>1, OutcomeOf DEF EndSave, Commit, Ends, Inv, TypeOK
  <1>3. seen' \in [Row -> Nat] BY DEF EndSave, Commit, Inv, TypeOK
  <1> QED BY <1>1, <1>2, <1>3, OneOutcome DEF Promise!Recount

LEMMA RollbackRefines ==
  ASSUME Inv, Next, NEW t \in Tx, Rollback(t), phase[t] \in Active
  PROVE  (t \in Order /\ Promise!Again(t)) \/ UNCHANGED Promise!vars
  <1>1. \A u \in Tx \ {t} : Outcome(u)' = Outcome(u)
    <2>1. \A u \in Tx \ {t} : phase'[u] = phase[u] /\ short'[u] = short[u]
      BY DEF Rollback, Ends, Inv, TypeOK
    <2> QED BY <2>1, OthersKeep DEF Tx
  <1>2. phase'[t] = Before(t) /\ short'[t] = FALSE /\ seen' = seen
    BY DEF Rollback, Ends, Inv, TypeOK
  <1>3. CASE phase[t] = "selling" /\ short[t]
    <2>1. Outcome(t) = "short" /\ Outcome(t)' = "none"
      BY <1>2, <1>3, OutcomeOf DEF Before
    <2>2. t \in Order BY <1>3 DEF Inv, Phases, Tx
    <2> QED BY <1>1, <1>2, <2>1, <2>2, OneOutcome DEF Promise!Again
  <1>4. CASE ~(phase[t] = "selling" /\ short[t])
    <2>1. Outcome(t)' = Outcome(t)
      BY <1>2, <1>4, OutcomeOf DEF Before, Active
    <2> QED BY <1>1, <1>2, <2>1, Stutter
  <1> QED BY <1>3, <1>4

\* What a transaction does to a row before it ends is not seen.
LEMMA RowStepsHidden ==
  ASSUME Inv, Next, UNCHANGED <<seen, phase, short>>
  PROVE  UNCHANGED Promise!vars
  <1>1. ASSUME NEW u \in Tx PROVE Outcome(u)' = Outcome(u)
    BY OutcomeOf
  <1> QED BY <1>1, Stutter

\* Neither is its beginning.
LEMMA BeginHidden ==
  ASSUME Inv, Next, NEW t \in Tx, NEW ph, NEW S, Begin(t, ph, S),
         \/ phase[t] = "idle" /\ ph \in {"selling", "saving"}
         \/ phase[t] = "sold" /\ ph = "returning"
  PROVE  UNCHANGED Promise!vars
  <1>1. \A u \in Tx \ {t} : Outcome(u)' = Outcome(u)
    BY OthersKeep DEF Begin, Inv, TypeOK
  <1>2. short[t] = FALSE BY DEF Inv, AtRest, Active
  <1>3. phase'[t] = ph /\ short'[t] = FALSE
    BY <1>2 DEF Begin, Inv, TypeOK
  <1>4. Outcome(t)' = Outcome(t)
    BY <1>2, <1>3, OutcomeOf
  <1> QED BY <1>1, <1>4, Stutter DEF Begin

LEMMA NextRefines == Inv /\ [Next]_vars => [Promise!Next]_(Promise!vars)
  <1> SUFFICES ASSUME Inv, Next
               PROVE  Promise!Next \/ UNCHANGED Promise!vars
    <2>1. CASE UNCHANGED vars
      BY <2>1 DEF vars, Promise!vars, Outcome
    <2> QED BY <2>1
  <1>1. ASSUME NEW o \in Order, SaleStep(o)
        PROVE  Promise!Next \/ UNCHANGED Promise!vars
    <2>1. CASE EndSale(o) BY <2>1, EndSaleRefines DEF Promise!Next
    <2>2. ASSUME NEW r \in Row, Take(o, r) \/ PutBack(o, r)
          PROVE  UNCHANGED Promise!vars
      BY <2>2, RowStepsHidden DEF Take, PutBack
    <2>3. ASSUME NEW r \in Row, Miss(o, r)
          PROVE  Promise!Next \/ UNCHANGED Promise!vars
      BY <2>3, MissRefines DEF Promise!Next
    <2> QED BY <1>1, <2>1, <2>2, <2>3 DEF SaleStep
  <1>2. ASSUME NEW o \in Order, ReturnStep(o)
        PROVE  Promise!Next \/ UNCHANGED Promise!vars
    <2>1. CASE EndReturn(o) BY <2>1, EndReturnRefines DEF Promise!Next
    <2>2. ASSUME NEW r \in Row, GiveBackRow(o, r)
          PROVE  UNCHANGED Promise!vars
      BY <2>2, RowStepsHidden DEF GiveBackRow
    <2> QED BY <1>2, <2>1, <2>2 DEF ReturnStep
  <1>3. ASSUME NEW s \in Save, SaveStep(s)
        PROVE  Promise!Next \/ UNCHANGED Promise!vars
    <2>1. CASE EndSave(s) BY <2>1, EndSaveRefines DEF Promise!Next
    <2>2. ASSUME NEW r \in Row, NEW n \in 0..MaxStock, SaveRow(s, r, n)
          PROVE  UNCHANGED Promise!vars
      BY <2>2, RowStepsHidden DEF SaveRow
    <2> QED BY <1>3, <2>1, <2>2 DEF SaveStep
  <1>4. ASSUME NEW t \in Tx,
               \/ t \in Order /\ (StartSale(t) \/ StartReturn(t))
               \/ t \in Save /\ StartSave(t)
        PROVE  UNCHANGED Promise!vars
    BY <1>4, BeginHidden DEF StartSale, StartReturn, StartSave
  <1>5. ASSUME NEW t \in Tx, Abort(t) \/ Dies(t)
        PROVE  Promise!Next \/ UNCHANGED Promise!vars
    <2>1. Rollback(t) /\ phase[t] \in Active
      BY <1>5, DeadlockedActive DEF Abort, Dies, Active
    <2> QED BY <2>1, RollbackRefines DEF Promise!Next
  <1> QED BY <1>1, <1>2, <1>3, <1>4, <1>5 DEF Next, Tx

\* Whatever the number of orders, rows and saves, and however their statements
\* interleave, wait, fail and are undone: orders take all their units at once,
\* or none (the promise at the top of stock.service.js).
THEOREM SalesAreAtomic == Spec => Atomic
  <1>1. Init => Promise!Init
    BY StockAssumption DEF Init, Promise!Init, Outcome, Tx, TypeOK
  <1>2. Inv /\ [Next]_vars => [Promise!Next]_(Promise!vars)
    BY NextRefines
  <1> QED BY <1>1, <1>2, InitInv, NextInv, PTL DEF Spec, Atomic, Promise!Spec

=============================================================================
