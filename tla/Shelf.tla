------------------------------- MODULE Shelf -------------------------------
(***************************************************************************)
(* What the stock promises, whatever goes on in the database: an order     *)
(* takes all its units at one moment or none, it is told there is not      *)
(* enough only when there is not, and what was taken can be given back.    *)
(***************************************************************************)
EXTENDS Naturals

CONSTANTS Order, Save, Row, Qty

VARIABLES shelf, outcome

vars == <<shelf, outcome>>

Init == shelf \in [Row -> Nat] /\ outcome = [t \in Order \cup Save |-> "none"]

Sell(o) ==
    /\ outcome[o] = "none"
    /\ \A r \in Row : shelf[r] >= Qty[o][r]
    /\ shelf' = [r \in Row |-> shelf[r] - Qty[o][r]]
    /\ outcome' = [outcome EXCEPT ![o] = "sold"]

Refuse(o) ==
    /\ outcome[o] = "none"
    /\ \E r \in Row : shelf[r] < Qty[o][r]
    /\ outcome' = [outcome EXCEPT ![o] = "short"]
    /\ UNCHANGED shelf

\* The refusal was not recorded: the order may be tried again.
Again(o) ==
    /\ outcome[o] = "short"
    /\ outcome' = [outcome EXCEPT ![o] = "none"]
    /\ UNCHANGED shelf

GiveBack(o) ==
    /\ outcome[o] = "sold"
    /\ shelf' = [r \in Row |-> shelf[r] + Qty[o][r]]
    /\ outcome' = [outcome EXCEPT ![o] = "returned"]

\* An admin's new numbers.
Recount(s) ==
    /\ outcome[s] = "none"
    /\ shelf' \in [Row -> Nat]
    /\ outcome' = [outcome EXCEPT ![s] = "saved"]

Next == \/ \E s \in Save : Recount(s)
        \/ \E o \in Order : Sell(o) \/ Refuse(o) \/ Again(o) \/ GiveBack(o)

Spec == Init /\ [][Next]_vars

=============================================================================
