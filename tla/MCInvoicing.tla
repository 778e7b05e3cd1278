----------------------------- MODULE MCInvoicing ----------------------------
(***************************************************************************)
(* Instances of Invoicing for TLC.                                         *)
(***************************************************************************)
EXTENDS Invoicing, TLC

CONSTANTS o1, o2, w1, w2

\* Workers are interchangeable.
Symmetry == Permutations(Worker)

=============================================================================
