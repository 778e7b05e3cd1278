------------------------------ MODULE MCStock ------------------------------
(* Three orders over two rows, one of them of a single row, and an admin   *)
(* who saves both rows.                                                    *)
EXTENDS Stock

CONSTANTS o1, o2, o3, save, tee, mug

const_Qty ==
    [o \in Order |->
        [r \in Row |-> CASE o = o2 /\ r = tee -> 2 [] o = o3 /\ r = mug -> 0 [] OTHER -> 1]]

=============================================================================
