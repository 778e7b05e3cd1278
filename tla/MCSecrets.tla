----------------------------- MODULE MCSecrets -----------------------------
(* A customer, and the admin who may deactivate, erase or promote her.      *)
EXTENDS Secrets

CONSTANTS ana, boss

MCFirstRole == [u \in User |-> IF u = boss THEN "SUPER_ADMIN" ELSE "CUSTOMER"]
=============================================================================
