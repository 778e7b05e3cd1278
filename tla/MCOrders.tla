------------------------------ MODULE MCOrders ------------------------------
(***************************************************************************)
(* Instances of Orders for TLC.                                            *)
(***************************************************************************)
EXTENDS Dashboard, TLC

CONSTANTS o1, o2, vest, p1, p2, p3, stray

MCPaidFor == [p \in Payment |-> CASE p \in {p1, p2} -> o1
                                  [] p = p3         -> o2
                                  [] OTHER          -> NoOrder]

\* Sales: o1 needs two units and o2 one of the two on the shelf, so that an
\* order may find part of what it needs; o1 may be paid twice.
SalesItems   == [o \in Order |-> [t \in Target |-> IF o = o1 THEN 2 ELSE 1]]
SalesRail    == [p \in Payment |-> "WOMPI"]
SalesReports == {<<p1, "APPROVED">>, <<p1, "VOIDED">>, <<p2, "APPROVED">>,
                 <<p2, "DECLINED">>, <<p3, "APPROVED">>, <<stray, "APPROVED">>}
SalesCategory == [t \in Target |-> "vests"]
SalesStock   == [t \in Target |-> 2]

\* Expiry: the transfer p1 and the card payment p2, of a wrong amount, for an
\* order that may grow old enough for the maintenance job.
ExpiryItems   == [o \in Order |-> [t \in Target |-> 1]]
ExpiryRail    == [p \in Payment |-> IF p = p1 THEN "BANK_TRANSFER" ELSE "WOMPI"]
ExpiryReports == {<<p1, "PENDING">>, <<p1, "APPROVED">>, <<p1, "DECLINED">>,
                  <<p2, "PENDING">>, <<p2, "APPROVED">>, <<stray, "APPROVED">>}
ExpiryStock   == [t \in Target |-> 1]

=============================================================================
