----------------------------- MODULE MCCheckout -----------------------------
(***************************************************************************)
(* Instances of Checkout: one order, since orders meet only over stock and *)
(* the coupon, which MCOrders explores.                                    *)
(***************************************************************************)
EXTENDS Checkout, TLC

CONSTANTS o1, vest, w1, m1, a1, b1

MCItems   == [o \in Order |-> [t \in Target |-> 1]]
MCPaidFor == [p \in Payment |-> o1]
MCRail    == [p \in Payment |-> CASE p = w1         -> "WOMPI"
                                  [] p = m1         -> "MERCADOPAGO"
                                  [] p = a1         -> "ADDI"
                                  [] OTHER          -> "BANK_TRANSFER"]
MCReports == Payment \X PayStatus
\* The reports of attempts that took no money, or not yet: nothing is asked of an
\* order for which some was taken.  MercadoPago's payments nobody completed,
\* reported as annulments, are what MCCheckoutCancelled.cfg looks at.
SettleReports == Payment \X {"PENDING", "DECLINED"}
MCStock   == [t \in Target |-> 1]

=============================================================================
