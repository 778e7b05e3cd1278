------------------------------ MODULE Checkout ------------------------------
(***************************************************************************)
(* The handlers that bring payments to the order core (payment.routes.js,  *)
(* bank-transfer.service.js) and the providers on the other side.          *)
(*                                                                         *)
(* A handler reads the order, waits for a provider or for Cloudinary, and  *)
(* then writes by id: between its steps anything may happen to the order.  *)
(* A handler whose process dies stays where it is for good.                *)
(*                                                                         *)
(* A provider tells of every state a charge has been in, as often as it    *)
(* likes and in any order: webhooks are retried for hours, and the verify  *)
(* and MercadoPago handlers process a state they read a while before.      *)
(***************************************************************************)
EXTENDS Orders

CONSTANTS
    MaxCheckouts,  \* bound: online providers the customer tries for an order
    MaxReviews     \* bound: reviews of bank proofs under way at once

ASSUME CheckoutAssumption == MaxCheckouts \in Nat /\ MaxReviews \in Nat

VARIABLES
    charge,   \* not in the code: the charge at its provider, as it stands
    visits,   \* <<order, provider>>: checkout handlers past loadPayableOrder
    links,    \* <<order, provider>>: checkouts the customer was sent to
    upload,   \* how far uploadProof got with a bank proof
    proof,    \* order.paymentProofPublicId
    reviews   \* reviewTransfer handlers under way

desk == <<upload, proof, reviews>>
shop == <<charge, visits, links, desk>>
allVars == <<vars, shop>>

Proofs == {p \in Payment : Rail[p] = "BANK_TRANSFER"}

Review == [order : Order, proof : Payment, approve : BOOLEAN,
           step : {"read", "processed"}]

CheckoutTypeOK ==
    /\ charge \in [Payment -> {"none", "pending", "approved", "declined",
                               "failed", "cancelled", "refunded"}]
    /\ visits \subseteq Order \X Provider
    /\ links \subseteq Order \X Provider
    /\ upload \in [Payment -> {"no", "loaded", "stored", "done"}]
    /\ proof \in [Order -> Payment \cup {NoPayment}]
    /\ reviews \subseteq Review

CheckoutInit ==
    /\ Init
    /\ charge = [p \in Payment |-> "none"]
    /\ visits = {} /\ links = {}
    /\ upload = [p \in Payment |-> "no"]
    /\ proof = [o \in Order |-> NoPayment]
    /\ reviews = {}

-----------------------------------------------------------------------------
(* Starting a payment.                                                      *)

\* loadPayableOrder lets the handler go on.
Payable(o) ==
    /\ Exists(o) /\ ~deducted[o] /\ status[o] = "PENDING"
    /\ ~review[o] /\ rowStatus[o] \notin {"COMPLETED", "REFUNDED"}
    /\ CanTake(o)

\* The online providers the customer has tried.
Tried(o) == {v \in Provider \ {"BANK_TRANSFER"} : <<o, v>> \in visits \cup links}

OpenCheckout(o, v) ==
    /\ Payable(o)
    /\ v = "BANK_TRANSFER" \/ Cardinality(Tried(o) \cup {v}) <= MaxCheckouts
    /\ visits' = visits \cup {<<o, v>>}
    /\ UNCHANGED <<vars, charge, links, desk>>

\* Mutant: the write by id takes the order back to where the handler read it.
ChosenReopens(o, v) ==
    /\ <<o, v>> \in visits
    /\ status' = [status EXCEPT ![o] = "PENDING"]
    /\ via' = [via EXCEPT ![o] = v]
    /\ visits' = visits \ {<<o, v>>}
    /\ UNCHANGED <<deducted, review, age, reviewed, rowVars, event, logged,
                   stock, used, jobVars, supply, charge, desk>>

\* The provider answered: order.paymentProvider is overwritten by id.
Chosen(o, v) ==
    /\ <<o, v>> \in visits
    /\ SetProvider(o, v) \/ (via[o] = v /\ UNCHANGED vars)
    /\ visits' = visits \ {<<o, v>>}
    /\ UNCHANGED <<charge, desk>>

\* The customer goes to pay there.
HandOut(o, v) == Chosen(o, v) /\ links' = links \cup {<<o, v>>}

WompiCheckout(o)    == HandOut(o, "WOMPI")
CreatePreference(o) == HandOut(o, "MERCADOPAGO")
AddiCheckout(o)     == HandOut(o, "ADDI")
StartTransfer(o)    == Chosen(o, "BANK_TRANSFER") /\ UNCHANGED links

-----------------------------------------------------------------------------
(* The providers.  MercadoPago alone cancels a payment nobody completed, and *)
(* is alone in having no failure of its own to report.                      *)

Pay(p) ==
    /\ p \notin Proofs /\ charge[p] = "none"
    /\ <<PaidFor[p], Rail[p]>> \in links
    /\ charge' = [charge EXCEPT ![p] = "pending"]
    /\ UNCHANGED <<vars, visits, links, desk>>

Settle(p, c) ==
    /\ \/ charge[p] = "pending" /\ c \in {"approved", "declined"}
       \/ charge[p] = "pending" /\ c = "failed" /\ Rail[p] # "MERCADOPAGO"
       \/ charge[p] = "pending" /\ c = "cancelled" /\ Rail[p] = "MERCADOPAGO"
       \/ charge[p] = "approved" /\ c = "refunded" /\ Rail[p] # "ADDI"
    /\ charge' = [charge EXCEPT ![p] = c]
    /\ UNCHANGED <<vars, visits, links, desk>>

\* Mutant: a refusal is taken for an annulment.
MapStatusRefused(c) == CASE c = "pending"  -> "PENDING"
                         [] c = "approved" -> "APPROVED"
                         [] OTHER          -> "VOIDED"

\* mapWompiStatus, mapMercadoPagoStatus and mapAddiStatus.
MapStatus(c) == CASE c = "pending"  -> "PENDING"
                  [] c = "approved" -> "APPROVED"
                  [] c = "declined" -> "DECLINED"
                  [] c = "failed"   -> "ERROR"
                  [] OTHER          -> "VOIDED"

\* The states a charge has been in on its way to where it stands.
Passed(p) == CASE charge[p] = "none"     -> {}
               [] charge[p] = "pending"  -> {"pending"}
               [] charge[p] = "refunded" -> {"pending", "approved", "refunded"}
               [] OTHER                  -> {"pending", charge[p]}

\* A handler processes what the provider told of a charge.
Deliver(p) ==
    /\ \E c \in Passed(p) : /\ <<p, MapStatus(c)>> \in Reports
                            /\ ProcessPaymentUpdate(p, MapStatus(c))
    /\ UNCHANGED shop

WompiWebhook(p)       == Rail[p] = "WOMPI" /\ Deliver(p)
MercadoPagoWebhook(p) == Rail[p] = "MERCADOPAGO" /\ Deliver(p)
AddiCallback(p)       == Rail[p] = "ADDI" /\ Deliver(p)

\* verify/:orderId asks the providers that can be asked.
Verify(p) == Rail[p] \in {"WOMPI", "MERCADOPAGO"} /\ Deliver(p)

-----------------------------------------------------------------------------
(* Bank transfers: uploadProof.                                             *)

UploadLoad(p) ==
    /\ p \in Proofs /\ upload[p] = "no"
    /\ PaidFor[p] \in Order /\ Payable(PaidFor[p])
    /\ upload' = [upload EXCEPT ![p] = "loaded"]
    /\ UNCHANGED <<vars, charge, visits, links, proof, reviews>>

\* Cloudinary has the image: its id replaces any other proof of the order.
UploadStore(p) ==
    LET o == PaidFor[p] IN
    /\ upload[p] = "loaded"
    /\ \/ SetProvider(o, "BANK_TRANSFER")
       \/ via[o] = "BANK_TRANSFER" /\ UNCHANGED vars
    /\ proof' = [proof EXCEPT ![o] = p]
    /\ upload' = [upload EXCEPT ![p] = "stored"]
    /\ UNCHANGED <<charge, visits, links, reviews>>

UploadReport(p) ==
    /\ upload[p] = "stored"
    /\ <<p, "PENDING">> \in Reports /\ ProcessPaymentUpdate(p, "PENDING")
    /\ upload' = [upload EXCEPT ![p] = "done"]
    /\ UNCHANGED <<charge, visits, links, proof, reviews>>

-----------------------------------------------------------------------------
(* Bank transfers: reviewTransfer.                                          *)

\* The order has a bank proof for an admin to decide on.
Reviewable(o) == Exists(o) /\ via[o] = "BANK_TRANSFER" /\ proof[o] # NoPayment

ReviewRead(o, approve) ==
    /\ Reviewable(o) /\ Cardinality(reviews) < MaxReviews
    /\ approve \/ (~deducted[o] /\ rowStatus[o] # "COMPLETED")
    /\ reviews' = reviews \cup {[order |-> o, proof |-> proof[o],
                                 approve |-> approve, step |-> "read"]}
    /\ UNCHANGED <<vars, charge, visits, links, upload, proof>>

\* Approving and rejecting are reports like any other, processed once each.
ReviewProcess(w) ==
    LET s == IF w.approve THEN "APPROVED" ELSE "DECLINED"
    IN  /\ w.step = "read" /\ <<w.proof, s>> \in Reports
        /\ \/ ProcessPaymentUpdate(w.proof, s)
           \/ event[<<w.proof, s>>] # "NONE" /\ UNCHANGED vars
        /\ reviews' = (reviews \ {w}) \cup {[w EXCEPT !.step = "processed"]}
        /\ UNCHANGED <<charge, visits, links, upload, proof>>

\* The review is dated.  A rejection is also mailed, and its log entry names
\* one status twice: neither is a state anything here reads.
ReviewFinish(w) ==
    /\ w.step = "processed"
    /\ MarkReviewed(w.order)
    /\ reviews' = reviews \ {w}
    /\ UNCHANGED <<charge, visits, links, upload, proof>>

-----------------------------------------------------------------------------
\* What the core does with no payment handler involved.
Core ==
    /\ \/ \E o \in Order :
            \/ Quote(o) \/ CreateOrder(o) \/ ResolveReview(o)
            \/ \E to \in OrderStatus : UpdateOrderStatus(o, to)
            \/ GrowOlder(o) \/ ReviewGrowsOld(o)
       \/ \E t \in Target, n \in 0..MaxStock : SetStock(t, n)
       \/ JobStep \/ JobDies
    /\ UNCHANGED shop

CheckoutNext ==
    \/ Core
    \/ \E o \in Order :
         \/ \E v \in Provider : OpenCheckout(o, v)
         \/ WompiCheckout(o) \/ CreatePreference(o) \/ AddiCheckout(o)
         \/ StartTransfer(o)
    \/ \E p \in Payment :
         \/ Pay(p)
         \/ WompiWebhook(p) \/ MercadoPagoWebhook(p) \/ AddiCallback(p) \/ Verify(p)
         \/ Settle(p, "approved") \/ Settle(p, "declined") \/ Settle(p, "failed")
         \/ Settle(p, "cancelled") \/ Settle(p, "refunded")
         \/ UploadLoad(p) \/ UploadStore(p) \/ UploadReport(p)
    \/ \E o \in Order, approve \in BOOLEAN : ReviewRead(o, approve)
    \/ \E w \in reviews : ReviewProcess(w) \/ ReviewFinish(w)

CheckoutSpec == CheckoutInit /\ [][CheckoutNext]_allVars

\* Time passes, for orders and for reviews, the maintenance timer keeps firing,
\* and runs get to their end.
CheckoutFairness ==
    /\ \A o \in Order : /\ WF_allVars(GrowOlder(o) /\ UNCHANGED shop)
                        /\ WF_allVars(ReviewGrowsOld(o) /\ UNCHANGED shop)
    /\ WF_allVars(ExpireRead /\ UNCHANGED shop)
    /\ SF_allVars(ExpireUpdate /\ UNCHANGED shop)
    /\ WF_allVars(ExpireLog /\ UNCHANGED shop)

FairCheckoutSpec == CheckoutSpec /\ CheckoutFairness

-----------------------------------------------------------------------------
(* Properties.                                                              *)

\* Some provider, or an admin who saw the transfer, has taken money for o.
TakenMoney(o) ==
    \E p \in Payment :
      /\ PaidFor[p] = o
      /\ \/ charge[p] \in {"approved", "refunded"}
         \/ \E r \in Reports : r = <<p, "APPROVED">> /\ event[r] # "NONE"

\* A payments row is COMPLETED only for money that was taken: no order of
\* reports, retries or reviews makes up a payment.
CompletedIsBacked ==
    \A o \in Order : rowStatus[o] = "COMPLETED" =>
       \/ charge[rowId[o]] \in {"approved", "refunded"}
       \/ rowId[o] \in Proofs /\ event[<<rowId[o], "APPROVED">>] # "NONE"

\* A payments row is REFUNDED only for a charge that its provider refunded.
\* It holds while no charge is paid through MercadoPago.
RefundsAreReal ==
    \A o \in Order : rowStatus[o] = "REFUNDED" => charge[rowId[o]] = "refunded"

\* What processPaymentUpdate and the launch list say of attempts that came to
\* nothing: the order stays open, the customer can try again, and the expiry
\* job may cancel it.  It holds without MercadoPago; with it the code breaks
\* it, since a payment nobody completed is reported as an annulment.
UnpaidStaysRetriable ==
    \A o \in Order : status[o] = "PENDING" /\ ~TakenMoney(o) =>
                     ~review[o] /\ rowStatus[o] \notin {"COMPLETED", "REFUNDED"}

\* Reviews of the order keep coming to their end: each one dates it anew.
ReviewedForEver(o) ==
    []<><<\E w \in reviews : w.order = o /\ ReviewFinish(w)>>_allVars

\* An order for which no money is ever taken does not stay open for ever,
\* whatever attempts are pending, refused or waiting for a review when its time
\* runs out.  Only an admin who never stops reviewing it can keep it open.
OpenOrdersSettle ==
    \A o \in Order :
      \/ ReviewedForEver(o)
      \/ status[o] = "PENDING" ~> (status[o] # "PENDING" \/ TakenMoney(o))

=============================================================================
