----------------------------- MODULE Providers -----------------------------
(***************************************************************************)
(* How an order is put to a provider of payments and what comes back of a  *)
(* charge: Wompi (config/wompi.js), MercadoPago (config/mercadopago.js),   *)
(* Addi (config/addi.js) and the transfer (config/bank-transfer.js), with  *)
(* the routes that call them (payment.routes.js).  The routes as steps of  *)
(* the shop are in Checkout; here is what they say and which answers they  *)
(* take.  A hash is the tuple of what it is taken of, money is in cents,   *)
(* time in minutes, and env holds the variables that are set.              *)
(***************************************************************************)
EXTENDS Billing

Ttl == 60   \* CHECKOUT_TTL_MINUTES, as configured by default

\* What identifiers and references are made of, and what is not set is none.
Words == {"KAES", "ORDER", "o1", "w1", "m1", "a1"}

ASSUME WordsAssumption == Null \notin Words \cup Seq(Words \cup Int)

IsSet(env, names) == \A n \in names : env[n] # Null

-----------------------------------------------------------------------------
(* Wompi.                                                                   *)

IsWompiConfigured(env) == IsSet(env, {"publicKey", "integritySecret", "eventsSecret"})

\* The signature of what is asked for, the end of the offer included.
IntegritySignature(asked, secret) ==
    <<asked.reference, asked.amountInCents, asked.currency, asked.expirationTime, secret>>

\* A reference of its own for each attempt.
BuildReference(id, now) == <<"KAES", id, now>>

\* And the order it is of: references of old had no time.
OrderIdFromReference(reference) ==
    IF reference = Null THEN Null
    ELSE IF reference[1] = "KAES" /\ Len(reference) = 3 THEN reference[2]
    ELSE IF reference[1] = "ORDER" /\ Len(reference) = 2 THEN reference[2] ELSE Null

\* wompiCheckout and buildCheckoutUrl.
BuildCheckoutUrl(order, now, env) ==
    LET asked == [reference      |-> BuildReference(order.id, now),
                  amountInCents  |-> order.total,
                  currency       |-> "COP",
                  expirationTime |-> now + Ttl]
    IN  [asked |-> asked, signature |-> IntegritySignature(asked, env.integritySecret)]

\* What the properties an event names are in its data, in their order.
Values(event) == [i \in DOMAIN event.properties |-> event.transaction[event.properties[i]]]

EventChecksum(event, secret) == <<Values(event), event.timestamp, secret>>

\* verifyEventChecksum, of an event that is signed.
VerifyEventChecksum(event, env) ==
    /\ env.eventsSecret # Null
    /\ event.properties # <<>>
    /\ event.checksum = EventChecksum(event, env.eventsSecret)

\* The webhook: what a transaction is to processPaymentUpdate.
FromTransaction(t) ==
    [order |-> OrderIdFromReference(t.reference), id |-> t.id, amount |-> t.amountInCents]

WompiWebhookTakes(event, env) ==
    /\ VerifyEventChecksum(event, env)
    /\ event.event = "transaction.updated"
    /\ OrderIdFromReference(event.transaction.reference) # Null

\* verify: the transactions of Wompi that are of this order.
VerifiedTransactions(transactions, id, env) ==
    IF IsWompiConfigured(env)
    THEN {t \in transactions : OrderIdFromReference(t.reference) = id} ELSE {}

\* Wompi charges what it is asked for with the right signature, and signs the
\* event with the secret of the shop's account.
WompiCharge(url, account) ==
    IF url.signature # IntegritySignature(url.asked, account.integritySecret) THEN {}
    ELSE {[id |-> "w1", status |-> "APPROVED", reference |-> url.asked.reference,
           amountInCents |-> url.asked.amountInCents, currency |-> url.asked.currency]}

WompiEvent(t, account) ==
    LET event == [event       |-> "transaction.updated",
                  properties  |-> <<"id", "status", "amountInCents">>,
                  transaction |-> t,
                  timestamp   |-> 1]
    IN  [event |-> event.event, properties |-> event.properties, transaction |-> t,
         timestamp |-> event.timestamp, checksum |-> EventChecksum(event, account.eventsSecret)]

-----------------------------------------------------------------------------
(* MercadoPago.                                                             *)

IsMercadoPagoConfigured(env) == IsSet(env, {"accessToken"})

\* One item for the whole of the order.
Preference(order, now) ==
    [items             |-> <<[quantity |-> 1, unitPrice |-> order.total]>>,
     externalReference |-> order.id,
     expires           |-> now + Ttl]

\* The parts that came, in their order; the identifier of a payment is a number,
\* which small letters leave as it is.
Manifest(notice) ==
    SelectSeq(<<notice.dataId, notice.requestId, notice.ts>>, LAMBDA part : part # Null)

\* verifyMpSignature.
VerifyMpSignature(notice, env) ==
    /\ env.webhookSecret # Null
    /\ notice.ts # Null /\ notice.v1 # Null
    /\ notice.v1 = <<Manifest(notice), env.webhookSecret>>

\* The webhook: a signature must be right, and none is needed, for the payment is
\* asked of MercadoPago with the shop's own token.
MercadoPagoWebhookTakes(notice, env) ==
    /\ notice.signed => VerifyMpSignature(notice, env)
    /\ notice.topic = "payment" /\ notice.dataId # Null
    /\ IsMercadoPagoConfigured(env)

FromPayment(p) == [order |-> p.externalReference, id |-> p.id, amount |-> p.transactionAmount]

VerifiedPayments(payments, id, env) ==
    IF IsMercadoPagoConfigured(env) THEN {p \in payments : p.externalReference = id} ELSE {}

\* MercadoPago charges the items, and no amount of nothing.
MercadoPagoCharge(preference) ==
    LET amount == Total([i \in DOMAIN preference.items |->
                            preference.items[i].quantity * preference.items[i].unitPrice])
    IN  IF amount = 0 THEN {}
        ELSE {[id |-> "m1", status |-> "approved", transactionAmount |-> amount,
               externalReference |-> preference.externalReference]}

\* Signed with the secret of the account, or an old notice without a signature.
MercadoPagoNotices(p, account) ==
    {[signed |-> s, topic |-> "payment", dataId |-> p.id, requestId |-> "r1", ts |-> 1,
      v1 |-> <<<<p.id, "r1", 1>>, account.webhookSecret>>] : s \in BOOLEAN}

-----------------------------------------------------------------------------
(* Addi, whose amounts are in whole pesos.                                  *)

IsAddiConfigured(env) ==
    IsSet(env, {"addiClient", "addiSecret", "addiSlug", "callbackUser", "callbackPassword"})

NoToken == [token |-> Null, expiresAt |-> 0]

\* getToken: the one in memory, or a new one kept until a minute before its end,
\* and for half a minute at least.  Times are in seconds here.
GetToken(cache, now, issued) ==
    IF cache.token # Null /\ now < cache.expiresAt THEN cache
    ELSE [token     |-> issued,
          expiresAt |-> now + (IF issued.ttl - 60 > 30 THEN issued.ttl - 60 ELSE 30)]

\* Cents in whole pesos.
Pesos(c) == Round(c, 100)

BuildApplicationBody(order) ==
    [orderId        |-> order.id,
     totalAmount    |-> Pesos(order.total),
     shippingAmount |-> Pesos(order.shipping),
     items          |-> <<[quantity |-> 1, unitPrice |-> Pesos(order.total)]>>,
     client         |-> IF order.docNumber = Null THEN <<>>
                        ELSE <<IF order.docType = "31" THEN "NIT" ELSE "CC", order.docNumber>>]

\* createApplication: a redirection, or an address in the body of what went well.
CreateApplication(answer) ==
    IF answer.location # Null /\ answer.status \in 300..399 THEN answer.location
    ELSE IF answer.status \in 200..299 THEN answer.url ELSE Null

\* getAmountLimits: none are known when Addi does not say; the route refuses what
\* is out of those it knows.
InLimits(order, limits) ==
    limits # Null => order.total >= limits.min /\ order.total <= limits.max

VerifyCallbackAuth(authorization, env) ==
    /\ IsSet(env, {"callbackUser", "callbackPassword"})
    /\ authorization = <<env.callbackUser, env.callbackPassword>>

AddiCallbackTakes(callback, env) ==
    /\ VerifyCallbackAuth(callback.authorization, env)
    /\ callback.orderId # Null /\ callback.applicationId # Null

\* An amount that is missing, or nothing, is none.
FromCallback(callback) ==
    [order  |-> callback.orderId,
     id     |-> callback.applicationId,
     amount |-> IF callback.approvedAmount = Null \/ callback.approvedAmount = 0 THEN Null
                ELSE 100 * callback.approvedAmount]

\* Addi lends all of it, when the token it gave still holds; it may not say how
\* much.
AddiCallbacks(body, token, now, account) ==
    IF now >= token.givenAt + token.ttl THEN {}
    ELSE {[authorization |-> <<account.callbackUser, account.callbackPassword>>,
           orderId |-> body.orderId, applicationId |-> "a1", approvedAmount |-> a] :
              a \in {body.totalAmount, Null}}

-----------------------------------------------------------------------------
(* The transfer.                                                            *)

GetTransferAccounts(env) ==
    {a \in {"nequi", "bancolombiaNumber", "brebKey"} : env[a] # Null}

IsTransferConfigured(env) == env.transferEnabled = "true" /\ GetTransferAccounts(env) # {}

\* The admin who approves the proof reports the total of the order.
ApprovedTransfer(order) == [order |-> order.id, id |-> "proof:p1", amount |-> order.total]

-----------------------------------------------------------------------------
(* What the shop offers, and what comes of a customer who just pays.        *)

Offered(env) ==
    {p \in {"wompi", "mercadopago", "addi", "transfer"} :
        CASE p = "wompi"       -> IsWompiConfigured(env)
          [] p = "mercadopago" -> IsMercadoPagoConfigured(env) /\ env.mpEnabled # "false"
          [] p = "addi"        -> IsAddiConfigured(env)
          [] p = "transfer"    -> IsTransferConfigured(env)}

\* Mutant: to the cent.
SameAmountExactly(a, b) == a = b

\* sameAmount: within a peso (AMOUNT_TOLERANCE).
SameAmount(a, b) == a - b \in -100..100

\* processPaymentUpdate, of what is approved: no amount is the right amount.
Settles(report, order) ==
    /\ report.order = order.id
    /\ report.amount # Null => SameAmount(report.amount, order.total)

\* A case is how a shop is set up and its accounts are, when the order is paid and
\* what Addi answers.  Of each charge, what the shop takes in.
WompiReports(order, c) ==
    LET charged == WompiCharge(BuildCheckoutUrl(order, c.now, c.env), c.account)
        events  == {WompiEvent(t, c.account) : t \in charged}
    IN  {FromTransaction(e.transaction) : e \in {f \in events : WompiWebhookTakes(f, c.env)}}
        \cup {FromTransaction(t) : t \in VerifiedTransactions(charged, order.id, c.env)}

MercadoPagoReports(order, c) ==
    LET charged == MercadoPagoCharge(Preference(order, c.now))
        Told(p) == \E n \in MercadoPagoNotices(p, c.account) : MercadoPagoWebhookTakes(n, c.env)
    IN  {FromPayment(p) : p \in {q \in charged : Told(q)}}
        \cup {FromPayment(p) : p \in VerifiedPayments(charged, order.id, c.env)}

\* Another order has had a token before.
AddiReports(order, c) ==
    LET Issued(at) == [givenAt |-> at, ttl |-> c.ttl]
        before     == GetToken(NoToken, 0, Issued(0))
        token      == GetToken(before, c.later, Issued(c.later)).token
    IN  {FromCallback(b) :
            b \in {d \in AddiCallbacks(BuildApplicationBody(order), token, c.later, c.account) :
                      AddiCallbackTakes(d, c.env)}}

\* The providers that will have this order.
Takers(order, c) ==
    {p \in Offered(c.env) :
        /\ p = "mercadopago" => order.total > 0
        /\ p = "addi" => InLimits(order, c.limits) /\ CreateApplication(c.answer) # Null}

Reports(p, order, c) ==
    CASE p = "wompi"       -> WompiReports(order, c)
      [] p = "mercadopago" -> MercadoPagoReports(order, c)
      [] p = "addi"        -> AddiReports(order, c)
      [] p = "transfer"    -> {ApprovedTransfer(order)}

\* Who pays what is asked has paid: the shop takes in some report of it, and none
\* says another order or another amount.
JustPays(order, c) ==
    \A p \in Takers(order, c) :
        Reports(p, order, c) # {} /\ \A r \in Reports(p, order, c) : Settles(r, order)

=============================================================================
