----------------------------- MODULE Documents -----------------------------
(***************************************************************************)
(* What the documents for the DIAN say (einvoice/ubl-builder.js, cufe.js,  *)
(* config.js and buildSignedDocument): an invoice, the credit note that    *)
(* annuls it, and the container the customer gets.  An XML document is a   *)
(* record of what it states.  Wording, the names of tags and whatever is   *)
(* the same in every document are left out, and a hash is the tuple of     *)
(* what it is taken of.                                                    *)
(***************************************************************************)
EXTENDS Billing

CONSTANTS
    Production, Tests, \* EINVOICE_ENV 1 and 2
    Divipola           \* the names and codes of places the DANE gives, and ours

-----------------------------------------------------------------------------
(* The number of a document is a sequence of its characters, digits being   *)
(* 0..9 and letters from 10 on.                                             *)

Weights == <<3, 7, 13, 17, 19, 23, 29, 37, 41, 43, 47, 53, 59, 67, 71>>

\* computeNitDv: the verification digit, modulo 11.
NitDv(number) ==
    LET digits == SelectSeq(number, LAMBDA c : c <= 9)
        r      == Total([i \in DOMAIN digits |-> digits[Len(digits) - i + 1] * Weights[i]]) % 11
    IN  IF Len(digits) \notin 1..Len(Weights) THEN Null ELSE IF r > 1 THEN 11 - r ELSE r

-----------------------------------------------------------------------------
(* The configuration, from the environment (getConfig).                     *)

Complaint(variable, wrong) == IF wrong THEN {variable} ELSE {}

\* The required variables that are not set, and those that make no sense.
ConfigErrors(env) ==
    env.missing
    \cup Complaint("ENV", env.environment \notin {Production, Tests})
    \cup Complaint("ISSUER_DV", env.dv \notin {Null, NitDv(env.nit)})
    \cup Complaint("RANGE", env.from > env.to)
    \cup Complaint("SHIPPING_TAX_RATE", env.shippingRate \notin 0..3000)
    \cup Complaint("ISSUER_PERSON_TYPE", env.personType \notin {"1", "2"})
    \cup Complaint("TEST_SET_ID", env.environment = Tests /\ env.testSetId = Null)

Config(env) ==
    [environment  |-> env.environment,
     issuer       |-> [docType |-> "31", docNumber |-> env.nit, dv |-> NitDv(env.nit),
                       personType |-> env.personType, name |-> env.name,
                       level |-> env.taxLevelCode, scheme |-> env.taxSchemeId],
     resolution   |-> [prefix |-> env.prefix, from |-> env.from, to |-> env.to],
     key          |-> env.technicalKey,
     pin          |-> env.pin,
     shippingRate |-> env.shippingRate]

-----------------------------------------------------------------------------
(* Who buys: what the checkout takes and the order keeps.                   *)

BuyerDocTypes == {"13", "22", "31", "41", "47", "48"}
Alphanumeric  == {"41", "47", "48"}

\* The validator of an order's buyer.  Without one it is for the final consumer.
ValidBuyer(buyer) ==
    \/ buyer = Null
    \/ /\ buyer.docType \in BuyerDocTypes
       /\ IF buyer.docType \in Alphanumeric THEN Len(buyer.docNumber) \in 3..20
          ELSE /\ Len(buyer.docNumber) \in 5..15 /\ buyer.docNumber[1] # 0
               /\ \A i \in DOMAIN buyer.docNumber : buyer.docNumber[i] \in 0..9
       /\ buyer.dv # Null => buyer.docType = "31" /\ buyer.dv = NitDv(buyer.docNumber)
       /\ buyer.personType \in {Null, "1", "2"}

NoBuyer == [docType |-> Null, docNumber |-> Null, dv |-> Null, name |-> Null, personType |-> Null]

\* buyerSnapshot: the digit is computed, whether or not it was sent.
BuyerSnapshot(buyer) ==
    IF buyer = Null THEN NoBuyer
    ELSE LET isNit == buyer.docType = "31" IN
         [docType    |-> buyer.docType,
          docNumber  |-> buyer.docNumber,
          dv         |-> IF isNit THEN NitDv(buyer.docNumber) ELSE Null,
          name       |-> buyer.name,
          personType |-> IF buyer.personType # Null THEN buyer.personType
                         ELSE IF isNit THEN "1" ELSE "2"]

\* A name, or the official one that stands for it.
Alias(aliases, name) == IF name \in DOMAIN aliases THEN aliases[name] ELSE name

Bogota == "11"

\* resolveLocation.  The department is looked up by its alias, the town by its
\* own name first; Bogota is a town of its own department only.
ResolveLocation(department, municipality) ==
    LET name     == Alias(Divipola.departmentAliases, department)
        dep      == Divipola.departments[name]
        town     == IF dep = Bogota THEN "bogota dc" ELSE municipality
        other    == Alias(Divipola.municipalityAliases, town)
        Known(t) == <<dep, t>> \in DOMAIN Divipola.municipalities
        Place(t) == [department |-> dep, city |-> Divipola.municipalities[<<dep, t>>]]
    IN  IF name \notin DOMAIN Divipola.departments THEN Null
        ELSE IF Known(town) THEN Place(town)
        ELSE IF Known(other) THEN Place(other) ELSE Null

-----------------------------------------------------------------------------
(* The parties.                                                             *)

\* The verification digit is only stated of a NIT.
CompanyId(id) ==
    [number |-> id.docNumber, type |-> id.docType,
     dv     |-> IF id.docType = "31" THEN id.dv ELSE Null]

\* listName: who answers for VAT.
TaxLevel(code, scheme) ==
    [code |-> code, list |-> IF scheme \in {"01", "ZA"} THEN "48" ELSE "49"]

\* A note states no resolution: resolution is Null.
SupplierParty(issuer, resolution) ==
    [id     |-> CompanyId(issuer),
     person |-> issuer.personType,
     name   |-> issuer.name,
     level  |-> TaxLevel(issuer.level, issuer.scheme),
     prefix |-> IF resolution = Null THEN Null ELSE resolution.prefix]

FinalConsumer == [docType |-> "13", docNumber |-> [i \in 1..12 |-> 2], dv |-> Null,
                  name |-> "consumidor final", personType |-> "2"]

\* Who gives no document is the final consumer, mail and address apart.
NormalizeBuyer(buyer) ==
    LET hasDoc == buyer.docType # Null /\ buyer.docNumber # Null
        who    == IF hasDoc THEN buyer ELSE FinalConsumer
    IN  [docType    |-> who.docType,
         docNumber  |-> who.docNumber,
         dv         |-> who.dv,
         name       |-> who.name,
         personType |-> IF who.personType # Null THEN who.personType
                        ELSE IF who.docType = "31" THEN "1" ELSE "2",
         email      |-> buyer.email,
         location   |-> buyer.location,
         street     |-> buyer.street]

\* The address is stated when the DANE has a code for the place.
CustomerParty(buyer) ==
    [id      |-> CompanyId(buyer),
     person  |-> buyer.personType,
     name    |-> buyer.name,
     level   |-> TaxLevel("R-99-PN", "ZZ"),
     address |-> IF buyer.location = Null \/ buyer.street = Null THEN Null
                 ELSE <<buyer.location, buyer.street>>,
     email   |-> buyer.email]

\* What an order says of its buyer (buyerFromOrder): the snapshot of the form,
\* the user's mail, and the place of the address if it has one.
BuyerFromOrder(by) ==
    LET kept == BuyerSnapshot(by.buyer)
        to   == by.address
    IN  NormalizeBuyer(
            [docType    |-> kept.docType,
             docNumber  |-> kept.docNumber,
             dv         |-> kept.dv,
             name       |-> kept.name,
             personType |-> kept.personType,
             email      |-> by.email,
             location   |-> IF to = Null THEN Null ELSE ResolveLocation(to.department, to.municipality),
             street     |-> IF to = Null THEN Null ELSE to.street])

-----------------------------------------------------------------------------
(* The amounts.                                                             *)

\* Of no rate nothing is stated.
TaxTotal(amounts) ==
    [tax       |-> IF DOMAIN amounts.subtotals = {} THEN 0 ELSE amounts.totals.taxTotal,
     subtotals |-> amounts.subtotals]

\* Money without the rounding when there is none.
MonetaryTotal(totals) ==
    [lineExtension |-> totals.lineExtension,
     taxExclusive  |-> totals.taxExclusive,
     taxInclusive  |-> totals.taxInclusive,
     rounding      |-> IF totals.rounding = 0 THEN Null ELSE totals.rounding,
     payable       |-> totals.payable]

\* The factor is a percentage with two decimals.
LineAllowance(line) ==
    IF line.allowance > 0
    THEN <<[tag    |-> "AllowanceCharge",
            factor |-> Round(line.allowance * 10000, line.unit * line.quantity),
            amount |-> line.allowance,
            base   |-> line.unit * line.quantity]>>
    ELSE <<>>

LineTax(line) ==
    IF line.mode # "excluded"
    THEN <<[tag |-> "TaxTotal", tax |-> line.tax, taxable |-> line.base, rate |-> line.rate]>>
    ELSE <<>>

\* The schema wants the allowance first in an invoice and last in a note.
DocumentLine(tag, line) ==
    [tag      |-> tag,
     quantity |-> line.quantity,
     amount   |-> line.base,
     parts    |-> IF tag = "InvoiceLine" THEN LineAllowance(line) \o LineTax(line)
                                         ELSE LineTax(line) \o LineAllowance(line),
     price    |-> line.unit]

\* Paid at once, with the means of the configuration.
PaymentMeans(date) == [terms |-> "1", due |-> date]

-----------------------------------------------------------------------------
(* The documents.                                                           *)

\* computeCufe and computeCude.
DocumentKey(doc, totals, buyer, config, secret) ==
    <<doc.number, doc.date, totals.lineExtension, totals.taxTotal, totals.payable,
      config.issuer.docNumber, buyer.docNumber, secret, config.environment>>

\* dianExtensions: only an invoice states the range it is numbered in.
DianExtensions(config, number, key, withInvoiceControl) ==
    [control  |-> IF withInvoiceControl THEN {config.resolution} ELSE {},
     security |-> <<config.pin, number>>,
     qr       |-> <<config.environment, key>>]

InvoiceXml(config, doc, buyer, amounts) ==
    [root       |-> "Invoice",
     extensions |-> DianExtensions(config, doc.number, doc.key, TRUE),
     id         |-> doc.number,
     uuid       |-> doc.key,
     date       |-> doc.date,
     count      |-> Len(amounts.lines),
     supplier   |-> SupplierParty(config.issuer, config.resolution),
     customer   |-> CustomerParty(buyer),
     payment    |-> PaymentMeans(doc.date),
     taxes      |-> TaxTotal(amounts),
     money      |-> MonetaryTotal(amounts.totals),
     lines      |-> [i \in DOMAIN amounts.lines |-> DocumentLine("InvoiceLine", amounts.lines[i])]]

\* What a credit note and a debit note differ in.  The shop issues credit notes;
\* debit notes are for the DIAN's set of tests.
NoteKind(kind) ==
    CASE kind = "credit" -> [root |-> "CreditNote", customization |-> "20", response |-> "2",
                             line |-> "CreditNoteLine"]
      [] kind = "debit"  -> [root |-> "DebitNote", customization |-> "30", response |-> "4",
                             line |-> "DebitNoteLine"]

NoteXml(kind, config, doc, buyer, amounts) ==
    LET k == NoteKind(kind)
    IN  [root        |-> k.root,
         extensions  |-> DianExtensions(config, doc.number, doc.key, FALSE),
         id          |-> doc.number,
         uuid        |-> doc.key,
         date        |-> doc.date,
         count       |-> Len(amounts.lines),
         discrepancy |-> [reference |-> doc.invoice.number, response |-> k.response],
         reference   |-> [id |-> doc.invoice.number, uuid |-> doc.invoice.key, date |-> doc.invoice.date],
         supplier    |-> SupplierParty(config.issuer, Null),
         customer    |-> CustomerParty(buyer),
         payment     |-> PaymentMeans(doc.date),
         taxes       |-> TaxTotal(amounts),
         money       |-> MonetaryTotal(amounts.totals),
         lines       |-> [i \in DOMAIN amounts.lines |-> DocumentLine(k.line, amounts.lines[i])]]

AttachedParty(party, level, scheme) ==
    [id |-> CompanyId(party), name |-> party.name, level |-> TaxLevel(level, scheme)]

\* The signed document with the answer of the DIAN.
AttachedDocument(config, built, answer) ==
    [id        |-> built.xml.id,
     sender    |-> AttachedParty(config.issuer, config.issuer.level, config.issuer.scheme),
     receiver  |-> AttachedParty(built.buyer, "R-99-PN", "ZZ"),
     contents  |-> built.xml,
     reference |-> [id |-> built.xml.id, uuid |-> built.key, date |-> built.xml.date],
     answer    |-> answer]

\* buildSignedDocument of an invoice.
Invoice(doc, config, buyer, amounts) ==
    LET key == DocumentKey(doc, amounts.totals, buyer, config, config.key)
    IN  [buyer |-> buyer, key |-> key,
         xml   |-> InvoiceXml(config, [number |-> doc.number, date |-> doc.date, key |-> key],
                              buyer, amounts)]

\* Its buyer is that of the first time.
BuildInvoice(doc, order, by, config, snapshot) ==
    Invoice(doc, config, IF snapshot = Null THEN BuyerFromOrder(by) ELSE snapshot,
            InvoiceAmounts(order, config.shippingRate))

\* Mutant: a note is made out to who the order's buyer is by now.
NoteBuyerNow(by, invoice) == BuyerFromOrder(by)

\* The buyer of a note is that of its invoice.
NoteBuyer(by, invoice) == invoice.buyer

\* And of the note that annuls an invoice.
CreditNote(doc, config, buyer, amounts, invoice) ==
    LET key == DocumentKey(doc, amounts.totals, buyer, config, config.pin)
    IN  [buyer |-> buyer, key |-> key,
         xml   |-> NoteXml("credit", config,
                           [number |-> doc.number, date |-> doc.date, key |-> key,
                            invoice |-> [number |-> invoice.xml.id, key |-> invoice.key,
                                         date |-> invoice.xml.date]],
                           buyer, amounts)]

BuildCreditNote(doc, order, by, config, invoice) ==
    CreditNote(doc, config, NoteBuyer(by, invoice),
               InvoiceAmounts(order, config.shippingRate), invoice)

-----------------------------------------------------------------------------
(* The PDF, made of the signed document.                                    *)

\* What a line states under a tag: nothing, or one thing.
PartsOf(line, tag) == {line.parts[i] : i \in {j \in DOMAIN line.parts : line.parts[j].tag = tag}}

AllowanceOf(line) == Total([p \in PartsOf(line, "AllowanceCharge") |-> p.amount])
TaxOf(line)       == Total([p \in PartsOf(line, "TaxTotal") |-> p.tax])
RatesOf(line)     == {p.rate : p \in PartsOf(line, "TaxTotal")}

\* extractPdfData.  What is not a credit note is taken for an invoice, and lines
\* with another tag are not seen.
PdfData(xml) ==
    LET isCreditNote == xml.root = "CreditNote"
        lineTag == IF isCreditNote THEN "CreditNoteLine" ELSE "InvoiceLine"
        rows    == {i \in DOMAIN xml.lines : xml.lines[i].tag = lineTag}
    IN  [number     |-> xml.id,
         cufe       |-> xml.uuid,
         resolution |-> xml.extensions.control,
         reference  |-> IF isCreditNote THEN {<<xml.reference.id, xml.reference.uuid>>} ELSE {},
         nit        |-> <<xml.supplier.id.number, xml.supplier.id.dv>>,
         customer   |-> [name |-> xml.customer.name, doc |-> xml.customer.id,
                         address |-> xml.customer.address, email |-> xml.customer.email],
         lines      |-> [i \in rows |->
                            [quantity  |-> xml.lines[i].quantity,
                             unitPrice |-> xml.lines[i].price,
                             allowance |-> AllowanceOf(xml.lines[i]),
                             base      |-> xml.lines[i].amount,
                             rates     |-> RatesOf(xml.lines[i]),
                             tax       |-> TaxOf(xml.lines[i])]],
         subtotals  |-> xml.taxes.subtotals,
         extension  |-> xml.money.lineExtension,
         rounding   |-> IF xml.money.rounding = Null THEN 0 ELSE xml.money.rounding,
         payable    |-> xml.money.payable]

\* The totals on the page, from the base to the total; no adjustment of 0 is shown.
ShownTotals(pdf) ==
    <<pdf.extension>>
    \o [i \in 1..Cardinality(DOMAIN pdf.subtotals) |->
           pdf.subtotals[InOrder(DOMAIN pdf.subtotals)[i]].tax]
    \o (IF pdf.rounding # 0 THEN <<pdf.rounding>> ELSE <<>>)

-----------------------------------------------------------------------------
(* What a document owes to its order and to the DIAN.                       *)

Within(x, slack) == x \in -slack..slack

TaxableOf(line)   == Total([p \in PartsOf(line, "TaxTotal") |-> p.taxable])

\* Every line is its price less its allowance, which is some share of it, and it
\* is not less than nothing.
LinesHold(xml) ==
    \A i \in DOMAIN xml.lines :
        LET line == xml.lines[i] IN
        /\ line.amount = line.price * line.quantity - AllowanceOf(line)
        /\ line.amount >= 0
        /\ \A p \in PartsOf(line, "AllowanceCharge") : p.base > 0 /\ p.factor \in 0..10000

\* The document states what its lines state, and the VAT of each rate is that
\* rate of what pays it, but for half a cent a line.
TotalsHold(xml) ==
    LET lines    == xml.lines
        Sum(F(_)) == Total([i \in DOMAIN lines |-> F(lines[i])])
        tax      == xml.taxes.tax
        rounding == IF xml.money.rounding = Null THEN 0 ELSE xml.money.rounding
        Amount(l) == l.amount
        Slack(l)  == l.quantity + 1
    IN  /\ xml.money.lineExtension = Sum(Amount)
        /\ xml.money.taxExclusive = Sum(TaxableOf)
        /\ tax = Sum(TaxOf)
        /\ xml.money.taxInclusive = xml.money.lineExtension + tax
        /\ xml.money.payable = xml.money.taxInclusive + rounding
        /\ Within(rounding, Sum(Slack))
        /\ \A r \in DOMAIN xml.taxes.subtotals :
               LET s == xml.taxes.subtotals[r] IN
               Within(2 * (10000 * s.tax - r * s.taxable), 10000 * Len(lines))

\* On paper the rows add up to the base, the base with every VAT and the
\* adjustment makes the total; an invoice states the range it is numbered in, a
\* note the invoice, and neither states both.
PaperHolds(pdf) ==
    LET Sum(F(_)) == Total([i \in DOMAIN pdf.lines |-> F(pdf.lines[i])])
        Stated(l) == l.base
        Net(l)    == l.unitPrice * l.quantity - l.allowance
    IN  /\ Sum(Stated) = pdf.extension /\ Sum(Net) = pdf.extension
        /\ Total(ShownTotals(pdf)) = pdf.payable
        /\ (pdf.resolution = {}) # (pdf.reference = {})

\* The coupon is shared out to the cent and no line bears more than it costs.
SharesHold(order) ==
    /\ Total(Shares(order)) = order.discount
    /\ \A i \in DOMAIN order.items : Shares(order)[i] \in 0..Grosses(order)[i]

DocumentHolds(built) ==
    LinesHold(built.xml) /\ TotalsHold(built.xml) /\ PaperHolds(PdfData(built.xml))

\* The invoice adds up to what was charged; and the note that annuls it later,
\* when the order has another buyer and VAT on shipping another rate, is made
\* out to the same buyer for the same amount, adds up too, and refers to the
\* invoice as the customer got it.
AddsUp(order, c) ==
    LET built == BuildInvoice([number |-> 1, date |-> 1], order, c.by, Config(c.env), Null)
        Annuls(invoice) == BuildCreditNote([number |-> 1, date |-> 2], order, c.byLater,
                                           Config(c.envLater), invoice)
        Hold(invoice, note, sent) ==
            /\ DocumentHolds(invoice) /\ DocumentHolds(note)
            /\ invoice.xml.money.payable = order.total
            /\ note.xml.money.payable = invoice.xml.money.payable
            /\ note.xml.customer = sent.contents.customer
            /\ note.xml.reference = sent.reference
            /\ note.key # invoice.key
    IN  /\ SharesHold(order)
        /\ Hold(built, Annuls(built), AttachedDocument(Config(c.env), built, "valid"))

=============================================================================
