------------------------------ MODULE MCPrices ------------------------------
(* One product with one variant, and orders of three lines.                *)
EXTENDS Prices

CONSTANTS shirt, e1, job

\* Hundredths of one per cent, and of a peso.
Percent(n) == [type |-> Percentage, value |-> 100 * n]
Fixed(n)   == [type |-> "FIXED", value |-> n]
Unchanged  == [isActive |-> TRUE]

Made(made)            == [create |-> made, edit |-> Unchanged]
Changed(made, edited) == [create |-> made, edit |-> edited]

\* The third item is asked for twice.
Request ==
    <<[item |-> 1, quantity |-> 1], [item |-> 3, quantity |-> 4],
      [item |-> 2, quantity |-> 2], [item |-> 3, quantity |-> 3]>>

Purchased(offers, code, coupon) ==
    [request |-> Request, offers |-> offers, code |-> code, coupon |-> coupon,
     ship |-> [flat |-> 900, freeFrom |-> 3000], stock |-> 7, now |-> 5]

\* Of the offers one is over, one leaves nothing to pay and cannot be edited to more
\* than everything, and one is never created; the last coupon is edited to more
\* than everything, and takes off all there is.
const_Purchase ==
    LET third  == Made([type |-> Percentage, value |-> 3300, endsAt |-> 5])
        fifty  == Changed(Fixed(50), [startsAt |-> 2])
        over   == Made([type |-> Percentage, value |-> 9000, endsAt |-> 4])
        toobig == Changed(Fixed(10100), [type |-> Percentage])
        none   == Made(Percent(101))
    IN  {Purchased({}, Null, none),
         Purchased({third, fifty, over}, Null, none),
         Purchased({third, fifty}, "C15", Made([type |-> Percentage, value |-> 1500,
                                                minPurchase |-> 2000, maxUses |-> 1])),
         Purchased({over}, "C10", Changed(Fixed(1000), [endsAt |-> 5])),
         Purchased({toobig}, Null, none),
         Purchased({none}, "ALL", Changed(Fixed(20000), [type |-> Percentage]))}

By(buyer, mail, town) ==
    [buyer |-> buyer, email |-> mail,
     address |-> [department |-> "d.c.", municipality |-> town, street |-> "calle 1"]]

Buyer(type, number, dv) ==
    [docType |-> type, docNumber |-> number, dv |-> dv, name |-> "ana", personType |-> Null]

const_Divipola ==
    [departmentAliases   |-> [n \in {"d.c."} |-> "bogota"],
     departments         |-> [n \in {"bogota", "bolivar"} |-> IF n = "bogota" THEN Bogota ELSE "13"],
     municipalityAliases |-> [n \in {"santa rosa"} |-> "santa rosa de lima"],
     municipalities      |-> [k \in {<<Bogota, "bogota dc">>, <<"13", "santa rosa de lima">>} |->
                                 IF k[1] = Bogota THEN "11001" ELSE "13683"]]

Env(environment, shipping, testSet) ==
    [missing |-> {}, environment |-> environment, nit |-> <<9, 0, 0, 1, 2, 3, 4, 5, 6>>, dv |-> 8,
     from |-> 1, to |-> 5000, prefix |-> "FE", shippingRate |-> shipping, personType |-> "1",
     name |-> "shop", taxLevelCode |-> "O-48", taxSchemeId |-> "01", technicalKey |-> "key",
     pin |-> "pin", testSetId |-> testSet]

\* The final consumer, a company and a passport, of Bogota, of a town with an alias
\* and of one that is not known until it is corrected; VAT on shipping and none.
\* The last two build nothing: there is no set of tests, and a NIT has no letters.
const_Circumstance ==
    LET nobody   == By(Null, "a@b", "bogota")
        company  == [By(Buyer("31", <<9, 0, 0, 1, 2, 3, 4, 5, 6>>, 8), "c@d", "santa rosa")
                        EXCEPT !.address.department = "bolivar"]
        passport == [By(Buyer("41", <<10, 1, 2>>, Null), "e@f", "nowhere")
                        EXCEPT !.address.department = "bolivar"]
        letters  == By(Buyer("31", <<9, 0, 0, 1, 2, 10>>, Null), "g@h", "bogota")
        Case(b, c, e, f) == [by |-> b, byLater |-> c, env |-> e, envLater |-> f]
        prod(r)  == Env(Production, r, Null)
    IN  {Case(nobody, nobody, prod(1900), prod(0)),
         Case(company, company, Env(Tests, 0, "set"), prod(1900)),
         Case(passport, [passport EXCEPT !.address.municipality = "santa rosa"], prod(0), prod(0)),
         Case(nobody, nobody, Env(Tests, 0, Null), prod(0)),
         Case(letters, letters, prod(0), prod(0))}

Secrets ==
    [publicKey |-> "pk", integritySecret |-> "is", eventsSecret |-> "es", accessToken |-> "at",
     webhookSecret |-> "ws", mpEnabled |-> Null, addiClient |-> "ac", addiSecret |-> "as",
     addiSlug |-> "sl", callbackUser |-> "cu", callbackPassword |-> "cp",
     transferEnabled |-> "true", nequi |-> "300", bancolombiaNumber |-> Null, brebKey |-> Null]

\* All there is to set, no secret for MercadoPago's webhook with Addi's tokens of
\* half a minute, and nearly nothing, with Addi out of reach.
const_Account ==
    LET Case(env, ttl, later, limits, answer) ==
            [env |-> env, account |-> Secrets, now |-> 7, ttl |-> ttl, later |-> later,
             limits |-> limits, answer |-> answer]
        redirects == [status |-> 302, location |-> "addi", url |-> Null]
        fails     == [status |-> 500, location |-> Null, url |-> Null]
    IN  {Case(Secrets, 3600, 3539, [min |-> 1000, max |-> 1000000], redirects),
         Case([Secrets EXCEPT !.webhookSecret = Null, !.eventsSecret = Null], 30, 29, Null,
              [redirects EXCEPT !.status = 200, !.location = Null, !.url = "addi"]),
         Case([Secrets EXCEPT !.mpEnabled = "false", !.nequi = Null], 60, 31, Null, fails)}

=============================================================================
