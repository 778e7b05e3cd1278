-------------------------------- MODULE Cart --------------------------------
(***************************************************************************)
(* The cart of a customer: her rows of cart_items (cart.service.js), and   *)
(* the copies in her browser (cart.store.js, auth.store.js): one in        *)
(* localStorage, and one in the memory of each of two pages, which read    *)
(* localStorage when they open and write all of it when they save.         *)
(*                                                                         *)
(* A guest's cart lives in localStorage.  At login, and whenever a page of *)
(* a signed-in customer loads, initCart uploads the items the server does  *)
(* not have, one request after the other, empties localStorage and shows   *)
(* what the server has.  A request may be refused, or done and its answer  *)
(* lost, in which case fetchWithRetry repeats it; a page may be left at    *)
(* any moment, and what it sent is then still on its way.                  *)
(***************************************************************************)
EXTENDS Naturals

CONSTANTS
    One, Two, \* two pages of the browser
    Line,     \* product, size and color
    Loose,    \* lines with no size or no color: NULL escapes the unique index
    MaxQty,   \* MAX_QTY
    Asks      \* bound: the units of each line that the customer asks for

ASSUME CartAssumption ==
    /\ One # Two /\ One # "left" /\ Two # "left"
    /\ Loose \subseteq Line /\ MaxQty \in Nat \ {0} /\ Asks \in [Line -> Nat]

Page   == {One, Two}
Sender == {One, Two, "left"}

VARIABLES
    server,   \* the quantity of each line in cart_items
    order,    \* the units of each line in the unpaid order, if there is one
    session,  \* the API takes the browser's cookies
    known,    \* localStorage.user
    stored,   \* localStorage.cart
    user,     \* currentUser of each page
    items,    \* cartItems of each page
    page,     \* what each page is at
    todo,     \* the lines that the initCart of each page has still to upload
    calls,    \* the request of each page, and one of a page that was left
    owed,     \* ghost: the units the customer asked for
    short,    \* ghost: lines that may have lost units, for a reason named here
    doubled,  \* ghost: lines that may have been added twice
    mixed,    \* ghost: lines that two copies of the cart disagreed on
    taken,    \* ghost: lines of localStorage that a page uploads or has uploaded
    plain     \* ghost: no second page was opened, and bootstrapAuth signed nobody in

shop    == <<server, order, session>>
browser == <<known, stored, user, items, page, todo>>
ghosts  == <<owed, short, doubled, mixed, taken, plain>>
vars    == <<shop, browser, calls, ghosts>>

\* copy: the item has a cartItemId, it came from the server.
Item == [n : Nat, copy : BOOLEAN]
None == [n |-> 0, copy |-> FALSE]

NoItems == [l \in Line |-> None]
NoOrder == [l \in Line |-> 0]
AsItems == [l \in Line |-> [n |-> server[l], copy |-> server[l] > 0]]

\* A request between its read and its write: found is the quantity of the row
\* it read, gone whether that row was deleted since.
Call == [kind : {"add", "set", "remove"}, line : Line, n : Nat,
         step : {"sent", "read"}, found : Nat, gone : BOOLEAN]
NoCall == [step |-> "none"]

\* A page is new until its bootstrapAuth has an answer; then idle, in initCart
\* (sync, load), or at a request and the load that follows it (op, reload).
\* One row at most for a line with size and color, so never above MAX_QTY.
TypeOK ==
    /\ server \in [Line -> Nat] /\ order \in [Line -> Nat]
    /\ \A l \in Line \ Loose : server[l] <= MaxQty
    /\ session \in BOOLEAN /\ known \in BOOLEAN /\ user \in [Page -> BOOLEAN]
    /\ stored \in [Line -> Item] /\ items \in [Page -> [Line -> Item]]
    /\ page \in [Page -> {"closed", "new", "idle", "sync", "load", "op", "reload"}]
    /\ todo \in [Page -> SUBSET Line]
    /\ calls \in [Sender -> Call \cup {NoCall}]
    /\ owed \in [Line -> Nat]
    /\ short \subseteq Line /\ doubled \subseteq Line /\ mixed \subseteq Line
    /\ taken \subseteq Line /\ plain \in BOOLEAN

Init ==
    /\ server = [l \in Line |-> 0] /\ order = NoOrder /\ session = FALSE
    /\ known = FALSE /\ stored = NoItems
    /\ user = [p \in Page |-> FALSE] /\ items = [p \in Page |-> NoItems]
    /\ page = [p \in Page |-> "closed"] /\ todo = [p \in Page |-> {}]
    /\ calls = [s \in Sender |-> NoCall]
    /\ owed = [l \in Line |-> 0] /\ short = {} /\ doubled = {} /\ mixed = {}
    /\ taken = {} /\ plain = TRUE

Capped(n)  == IF n > MaxQty THEN MaxQty ELSE n
Less(m, n) == IF m > n THEN m - n ELSE 0

\* Mutant: the copies of server rows are uploaded too.
LocalOnlyAll(I) == {l \in Line : I[l].n > 0}

\* The filter of initCart.
LocalOnly(I) == {l \in Line : I[l].n > 0 /\ ~I[l].copy}

Waiting(p) == calls[p] # NoCall
At(p, s)   == page' = [page EXCEPT ![p] = s]

-----------------------------------------------------------------------------
(* Which copy counts: the units of localStorage that no page has taken.     *)

LocalIn(I, l) == IF I[l].copy THEN 0 ELSE I[l].n
Kept(l)       == IF l \in taken THEN 0 ELSE LocalIn(stored, l)

\* The lines that p's initCart uploads, or has uploaded and still shows.
Claimed(p) == IF page[p] \in {"sync", "load"} THEN LocalOnly(items[p]) ELSE {}

\* When p saves its items: those uploaded that are in localStorage again, and
\* those that localStorage had otherwise.
Again(p) == {l \in taken \ Claimed(p) : LocalIn(items[p], l) > 0}
Over(p)  == {l \in Line \ taken :
                 LocalIn(stored, l) # IF l \in Claimed(p) THEN 0 ELSE LocalIn(items[p], l)}

\* What emptying localStorage, or leaving p before its uploads, takes with it.
Wiped      == {l \in Line : Kept(l) > 0}
Dropped(p) == {l \in todo[p] : l \notin taken \/ LocalIn(stored, l) # items[p][l].n}

\* One page whose customers sign in by initCart has nothing to mix up.
Mix(S) == mixed' = IF plain THEN mixed ELSE mixed \cup S

\* All of localStorage is replaced; the lines of T were uploaded already.
Save(I, T) == stored' = I /\ taken' = T

\* initCart starts with the items I, where localStorage's lines T were taken.
InitCart(p, I, T) ==
    /\ At(p, "sync") /\ todo' = [todo EXCEPT ![p] = LocalOnly(I)]
    /\ taken' = T \cup LocalOnly(I)
    /\ doubled' = doubled \cup (T \cap LocalOnly(I))

\* The lines it uploads in quantities that are not those of localStorage.
Differs(I) == {l \in LocalOnly(I) \ taken : LocalIn(stored, l) # I[l].n}

-----------------------------------------------------------------------------
(* Pages and sessions.                                                      *)

\* A page loads in place of the last one, whose request nobody waits for now.
\* What that one had uploaded is uploaded again if localStorage still has it.
Open(p) ==
    /\ Waiting(p) => calls["left"] = NoCall
    /\ calls' = IF Waiting(p) THEN [calls EXCEPT !["left"] = calls[p], ![p] = NoCall]
                              ELSE calls
    /\ items' = [items EXCEPT ![p] = stored] /\ user' = [user EXCEPT ![p] = known]
    /\ plain' = (plain /\ \A q \in Page \ {p} : page[q] = "closed")
    /\ Mix(Dropped(p))
    /\ \/ known /\ InitCart(p, stored, taken \ todo[p])
       \/ /\ ~known /\ At(p, "new") /\ todo' = [todo EXCEPT ![p] = {}]
          /\ taken' = taken \ todo[p] /\ UNCHANGED doubled
    /\ UNCHANGED <<shop, known, stored, owed, short>>

\* setAuth, after a login or on the login page of one who is signed in.
SetAuth(p) ==
    /\ page[p] \in {"new", "idle"}
    /\ session' = TRUE /\ known' = TRUE /\ user' = [user EXCEPT ![p] = TRUE]
    /\ InitCart(p, items[p], taken) /\ Mix(Differs(items[p]))
    /\ UNCHANGED <<server, order, stored, items, calls, owed, short, plain>>

\* clearAuth: logoutCart saves what the page shows.
ClearAuth(p) ==
    /\ Save(items[p], Claimed(p)) /\ known' = FALSE /\ user' = [user EXCEPT ![p] = FALSE]
    /\ doubled' = doubled \cup Again(p) /\ Mix(Over(p))

\* The answer of bootstrapAuth: it signs in, in memory alone, a page that read
\* no user in localStorage, and checkout.astro then calls initCart.
Boot(p) ==
    /\ page[p] = "new"
    /\ \/ /\ session /\ user' = [user EXCEPT ![p] = TRUE] /\ plain' = FALSE
          /\ \/ InitCart(p, items[p], taken) /\ Mix(Differs(items[p]))
             \/ At(p, "idle") /\ UNCHANGED <<todo, taken, doubled, mixed>>
          /\ UNCHANGED <<known, stored>>
       \/ ~session /\ ClearAuth(p) /\ At(p, "idle") /\ UNCHANGED <<todo, plain>>
       \/ At(p, "idle") /\ UNCHANGED <<known, stored, user, todo, doubled, mixed, taken, plain>>
    /\ UNCHANGED <<shop, items, calls, owed, short>>

\* The header's button, whatever the page is at; its request may fail.  What
\* the page is at goes on until the next one opens.
Logout(p) ==
    /\ user[p] /\ ClearAuth(p)
    /\ session' \in {session, FALSE}
    /\ UNCHANGED <<server, order, items, page, todo, calls, owed, short, plain>>

\* The refresh token expires, or the sessions are revoked.
SessionEnds ==
    session /\ session' = FALSE /\ UNCHANGED <<server, order, browser, calls, ghosts>>

-----------------------------------------------------------------------------
(* A guest's cart.                                                          *)

\* A guest's page has item i of line l, and saves all it shows.
GuestShows(p, l, i) ==
    /\ ~user[p] /\ page[p] \in {"new", "idle"}
    /\ items' = [items EXCEPT ![p][l] = i] /\ Save(items'[p], {})
    /\ Mix(Over(p))
    /\ UNCHANGED <<shop, known, user, page, todo, calls, plain>>

\* Units added to a copy of a server row are never uploaded.
GuestAdd(p, l) ==
    LET i == items[p][l] IN
    /\ owed[l] < Asks[l] /\ i.n < Asks[l]
    /\ GuestShows(p, l, [i EXCEPT !.n = @ + 1])
    /\ owed' = [owed EXCEPT ![l] = @ + 1]
    /\ short' = IF i.copy THEN short \cup {l} ELSE short
    /\ doubled' = doubled \cup Again(p)

\* updateQuantity and removeFromCart; the server is not told of a copy's.
GuestSet(p, l, n) ==
    LET i == items[p][l] IN
    /\ i.n > 0 /\ n # i.n /\ (n > i.n => owed[l] + n <= Asks[l] + i.n)
    /\ GuestShows(p, l, IF n = 0 THEN None ELSE [i EXCEPT !.n = n])
    /\ owed' = [owed EXCEPT ![l] = Less(@ + n, i.n)]
    /\ short' = IF i.copy /\ n > i.n THEN short \cup {l} ELSE short
    /\ doubled' = doubled \cup Again(p) \cup IF i.copy /\ n < i.n THEN {l} ELSE {}

-----------------------------------------------------------------------------
(* A signed-in customer: the page asks the server and then loads its cart.  *)

Send(p, kind, l, n) ==
    calls' = [calls EXCEPT ![p] = [kind |-> kind, line |-> l, n |-> n, step |-> "sent",
                                   found |-> 0, gone |-> FALSE]]

\* addToCart.
Add(p, l) ==
    /\ user[p] /\ page[p] = "idle" /\ owed[l] < Asks[l]
    /\ Send(p, "add", l, 1) /\ At(p, "op")
    /\ owed' = [owed EXCEPT ![l] = @ + 1]
    /\ UNCHANGED <<shop, known, stored, user, items, todo, short, doubled, mixed, taken, plain>>

\* updateQuantity and removeFromCart, for an item the server has.
Change(p, l, n) ==
    /\ user[p] /\ page[p] = "idle" /\ items[p][l].copy
    /\ Send(p, IF n = 0 THEN "remove" ELSE "set", l, n) /\ At(p, "op")
    /\ UNCHANGED <<shop, known, stored, user, items, todo, ghosts>>

\* removeFromCart, for one it does not: only the page loses it.
RemoveLocal(p, l) ==
    /\ user[p] /\ page[p] = "idle" /\ l \in LocalOnly(items[p])
    /\ At(p, "reload") /\ Mix({l})
    /\ owed' = [owed EXCEPT ![l] = Less(@, items[p][l].n)]
    /\ UNCHANGED <<shop, known, stored, user, items, todo, calls, short, doubled, taken, plain>>

\* syncLocalItemsToAPI sends the next item.
Upload(p, l) ==
    /\ page[p] = "sync" /\ ~Waiting(p) /\ l \in todo[p]
    /\ Send(p, "add", l, items[p][l].n) /\ todo' = [todo EXCEPT ![p] = @ \ {l}]
    /\ UNCHANGED <<shop, known, stored, user, items, page, ghosts>>

\* All were sent: localStorage is emptied, whatever came of them.
SyncEnds(p) ==
    /\ page[p] = "sync" /\ ~Waiting(p) /\ todo[p] = {}
    /\ Save(NoItems, {}) /\ Mix(Wiped) /\ At(p, "load")
    /\ UNCHANGED <<shop, known, user, items, todo, calls, owed, short, doubled, plain>>

\* loadCartFromAPI: an error shows an empty cart, and one that no refresh
\* answers signs the page out.  A page that is signed out saves what it shows.
Load(p) ==
    /\ page[p] \in {"load", "reload"} /\ At(p, "idle")
    /\ \/ session /\ items' = [items EXCEPT ![p] = AsItems] /\ UNCHANGED <<known, user>>
       \/ items' = [items EXCEPT ![p] = NoItems] /\ UNCHANGED <<known, user>>
       \/ /\ ~session /\ items' = [items EXCEPT ![p] = NoItems]
          /\ known' = FALSE /\ user' = [user EXCEPT ![p] = FALSE]
    /\ IF user'[p] THEN UNCHANGED <<stored, taken, mixed>>
                   ELSE Save(items'[p], {}) /\ Mix(Wiped)
    /\ UNCHANGED <<shop, todo, calls, owed, short, doubled, plain>>

\* resetLocalCart, on the pages that end a checkout.
ResetLocal(p) ==
    /\ user[p] /\ page[p] = "idle"
    /\ items' = [items EXCEPT ![p] = NoItems] /\ Save(NoItems, {}) /\ Mix(Wiped)
    /\ UNCHANGED <<shop, known, user, page, todo, calls, owed, short, doubled, plain>>

\* The order has what the page shows; the cart is kept until it is paid.  Bound:
\* one unpaid order.
PlaceOrder(p) ==
    /\ user[p] /\ page[p] = "idle" /\ session /\ order = NoOrder
    /\ order' = [l \in Line |-> items[p][l].n] /\ order' # NoOrder
    /\ UNCHANGED <<server, session, browser, calls, ghosts>>

-----------------------------------------------------------------------------
(* The server.                                                              *)

\* s's request is over; the page goes on with what it was at.
Ends(s, cs, well) ==
    /\ calls' = [cs EXCEPT ![s] = NoCall]
    /\ page' = [p \in Page |-> IF p # s \/ page[p] # "op" THEN page[p]
                               ELSE IF well THEN "reload" ELSE "idle"]

\* The row of l is deleted under the requests that have read it.
Forget(l) == [s \in Sender |-> IF calls[s] # NoCall /\ calls[s].line = l /\ calls[s].found > 0
                               THEN [calls[s] EXCEPT !.gone = TRUE] ELSE calls[s]]

\* findFirst.
Read(s) ==
    /\ calls[s] # NoCall /\ calls[s].step = "sent" /\ session
    /\ calls' = [calls EXCEPT ![s].step = "read", ![s].found = server[calls[s].line],
                              ![s].gone = FALSE]
    /\ UNCHANGED <<shop, browser, ghosts>>

\* An add cannot write: its row is gone (P2025), or another request created
\* the row first (P2002).
Conflict(c) == \/ c.gone
               \/ c.found = 0 /\ server[c.line] > 0 /\ c.line \notin Loose

\* Mutant: the quantity is replaced.
SummedNot(c) == Capped(c.n)

\* Mutant: only what is asked for is capped, not the sum.
SummedUncapped(c) == server[c.line] + Capped(c.n)

\* The quantity of the line after an add.
Summed(c) == IF c.found = 0 THEN server[c.line] + Capped(c.n) ELSE Capped(c.found + Capped(c.n))

\* Two requests at once for the same line: an add undoes what was written since
\* it read the row.
AddWrite(s) ==
    LET c == calls[s] IN
    /\ c # NoCall /\ c.kind = "add" /\ c.step = "read" /\ ~Conflict(c)
    /\ server' = [server EXCEPT ![c.line] = Summed(c)]
    /\ short' = IF (c.found # server[c.line] /\ c.found > 0) \/ c.found + c.n > MaxQty
                THEN short \cup {c.line} ELSE short
    /\ doubled' = IF c.found > server[c.line] THEN doubled \cup {c.line} ELSE doubled
    /\ Ends(s, calls, TRUE)
    /\ UNCHANGED <<order, session, known, stored, user, items, todo, owed, mixed, taken, plain>>

\* updateCartItem and removeFromCart.
ChangeWrite(s) ==
    LET c == calls[s] IN
    /\ c # NoCall /\ c.kind \in {"set", "remove"} /\ c.step = "read"
    /\ c.found > 0 /\ ~c.gone
    /\ server' = [server EXCEPT ![c.line] = Capped(c.n)]
    /\ owed' = [owed EXCEPT ![c.line] = Less(@ + Capped(c.n), server[c.line])]
    /\ Ends(s, IF c.kind = "remove" THEN Forget(c.line) ELSE calls, TRUE)
    /\ UNCHANGED <<order, session, known, stored, user, items, todo,
                   short, doubled, mixed, taken, plain>>

\* The write is done but the answer is lost: fetchWithRetry sends it again.
LostAnswer(p) ==
    LET c == calls[p] IN
    /\ c # NoCall /\ c.step = "read" /\ ~Conflict(c) /\ c.kind = "add"
    /\ server' = [server EXCEPT ![c.line] = Summed(c)]
    /\ calls' = [calls EXCEPT ![p].step = "sent", ![p].found = 0]
    /\ short' = short \cup {c.line} /\ doubled' = doubled \cup {c.line}
    /\ UNCHANGED <<order, session, browser, owed, mixed, taken, plain>>

\* A refusal or an error, which nobody is told of: the units of an add are
\* gone.  A 401 that no refresh answers signs the page out too.
Fails(s) ==
    LET c == calls[s] IN
    /\ c # NoCall
    /\ Ends(s, calls, FALSE)
    /\ short' = IF c.kind = "add" THEN short \cup {c.line} ELSE short
    /\ \/ s \in Page /\ ~session /\ ClearAuth(s)
       \/ UNCHANGED <<known, stored, user, doubled, mixed, taken>>
    /\ UNCHANGED <<shop, items, todo, owed, plain>>

\* A payment is approved, and the whole cart deleted: also what was added after
\* the order was placed.
PayApproved ==
    /\ order # NoOrder /\ order' = NoOrder
    /\ server' = [l \in Line |-> 0]
    /\ owed' = [l \in Line |-> Less(owed[l], IF server[l] > order[l] THEN order[l] ELSE server[l])]
    /\ short' = short \cup {l \in Line : server[l] > order[l]}
    /\ calls' = [s \in Sender |-> IF calls[s] # NoCall /\ calls[s].found > 0
                                  THEN [calls[s] EXCEPT !.gone = TRUE] ELSE calls[s]]
    /\ UNCHANGED <<session, browser, doubled, mixed, taken, plain>>

Next ==
    \/ SessionEnds \/ PayApproved
    \/ \E p \in Page :
         \/ Open(p) \/ SetAuth(p) \/ Boot(p) \/ Logout(p)
         \/ SyncEnds(p) \/ Load(p) \/ ResetLocal(p) \/ PlaceOrder(p) \/ LostAnswer(p)
         \/ \E l \in Line : \/ GuestAdd(p, l) \/ Add(p, l) \/ Upload(p, l) \/ RemoveLocal(p, l)
                            \/ \E n \in 0..Asks[l] : GuestSet(p, l, n)
                            \/ \E n \in 0..MaxQty : Change(p, l, n)
    \/ \E s \in Sender : Read(s) \/ AddWrite(s) \/ ChangeWrite(s) \/ Fails(s)

Spec == Init /\ [][Next]_vars

-----------------------------------------------------------------------------
(* Properties.                                                              *)

\* The units of l: on the server, on the way there, to be uploaded by a page,
\* or in localStorage and not uploaded by any.
Held(l) ==
    LET Way(s) == IF calls[s] # NoCall /\ calls[s].kind = "add" /\ calls[s].line = l
                  THEN calls[s].n ELSE 0
        Up(p)  == IF l \in todo[p] THEN items[p][l].n ELSE 0
    IN  server[l] + Way(One) + Way(Two) + Way("left") + Up(One) + Up(Two) + Kept(l)

\* "Sube al servidor los items que solo existian en el carrito local": units
\* vanish only by (short) a request that fails; the cap of ten; an add that read
\* its row before another request wrote it; a request repeated after its answer
\* was lost; units a guest adds to what she was shown while she was signed in;
\* units added after the order whose payment empties the cart; or (mixed) with
\* a second page, or a sign-in by bootstrapAuth alone, a page that saves or
\* uploads, or empties localStorage of, lines it has otherwise.  In one page at
\* a time nothing is ever mixed: not by leaving it, by a login or a logout at
\* any moment, nor by a session that ends.
NothingLost == \A l \in Line : l \notin short \cup mixed => Held(l) >= owed[l]

\* Nor does the customer get more than she asked for, except by (doubled) an
\* item whose page was left, or signed out, after it was sent and before
\* localStorage was emptied or the server's cart shown; an add that read its
\* row before another request lowered or removed it; an answer that was lost;
\* units a guest takes from what she was shown while she was signed in; or by
\* mixed lines.
NothingDoubled == \A l \in Line : l \notin doubled \cup mixed => Held(l) <= owed[l]

=============================================================================
