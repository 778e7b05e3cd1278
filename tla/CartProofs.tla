----------------------------- MODULE CartProofs -----------------------------
(***************************************************************************)
(* Proofs about Cart, for any lines, caps and requests: no units vanish    *)
(* and none are added twice, but for the reasons the ghosts name.  Both    *)
(* compare what is held of a line with what is owed, so every step is      *)
(* shown to move the two together.  That nothing is mixed in one page at a *)
(* time needs to be known of its copies: what localStorage holds while the *)
(* page does one thing or another, and when its items are those of the     *)
(* server (Alone).                                                         *)
(***************************************************************************)
EXTENDS Cart, TLAPS

-----------------------------------------------------------------------------
(* The invariants.                                                          *)

\* What a page is at, whatever the other does.
Calm ==
    \A p \in Page : /\ Waiting(p) => page[p] \in {"sync", "op"}
                    /\ page[p] # "sync" => todo[p] = {}
                    /\ page[p] \in {"closed", "new"} => ~user[p]
                    /\ todo[p] \subseteq LocalOnly(items[p])

CartInv == TypeOK /\ Calm

\* localStorage has no units to upload; the items I are all the server's.
Clean      == \A l \in Line : Kept(l) = 0
NoLocal(I) == \A l \in Line : LocalIn(I, l) = 0

\* A page that has had the server's cart.
Settled(p) == page[p] \in {"op", "reload"} \/ (page[p] = "idle" /\ user[p])

\* The copies of one page at a time: a guest's is that of localStorage; once its
\* units are taken localStorage has none; and what is still to be uploaded is
\* there too, should the page be left.
AloneAt(p) ==
    /\ page[p] = "closed" \/ \A q \in Page \ {p} : page[q] = "closed"
    /\ \A l \in todo[p] : l \in taken /\ LocalIn(stored, l) = items[p][l].n
    /\ page[p] \in {"sync", "load"} \/ Settled(p) => Clean
    /\ Settled(p) => NoLocal(items[p])
    /\ page[p] \in {"new", "idle", "op"} /\ ~user[p] => stored = items[p]

Alone == plain => \A p \in Page : AloneAt(p)

-----------------------------------------------------------------------------
(* Pages, requests and items.                                               *)

LEMMA Senders ==
    /\ One \in Page /\ Two \in Page /\ One # Two
    /\ One \in Sender /\ Two \in Sender /\ "left" \in Sender
    /\ One # "left" /\ Two # "left" /\ "left" \notin Page
    /\ \A s \in Sender : s \in Page \/ s = "left"
    /\ \A p \in Page : p \in Sender /\ p # "left"
    /\ NoCall \notin Call
  BY CartAssumption DEF Page, Sender, NoCall, Call

LEMMA Types ==
    ASSUME TypeOK
    PROVE  /\ server \in [Line -> Nat] /\ order \in [Line -> Nat]
           /\ session \in BOOLEAN /\ known \in BOOLEAN /\ user \in [Page -> BOOLEAN]
           /\ stored \in [Line -> Item] /\ items \in [Page -> [Line -> Item]]
           /\ page \in [Page -> {"closed", "new", "idle", "sync", "load", "op", "reload"}]
           /\ todo \in [Page -> SUBSET Line]
           /\ calls \in [Sender -> Call \cup {NoCall}]
           /\ owed \in [Line -> Nat]
           /\ short \subseteq Line /\ doubled \subseteq Line /\ mixed \subseteq Line
           /\ taken \subseteq Line /\ plain \in BOOLEAN
  BY DEF TypeOK

LEMMA NoneIs == None \in Item /\ None.n = 0 /\ ~None.copy
  BY DEF None, Item

\* The units of l in I that came from no server.
LEMMA LocalIs ==
    ASSUME NEW I \in [Line -> Item], NEW l \in Line
    PROVE  /\ LocalIn(I, l) \in Nat /\ I[l].n \in Nat /\ I[l].copy \in BOOLEAN
           /\ l \in LocalOnly(I) <=> LocalIn(I, l) > 0
           /\ l \in LocalOnly(I) => LocalIn(I, l) = I[l].n
<1>1. I[l].n \in Nat /\ I[l].copy \in BOOLEAN
  BY DEF Item
<1>2. l \in LocalOnly(I) <=> I[l].n > 0 /\ ~I[l].copy
  BY DEF LocalOnly
<1>3. CASE I[l].copy
  <2>1. LocalIn(I, l) = 0
    BY <1>3 DEF LocalIn
  <2> QED
    BY <1>1, <1>2, <1>3, <2>1
<1>4. CASE ~I[l].copy
  <2>1. LocalIn(I, l) = I[l].n
    BY <1>4 DEF LocalIn
  <2> QED
    BY <1>1, <1>2, <1>4, <2>1
<1> QED
  BY <1>3, <1>4

\* What a page without items of its own shows.
LEMMA NothingLocal == NoItems \in [Line -> Item] /\ NoLocal(NoItems)
<1>1. NoItems \in [Line -> Item] /\ \A l \in Line : NoItems[l] = None
  BY NoneIs DEF NoItems
<1>2. \A l \in Line : LocalIn(NoItems, l) = 0
  BY <1>1, NoneIs DEF LocalIn
<1> QED
  BY <1>1, <1>2 DEF NoLocal

LEMMA ServerCopies ==
    ASSUME server \in [Line -> Nat]
    PROVE  AsItems \in [Line -> Item] /\ NoLocal(AsItems)
<1>1. ASSUME NEW l \in Line
      PROVE  AsItems[l] \in Item /\ LocalIn(AsItems, l) = 0
  <2>1. PICK e \in BOOLEAN : e <=> server[l] > 0
    OBVIOUS
  <2>2. (server[l] > 0) = e
    BY <2>1
  <2>3. AsItems[l] = [n |-> server[l], copy |-> e]
    BY <2>2 DEF AsItems
  <2>4. AsItems[l].copy = e /\ AsItems[l].n = server[l] /\ AsItems[l] \in Item
    BY <2>3 DEF Item
  <2>5. CASE e
    BY <2>4, <2>5 DEF LocalIn
  <2>6. CASE ~e
    <3>1. server[l] = 0
      BY <2>1, <2>6
    <3> QED
      BY <2>4, <2>6, <3>1 DEF LocalIn
  <2> QED
    BY <2>4, <2>5, <2>6
<1>2. AsItems \in [Line -> Item]
  BY <1>1 DEF AsItems
<1> QED
  BY <1>1, <1>2 DEF NoLocal

\* A page with no units of its own has none to upload.
LEMMA NoneToUpload ==
    ASSUME NEW I \in [Line -> Item], NoLocal(I)
    PROVE  LocalOnly(I) = {}
<1>1. \A l \in Line : l \notin LocalOnly(I)
  BY LocalIs DEF NoLocal
<1> QED
  BY <1>1 DEF LocalOnly

LEMMA Uploads == ASSUME NEW I PROVE LocalOnly(I) \subseteq Line
  BY DEF LocalOnly

LEMMA Mixing ==
    ASSUME TypeOK, NEW S, Mix(S)
    PROVE  /\ mixed \subseteq mixed'
           /\ S \subseteq Line => mixed' \subseteq Line
           /\ \A l \in S : plain \/ l \in mixed'
  BY Types DEF Mix

LEMMA LessIs ==
    ASSUME NEW m \in Nat, NEW n \in Nat
    PROVE  /\ Less(m, n) \in Nat
           /\ m >= n => Less(m, n) = m - n
           /\ m <= n => Less(m, n) = 0
  BY DEF Less

-----------------------------------------------------------------------------
(* Types, and what the pages are at.                                        *)

Stages == {"closed", "new", "idle", "sync", "load", "op", "reload"}

GhostTypes ==
    /\ owed \in [Line -> Nat]
    /\ short \subseteq Line /\ doubled \subseteq Line /\ mixed \subseteq Line
    /\ taken \subseteq Line /\ plain \in BOOLEAN

ShopTypes ==
    /\ server \in [Line -> Nat] /\ order \in [Line -> Nat] /\ session \in BOOLEAN
    /\ \A l \in Line \ Loose : server[l] <= MaxQty

LEMMA Grouped ==
    TypeOK <=> /\ ShopTypes /\ GhostTypes /\ known \in BOOLEAN /\ user \in [Page -> BOOLEAN]
               /\ stored \in [Line -> Item] /\ items \in [Page -> [Line -> Item]]
               /\ page \in [Page -> Stages] /\ todo \in [Page -> SUBSET Line]
               /\ calls \in [Sender -> Call \cup {NoCall}]
<1> USE DEF ShopTypes, GhostTypes, Stages
<1> QED
  BY Zenon DEF TypeOK

LEMMA CartStarts == Init => CartInv
<1> SUFFICES ASSUME Init PROVE CartInv
  OBVIOUS
<1>1. ShopTypes
  <2>1. MaxQty \in Nat /\ Loose \subseteq Line
    BY CartAssumption
  <2>2. server = [l \in Line |-> 0] /\ order = [l \in Line |-> 0] /\ session = FALSE
    BY DEF Init, NoOrder
  <2>3. \A l \in Line : server[l] = 0
    BY <2>2
  <2>4. \A l \in Line \ Loose : server[l] <= MaxQty
    BY <2>1, <2>3
  <2> QED
    BY <2>2, <2>4 DEF ShopTypes
<1>2. GhostTypes
  BY DEF Init, GhostTypes
<1>3. /\ known \in BOOLEAN /\ user \in [Page -> BOOLEAN]
      /\ stored \in [Line -> Item] /\ items \in [Page -> [Line -> Item]]
  BY NothingLocal DEF Init
<1>4. /\ page \in [Page -> Stages] /\ todo \in [Page -> SUBSET Line]
      /\ calls \in [Sender -> Call \cup {NoCall}]
  BY DEF Init, Stages
<1>5. TypeOK
  BY <1>1, <1>2, <1>3, <1>4, Grouped
<1>6. Calm
  BY Senders DEF Init, Calm, Waiting
<1> QED
  BY <1>5, <1>6 DEF CartInv

\* A step of page p, whose items are then I and which has T to upload.
LEMMA PageInv ==
    ASSUME CartInv, NEW p \in Page,
           ShopTypes', GhostTypes', known' \in BOOLEAN, stored' \in [Line -> Item],
           NEW u \in BOOLEAN, user' = [user EXCEPT ![p] = u],
           NEW I \in [Line -> Item], items' = [items EXCEPT ![p] = I],
           NEW s \in Stages, page' = [page EXCEPT ![p] = s],
           NEW T, T \subseteq LocalOnly(I), todo' = [todo EXCEPT ![p] = T],
           calls' \in [Sender -> Call \cup {NoCall}],
           \A q \in Page : q # p /\ calls'[q] # NoCall => calls[q] # NoCall,
           calls'[p] # NoCall => s \in {"sync", "op"},
           s # "sync" => T = {},
           s \in {"closed", "new"} => ~u
    PROVE  CartInv'
<1>1. /\ user \in [Page -> BOOLEAN] /\ items \in [Page -> [Line -> Item]]
      /\ page \in [Page -> Stages] /\ todo \in [Page -> SUBSET Line]
  BY Types DEF CartInv, Stages
<1>2. T \subseteq Line
  BY Uploads
<1>3. /\ user' \in [Page -> BOOLEAN] /\ items' \in [Page -> [Line -> Item]]
      /\ page' \in [Page -> Stages] /\ todo' \in [Page -> SUBSET Line]
  BY <1>1, <1>2
<1>4. TypeOK'
  BY <1>3, Zenon DEF TypeOK, ShopTypes, GhostTypes, Stages
<1>5. /\ user'[p] = u /\ items'[p] = I /\ page'[p] = s /\ todo'[p] = T
      /\ \A q \in Page : q # p => /\ user'[q] = user[q] /\ items'[q] = items[q]
                                  /\ page'[q] = page[q] /\ todo'[q] = todo[q]
  BY <1>1
<1>6. ASSUME NEW q \in Page
      PROVE  /\ calls'[q] # NoCall => page'[q] \in {"sync", "op"}
             /\ page'[q] # "sync" => todo'[q] = {}
             /\ page'[q] \in {"closed", "new"} => ~user'[q]
             /\ todo'[q] \subseteq LocalOnly(items'[q])
  <2>1. CASE q = p
    BY <1>5, <2>1
  <2>2. CASE q # p
    <3>1. /\ calls[q] # NoCall => page[q] \in {"sync", "op"}
          /\ page[q] # "sync" => todo[q] = {}
          /\ page[q] \in {"closed", "new"} => ~user[q]
          /\ todo[q] \subseteq LocalOnly(items[q])
      BY DEF CartInv, Calm, Waiting
    <3> QED
      BY <1>5, <2>2, <3>1
  <2> QED
    BY <2>1, <2>2
<1>7. Calm'
  BY <1>6 DEF Calm, Waiting, LocalOnly
<1> QED
  BY <1>4, <1>7 DEF CartInv

\* What a step of p leaves alone.
LEMMA Stays ==
    ASSUME CartInv, NEW p \in Page
    PROVE  /\ user = [user EXCEPT ![p] = user[p]] /\ items = [items EXCEPT ![p] = items[p]]
           /\ page = [page EXCEPT ![p] = page[p]] /\ todo = [todo EXCEPT ![p] = todo[p]]
           /\ user[p] \in BOOLEAN /\ items[p] \in [Line -> Item] /\ page[p] \in Stages
           /\ todo[p] \subseteq LocalOnly(items[p]) /\ todo[p] \subseteq Line
           /\ page[p] # "sync" => todo[p] = {}
           /\ calls[p] # NoCall => page[p] \in {"sync", "op"}
           /\ page[p] \in {"closed", "new"} => ~user[p]
           /\ calls \in [Sender -> Call \cup {NoCall}]
           /\ ShopTypes /\ GhostTypes /\ known \in BOOLEAN /\ stored \in [Line -> Item]
<1>1. /\ user \in [Page -> BOOLEAN] /\ items \in [Page -> [Line -> Item]]
      /\ page \in [Page -> Stages] /\ todo \in [Page -> SUBSET Line]
      /\ calls \in [Sender -> Call \cup {NoCall}]
      /\ ShopTypes /\ GhostTypes /\ known \in BOOLEAN /\ stored \in [Line -> Item]
  BY Grouped DEF CartInv
<1>2. /\ Waiting(p) => page[p] \in {"sync", "op"}
      /\ page[p] # "sync" => todo[p] = {}
      /\ page[p] \in {"closed", "new"} => ~user[p]
      /\ todo[p] \subseteq LocalOnly(items[p])
  BY DEF CartInv, Calm
<1>3. /\ user = [user EXCEPT ![p] = user[p]] /\ items = [items EXCEPT ![p] = items[p]]
      /\ page = [page EXCEPT ![p] = page[p]] /\ todo = [todo EXCEPT ![p] = todo[p]]
      /\ user[p] \in BOOLEAN /\ items[p] \in [Line -> Item] /\ page[p] \in Stages
      /\ todo[p] \subseteq Line
  BY <1>1
<1> QED
  BY <1>1, <1>2, <1>3 DEF Waiting

\* The ghosts of a step that asks for nothing.
LEMMA GhostsKept ==
    ASSUME CartInv, owed' \in [Line -> Nat], short' \subseteq Line, doubled' \subseteq Line,
           mixed' \subseteq Line, taken' \subseteq Line, plain' \in BOOLEAN
    PROVE  GhostTypes'
  BY DEF GhostTypes

LEMMA LineSets ==
    ASSUME CartInv, NEW p \in Page
    PROVE  /\ Again(p) \subseteq Line /\ Over(p) \subseteq Line /\ Wiped \subseteq Line
           /\ Claimed(p) \subseteq Line /\ Dropped(p) \subseteq Line
           /\ \A I : Differs(I) \subseteq Line
           /\ owed \in [Line -> Nat] /\ plain \in BOOLEAN
           /\ short \subseteq Line /\ doubled \subseteq Line /\ mixed \subseteq Line
           /\ taken \subseteq Line
<1>1. /\ owed \in [Line -> Nat] /\ plain \in BOOLEAN
      /\ short \subseteq Line /\ doubled \subseteq Line /\ mixed \subseteq Line
      /\ taken \subseteq Line /\ todo[p] \subseteq Line
  BY Types DEF CartInv
<1>2. Again(p) \subseteq Line /\ Over(p) \subseteq Line /\ Wiped \subseteq Line
  BY <1>1 DEF Again, Over, Wiped
<1>3. Claimed(p) \subseteq Line
  BY Uploads DEF Claimed
<1>4. Dropped(p) \subseteq Line
  BY <1>1 DEF Dropped
<1>5. \A I : Differs(I) \subseteq Line
  BY DEF Differs, LocalOnly
<1> QED
  BY <1>1, <1>2, <1>3, <1>4, <1>5

\* What initCart makes of page p, from the items I.
LEMMA InitCartIs ==
    ASSUME CartInv, NEW p \in Page, NEW I \in [Line -> Item], NEW T, T \subseteq Line,
           InitCart(p, I, T)
    PROVE  /\ page' = [page EXCEPT ![p] = "sync"] /\ todo' = [todo EXCEPT ![p] = LocalOnly(I)]
           /\ taken' = T \cup LocalOnly(I) /\ taken' \subseteq Line
           /\ doubled' = doubled \cup (T \cap LocalOnly(I)) /\ doubled' \subseteq Line
           /\ "sync" \in Stages
  BY Uploads, LineSets DEF InitCart, At, Stages

\* The request of the last page is left on its way.
LEMMA OpenCalls ==
    ASSUME CartInv, NEW p \in Page, Open(p)
    PROVE  /\ calls' \in [Sender -> Call \cup {NoCall}] /\ calls'[p] = NoCall
           /\ calls'["left"] = (IF calls[p] # NoCall THEN calls[p] ELSE calls["left"])
           /\ calls[p] # NoCall => calls["left"] = NoCall
           /\ \A q \in Page : q # p => calls'[q] = calls[q]
<1>1. /\ calls' = (IF calls[p] # NoCall
                   THEN [calls EXCEPT !["left"] = calls[p], ![p] = NoCall] ELSE calls)
      /\ calls[p] # NoCall => calls["left"] = NoCall
  BY DEF Open, Waiting
<1>2. calls \in [Sender -> Call \cup {NoCall}]
  BY Stays
<1>3. CASE calls[p] = NoCall
  BY <1>1, <1>2, <1>3
<1>4. CASE calls[p] # NoCall
  <2>1. calls' = [calls EXCEPT !["left"] = calls[p], ![p] = NoCall]
    BY <1>1, <1>4
  <2>2. p \in Sender /\ "left" \in Sender /\ p # "left"
        /\ \A q \in Page : q \in Sender /\ q # "left"
    BY Senders
  <2>3. calls' \in [Sender -> Call \cup {NoCall}]
    BY <1>2, <2>1, <2>2
  <2>4. calls'[p] = NoCall /\ calls'["left"] = calls[p]
        /\ \A q \in Page : q # p => calls'[q] = calls[q]
    BY <1>2, <2>1, <2>2
  <2> QED
    BY <1>1, <1>4, <2>3, <2>4
<1> QED
  BY <1>3, <1>4

\* What a page has once it is open.
OpenAt   == IF known THEN "sync" ELSE "new"
OpenTodo == IF known THEN LocalOnly(stored) ELSE {}

LEMMA OpenIs ==
    ASSUME CartInv, NEW p \in Page, Open(p)
    PROVE  /\ page' = [page EXCEPT ![p] = OpenAt] /\ todo' = [todo EXCEPT ![p] = OpenTodo]
           /\ taken' = (taken \ todo[p]) \cup OpenTodo
           /\ doubled' = doubled \cup ((taken \ todo[p]) \cap OpenTodo)
           /\ items' = [items EXCEPT ![p] = stored] /\ user' = [user EXCEPT ![p] = known]
           /\ stored' = stored /\ known' = known
           /\ plain' = (plain /\ \A q \in Page \ {p} : page[q] = "closed")
           /\ Mix(Dropped(p))
           /\ UNCHANGED <<server, order, session, owed, short>>
<1>1. /\ items' = [items EXCEPT ![p] = stored] /\ user' = [user EXCEPT ![p] = known]
      /\ stored' = stored /\ known' = known
      /\ plain' = (plain /\ \A q \in Page \ {p} : page[q] = "closed")
      /\ Mix(Dropped(p))
      /\ UNCHANGED <<server, order, session, owed, short>>
  BY DEF Open, shop
<1>2. CASE known
  <2>1. InitCart(p, stored, taken \ todo[p])
    BY <1>2 DEF Open
  <2> QED
    BY <1>1, <1>2, <2>1 DEF InitCart, At, OpenAt, OpenTodo
<1>3. CASE ~known
  <2>1. /\ page' = [page EXCEPT ![p] = "new"] /\ todo' = [todo EXCEPT ![p] = {}]
        /\ taken' = taken \ todo[p] /\ doubled' = doubled
    BY <1>3 DEF Open, At
  <2> QED
    BY <1>1, <1>3, <2>1 DEF OpenAt, OpenTodo
<1> QED
  BY <1>2, <1>3

LEMMA OpenInv == ASSUME CartInv, NEW p \in Page, Open(p) PROVE CartInv'
<1>1. /\ page' = [page EXCEPT ![p] = OpenAt] /\ todo' = [todo EXCEPT ![p] = OpenTodo]
      /\ taken' = (taken \ todo[p]) \cup OpenTodo
      /\ doubled' = doubled \cup ((taken \ todo[p]) \cap OpenTodo)
      /\ items' = [items EXCEPT ![p] = stored] /\ user' = [user EXCEPT ![p] = known]
      /\ stored' = stored /\ known' = known
      /\ plain' = (plain /\ \A q \in Page \ {p} : page[q] = "closed")
      /\ Mix(Dropped(p))
      /\ UNCHANGED <<server, order, session, owed, short>>
  BY OpenIs
<1>2. known \in BOOLEAN /\ stored \in [Line -> Item] /\ ShopTypes /\ OpenAt \in Stages
  BY Stays DEF Stages, OpenAt
<1>3. OpenTodo \subseteq LocalOnly(stored) /\ OpenTodo \subseteq Line
  BY Uploads DEF OpenTodo
<1>4. GhostTypes'
  <2>1. mixed' \subseteq Line
    BY <1>1, Mixing, LineSets DEF CartInv
  <2>2. owed' \in [Line -> Nat] /\ short' \subseteq Line /\ doubled' \subseteq Line
        /\ taken' \subseteq Line /\ plain' \in BOOLEAN
    BY <1>1, <1>3, LineSets
  <2> QED
    BY <2>1, <2>2, GhostsKept
<1>5. ShopTypes'
  BY <1>1, <1>2 DEF ShopTypes
<1>6. /\ OpenAt # "sync" => OpenTodo = {}
      /\ OpenAt \in {"closed", "new"} => ~known
  BY DEF OpenAt, OpenTodo
<1>7. /\ calls' \in [Sender -> Call \cup {NoCall}] /\ calls'[p] = NoCall
      /\ \A q \in Page : q # p => calls'[q] = calls[q]
  BY OpenCalls
<1> QED
  BY <1>1, <1>2, <1>3, <1>4, <1>5, <1>6, <1>7, PageInv

LEMMA SetAuthInv == ASSUME CartInv, NEW p \in Page, SetAuth(p) PROVE CartInv'
<1>1. /\ session' = TRUE /\ known' = TRUE /\ user' = [user EXCEPT ![p] = TRUE]
      /\ InitCart(p, items[p], taken) /\ Mix(Differs(items[p]))
      /\ UNCHANGED <<server, order, stored, items, calls, owed, short, plain>>
      /\ page[p] \in {"new", "idle"}
  BY DEF SetAuth
<1>2. /\ page' = [page EXCEPT ![p] = "sync"] /\ todo' = [todo EXCEPT ![p] = LocalOnly(items[p])]
      /\ taken' \subseteq Line /\ doubled' \subseteq Line /\ "sync" \in Stages
  BY <1>1, InitCartIs, Stays, LineSets
<1>3. GhostTypes'
  <2>1. mixed' \subseteq Line
    BY <1>1, Mixing, LineSets DEF CartInv
  <2> QED
    BY <1>1, <1>2, <2>1, LineSets, GhostsKept
<1>4. ShopTypes' /\ known' \in BOOLEAN /\ stored' \in [Line -> Item]
  BY <1>1, Stays DEF ShopTypes
<1>5. items' = [items EXCEPT ![p] = items[p]] /\ items[p] \in [Line -> Item]
      /\ calls' \in [Sender -> Call \cup {NoCall}]
  BY <1>1, Stays
<1> QED
  BY <1>1, <1>2, <1>3, <1>4, <1>5, PageInv

LEMMA ClearAuthTypes ==
    ASSUME CartInv, NEW p \in Page, ClearAuth(p)
    PROVE  /\ stored' = items[p] /\ stored' \in [Line -> Item] /\ known' \in BOOLEAN
           /\ taken' = Claimed(p) /\ taken' \subseteq Line
           /\ doubled' = doubled \cup Again(p) /\ doubled' \subseteq Line
           /\ Mix(Over(p)) /\ mixed' \subseteq Line
           /\ user' = [user EXCEPT ![p] = FALSE]
<1>1. /\ stored' = items[p] /\ known' = FALSE /\ taken' = Claimed(p)
      /\ doubled' = doubled \cup Again(p) /\ Mix(Over(p))
      /\ user' = [user EXCEPT ![p] = FALSE]
  BY DEF ClearAuth, Save
<1>2. mixed' \subseteq Line
  BY <1>1, Mixing, LineSets DEF CartInv
<1> QED
  BY <1>1, <1>2, LineSets, Stays

LEMMA BootInv == ASSUME CartInv, NEW p \in Page, Boot(p) PROVE CartInv'
<1>1. page[p] = "new" /\ UNCHANGED <<server, order, session, items, calls, owed, short>>
  BY DEF Boot, shop
<1>2. ~user[p] /\ todo[p] = {} /\ calls[p] = NoCall
  BY <1>1, Stays
<1>3. /\ ShopTypes' /\ items' = [items EXCEPT ![p] = items[p]] /\ items[p] \in [Line -> Item]
      /\ calls' \in [Sender -> Call \cup {NoCall}] /\ owed' \in [Line -> Nat] /\ short' \subseteq Line
      /\ "idle" \in Stages /\ "sync" \in Stages
      /\ known \in BOOLEAN /\ stored \in [Line -> Item]
      /\ todo = [todo EXCEPT ![p] = {}] /\ {} \subseteq LocalOnly(items[p])
      /\ user = [user EXCEPT ![p] = FALSE]
  <2>1. ShopTypes'
    BY <1>1, Stays DEF ShopTypes
  <2>2. user = [user EXCEPT ![p] = FALSE]
    BY <1>2, Stays
  <2> QED
    BY <1>1, <1>2, <2>1, <2>2, Stays, LineSets DEF Stages
<1>4. CASE user' = [user EXCEPT ![p] = TRUE] /\ plain' = FALSE /\ known' = known /\ stored' = stored
           /\ InitCart(p, items[p], taken) /\ Mix(Differs(items[p]))
  <2>1. /\ page' = [page EXCEPT ![p] = "sync"]
        /\ todo' = [todo EXCEPT ![p] = LocalOnly(items[p])]
        /\ taken' \subseteq Line /\ doubled' \subseteq Line
    BY <1>3, <1>4, InitCartIs, LineSets
  <2>2. GhostTypes'
    <3>1. mixed' \subseteq Line
      BY <1>4, Mixing, LineSets DEF CartInv
    <3> QED
      BY <1>3, <1>4, <2>1, <3>1, GhostsKept
  <2> QED
    BY <1>1, <1>2, <1>3, <1>4, <2>1, <2>2, PageInv
<1>5. CASE user' = [user EXCEPT ![p] = TRUE] /\ plain' = FALSE /\ known' = known /\ stored' = stored
           /\ At(p, "idle") /\ UNCHANGED <<todo, taken, doubled, mixed>>
  <2>1. GhostTypes'
    BY <1>3, <1>5, LineSets, GhostsKept
  <2>2. page' = [page EXCEPT ![p] = "idle"] /\ todo' = [todo EXCEPT ![p] = {}]
        /\ user' = [user EXCEPT ![p] = TRUE] /\ known' \in BOOLEAN /\ stored' \in [Line -> Item]
        /\ calls' = calls
    BY <1>1, <1>3, <1>5 DEF At
  <2> QED
    BY <1>2, <1>3, <2>1, <2>2, PageInv
<1>6. CASE ClearAuth(p) /\ At(p, "idle") /\ UNCHANGED <<todo, plain>>
  <2>1. /\ stored' \in [Line -> Item] /\ known' \in BOOLEAN /\ taken' \subseteq Line
        /\ doubled' \subseteq Line /\ mixed' \subseteq Line /\ user' = [user EXCEPT ![p] = FALSE]
    BY <1>6, ClearAuthTypes
  <2>2. GhostTypes'
    BY <1>3, <1>6, <2>1, LineSets, GhostsKept
  <2>3. page' = [page EXCEPT ![p] = "idle"] /\ todo' = [todo EXCEPT ![p] = {}]
    BY <1>3, <1>6 DEF At
  <2> QED
    BY <1>1, <1>2, <1>3, <2>1, <2>2, <2>3, PageInv
<1>7. CASE At(p, "idle") /\ UNCHANGED <<known, stored, user, todo, doubled, mixed, taken, plain>>
  <2>1. GhostTypes'
    BY <1>3, <1>7, LineSets, GhostsKept
  <2>2. page' = [page EXCEPT ![p] = "idle"] /\ todo' = [todo EXCEPT ![p] = {}]
        /\ user' = [user EXCEPT ![p] = FALSE] /\ known' \in BOOLEAN /\ stored' \in [Line -> Item]
    BY <1>3, <1>7 DEF At
  <2> QED
    BY <1>1, <1>2, <1>3, <2>1, <2>2, PageInv
<1> QED
  BY <1>4, <1>5, <1>6, <1>7 DEF Boot

LEMMA LogoutInv == ASSUME CartInv, NEW p \in Page, Logout(p) PROVE CartInv'
<1>1. /\ user[p] /\ ClearAuth(p) /\ session' \in {session, FALSE}
      /\ UNCHANGED <<server, order, items, page, todo, calls, owed, short, plain>>
  BY DEF Logout
<1>2. /\ stored' \in [Line -> Item] /\ known' \in BOOLEAN /\ taken' \subseteq Line
      /\ doubled' \subseteq Line /\ mixed' \subseteq Line /\ user' = [user EXCEPT ![p] = FALSE]
  BY <1>1, ClearAuthTypes
<1>3. GhostTypes'
  BY <1>1, <1>2, LineSets, GhostsKept
<1>4. ShopTypes'
  BY <1>1, Stays DEF ShopTypes
<1>5. /\ items' = [items EXCEPT ![p] = items[p]] /\ items[p] \in [Line -> Item]
      /\ page' = [page EXCEPT ![p] = page[p]] /\ page[p] \in Stages
      /\ todo' = [todo EXCEPT ![p] = todo[p]] /\ todo[p] \subseteq LocalOnly(items[p])
      /\ calls' \in [Sender -> Call \cup {NoCall}]
      /\ calls'[p] # NoCall => page[p] \in {"sync", "op"}
      /\ page[p] # "sync" => todo[p] = {}
  BY <1>1, Stays
<1> QED
  BY <1>1, <1>2, <1>3, <1>4, <1>5, PageInv

\* A step of a page that has nothing to upload and waits for nothing.
LEMMA QuietInv ==
    ASSUME CartInv, NEW p \in Page,
           ShopTypes', GhostTypes', known' \in BOOLEAN, stored' \in [Line -> Item],
           NEW u \in BOOLEAN, user' = [user EXCEPT ![p] = u],
           NEW I \in [Line -> Item], items' = [items EXCEPT ![p] = I],
           NEW s \in Stages, page' = [page EXCEPT ![p] = s],
           todo' = [todo EXCEPT ![p] = {}],
           calls' = calls, calls[p] = NoCall,
           s \in {"closed", "new"} => ~u
    PROVE  CartInv'
<1> DEFINE T == {}
<1>1. T \subseteq LocalOnly(I) /\ todo' = [todo EXCEPT ![p] = T] /\ (s # "sync" => T = {})
  OBVIOUS
<1> HIDE DEF T
<1>2. calls' \in [Sender -> Call \cup {NoCall}] /\ (calls'[p] # NoCall => s \in {"sync", "op"})
  BY Stays
<1>3. \A q \in Page : q # p /\ calls'[q] # NoCall => calls[q] # NoCall
  OBVIOUS
<1> QED
  BY <1>1, <1>2, <1>3, PageInv

\* A page that empties or fills its items when it has nothing to upload.
LEMMA ShowsInv ==
    ASSUME CartInv, NEW p \in Page, SyncEnds(p) \/ Load(p) \/ ResetLocal(p)
    PROVE  CartInv'
<1>1. /\ todo[p] = {} /\ (calls[p] = NoCall \/ page[p] = "idle")
      /\ UNCHANGED <<server, order, session, todo, calls, owed, short, doubled, plain>>
  <2>1. todo[p] = {}
    BY Stays DEF SyncEnds, Load, ResetLocal
  <2>2. CASE SyncEnds(p)
    BY <2>1, <2>2 DEF SyncEnds, Waiting, shop
  <2>3. CASE Load(p)
    <3>1. page[p] \in {"load", "reload"}
      BY <2>3 DEF Load
    <3>2. calls[p] = NoCall
      BY <3>1, Stays
    <3> QED
      BY <2>1, <2>3, <3>2 DEF Load, shop
  <2>4. CASE ResetLocal(p)
    BY <2>1, <2>4 DEF ResetLocal, shop
  <2> QED
    BY <2>2, <2>3, <2>4
<1>2. calls[p] = NoCall
  BY <1>1, Stays
<1>3. /\ ShopTypes' /\ todo' = [todo EXCEPT ![p] = {}] /\ calls' \in [Sender -> Call \cup {NoCall}]
      /\ calls' = calls /\ calls[p] = NoCall
  BY <1>1, <1>2, Stays DEF ShopTypes
<1>4. /\ owed' \in [Line -> Nat] /\ short' \subseteq Line /\ doubled' \subseteq Line
      /\ plain' \in BOOLEAN
  BY <1>1, LineSets
<1>5. CASE SyncEnds(p)
  <2>1. /\ stored' = NoItems /\ taken' = {} /\ Mix(Wiped)
        /\ page' = [page EXCEPT ![p] = "load"] /\ UNCHANGED <<known, user, items>>
    BY <1>5 DEF SyncEnds, Save, At
  <2>2. mixed' \subseteq Line
    BY <2>1, Mixing, LineSets DEF CartInv
  <2>3. GhostTypes'
    BY <1>4, <2>1, <2>2, GhostsKept
  <2>4. /\ stored' \in [Line -> Item] /\ known' \in BOOLEAN
        /\ user' = [user EXCEPT ![p] = user[p]] /\ user[p] \in BOOLEAN
        /\ items' = [items EXCEPT ![p] = items[p]] /\ items[p] \in [Line -> Item]
        /\ "load" \in Stages
    BY <2>1, Stays, NothingLocal DEF Stages
  <2> QED
    BY <1>3, <2>1, <2>3, <2>4, QuietInv
<1>6. CASE Load(p)
  <2>1. page' = [page EXCEPT ![p] = "idle"] /\ "idle" \in Stages
    BY <1>6 DEF Load, At, Stages
  <2>2. PICK I \in {AsItems, NoItems} : items' = [items EXCEPT ![p] = I]
    BY <1>6 DEF Load
  <2>3. I \in [Line -> Item]
    BY <2>2, ServerCopies, NothingLocal, Types DEF CartInv
  <2>4. PICK u \in BOOLEAN : user' = [user EXCEPT ![p] = u]
    <3>1. CASE UNCHANGED user
      BY <3>1, Stays
    <3>2. CASE user' = [user EXCEPT ![p] = FALSE]
      BY <3>2
    <3> QED
      BY <1>6, <3>1, <3>2 DEF Load
  <2>5. known' \in BOOLEAN
    BY <1>6, Stays DEF Load
  <2>6. items'[p] = I
    BY <2>2, Types DEF CartInv
  <2>7. \/ UNCHANGED <<stored, taken, mixed>>
        \/ stored' = I /\ taken' = {} /\ Mix(Wiped)
    BY <1>6, <2>6 DEF Load, Save
  <2>8. stored' \in [Line -> Item] /\ taken' \subseteq Line /\ mixed' \subseteq Line
    BY <2>3, <2>7, Mixing, LineSets, Stays DEF CartInv
  <2>9. GhostTypes'
    BY <1>4, <2>8, GhostsKept
  <2> QED
    BY <1>3, <2>1, <2>2, <2>3, <2>4, <2>5, <2>8, <2>9, QuietInv
<1>7. CASE ResetLocal(p)
  <2>1. /\ stored' = NoItems /\ taken' = {} /\ Mix(Wiped) /\ items' = [items EXCEPT ![p] = NoItems]
        /\ page[p] = "idle" /\ UNCHANGED <<known, user, page>>
    BY <1>7 DEF ResetLocal, Save
  <2>2. mixed' \subseteq Line
    BY <2>1, Mixing, LineSets DEF CartInv
  <2>3. GhostTypes'
    BY <1>4, <2>1, <2>2, GhostsKept
  <2>4. /\ stored' \in [Line -> Item] /\ known' \in BOOLEAN /\ NoItems \in [Line -> Item]
        /\ user' = [user EXCEPT ![p] = user[p]] /\ user[p] \in BOOLEAN
        /\ page' = [page EXCEPT ![p] = "idle"] /\ "idle" \in Stages
    BY <2>1, Stays, NothingLocal DEF Stages
  <2> QED
    BY <1>3, <2>1, <2>3, <2>4, QuietInv
<1> QED
  BY <1>5, <1>6, <1>7

\* Steps that leave the browser and the requests alone.
LEMMA ElsewhereInv ==
    ASSUME CartInv, UNCHANGED browser, calls' \in [Sender -> Call \cup {NoCall}],
           \A p \in Page : calls'[p] # NoCall => calls[p] # NoCall,
           ShopTypes', GhostTypes'
    PROVE  CartInv'
<1>1. UNCHANGED <<known, stored, user, items, page, todo>>
  BY DEF browser
<1>2. /\ known \in BOOLEAN /\ user \in [Page -> BOOLEAN]
      /\ stored \in [Line -> Item] /\ items \in [Page -> [Line -> Item]]
      /\ page \in [Page -> Stages] /\ todo \in [Page -> SUBSET Line]
  BY Types DEF CartInv, Stages
<1>3. TypeOK'
  BY <1>1, <1>2, Zenon DEF TypeOK, ShopTypes, GhostTypes, Stages
<1>4. Calm'
  BY <1>1 DEF CartInv, Calm, Waiting, LocalOnly
<1> QED
  BY <1>3, <1>4 DEF CartInv

LEMMA AsideInv ==
    ASSUME CartInv, SessionEnds \/ \E p \in Page : PlaceOrder(p)
    PROVE  CartInv'
<1>1. UNCHANGED browser /\ UNCHANGED calls /\ UNCHANGED <<owed, short, doubled, mixed, taken, plain>>
  BY DEF SessionEnds, PlaceOrder, ghosts
<1>2. /\ ShopTypes /\ GhostTypes /\ calls \in [Sender -> Call \cup {NoCall}]
      /\ items \in [Page -> [Line -> Item]]
  BY Grouped DEF CartInv
<1>3. GhostTypes'
  BY <1>1, <1>2 DEF GhostTypes
<1>4. CASE SessionEnds
  <2>1. ShopTypes'
    BY <1>2, <1>4 DEF SessionEnds, ShopTypes
  <2> QED
    BY <1>1, <1>2, <1>3, <2>1, ElsewhereInv
<1>5. ASSUME NEW p \in Page, PlaceOrder(p) PROVE CartInv'
  <2>1. order' = [l \in Line |-> items[p][l].n] /\ UNCHANGED <<server, session>>
    BY <1>5 DEF PlaceOrder
  <2>2. \A l \in Line : items[p][l].n \in Nat
    BY <1>2 DEF Item
  <2>3. ShopTypes'
    BY <1>2, <2>1, <2>2 DEF ShopTypes
  <2> QED
    BY <1>1, <1>2, <1>3, <2>3, ElsewhereInv
<1> QED
  BY <1>4, <1>5

\* A guest's cart.
LEMMA GuestIs ==
    ASSUME CartInv, NEW p \in Page, NEW l \in Line, NEW i \in Item, GuestShows(p, l, i),
           owed' \in [Line -> Nat], short' \subseteq Line, doubled' \subseteq Line
    PROVE  /\ CartInv' /\ items'[p][l] = i /\ items'[p] \in [Line -> Item]
           /\ \A k \in Line : k # l => items'[p][k] = items[p][k]
           /\ \A q \in Page : q # p => items'[q] = items[q]
           /\ stored' = items'[p] /\ taken' = {}
<1> DEFINE I == [items[p] EXCEPT ![l] = i]
<1>1. /\ ~user[p] /\ page[p] \in {"new", "idle"} /\ items' = [items EXCEPT ![p][l] = i]
      /\ stored' = items'[p] /\ taken' = {} /\ Mix(Over(p))
      /\ UNCHANGED <<server, order, session, known, user, page, todo, calls, plain>>
  BY DEF GuestShows, Save, shop
<1>2. items \in [Page -> [Line -> Item]] /\ items[p] \in [Line -> Item]
  BY Types DEF CartInv
<1>3. I \in [Line -> Item] /\ I[l] = i /\ \A k \in Line : k # l => I[k] = items[p][k]
  BY <1>2
<1>4. items' = [items EXCEPT ![p] = I] /\ items'[p] = I
      /\ \A q \in Page : q # p => items'[q] = items[q]
  BY <1>1, <1>2
<1> HIDE DEF I
<1>5. /\ user' = [user EXCEPT ![p] = FALSE] /\ page' = [page EXCEPT ![p] = page[p]]
      /\ page[p] \in Stages /\ page[p] \notin {"sync", "op"}
      /\ todo' = [todo EXCEPT ![p] = {}] /\ {} \subseteq LocalOnly(I)
      /\ calls' \in [Sender -> Call \cup {NoCall}] /\ calls[p] = NoCall
      /\ known' \in BOOLEAN
  BY <1>1, Stays
<1>6. mixed' \subseteq Line
  BY <1>1, Mixing, LineSets DEF CartInv
<1>7. GhostTypes'
  BY <1>1, <1>6, LineSets, GhostsKept
<1>8. ShopTypes'
  BY <1>1, Stays DEF ShopTypes
<1>9. calls' = calls /\ calls[p] = NoCall /\ (page[p] \in {"closed", "new"} => ~FALSE)
  BY <1>1, <1>5
<1>10. page[p] # "closed" /\ stored' \in [Line -> Item]
  BY <1>1, <1>3, <1>4
<1>11. CartInv'
  BY <1>3, <1>4, <1>5, <1>7, <1>8, <1>9, <1>10, QuietInv
<1> QED
  BY <1>1, <1>3, <1>4, <1>11

\* What a guest asks for: one unit more, or n.
LEMMA GuestAddIs ==
    ASSUME CartInv, NEW p \in Page, NEW l \in Line, GuestAdd(p, l)
    PROVE  \E i \in Item :
             /\ i.n = items[p][l].n + 1 /\ i.copy = items[p][l].copy
             /\ GuestShows(p, l, i)
             /\ owed' = [owed EXCEPT ![l] = owed[l] + 1] /\ owed' \in [Line -> Nat]
             /\ short' = (IF items[p][l].copy THEN short \cup {l} ELSE short)
             /\ short' \subseteq Line
             /\ doubled' = doubled \cup Again(p) /\ doubled' \subseteq Line
<1>1. items[p][l] \in Item /\ owed \in [Line -> Nat] /\ owed[l] \in Nat
  BY Types DEF CartInv
<1> DEFINE i == [items[p][l] EXCEPT !.n = items[p][l].n + 1]
<1>2. i \in Item /\ i.n = items[p][l].n + 1 /\ i.copy = items[p][l].copy
  BY <1>1 DEF Item
<1>3. /\ GuestShows(p, l, i)
      /\ owed' = [owed EXCEPT ![l] = owed[l] + 1]
      /\ short' = (IF items[p][l].copy THEN short \cup {l} ELSE short)
      /\ doubled' = doubled \cup Again(p)
  BY <1>1 DEF GuestAdd
<1> HIDE DEF i
<1>4. owed' \in [Line -> Nat] /\ short' \subseteq Line /\ doubled' \subseteq Line
  BY <1>1, <1>3, LineSets
<1> QED
  BY <1>2, <1>3, <1>4

LEMMA GuestSetIs ==
    ASSUME CartInv, NEW p \in Page, NEW l \in Line, NEW n \in 0..Asks[l], GuestSet(p, l, n)
    PROVE  \E i \in Item :
             /\ i.n = n /\ n \in Nat /\ (n # 0 => i.copy = items[p][l].copy) /\ (n = 0 => ~i.copy)
             /\ items[p][l].n > 0
             /\ GuestShows(p, l, i)
             /\ owed' = [owed EXCEPT ![l] = Less(owed[l] + n, items[p][l].n)]
             /\ owed' \in [Line -> Nat]
             /\ short' = (IF items[p][l].copy /\ n > items[p][l].n THEN short \cup {l} ELSE short)
             /\ short' \subseteq Line
             /\ doubled' = (doubled \cup Again(p)
                            \cup IF items[p][l].copy /\ n < items[p][l].n THEN {l} ELSE {})
             /\ doubled' \subseteq Line
<1>1. items[p][l] \in Item /\ items[p][l].n \in Nat /\ owed \in [Line -> Nat] /\ owed[l] \in Nat
      /\ n \in Nat
  BY Types, CartAssumption DEF CartInv, Item
<1> DEFINE i == IF n = 0 THEN None ELSE [items[p][l] EXCEPT !.n = n]
<1>2. i \in Item /\ i.n = n /\ (n # 0 => i.copy = items[p][l].copy) /\ (n = 0 => ~i.copy)
  BY <1>1, NoneIs DEF Item
<1>3. /\ GuestShows(p, l, i) /\ items[p][l].n > 0
      /\ owed' = [owed EXCEPT ![l] = Less(owed[l] + n, items[p][l].n)]
      /\ short' = (IF items[p][l].copy /\ n > items[p][l].n THEN short \cup {l} ELSE short)
      /\ doubled' = (doubled \cup Again(p)
                     \cup IF items[p][l].copy /\ n < items[p][l].n THEN {l} ELSE {})
  BY <1>1 DEF GuestSet
<1> HIDE DEF i
<1>4. Less(owed[l] + n, items[p][l].n) \in Nat
  <2>1. owed[l] + n \in Nat
    BY <1>1
  <2> QED
    BY <1>1, <2>1, LessIs
<1>5. owed' \in [Line -> Nat] /\ short' \subseteq Line /\ doubled' \subseteq Line
  BY <1>1, <1>3, <1>4, LineSets
<1> QED
  BY <1>1, <1>2, <1>3, <1>5

LEMMA GuestsInv ==
    ASSUME CartInv, NEW p \in Page, NEW l \in Line,
           GuestAdd(p, l) \/ \E n \in 0..Asks[l] : GuestSet(p, l, n)
    PROVE  CartInv'
<1>1. CASE GuestAdd(p, l)
  BY <1>1, GuestAddIs, GuestIs
<1>2. ASSUME NEW n \in 0..Asks[l], GuestSet(p, l, n) PROVE CartInv'
  BY <1>2, GuestSetIs, GuestIs
<1> QED
  BY <1>1, <1>2

-----------------------------------------------------------------------------
(* The requests.                                                            *)

\* The units of l that c brings.
Brings(c, l) == IF c # NoCall /\ c.kind = "add" /\ c.line = l THEN c.n ELSE 0

\* Two stages of the same request.
SameCall(c, d) ==
    c = d \/ (c \in Call /\ d \in Call /\ c.kind = d.kind /\ c.line = d.line /\ c.n = d.n)

LEMMA SameBrings ==
    ASSUME NEW c, NEW d, SameCall(c, d)
    PROVE  /\ c \in Call \cup {NoCall} => d \in Call \cup {NoCall}
           /\ c # NoCall <=> d # NoCall
           /\ \A l \in Line : Brings(d, l) = Brings(c, l)
  BY Senders DEF SameCall, Brings

LEMMA MarkedGone ==
    ASSUME NEW c \in Call
    PROVE  SameCall(c, [c EXCEPT !.gone = TRUE])
<1>1. /\ [c EXCEPT !.gone = TRUE] \in Call
      /\ [c EXCEPT !.gone = TRUE].kind = c.kind
      /\ [c EXCEPT !.gone = TRUE].line = c.line
      /\ [c EXCEPT !.gone = TRUE].n = c.n
  BY DEF Call
<1> QED
  BY <1>1 DEF SameCall

\* A new request of page p.
LEMMA Sends ==
    ASSUME CartInv, NEW p \in Page, NEW kind \in {"add", "set", "remove"}, NEW l \in Line,
           NEW n \in Nat, Send(p, kind, l, n)
    PROVE  /\ calls' \in [Sender -> Call \cup {NoCall}]
           /\ \A s \in Sender : s # p => calls'[s] = calls[s]
           /\ \A k \in Line : Brings(calls'[p], k) = IF kind = "add" /\ k = l THEN n ELSE 0
<1> DEFINE c == [kind |-> kind, line |-> l, n |-> n, step |-> "sent", found |-> 0, gone |-> FALSE]
<1>1. c \in Call /\ c.kind = kind /\ c.line = l /\ c.n = n
  BY DEF Call
<1>2. calls' = [calls EXCEPT ![p] = c]
  BY DEF Send
<1> HIDE DEF c
<1>3. p \in Sender /\ calls \in [Sender -> Call \cup {NoCall}]
  BY Senders, Stays
<1>4. /\ calls' \in [Sender -> Call \cup {NoCall}]
      /\ \A s \in Sender : s # p => calls'[s] = calls[s]
      /\ calls'[p] = c
  BY <1>1, <1>2, <1>3
<1> QED
  BY <1>1, <1>4, Senders DEF Brings

LEMMA OthersWait ==
    ASSUME NEW p \in Page, \A s \in Sender : s # p => calls'[s] = calls[s]
    PROVE  \A q \in Page : q # p /\ calls'[q] # NoCall => calls[q] # NoCall
  BY Senders

LEMMA AsksInv ==
    ASSUME CartInv, NEW p \in Page, NEW l \in Line,
           Add(p, l) \/ RemoveLocal(p, l) \/ \E n \in 0..MaxQty : Change(p, l, n)
    PROVE  CartInv'
<1>1. /\ user[p] /\ page[p] = "idle" /\ UNCHANGED <<server, order, session>>
      /\ UNCHANGED <<known, stored, user, items, todo>>
      /\ UNCHANGED <<short, doubled, taken, plain>>
  BY DEF Add, RemoveLocal, Change, shop, ghosts
<1> DEFINE T == {}
<1>2. /\ ShopTypes' /\ known' \in BOOLEAN /\ stored' \in [Line -> Item]
      /\ user' = [user EXCEPT ![p] = TRUE] /\ TRUE \in BOOLEAN
      /\ items' = [items EXCEPT ![p] = items[p]] /\ items[p] \in [Line -> Item]
      /\ todo' = [todo EXCEPT ![p] = T] /\ T \subseteq LocalOnly(items[p])
      /\ "op" \in Stages /\ "reload" \in Stages
  <2>1. user[p] = TRUE /\ todo[p] = {}
    BY <1>1, Stays
  <2> QED
    BY <1>1, <2>1, Stays DEF ShopTypes, Stages
<1>3. T = {}
  OBVIOUS
<1> HIDE DEF T
<1>4. owed \in [Line -> Nat] /\ owed[l] \in Nat
  BY LineSets
<1>5. CASE Add(p, l)
  <2>1. page' = [page EXCEPT ![p] = "op"] /\ owed' = [owed EXCEPT ![l] = owed[l] + 1]
        /\ mixed' = mixed
    BY <1>5 DEF Add, At
  <2>2. /\ calls' \in [Sender -> Call \cup {NoCall}]
        /\ \A s \in Sender : s # p => calls'[s] = calls[s]
    BY <1>5, Sends DEF Add
  <2>3. GhostTypes'
    <3>1. owed' \in [Line -> Nat]
      BY <1>4, <2>1
    <3> QED
      BY <1>1, <2>1, <3>1, LineSets, GhostsKept
  <2> QED
    BY <1>2, <1>3, <2>1, <2>2, <2>3, OthersWait, PageInv
<1>6. ASSUME NEW n \in 0..MaxQty, Change(p, l, n) PROVE CartInv'
  <2>1. page' = [page EXCEPT ![p] = "op"] /\ UNCHANGED <<owed, mixed>>
    BY <1>6 DEF Change, At, ghosts
  <2>2. /\ calls' \in [Sender -> Call \cup {NoCall}]
        /\ \A s \in Sender : s # p => calls'[s] = calls[s]
    BY <1>6, CartAssumption, Sends DEF Change
  <2>3. GhostTypes'
    BY <1>1, <2>1, LineSets, GhostsKept
  <2> QED
    BY <1>2, <1>3, <2>1, <2>2, <2>3, OthersWait, PageInv
<1>7. CASE RemoveLocal(p, l)
  <2>1. /\ page' = [page EXCEPT ![p] = "reload"] /\ Mix({l}) /\ calls' = calls
        /\ owed' = [owed EXCEPT ![l] = Less(owed[l], items[p][l].n)]
    BY <1>7 DEF RemoveLocal, At
  <2>2. calls[p] = NoCall
    BY <1>1, Stays
  <2>3. mixed' \subseteq Line
    BY <2>1, Mixing DEF CartInv
  <2>4. items[p][l].n \in Nat
    BY <1>2 DEF Item
  <2>5. owed' \in [Line -> Nat]
    BY <1>4, <2>1, <2>4, LessIs
  <2>6. GhostTypes'
    BY <1>1, <2>3, <2>5, LineSets, GhostsKept
  <2> QED
    BY <1>2, <1>3, <2>1, <2>2, <2>6, QuietInv
<1> QED
  BY <1>5, <1>6, <1>7

LEMMA UploadInv ==
    ASSUME CartInv, NEW p \in Page, NEW l \in Line, Upload(p, l)
    PROVE  CartInv'
<1>1. /\ page[p] = "sync" /\ todo' = [todo EXCEPT ![p] = todo[p] \ {l}]
      /\ Send(p, "add", l, items[p][l].n)
      /\ UNCHANGED <<server, order, session>>
      /\ UNCHANGED <<known, stored, user, items, page>>
      /\ UNCHANGED <<owed, short, doubled, mixed, taken, plain>>
  BY Stays, Types DEF Upload, shop, ghosts, CartInv
<1>2. items[p][l].n \in Nat
  BY Types DEF CartInv, Item
<1>3. /\ calls' \in [Sender -> Call \cup {NoCall}]
      /\ \A s \in Sender : s # p => calls'[s] = calls[s]
  BY <1>1, <1>2, Sends
<1>4. /\ ShopTypes' /\ GhostTypes' /\ known' \in BOOLEAN /\ stored' \in [Line -> Item]
  BY <1>1, Stays DEF ShopTypes, GhostTypes
<1>5. /\ user' = [user EXCEPT ![p] = user[p]] /\ user[p] \in BOOLEAN
      /\ items' = [items EXCEPT ![p] = items[p]] /\ items[p] \in [Line -> Item]
      /\ page' = [page EXCEPT ![p] = "sync"] /\ "sync" \in Stages
      /\ todo[p] \ {l} \subseteq LocalOnly(items[p])
  BY <1>1, Stays DEF Stages
<1> QED
  BY <1>1, <1>3, <1>4, <1>5, OthersWait, PageInv

-----------------------------------------------------------------------------
(* The server.  A request that is read, or loses its row, is the same.      *)

LEMMA Goes ==
    ASSUME CartInv, NEW s \in Sender, Read(s)
    PROVE  /\ calls' = [t \in Sender |-> calls'[t]]
           /\ \A t \in Sender : SameCall(calls[t], calls'[t])
<1>1. calls[s] \in Call /\ calls \in [Sender -> Call \cup {NoCall}]
  BY Types DEF Read, CartInv
<1> DEFINE d == [calls[s] EXCEPT !.step = "read", !.found = server[calls[s].line], !.gone = FALSE]
<1>2. calls' = [calls EXCEPT ![s] = d]
  BY <1>1 DEF Read
<1>3. server[calls[s].line] \in Nat
  BY <1>1, Types DEF Call, CartInv
<1>4. d \in Call /\ d.kind = calls[s].kind /\ d.line = calls[s].line /\ d.n = calls[s].n
  BY <1>1, <1>3 DEF Call
<1> HIDE DEF d
<1>5. SameCall(calls[s], d)
  BY <1>1, <1>4 DEF SameCall
<1>6. \A t \in Sender : SameCall(calls[t], calls[t])
  BY DEF SameCall
<1> QED
  BY <1>1, <1>2, <1>5, <1>6

LEMMA Forgotten ==
    ASSUME CartInv, NEW l \in Line
    PROVE  /\ Forget(l) = [t \in Sender |-> Forget(l)[t]]
           /\ \A t \in Sender : SameCall(calls[t], Forget(l)[t])
<1>1. ASSUME NEW t \in Sender
      PROVE  SameCall(calls[t], Forget(l)[t])
  <2>1. calls[t] \in Call \cup {NoCall}
    BY Types DEF CartInv
  <2>2. Forget(l)[t] = calls[t]
        \/ (calls[t] # NoCall /\ Forget(l)[t] = [calls[t] EXCEPT !.gone = TRUE])
    BY DEF Forget
  <2> QED
    BY <2>1, <2>2, MarkedGone DEF SameCall
<1>2. Forget(l) = [t \in Sender |-> Forget(l)[t]]
  BY DEF Forget
<1> QED
  BY <1>1, <1>2

LEMMA AllForgotten ==
    ASSUME CartInv, PayApproved
    PROVE  /\ calls' = [t \in Sender |-> calls'[t]]
           /\ \A t \in Sender : SameCall(calls[t], calls'[t])
<1>1. ASSUME NEW t \in Sender
      PROVE  SameCall(calls[t], calls'[t])
  <2>1. calls[t] \in Call \cup {NoCall}
    BY Types DEF CartInv
  <2>2. calls'[t] = calls[t]
        \/ (calls[t] # NoCall /\ calls'[t] = [calls[t] EXCEPT !.gone = TRUE])
    BY DEF PayApproved
  <2> QED
    BY <2>1, <2>2, MarkedGone DEF SameCall
<1>2. calls' = [t \in Sender |-> calls'[t]]
  BY DEF PayApproved
<1> QED
  BY <1>1, <1>2

\* An answer that is lost: its request is sent again.
LEMMA SentAgain ==
    ASSUME CartInv, NEW p \in Page, LostAnswer(p)
    PROVE  /\ calls' = [t \in Sender |-> calls'[t]]
           /\ \A t \in Sender : SameCall(calls[t], calls'[t])
<1>1. calls[p] \in Call /\ calls \in [Sender -> Call \cup {NoCall}] /\ p \in Sender
  BY Types, Senders DEF LostAnswer, CartInv
<1> DEFINE d == [calls[p] EXCEPT !.step = "sent", !.found = 0]
<1>2. calls' = [calls EXCEPT ![p] = d]
  BY <1>1 DEF LostAnswer
<1>3. d \in Call /\ d.kind = calls[p].kind /\ d.line = calls[p].line /\ d.n = calls[p].n
  BY <1>1 DEF Call
<1> HIDE DEF d
<1>4. SameCall(calls[p], d)
  BY <1>1, <1>3 DEF SameCall
<1>5. \A t \in Sender : SameCall(calls[t], calls[t])
  BY DEF SameCall
<1> QED
  BY <1>1, <1>2, <1>4, <1>5

LEMMA SameTypes ==
    ASSUME CartInv, calls' = [t \in Sender |-> calls'[t]],
           \A t \in Sender : SameCall(calls[t], calls'[t])
    PROVE  /\ calls' \in [Sender -> Call \cup {NoCall}]
           /\ \A p \in Page : calls'[p] # NoCall => calls[p] # NoCall
<1>1. \A t \in Sender : calls[t] \in Call \cup {NoCall}
  BY Types DEF CartInv
<1>2. \A t \in Sender : calls'[t] \in Call \cup {NoCall} /\ (calls[t] # NoCall <=> calls'[t] # NoCall)
  BY <1>1, SameBrings
<1> QED
  BY <1>2, Senders

\* The quantity an add writes fits the cap, where the unique index holds.
LEMMA SumFits ==
    ASSUME CartInv, NEW c \in Call, ~Conflict(c)
    PROVE  /\ Summed(c) \in Nat
           /\ c.line \notin Loose => Summed(c) <= MaxQty
           /\ Summed(c) <= server[c.line] + c.n \/ c.found > server[c.line]
           /\ (c.found = server[c.line] \/ c.found = 0) /\ c.found + c.n <= MaxQty =>
                Summed(c) = server[c.line] + c.n
<1>1. c.n \in Nat /\ c.found \in Nat /\ c.line \in Line /\ MaxQty \in Nat
  BY CartAssumption DEF Call
<1>2. server[c.line] \in Nat
  BY <1>1, Types DEF CartInv
<1>3. ~(c.found = 0 /\ server[c.line] > 0 /\ c.line \notin Loose)
  BY DEF Conflict
<1> QED
  BY <1>1, <1>2, <1>3 DEF Summed, Capped

\* A request that ends brings nothing more; its page goes on.
GoesOn(s, well) ==
    page' = [p \in Page |-> IF p # s \/ page[p] # "op" THEN page[p]
                            ELSE IF well THEN "reload" ELSE "idle"]

LEMMA Ended ==
    ASSUME CartInv, NEW s \in Sender, calls[s] # NoCall, NEW well \in BOOLEAN,
           NEW cs, cs = [t \in Sender |-> cs[t]], \A t \in Sender : SameCall(calls[t], cs[t]),
           Ends(s, cs, well)
    PROVE  /\ calls' \in [Sender -> Call \cup {NoCall}] /\ calls'[s] = NoCall
           /\ \A l \in Line : Brings(calls'[s], l) = 0
           /\ \A t \in Sender : t # s => \A l \in Line : Brings(calls'[t], l) = Brings(calls[t], l)
           /\ \A p \in Page : calls'[p] # NoCall => calls[p] # NoCall /\ p # s
           /\ GoesOn(s, well)
<1>1. calls' = [cs EXCEPT ![s] = NoCall] /\ GoesOn(s, well)
  BY DEF Ends, GoesOn
<1>2. /\ calls' = [t \in Sender |-> calls'[t]]
      /\ calls'[s] = NoCall
      /\ \A t \in Sender : t # s => calls'[t] = cs[t]
  BY <1>1
<1>3. \A t \in Sender : calls[t] \in Call \cup {NoCall}
  BY Types DEF CartInv
<1>4. \A t \in Sender : cs[t] \in Call \cup {NoCall} /\ (cs[t] # NoCall <=> calls[t] # NoCall)
  BY <1>3, SameBrings
<1>5. \A t \in Sender : \A l \in Line : Brings(cs[t], l) = Brings(calls[t], l)
  BY SameBrings
<1>6. calls' \in [Sender -> Call \cup {NoCall}]
  BY <1>2, <1>4
<1>7. \A l \in Line : Brings(calls'[s], l) = 0
  BY <1>2 DEF Brings
<1>8. \A p \in Page : calls'[p] # NoCall => calls[p] # NoCall /\ p # s
  BY <1>2, <1>4, Senders
<1>9. \A t \in Sender : t # s => \A l \in Line : Brings(calls'[t], l) = Brings(calls[t], l)
  BY <1>2, <1>5
<1> QED
  BY <1>1, <1>2, <1>6, <1>7, <1>8, <1>9

LEMMA EndsInv ==
    ASSUME CartInv, NEW s \in Sender, calls[s] # NoCall,
           calls' \in [Sender -> Call \cup {NoCall}],
           \A p \in Page : calls'[p] # NoCall => calls[p] # NoCall /\ p # s,
           NEW well \in BOOLEAN, GoesOn(s, well),
           UNCHANGED <<items, todo>>,
           UNCHANGED user \/ (s \in Page /\ user' = [user EXCEPT ![s] = FALSE]),
           known' \in BOOLEAN, stored' \in [Line -> Item], ShopTypes', GhostTypes'
    PROVE  CartInv'
<1>1. /\ user \in [Page -> BOOLEAN] /\ items \in [Page -> [Line -> Item]]
      /\ page \in [Page -> Stages] /\ todo \in [Page -> SUBSET Line]
  BY Types DEF CartInv, Stages
<1>2. user' \in [Page -> BOOLEAN] /\ \A q \in Page : user'[q] => user[q]
  BY <1>1
<1>3. ASSUME NEW q \in Page
      PROVE  /\ page'[q] \in Stages
             /\ page'[q] = page[q] \/ (q = s /\ page[q] = "op" /\ page'[q] \in {"reload", "idle"})
  BY <1>1 DEF GoesOn, Stages
<1>4. page' \in [Page -> Stages]
  BY <1>3 DEF GoesOn
<1>5. TypeOK'
  BY <1>1, <1>2, <1>4, Zenon DEF TypeOK, ShopTypes, GhostTypes, Stages
<1>6. ASSUME NEW q \in Page
      PROVE  /\ calls'[q] # NoCall => page'[q] \in {"sync", "op"}
             /\ page'[q] # "sync" => todo'[q] = {}
             /\ page'[q] \in {"closed", "new"} => ~user'[q]
             /\ todo'[q] \subseteq LocalOnly(items'[q])
  <2>1. /\ calls[q] # NoCall => page[q] \in {"sync", "op"}
        /\ page[q] # "sync" => todo[q] = {}
        /\ page[q] \in {"closed", "new"} => ~user[q]
        /\ todo[q] \subseteq LocalOnly(items[q])
    BY DEF CartInv, Calm, Waiting
  <2>2. page'[q] = page[q] \/ (q = s /\ page[q] = "op" /\ page'[q] \in {"reload", "idle"})
    BY <1>3
  <2> QED
    BY <1>2, <2>1, <2>2
<1>7. Calm'
  BY <1>6 DEF Calm, Waiting, LocalOnly
<1> QED
  BY <1>5, <1>7 DEF CartInv

LEMMA ServerInv ==
    ASSUME CartInv, NEW s \in Sender, Read(s) \/ AddWrite(s) \/ ChangeWrite(s) \/ Fails(s)
    PROVE  CartInv'
<1>1. calls[s] \in Call /\ calls[s] # NoCall /\ calls \in [Sender -> Call \cup {NoCall}]
  BY Types DEF Read, AddWrite, ChangeWrite, Fails, CartInv
<1>2. /\ server \in [Line -> Nat] /\ owed \in [Line -> Nat] /\ ShopTypes /\ GhostTypes
      /\ known \in BOOLEAN /\ stored \in [Line -> Item]
      /\ \A l \in Line \ Loose : server[l] <= MaxQty
  BY Grouped DEF CartInv, ShopTypes, GhostTypes
<1>3. calls[s].line \in Line /\ calls[s].n \in Nat /\ server[calls[s].line] \in Nat
  BY <1>1, <1>2 DEF Call
<1>4. \A t \in Sender : SameCall(calls[t], calls[t])
  BY DEF SameCall
<1>5. calls = [t \in Sender |-> calls[t]]
  BY <1>1
<1>6. CASE Read(s)
  <2>1. /\ UNCHANGED browser /\ UNCHANGED <<server, order, session>>
        /\ UNCHANGED <<owed, short, doubled, mixed, taken, plain>>
    BY <1>6 DEF Read, shop, ghosts
  <2>2. /\ calls' \in [Sender -> Call \cup {NoCall}]
        /\ \A p \in Page : calls'[p] # NoCall => calls[p] # NoCall
    BY <1>6, Goes, SameTypes
  <2>3. ShopTypes' /\ GhostTypes'
    BY <1>2, <2>1 DEF ShopTypes, GhostTypes
  <2> QED
    BY <2>1, <2>2, <2>3, ElsewhereInv
<1>7. CASE AddWrite(s)
  <2>1. /\ ~Conflict(calls[s])
        /\ server' = [server EXCEPT ![calls[s].line] = Summed(calls[s])]
        /\ short' \subseteq short \cup {calls[s].line}
        /\ doubled' \subseteq doubled \cup {calls[s].line}
        /\ Ends(s, calls, TRUE)
        /\ UNCHANGED <<order, session, known, stored, user, items, todo, owed, mixed, taken, plain>>
    BY <1>7 DEF AddWrite
  <2>2. /\ calls' \in [Sender -> Call \cup {NoCall}]
        /\ \A p \in Page : calls'[p] # NoCall => calls[p] # NoCall /\ p # s
        /\ GoesOn(s, TRUE)
    BY <1>1, <1>4, <1>5, <2>1, Ended
  <2>3. Summed(calls[s]) \in Nat /\ (calls[s].line \notin Loose => Summed(calls[s]) <= MaxQty)
    BY <1>1, <2>1, SumFits
  <2>4. server' \in [Line -> Nat] /\ \A l \in Line \ Loose : server'[l] <= MaxQty
    BY <1>2, <1>3, <2>1, <2>3
  <2>5. ShopTypes'
    BY <1>2, <2>1, <2>4 DEF ShopTypes
  <2>6. GhostTypes'
    BY <1>2, <1>3, <2>1 DEF GhostTypes
  <2> QED
    BY <1>1, <1>2, <2>1, <2>2, <2>5, <2>6, EndsInv
<1>8. CASE ChangeWrite(s)
  <2> DEFINE c == calls[s]
             cs == IF c.kind = "remove" THEN Forget(c.line) ELSE calls
  <2>1. /\ server' = [server EXCEPT ![c.line] = Capped(c.n)]
        /\ owed' = [owed EXCEPT ![c.line] = Less(owed[c.line] + Capped(c.n), server[c.line])]
        /\ Ends(s, cs, TRUE)
        /\ UNCHANGED <<order, session, known, stored, user, items, todo,
                       short, doubled, mixed, taken, plain>>
    BY <1>8 DEF ChangeWrite
  <2>2. cs = [t \in Sender |-> cs[t]] /\ \A t \in Sender : SameCall(calls[t], cs[t])
    BY <1>3, <1>4, <1>5, Forgotten
  <2> HIDE DEF cs
  <2>3. /\ calls' \in [Sender -> Call \cup {NoCall}]
        /\ \A p \in Page : calls'[p] # NoCall => calls[p] # NoCall /\ p # s
        /\ GoesOn(s, TRUE)
    BY <1>1, <2>1, <2>2, Ended
  <2>4. Capped(c.n) \in Nat /\ Capped(c.n) <= MaxQty
    BY <1>3, CartAssumption DEF Capped
  <2>5. server' \in [Line -> Nat] /\ \A l \in Line \ Loose : server'[l] <= MaxQty
    BY <1>2, <1>3, <2>1, <2>4
  <2>6. Less(owed[c.line] + Capped(c.n), server[c.line]) \in Nat
    <3>1. owed[c.line] + Capped(c.n) \in Nat
      BY <1>2, <1>3, <2>4
    <3> QED
      BY <1>3, <3>1, LessIs
  <2>7. ShopTypes'
    BY <1>2, <2>1, <2>5 DEF ShopTypes
  <2>8. GhostTypes'
    BY <1>2, <2>1, <2>6 DEF GhostTypes
  <2> QED
    BY <1>1, <1>2, <2>1, <2>3, <2>7, <2>8, EndsInv
<1>9. CASE Fails(s)
  <2>1. /\ Ends(s, calls, FALSE)
        /\ short' \subseteq short \cup {calls[s].line}
        /\ (s \in Page /\ ClearAuth(s)) \/ UNCHANGED <<known, stored, user, doubled, mixed, taken>>
        /\ UNCHANGED <<server, order, session>> /\ UNCHANGED <<items, todo, owed, plain>>
    BY <1>9 DEF Fails, shop
  <2>2. /\ calls' \in [Sender -> Call \cup {NoCall}]
        /\ \A p \in Page : calls'[p] # NoCall => calls[p] # NoCall /\ p # s
        /\ GoesOn(s, FALSE)
    BY <1>1, <1>4, <1>5, <2>1, Ended
  <2>3. /\ known' \in BOOLEAN /\ stored' \in [Line -> Item]
        /\ doubled' \subseteq Line /\ mixed' \subseteq Line /\ taken' \subseteq Line
        /\ UNCHANGED user \/ (s \in Page /\ user' = [user EXCEPT ![s] = FALSE])
    <3>1. CASE s \in Page /\ ClearAuth(s)
      BY <3>1, ClearAuthTypes
    <3>2. CASE UNCHANGED <<known, stored, user, doubled, mixed, taken>>
      BY <1>2, <3>2 DEF GhostTypes
    <3> QED
      BY <2>1, <3>1, <3>2
  <2>4. ShopTypes'
    BY <1>2, <2>1 DEF ShopTypes
  <2>5. GhostTypes'
    BY <1>2, <1>3, <2>1, <2>3 DEF GhostTypes
  <2> QED
    BY <1>1, <2>1, <2>2, <2>3, <2>4, <2>5, EndsInv
<1> QED
  BY <1>6, <1>7, <1>8, <1>9

LEMMA SharedInv ==
    ASSUME CartInv, PayApproved \/ \E p \in Page : LostAnswer(p)
    PROVE  CartInv'
<1>1. calls' = [t \in Sender |-> calls'[t]] /\ \A t \in Sender : SameCall(calls[t], calls'[t])
  BY SentAgain, AllForgotten
<1>2. /\ calls' \in [Sender -> Call \cup {NoCall}]
      /\ \A p \in Page : calls'[p] # NoCall => calls[p] # NoCall
  BY <1>1, SameTypes
<1>3. UNCHANGED browser /\ UNCHANGED <<session, mixed, taken, plain>>
  BY DEF LostAnswer, PayApproved
<1>4. /\ server \in [Line -> Nat] /\ owed \in [Line -> Nat] /\ order \in [Line -> Nat]
      /\ ShopTypes /\ GhostTypes /\ calls \in [Sender -> Call \cup {NoCall}]
      /\ \A l \in Line \ Loose : server[l] <= MaxQty
  BY Grouped DEF CartInv, ShopTypes, GhostTypes
<1>5. ASSUME NEW p \in Page, LostAnswer(p) PROVE CartInv'
  <2>1. calls[p] \in Call /\ ~Conflict(calls[p]) /\ calls[p].line \in Line
    BY <1>4, <1>5, Senders DEF LostAnswer, Call
  <2>2. /\ server' = [server EXCEPT ![calls[p].line] = Summed(calls[p])]
        /\ short' = short \cup {calls[p].line} /\ doubled' = doubled \cup {calls[p].line}
        /\ UNCHANGED <<owed, order>>
    BY <1>5 DEF LostAnswer
  <2>3. Summed(calls[p]) \in Nat /\ (calls[p].line \notin Loose => Summed(calls[p]) <= MaxQty)
    BY <2>1, SumFits
  <2>4. ShopTypes'
    BY <1>3, <1>4, <2>1, <2>2, <2>3 DEF ShopTypes
  <2>5. GhostTypes'
    BY <1>3, <1>4, <2>1, <2>2 DEF GhostTypes
  <2> QED
    BY <1>2, <1>3, <2>4, <2>5, ElsewhereInv
<1>6. CASE PayApproved
  <2>1. /\ server' = [l \in Line |-> 0] /\ order' = NoOrder
        /\ owed' = [l \in Line |->
                      Less(owed[l], IF server[l] > order[l] THEN order[l] ELSE server[l])]
        /\ short' = short \cup {l \in Line : server[l] > order[l]} /\ doubled' = doubled
    BY <1>6 DEF PayApproved
  <2>2. \A l \in Line : Less(owed[l], IF server[l] > order[l] THEN order[l] ELSE server[l]) \in Nat
    BY <1>4, LessIs
  <2>3. \A l \in Line : server'[l] <= MaxQty
    BY <2>1, CartAssumption
  <2>4. ShopTypes'
    BY <1>3, <1>4, <2>1, <2>3 DEF ShopTypes, NoOrder
  <2>5. GhostTypes'
    BY <1>3, <1>4, <2>1, <2>2 DEF GhostTypes
  <2> QED
    BY <1>2, <1>3, <2>4, <2>5, ElsewhereInv
<1> QED
  BY <1>5, <1>6

LEMMA CartSteps == CartInv /\ [Next]_vars => CartInv'
<1> SUFFICES ASSUME CartInv, [Next]_vars PROVE CartInv'
  OBVIOUS
<1>1. CASE UNCHANGED vars
  <2>1. /\ UNCHANGED browser /\ UNCHANGED calls /\ UNCHANGED <<server, order, session>>
        /\ UNCHANGED <<owed, short, doubled, mixed, taken, plain>>
    BY <1>1 DEF vars, ghosts, shop
  <2>2. ShopTypes /\ GhostTypes /\ calls \in [Sender -> Call \cup {NoCall}]
    BY Grouped DEF CartInv
  <2>3. ShopTypes' /\ GhostTypes'
    BY <2>1, <2>2 DEF ShopTypes, GhostTypes
  <2> QED
    BY <2>1, <2>2, <2>3, ElsewhereInv
<1>2. CASE Next
  BY <1>2, AsideInv, SharedInv, OpenInv, SetAuthInv, BootInv, LogoutInv, ShowsInv, GuestsInv,
     AsksInv, UploadInv, ServerInv DEF Next
<1> QED
  BY <1>1, <1>2

-----------------------------------------------------------------------------
(* The copies of one page at a time.                                        *)

\* Only p does something, and it did not become two.
LEMMA OnlyOne ==
    ASSUME CartInv', NEW p \in Page,
           plain' => AloneAt(p)' /\ \A q \in Page : q # p => page'[q] = "closed"
    PROVE  Alone'
<1>1. ASSUME plain', NEW q \in Page, q # p
      PROVE  AloneAt(q)'
  <2>1. page'[q] = "closed"
    BY <1>1
  <2>2. todo'[q] = {} /\ ~user'[q]
    BY <2>1 DEF CartInv, Calm
  <2> QED
    BY <2>1, <2>2 DEF AloneAt, Settled
<1> QED
  BY <1>1 DEF Alone

\* What is known of a page that does something alone.
LEMMA AloneIs ==
    ASSUME CartInv, Alone, plain, NEW p \in Page, page[p] # "closed"
    PROVE  /\ \A q \in Page : q # p => page[q] = "closed"
           /\ \A l \in todo[p] : l \in taken /\ LocalIn(stored, l) = items[p][l].n
           /\ page[p] \in {"sync", "load", "op", "reload"} => Clean
           /\ page[p] = "idle" /\ user[p] => Clean /\ NoLocal(items[p])
           /\ page[p] \in {"op", "reload"} => NoLocal(items[p])
           /\ page[p] \in {"new", "idle", "op"} /\ ~user[p] => stored = items[p]
           /\ page[p] = "new" => stored = items[p]
<1>1. AloneAt(p)
  BY DEF Alone
<1>2. page[p] = "new" => ~user[p]
  BY DEF CartInv, Calm
<1> QED
  BY <1>1, <1>2 DEF AloneAt, Settled

\* Once its units are taken, or have been uploaded, localStorage has none.
LEMMA CleanNow ==
    ASSUME stored' \in [Line -> Item], LocalOnly(stored') \subseteq taken'
    PROVE  Clean'
<1>1. ASSUME NEW l \in Line, l \notin taken'
      PROVE  LocalIn(stored', l) = 0
  <2>1. l \notin LocalOnly(stored')
    BY <1>1
  <2>2. LocalIn(stored', l) \in Nat /\ ~(LocalIn(stored', l) > 0)
    BY <2>1, LocalIs
  <2> QED
    BY <2>2
<1> QED
  BY <1>1 DEF Clean, Kept, LocalIn

LEMMA OpenAlone == ASSUME CartInv, CartInv', Alone, NEW p \in Page, Open(p) PROVE Alone'
<1>1. /\ page' = [page EXCEPT ![p] = OpenAt] /\ todo' = [todo EXCEPT ![p] = OpenTodo]
      /\ taken' = (taken \ todo[p]) \cup OpenTodo
      /\ items' = [items EXCEPT ![p] = stored] /\ user' = [user EXCEPT ![p] = known]
      /\ stored' = stored
      /\ plain' = (plain /\ \A q \in Page \ {p} : page[q] = "closed")
  BY OpenIs
<1>2. /\ page'[p] = OpenAt /\ todo'[p] = OpenTodo /\ items'[p] = stored /\ user'[p] = known
      /\ \A q \in Page : q # p => page'[q] = page[q]
  BY <1>1, Types DEF CartInv
<1>3. stored \in [Line -> Item] /\ stored' \in [Line -> Item]
  BY <1>1, Types DEF CartInv
<1>4. \A l \in OpenTodo : l \in taken' /\ LocalIn(stored, l) = stored[l].n
  BY <1>1, <1>3, LocalIs, Uploads DEF OpenTodo
<1>5. CASE known
  <2>1. LocalOnly(stored') \subseteq taken'
    BY <1>1, <1>5 DEF OpenTodo
  <2>2. Clean'
    BY <1>3, <2>1, CleanNow
  <2>3. page'[p] = "sync" /\ user'[p]
    BY <1>2, <1>5 DEF OpenAt
  <2>4. plain' => AloneAt(p)'
    BY <1>1, <1>2, <1>4, <2>2, <2>3 DEF AloneAt, Settled, LocalIn
  <2> QED
    BY <1>1, <1>2, <2>4, OnlyOne
<1>6. CASE ~known
  <2>1. page'[p] = "new" /\ todo'[p] = {} /\ items'[p] = stored'
    BY <1>1, <1>2, <1>6 DEF OpenAt, OpenTodo
  <2>2. plain' => AloneAt(p)'
    BY <1>1, <1>2, <2>1 DEF AloneAt, Settled
  <2> QED
    BY <1>1, <1>2, <2>2, OnlyOne
<1> QED
  BY <1>5, <1>6

LEMMA SetAuthAlone == ASSUME CartInv, CartInv', Alone, NEW p \in Page, SetAuth(p) PROVE Alone'
<1>1. /\ page[p] \in {"new", "idle"} /\ user' = [user EXCEPT ![p] = TRUE]
      /\ InitCart(p, items[p], taken)
      /\ UNCHANGED <<stored, items, plain>>
  BY DEF SetAuth
<1>2. items[p] \in [Line -> Item] /\ stored \in [Line -> Item] /\ stored' \in [Line -> Item]
  BY <1>1, Types DEF CartInv
<1>3. /\ page' = [page EXCEPT ![p] = "sync"] /\ todo' = [todo EXCEPT ![p] = LocalOnly(items[p])]
      /\ taken' = taken \cup LocalOnly(items[p])
  BY <1>1, <1>2, InitCartIs, LineSets
<1>4. /\ page'[p] = "sync" /\ todo'[p] = LocalOnly(items[p])
      /\ user'[p] /\ \A q \in Page : q # p => page'[q] = page[q]
  BY <1>1, <1>3, Types DEF CartInv
<1>5. ASSUME plain'
      PROVE  AloneAt(p)' /\ \A q \in Page : q # p => page'[q] = "closed"
  <2>1. /\ \A q \in Page : q # p => page[q] = "closed"
        /\ page[p] = "idle" /\ user[p] => Clean /\ NoLocal(items[p])
        /\ ~user[p] => stored = items[p]
        /\ page[p] = "new" => stored = items[p]
    BY <1>1, <1>5, AloneIs
  <2>2. CASE stored = items[p]
    <3>1. Clean'
      BY <1>1, <1>2, <1>3, <2>2, CleanNow
    <3>2. \A l \in LocalOnly(items[p]) : l \in taken' /\ LocalIn(stored, l) = items[p][l].n
      BY <1>2, <1>3, <2>2, LocalIs, Uploads
    <3> QED
      BY <1>1, <1>4, <2>1, <3>1, <3>2 DEF AloneAt, Settled, LocalIn
  <2>3. CASE Clean /\ NoLocal(items[p])
    <3>1. LocalOnly(items[p]) = {}
      BY <1>2, <2>3, NoneToUpload
    <3>2. taken' = taken /\ Clean'
      BY <1>1, <1>3, <2>3, <3>1 DEF Clean, Kept, LocalIn
    <3> QED
      BY <1>1, <1>4, <2>1, <3>1, <3>2 DEF AloneAt, Settled
  <2> QED
    BY <1>1, <2>1, <2>2, <2>3
<1> QED
  BY <1>5, OnlyOne

\* A page signs out: localStorage has what it shows, and is taken as far as
\* its initCart was uploading it.
LEMMA ClearAuthClean ==
    ASSUME CartInv, Alone, plain, NEW p \in Page, page[p] # "closed", ClearAuth(p)
    PROVE  /\ stored' = items[p] /\ taken' = Claimed(p)
           /\ \A l \in todo[p] : l \in taken' /\ LocalIn(items[p], l) = items[p][l].n
           /\ page[p] \in {"sync", "load", "op", "reload"} => Clean'
<1>1. stored' = items[p] /\ taken' = Claimed(p) /\ stored' \in [Line -> Item]
  BY ClearAuthTypes
<1>2. /\ todo[p] \subseteq LocalOnly(items[p]) /\ (page[p] # "sync" => todo[p] = {})
      /\ items[p] \in [Line -> Item]
  BY Stays
<1>3. ASSUME NEW l \in todo[p]
      PROVE  l \in taken' /\ LocalIn(items[p], l) = items[p][l].n
  <2>1. page[p] = "sync" /\ l \in LocalOnly(items[p]) /\ l \in Line
    BY <1>2, Uploads
  <2> QED
    BY <1>1, <1>2, <2>1, LocalIs DEF Claimed
<1>4. CASE page[p] \in {"sync", "load"}
  <2>1. LocalOnly(stored') \subseteq taken'
    BY <1>1, <1>4 DEF Claimed
  <2> QED
    BY <1>1, <1>3, <2>1, CleanNow
<1>5. CASE page[p] \in {"op", "reload"}
  <2>1. NoLocal(items[p])
    BY <1>5, AloneIs
  <2>2. LocalOnly(stored') = {}
    BY <1>1, <1>2, <2>1, NoneToUpload
  <2> QED
    BY <1>1, <1>3, <2>2, CleanNow
<1> QED
  BY <1>1, <1>3, <1>4, <1>5

LEMMA BootAlone == ASSUME CartInv, CartInv', Alone, NEW p \in Page, Boot(p) PROVE Alone'
<1>1. page[p] = "new" /\ items' = items
  BY DEF Boot
<1>2. ~user[p] /\ todo[p] = {} /\ user \in [Page -> BOOLEAN] /\ page \in [Page -> Stages]
  BY <1>1, Stays, Types DEF CartInv, Stages
<1>3. ASSUME plain'
      PROVE  AloneAt(p)' /\ \A q \in Page : q # p => page'[q] = "closed"
  <2>1. /\ At(p, "idle") /\ UNCHANGED <<todo, plain>>
        /\ ClearAuth(p) \/ UNCHANGED <<known, stored, user, taken>>
    BY <1>3 DEF Boot
  <2>2. \A q \in Page : q # p => page[q] = "closed"
    BY <1>1, <1>3, <2>1, AloneIs
  <2>3. stored = items[p]
    BY <1>1, <1>3, <2>1, AloneIs
  <2>4. stored' = items'[p] /\ ~user'[p]
    BY <1>1, <1>2, <2>1, <2>3, ClearAuthTypes
  <2>5. page'[p] = "idle" /\ todo'[p] = {} /\ \A q \in Page : q # p => page'[q] = "closed"
    BY <1>2, <2>1, <2>2 DEF At
  <2> QED
    BY <2>4, <2>5 DEF AloneAt, Settled
<1> QED
  BY <1>3, OnlyOne

LEMMA LogoutAlone == ASSUME CartInv, CartInv', Alone, NEW p \in Page, Logout(p) PROVE Alone'
<1>1. user[p] /\ ClearAuth(p) /\ UNCHANGED <<items, page, todo, plain>>
  BY DEF Logout
<1>2. page[p] # "closed" /\ page[p] # "new"
  BY <1>1, Stays
<1>3. user'[p] = FALSE /\ page[p] \in Stages
  BY <1>1, Types DEF CartInv, ClearAuth, Stages
<1>4. ASSUME plain'
      PROVE  AloneAt(p)' /\ \A q \in Page : q # p => page'[q] = "closed"
  <2>1. /\ \A q \in Page : q # p => page[q] = "closed"
        /\ page[p] \in {"op", "reload"} => NoLocal(items[p])
    BY <1>1, <1>2, <1>4, AloneIs
  <2>2. /\ stored' = items[p]
        /\ \A l \in todo[p] : l \in taken' /\ LocalIn(items[p], l) = items[p][l].n
        /\ page[p] \in {"sync", "load", "op", "reload"} => Clean'
    BY <1>1, <1>2, <1>4, ClearAuthClean
  <2>3. (NoLocal(items[p]))' = NoLocal(items[p])
    BY <1>1 DEF NoLocal, LocalIn
  <2>4. \A l \in todo'[p] : l \in taken' /\ LocalIn(stored', l) = items'[p][l].n
    BY <1>1, <2>2
  <2>5. Settled(p)' => page[p] \in {"op", "reload"}
    BY <1>1, <1>3 DEF Settled
  <2>6. AloneAt(p)'
    BY <1>1, <2>1, <2>2, <2>3, <2>4, <2>5 DEF AloneAt, LocalIn
  <2> QED
    BY <1>1, <2>1, <2>6
<1> QED
  BY <1>4, OnlyOne

LEMMA ShowsAlone ==
    ASSUME CartInv, CartInv', Alone, NEW p \in Page, SyncEnds(p) \/ Load(p) \/ ResetLocal(p)
    PROVE  Alone'
<1>1. /\ page[p] \in {"sync", "load", "reload", "idle"} /\ page[p] # "closed"
      /\ UNCHANGED <<todo, plain>> /\ todo[p] = {}
  BY Stays DEF SyncEnds, Load, ResetLocal
<1>2. /\ user \in [Page -> BOOLEAN] /\ page \in [Page -> Stages]
      /\ items \in [Page -> [Line -> Item]]
  BY Types DEF CartInv, Stages
<1>3. CASE SyncEnds(p)
  <2>1. /\ stored' = NoItems /\ page' = [page EXCEPT ![p] = "load"]
    BY <1>3 DEF SyncEnds, Save, At
  <2>2. Clean'
    <3>1. LocalOnly(stored') = {} /\ stored' \in [Line -> Item]
      BY <2>1, NothingLocal, NoneToUpload
    <3> QED
      BY <3>1, CleanNow
  <2>3. page'[p] = "load" /\ \A q \in Page : q # p => page'[q] = page[q]
    BY <1>2, <2>1
  <2>4. plain' => \A q \in Page : q # p => page'[q] = "closed"
    BY <1>1, <2>3, AloneIs
  <2>5. plain' => AloneAt(p)'
    BY <1>1, <2>2, <2>3, <2>4 DEF AloneAt, Settled
  <2> QED
    BY <2>4, <2>5, OnlyOne
<1>4. CASE Load(p)
  <2>1. /\ page' = [page EXCEPT ![p] = "idle"] /\ page[p] \in {"load", "reload"}
        /\ IF user'[p] THEN UNCHANGED <<stored, taken>> ELSE stored' = items'[p] /\ taken' = {}
    BY <1>4 DEF Load, At, Save
  <2>2. PICK I \in {AsItems, NoItems} : items' = [items EXCEPT ![p] = I]
    BY <1>4 DEF Load
  <2>3. I \in [Line -> Item] /\ NoLocal(I) /\ items'[p] = I
    BY <1>2, <2>2, ServerCopies, NothingLocal, Types DEF CartInv
  <2>4. (NoLocal(items[p]))'
    BY <2>3 DEF NoLocal, LocalIn
  <2>5. page'[p] = "idle" /\ \A q \in Page : q # p => page'[q] = page[q]
    BY <1>2, <2>1
  <2>6. plain' => \A q \in Page : q # p => page'[q] = "closed"
    BY <1>1, <2>5, AloneIs
  <2>7. plain' /\ user'[p] => Clean'
    <3>1. plain => Clean
      BY <1>1, <2>1, AloneIs
    <3> QED
      BY <1>1, <2>1, <3>1 DEF Clean, Kept, LocalIn
  <2>8. plain' => AloneAt(p)'
    BY <1>1, <2>1, <2>4, <2>5, <2>6, <2>7 DEF AloneAt, Settled
  <2> QED
    BY <2>6, <2>8, OnlyOne
<1>5. CASE ResetLocal(p)
  <2>1. /\ user[p] /\ page[p] = "idle" /\ items' = [items EXCEPT ![p] = NoItems]
        /\ stored' = NoItems /\ UNCHANGED <<user, page>>
    BY <1>5 DEF ResetLocal, Save
  <2>2. Clean'
    <3>1. LocalOnly(stored') = {} /\ stored' \in [Line -> Item]
      BY <2>1, NothingLocal, NoneToUpload
    <3> QED
      BY <3>1, CleanNow
  <2>3. items'[p] = NoItems
    BY <1>2, <2>1
  <2>4. (NoLocal(items[p]))'
    BY <2>3, NothingLocal DEF NoLocal, LocalIn
  <2>5. plain' => \A q \in Page : q # p => page'[q] = "closed"
    BY <1>1, <2>1, AloneIs
  <2>6. plain' => AloneAt(p)'
    BY <1>1, <2>1, <2>2, <2>4, <2>5 DEF AloneAt, Settled
  <2> QED
    BY <2>5, <2>6, OnlyOne
<1> QED
  BY <1>3, <1>4, <1>5

LEMMA GuestsAlone ==
    ASSUME CartInv, CartInv', Alone, NEW p \in Page, NEW l \in Line, NEW i, GuestShows(p, l, i)
    PROVE  Alone'
<1>1. /\ ~user[p] /\ page[p] \in {"new", "idle"} /\ stored' = items'[p]
      /\ UNCHANGED <<user, page, todo, plain>>
  BY DEF GuestShows, Save
<1>2. todo[p] = {}
  BY <1>1, Stays
<1>3. plain' => \A q \in Page : q # p => page'[q] = "closed"
  BY <1>1, AloneIs
<1>4. plain' => AloneAt(p)'
  BY <1>1, <1>2, <1>3 DEF AloneAt, Settled
<1> QED
  BY <1>3, <1>4, OnlyOne

LEMMA AsksAlone ==
    ASSUME CartInv, CartInv', Alone, NEW p \in Page, NEW l \in Line,
           Add(p, l) \/ RemoveLocal(p, l) \/ \E n \in 0..MaxQty : Change(p, l, n)
    PROVE  Alone'
<1>1. /\ user[p] /\ page[p] = "idle" /\ UNCHANGED <<stored, user, items, todo, taken, plain>>
      /\ At(p, "op") \/ At(p, "reload")
  BY DEF Add, RemoveLocal, Change, ghosts
<1>2. todo[p] = {} /\ page \in [Page -> Stages]
  BY <1>1, Stays, Types DEF CartInv, Stages
<1>3. page'[p] \in {"op", "reload"} /\ \A q \in Page : q # p => page'[q] = page[q]
  BY <1>1, <1>2 DEF At
<1>4. plain' => (\A q \in Page : q # p => page'[q] = "closed") /\ Clean /\ NoLocal(items[p])
  BY <1>1, <1>3, AloneIs
<1>5. Clean' = Clean /\ (NoLocal(items[p]))' = NoLocal(items[p])
  BY <1>1 DEF Clean, Kept, NoLocal, LocalIn
<1>6. plain' => AloneAt(p)'
  BY <1>1, <1>2, <1>3, <1>4, <1>5 DEF AloneAt, Settled
<1> QED
  BY <1>4, <1>6, OnlyOne

\* Steps that leave localStorage and the items alone.
LEMMA SameAlone ==
    ASSUME CartInv, Alone, UNCHANGED <<stored, user, items, taken, plain>>,
           \A p \in Page : todo'[p] \subseteq todo[p],
           \A p \in Page : \/ page'[p] = page[p]
                           \/ page[p] = "op" /\ page'[p] \in {"reload", "idle"}
    PROVE  Alone'
<1>1. ASSUME plain, NEW p \in Page
      PROVE  AloneAt(p)'
  <2>1. AloneAt(p)
    BY <1>1 DEF Alone
  <2>2. Clean' = Clean /\ (NoLocal(items[p]))' = NoLocal(items[p])
    BY DEF Clean, Kept, NoLocal, LocalIn
  <2>3. page'[p] = "closed" \/ \A q \in Page \ {p} : page'[q] = "closed"
    <3>1. CASE page[p] = "closed"
      BY <3>1
    <3>2. CASE \A q \in Page \ {p} : page[q] = "closed"
      BY <3>2
    <3> QED
      BY <2>1, <3>1, <3>2 DEF AloneAt
  <2>4. \A l \in todo'[p] : l \in taken' /\ LocalIn(stored', l) = items'[p][l].n
    BY <2>1 DEF AloneAt, LocalIn
  <2>5. Settled(p)' => Settled(p)
    BY DEF Settled
  <2>6. page'[p] \in {"sync", "load"} => page[p] \in {"sync", "load"}
    OBVIOUS
  <2>7. page'[p] \in {"new", "idle", "op"} => page[p] \in {"new", "idle", "op"}
    OBVIOUS
  <2> QED
    BY <2>1, <2>2, <2>3, <2>4, <2>5, <2>6, <2>7 DEF AloneAt, LocalIn
<1> QED
  BY <1>1 DEF Alone

LEMMA FailsAlone ==
    ASSUME CartInv, CartInv', Alone, NEW s \in Page, Fails(s), ClearAuth(s)
    PROVE  Alone'
<1>1. /\ calls[s] # NoCall /\ GoesOn(s, FALSE) /\ UNCHANGED <<items, todo, plain>>
  BY DEF Fails, Ends, GoesOn
<1>2. page[s] \in {"sync", "op"} /\ (page[s] # "sync" => todo[s] = {})
      /\ user'[s] = FALSE
  BY <1>1, Stays, Types DEF ClearAuth, CartInv
<1>3. /\ page'[s] = IF page[s] = "op" THEN "idle" ELSE "sync"
      /\ \A q \in Page : q # s => page'[q] = page[q]
  BY <1>1, <1>2 DEF GoesOn
<1>4. ASSUME plain'
      PROVE  AloneAt(s)' /\ \A q \in Page : q # s => page'[q] = "closed"
  <2>1. \A q \in Page : q # s => page'[q] = "closed"
    BY <1>1, <1>2, <1>3, <1>4, AloneIs
  <2>2. /\ stored' = items[s]
        /\ \A l \in todo[s] : l \in taken' /\ LocalIn(items[s], l) = items[s][l].n
        /\ Clean'
    BY <1>1, <1>2, <1>4, ClearAuthClean
  <2>3. \A l \in todo'[s] : l \in taken' /\ LocalIn(stored', l) = items'[s][l].n
    BY <1>1, <2>2
  <2>4. ~Settled(s)'
    BY <1>2, <1>3 DEF Settled
  <2>5. AloneAt(s)'
    BY <1>1, <2>1, <2>2, <2>3, <2>4 DEF AloneAt, LocalIn
  <2> QED
    BY <2>1, <2>5
<1> QED
  BY <1>4, OnlyOne

LEMMA RequestsAlone ==
    ASSUME CartInv, CartInv', Alone,
           \/ SessionEnds \/ PayApproved \/ UNCHANGED vars
           \/ \E p \in Page : \/ PlaceOrder(p) \/ LostAnswer(p)
                             \/ \E l \in Line : Upload(p, l)
           \/ \E s \in Sender : Read(s) \/ AddWrite(s) \/ ChangeWrite(s) \/ Fails(s)
    PROVE  Alone'
<1>1. CASE UNCHANGED <<stored, user, items, page, todo, taken, plain>>
  BY <1>1, SameAlone
<1>2. ASSUME NEW p \in Page, NEW l \in Line, Upload(p, l) PROVE Alone'
  <2>1. UNCHANGED <<stored, user, items, page, taken, plain>>
        /\ todo' = [todo EXCEPT ![p] = todo[p] \ {l}] /\ todo \in [Page -> SUBSET Line]
    BY <1>2, Types DEF Upload, ghosts, CartInv
  <2> QED
    BY <2>1, SameAlone
<1>3. ASSUME NEW s \in Sender, NEW cs, NEW well \in BOOLEAN, Ends(s, cs, well),
             UNCHANGED <<stored, user, items, todo, taken, plain>>
      PROVE  Alone'
  <2>1. \A p \in Page : \/ page'[p] = page[p]
                        \/ page[p] = "op" /\ page'[p] \in {"reload", "idle"}
    BY <1>3 DEF Ends
  <2> QED
    BY <1>3, <2>1, SameAlone
<1>4. ASSUME NEW s \in Sender, Fails(s) PROVE Alone'
  <2>1. CASE s \in Page /\ ClearAuth(s)
    BY <1>4, <2>1, FailsAlone
  <2>2. CASE UNCHANGED <<known, stored, user, doubled, mixed, taken>>
    <3>1. Ends(s, calls, FALSE) /\ UNCHANGED <<items, todo, plain>>
      BY <1>4 DEF Fails
    <3> QED
      BY <1>3, <2>2, <3>1
  <2> QED
    BY <1>4, <2>1, <2>2 DEF Fails
<1>5. ASSUME NEW s \in Sender, AddWrite(s) PROVE Alone'
  <2>1. Ends(s, calls, TRUE) /\ UNCHANGED <<stored, user, items, todo, taken, plain>>
    BY <1>5 DEF AddWrite
  <2> QED
    BY <1>3, <2>1
<1>6. ASSUME NEW s \in Sender, ChangeWrite(s) PROVE Alone'
  <2>1. UNCHANGED <<stored, user, items, todo, taken, plain>>
        /\ Ends(s, IF calls[s].kind = "remove" THEN Forget(calls[s].line) ELSE calls, TRUE)
    BY <1>6 DEF ChangeWrite
  <2> QED
    BY <1>3, <2>1
<1>7. ASSUME \/ SessionEnds \/ PayApproved \/ UNCHANGED vars
             \/ \E p \in Page : PlaceOrder(p) \/ LostAnswer(p)
             \/ \E s \in Sender : Read(s)
      PROVE  UNCHANGED <<stored, user, items, page, todo, taken, plain>>
  BY <1>7 DEF SessionEnds, PayApproved, PlaceOrder, LostAnswer, Read, vars, browser, ghosts
<1> QED
  BY <1>1, <1>2, <1>4, <1>5, <1>6, <1>7

LEMMA AloneSteps == CartInv /\ CartInv' /\ Alone /\ [Next]_vars => Alone'
<1> SUFFICES ASSUME CartInv, CartInv', Alone, [Next]_vars PROVE Alone'
  OBVIOUS
<1>1. ASSUME NEW p \in Page, NEW l \in Line,
             GuestAdd(p, l) \/ \E n \in 0..Asks[l] : GuestSet(p, l, n)
      PROVE  Alone'
  BY <1>1, GuestAddIs, GuestSetIs, GuestsAlone
<1> QED
  BY <1>1, OpenAlone, SetAuthAlone, BootAlone, LogoutAlone, ShowsAlone, AsksAlone,
     RequestsAlone DEF Next

LEMMA AloneStarts == Init => Alone
  BY DEF Init, Alone, AloneAt, Settled

-----------------------------------------------------------------------------
(* What is held of a line against what is owed.                             *)

Up(p, l)  == IF l \in todo[p] THEN items[p][l].n ELSE 0
Loc(p, l) == Up(p, l) + Kept(l)
Local(l)  == Up(One, l) + Up(Two, l) + Kept(l)
Way(l)    == Brings(calls[One], l) + Brings(calls[Two], l) + Brings(calls["left"], l)
Total(l)  == server[l] + Way(l) + Local(l)

Fine(l) ==
    /\ l \notin short \cup mixed => Total(l) >= owed[l]
    /\ l \notin doubled \cup mixed => Total(l) <= owed[l]

Balanced == \A l \in Line : Fine(l)

LEMMA BringsNat ==
    ASSUME NEW c \in Call \cup {NoCall}, NEW l
    PROVE  Brings(c, l) \in Nat
  BY DEF Brings, Call

LEMMA PartsAreNat ==
    ASSUME CartInv, NEW l \in Line
    PROVE  /\ server[l] \in Nat /\ owed[l] \in Nat /\ order[l] \in Nat
           /\ Kept(l) \in Nat /\ Local(l) \in Nat /\ Way(l) \in Nat /\ Total(l) \in Nat
           /\ \A p \in Page : Up(p, l) \in Nat /\ Loc(p, l) \in Nat /\ items[p][l].n \in Nat
           /\ \A s \in Sender : Brings(calls[s], l) \in Nat
<1>1. server[l] \in Nat /\ owed[l] \in Nat /\ order[l] \in Nat /\ stored \in [Line -> Item]
  BY Types DEF CartInv
<1>2. Kept(l) \in Nat
  BY <1>1, LocalIs DEF Kept
<1>3. \A p \in Page : Up(p, l) \in Nat /\ items[p][l].n \in Nat
  BY Types DEF CartInv, Up, Item
<1>4. \A s \in Sender : Brings(calls[s], l) \in Nat
  BY Types, BringsNat DEF CartInv
<1>5. Local(l) \in Nat /\ \A p \in Page : Loc(p, l) \in Nat
  BY <1>2, <1>3, Senders DEF Local, Loc
<1>6. Way(l) \in Nat
  BY <1>4, Senders DEF Way
<1> QED
  BY <1>1, <1>2, <1>3, <1>4, <1>5, <1>6 DEF Total

LEMMA PartsAreNatNext ==
    ASSUME CartInv', NEW l \in Line
    PROVE  /\ server'[l] \in Nat /\ owed'[l] \in Nat
           /\ Kept(l)' \in Nat /\ Local(l)' \in Nat /\ Way(l)' \in Nat /\ Total(l)' \in Nat
           /\ \A p \in Page : Up(p, l)' \in Nat /\ Loc(p, l)' \in Nat /\ items'[p][l].n \in Nat
           /\ \A s \in Sender : Brings(calls'[s], l) \in Nat
<1>1. /\ server' \in [Line -> Nat] /\ owed' \in [Line -> Nat] /\ stored' \in [Line -> Item]
      /\ items' \in [Page -> [Line -> Item]]
      /\ calls' \in [Sender -> Call \cup {NoCall}]
  BY DEF CartInv, TypeOK
<1>2. Kept(l)' \in Nat
  <2>1. LocalIn(stored', l) \in Nat
    BY <1>1, LocalIs
  <2> QED
    BY <2>1 DEF Kept, LocalIn
<1>3. \A p \in Page : Up(p, l)' \in Nat /\ items'[p][l].n \in Nat
  BY <1>1 DEF Up, Item
<1>4. \A s \in Sender : Brings(calls'[s], l) \in Nat
  BY <1>1, BringsNat
<1>5. Local(l)' \in Nat /\ \A p \in Page : Loc(p, l)' \in Nat
  BY <1>2, <1>3, Senders DEF Local, Loc
<1>6. Way(l)' \in Nat
  BY <1>4, Senders DEF Way
<1>7. server'[l] \in Nat /\ owed'[l] \in Nat
  BY <1>1
<1>8. Total(l)' \in Nat
  BY <1>5, <1>6, <1>7 DEF Total
<1> QED
  BY <1>2, <1>3, <1>4, <1>5, <1>6, <1>7, <1>8

LEMMA HeldIs == ASSUME CartInv, NEW l \in Line PROVE Held(l) = Total(l)
<1> DEFINE Way1(s) == IF calls[s] # NoCall /\ calls[s].kind = "add" /\ calls[s].line = l
                      THEN calls[s].n ELSE 0
           Up1(p)  == IF l \in todo[p] THEN items[p][l].n ELSE 0
<1>1. Held(l) = server[l] + Way1(One) + Way1(Two) + Way1("left") + Up1(One) + Up1(Two) + Kept(l)
  BY DEF Held
<1>2. \A s : Way1(s) = Brings(calls[s], l)
  BY DEF Brings
<1>3. \A p : Up1(p) = Up(p, l)
  BY DEF Up
<1> HIDE DEF Way1, Up1
<1>4. /\ server[l] \in Nat /\ Kept(l) \in Nat
      /\ Up(One, l) \in Nat /\ Up(Two, l) \in Nat
      /\ Brings(calls[One], l) \in Nat /\ Brings(calls[Two], l) \in Nat
      /\ Brings(calls["left"], l) \in Nat
  BY PartsAreNat, Senders
<1> QED
  BY <1>1, <1>2, <1>3, <1>4 DEF Total, Way, Local

LEMMA BalancedMeans == CartInv /\ Balanced => NothingLost /\ NothingDoubled
  BY HeldIs DEF Balanced, Fine, NothingLost, NothingDoubled

\* They move together.
LEMMA Together ==
    ASSUME CartInv, CartInv', NEW l \in Line, Fine(l),
           short \subseteq short', doubled \subseteq doubled', mixed \subseteq mixed',
           l \notin short' \cup mixed' => Total(l)' + owed[l] >= Total(l) + owed'[l],
           l \notin doubled' \cup mixed' => Total(l)' + owed[l] <= Total(l) + owed'[l]
    PROVE  Fine(l)'
<1>1. owed[l] \in Nat /\ owed'[l] \in Nat /\ Total(l) \in Nat /\ Total(l)' \in Nat
  BY PartsAreNat, PartsAreNatNext
<1> QED
  BY <1>1 DEF Fine

\* Or k units take the place of a of them, on purpose.
LEMMA OnPurpose ==
    ASSUME CartInv, CartInv', NEW l \in Line, Fine(l), NEW a \in Nat, NEW k \in Nat,
           a <= Total(l), Total(l)' = Total(l) - a + k,
           owed'[l] = Less(owed[l] + k, a),
           short \subseteq short', doubled \subseteq doubled', mixed \subseteq mixed'
    PROVE  Fine(l)'
<1>1. owed[l] \in Nat /\ Total(l) \in Nat /\ owed[l] + k \in Nat
  BY PartsAreNat
<1>2. CASE owed[l] + k >= a
  <2>1. owed'[l] = owed[l] + k - a
    BY <1>1, <1>2 DEF Less
  <2> QED
    BY <1>1, <1>2, <2>1 DEF Fine
<1>3. CASE owed[l] + k < a
  <2>1. owed'[l] = 0
    BY <1>1, <1>3 DEF Less
  <2> QED
    BY <1>1, <1>3, <2>1 DEF Fine
<1> QED
  BY <1>1, <1>2, <1>3

\* A line that two copies disagree on is excused.
LEMMA MixedFine == ASSUME NEW l, l \in mixed' PROVE Fine(l)'
  BY DEF Fine

\* What one sender, or one page, changes.
LEMMA WayMoves ==
    ASSUME CartInv, CartInv', NEW l \in Line, NEW s \in Sender,
           \A t \in Sender : t # s => Brings(calls'[t], l) = Brings(calls[t], l)
    PROVE  Way(l)' + Brings(calls[s], l) = Way(l) + Brings(calls'[s], l)
<1>1. /\ \A t \in Sender : Brings(calls[t], l) \in Nat /\ Brings(calls'[t], l) \in Nat
      /\ s \in {One, Two, "left"} /\ One # Two /\ One # "left" /\ Two # "left"
      /\ One \in Sender /\ Two \in Sender /\ "left" \in Sender
  BY PartsAreNat, PartsAreNatNext, Senders DEF Page
<1> QED
  BY <1>1 DEF Way

LEMMA WayStays ==
    ASSUME NEW l \in Line, \A t \in Sender : Brings(calls'[t], l) = Brings(calls[t], l)
    PROVE  Way(l)' = Way(l)
  BY Senders DEF Way

LEMMA LocalMoves ==
    ASSUME CartInv, CartInv', NEW l \in Line, NEW p \in Page,
           \A q \in Page : q # p => items'[q] = items[q] /\ todo'[q] = todo[q]
    PROVE  Local(l)' + Loc(p, l) = Local(l) + Loc(p, l)'
<1>1. \A q \in Page : q # p => Up(q, l)' = Up(q, l)
  BY DEF Up
<1>2. /\ Up(One, l) \in Nat /\ Up(Two, l) \in Nat /\ Kept(l) \in Nat
      /\ Up(One, l)' \in Nat /\ Up(Two, l)' \in Nat /\ Kept(l)' \in Nat
  BY PartsAreNat, PartsAreNatNext, Senders
<1>3. CASE p = One
  <2>1. Up(Two, l)' = Up(Two, l)
    BY <1>1, <1>3, Senders
  <2> QED
    BY <1>2, <1>3, <2>1 DEF Local, Loc
<1>4. CASE p = Two
  <2>1. Up(One, l)' = Up(One, l)
    BY <1>1, <1>4, Senders
  <2> QED
    BY <1>2, <1>4, <2>1 DEF Local, Loc
<1> QED
  BY <1>3, <1>4 DEF Page

\* Only what a page has, or localStorage, moves.
LEMMA PageMoves ==
    ASSUME CartInv, CartInv', NEW l \in Line, NEW p \in Page, Fine(l),
           \A q \in Page : q # p => items'[q] = items[q] /\ todo'[q] = todo[q],
           server'[l] = server[l], owed'[l] = owed[l], Way(l)' = Way(l),
           short \subseteq short', doubled \subseteq doubled', mixed \subseteq mixed',
           l \notin mixed' => Loc(p, l)' >= Loc(p, l),
           l \notin doubled' \cup mixed' => Loc(p, l)' = Loc(p, l)
    PROVE  Fine(l)'
<1>1. /\ server[l] \in Nat /\ owed[l] \in Nat /\ Way(l) \in Nat /\ Local(l) \in Nat
      /\ Local(l)' \in Nat /\ Loc(p, l) \in Nat /\ Loc(p, l)' \in Nat
  BY PartsAreNat, PartsAreNatNext
<1>2. Local(l)' + Loc(p, l) = Local(l) + Loc(p, l)'
  BY LocalMoves
<1>3. Total(l) = server[l] + Way(l) + Local(l) /\ Total(l)' = server[l] + Way(l) + Local(l)'
  BY DEF Total
<1>4. l \notin short' \cup mixed' => Total(l)' + owed[l] >= Total(l) + owed'[l]
  BY <1>1, <1>2, <1>3
<1>5. l \notin doubled' \cup mixed' => Total(l)' + owed[l] <= Total(l) + owed'[l]
  BY <1>1, <1>2, <1>3
<1> QED
  BY <1>4, <1>5, Together

-----------------------------------------------------------------------------
(* Pages and sessions.                                                      *)

\* A page's own steps: what it has changes, and nothing is asked for.
LEMMA OpenFine ==
    ASSUME CartInv, CartInv', Alone, NEW p \in Page, Open(p), NEW l \in Line, Fine(l)
    PROVE  Fine(l)'
<1>1. /\ page' = [page EXCEPT ![p] = OpenAt] /\ todo' = [todo EXCEPT ![p] = OpenTodo]
      /\ taken' = (taken \ todo[p]) \cup OpenTodo
      /\ doubled' = doubled \cup ((taken \ todo[p]) \cap OpenTodo)
      /\ items' = [items EXCEPT ![p] = stored] /\ stored' = stored
      /\ Mix(Dropped(p)) /\ UNCHANGED <<server, owed, short>>
  BY OpenIs
<1>2. /\ todo'[p] = OpenTodo /\ items'[p] = stored
      /\ \A q \in Page : q # p => items'[q] = items[q] /\ todo'[q] = todo[q]
  BY <1>1, Types DEF CartInv
<1>3. Way(l)' = Way(l)
  <2>1. /\ calls'[p] = NoCall
        /\ calls'["left"] = (IF calls[p] # NoCall THEN calls[p] ELSE calls["left"])
        /\ calls[p] # NoCall => calls["left"] = NoCall
        /\ \A q \in Page : q # p => calls'[q] = calls[q]
    BY OpenCalls
  <2>2. Brings(NoCall, l) = 0
    BY DEF Brings
  <2>3. /\ Brings(calls[One], l) \in Nat /\ Brings(calls[Two], l) \in Nat
        /\ Brings(calls["left"], l) \in Nat
    BY PartsAreNat, Senders
  <2>4. CASE calls[p] = NoCall
    <3>1. calls'[One] = calls[One] /\ calls'[Two] = calls[Two] /\ calls'["left"] = calls["left"]
      BY <2>1, <2>4, Senders
    <3> QED
      BY <3>1 DEF Way
  <2>5. CASE calls[p] # NoCall
    <3>1. Brings(calls'[p], l) = 0 /\ Brings(calls["left"], l) = 0
          /\ Brings(calls'["left"], l) = Brings(calls[p], l)
      BY <2>1, <2>2, <2>5
    <3>2. CASE p = One
      <4>1. calls'[Two] = calls[Two]
        BY <2>1, <3>2, Senders
      <4> QED
        BY <2>3, <3>1, <3>2, <4>1 DEF Way
    <3>3. CASE p = Two
      <4>1. calls'[One] = calls[One]
        BY <2>1, <3>3, Senders
      <4> QED
        BY <2>3, <3>1, <3>3, <4>1 DEF Way
    <3> QED
      BY <3>2, <3>3 DEF Page
  <2> QED
    BY <2>4, <2>5
<1>4. mixed \subseteq mixed' /\ (l \in Dropped(p) => plain \/ l \in mixed')
  BY <1>1, Mixing DEF CartInv
<1>5. l \notin mixed' /\ l \in todo[p] => l \in taken /\ LocalIn(stored, l) = items[p][l].n
  <2>1. l \in Dropped(p) /\ plain => FALSE
    <3>1. CASE page[p] = "closed"
      BY <3>1, Stays DEF Dropped
    <3>2. CASE page[p] # "closed"
      BY <3>2, AloneIs DEF Dropped
    <3> QED
      BY <3>1, <3>2
  <2> QED
    BY <1>4, <2>1 DEF Dropped
<1> DEFINE x == LocalIn(stored, l)
<1>6. x \in Nat /\ (l \in OpenTodo => x = stored[l].n) /\ (known /\ l \notin OpenTodo => x = 0)
      /\ (~known => l \notin OpenTodo)
  <2>1. stored \in [Line -> Item]
    BY Types DEF CartInv
  <2>2. x \in Nat /\ (l \in LocalOnly(stored) <=> x > 0) /\ (l \in LocalOnly(stored) => x = stored[l].n)
    BY <2>1, LocalIs
  <2> QED
    BY <2>2 DEF OpenTodo
<1>7. Loc(p, l) = (IF l \in todo[p] THEN items[p][l].n ELSE 0) + (IF l \in taken THEN 0 ELSE x)
  BY DEF Loc, Up, Kept
<1>8. Loc(p, l)' = (IF l \in OpenTodo THEN stored[l].n ELSE 0)
                   + (IF l \in taken' THEN 0 ELSE x)
  BY <1>1, <1>2 DEF Loc, Up, Kept, LocalIn
<1>9. x = LocalIn(stored, l)
  OBVIOUS
<1> HIDE DEF x
<1>12. items[p][l].n \in Nat /\ stored[l].n \in Nat
  BY PartsAreNat, Types DEF CartInv, Item
<1>10. l \notin mixed' => /\ Loc(p, l)' >= Loc(p, l)
                          /\ l \notin doubled' => Loc(p, l)' = Loc(p, l)
  <2>1. CASE l \in OpenTodo
    <3>1. l \in taken' /\ Loc(p, l)' = x
      BY <1>1, <1>6, <1>8, <1>12, <2>1
    <3> QED
      BY <1>1, <1>5, <1>6, <1>7, <1>9, <1>12, <2>1, <3>1
  <2>2. CASE l \notin OpenTodo
    <3>1. Loc(p, l)' = IF l \in taken \ todo[p] THEN 0 ELSE x
      BY <1>1, <1>6, <1>8, <2>2
    <3> QED
      BY <1>5, <1>6, <1>7, <1>9, <1>12, <2>2, <3>1
  <2> QED
    BY <2>1, <2>2
<1>11. short \subseteq short' /\ doubled \subseteq doubled' /\ server'[l] = server[l] /\ owed'[l] = owed[l]
  BY <1>1
<1> QED
  BY <1>2, <1>3, <1>4, <1>10, <1>11, PageMoves

\* An initCart of what a page shows.
LEMMA InitCartFine ==
    ASSUME CartInv, CartInv', Alone, NEW p \in Page, page[p] \in {"new", "idle"},
           InitCart(p, items[p], taken), Mix(Differs(items[p])),
           UNCHANGED <<server, stored, items, calls, owed, short>>,
           NEW l \in Line, Fine(l)
    PROVE  Fine(l)'
<1>1. items[p] \in [Line -> Item] /\ todo[p] = {}
  BY Stays
<1>2. /\ todo' = [todo EXCEPT ![p] = LocalOnly(items[p])]
      /\ taken' = taken \cup LocalOnly(items[p])
      /\ doubled' = doubled \cup (taken \cap LocalOnly(items[p]))
  BY <1>1, InitCartIs, LineSets
<1>3. todo'[p] = LocalOnly(items[p]) /\ \A q \in Page : q # p => todo'[q] = todo[q]
  BY <1>2, Types DEF CartInv
<1>4. mixed \subseteq mixed' /\ (l \in Differs(items[p]) => plain \/ l \in mixed')
  BY Mixing DEF CartInv
<1>5. l \notin mixed' /\ l \in LocalOnly(items[p]) \ taken => LocalIn(stored, l) = items[p][l].n
  <2>1. l \in Differs(items[p]) /\ plain => FALSE
    <3>1. CASE plain /\ user[p]
      <4>1. NoLocal(items[p])
        BY <3>1, Stays, AloneIs
      <4> QED
        BY <1>1, <4>1, NoneToUpload DEF Differs
    <3>2. CASE plain /\ ~user[p]
      <4>1. stored = items[p]
        BY <3>2, AloneIs
      <4>2. l \in LocalOnly(items[p]) => LocalIn(items[p], l) = items[p][l].n
        BY <1>1, LocalIs
      <4> QED
        BY <4>1, <4>2 DEF Differs
    <3> QED
      BY <3>1, <3>2
  <2> QED
    BY <1>4, <2>1 DEF Differs
<1> DEFINE x == LocalIn(stored, l)
<1>6. x \in Nat /\ items[p][l].n \in Nat
  <2>1. stored \in [Line -> Item]
    BY Types DEF CartInv
  <2> QED
    BY <2>1, LocalIs, PartsAreNat
<1>7. Loc(p, l) = IF l \in taken THEN 0 ELSE x
  BY <1>1, <1>6 DEF Loc, Up, Kept
<1>8. Loc(p, l)' = (IF l \in LocalOnly(items[p]) THEN items[p][l].n ELSE 0)
                   + (IF l \in taken' THEN 0 ELSE x)
  BY <1>3 DEF Loc, Up, Kept, LocalIn
<1>9. x = LocalIn(stored, l)
  OBVIOUS
<1> HIDE DEF x
<1>10. l \notin mixed' => /\ Loc(p, l)' >= Loc(p, l)
                          /\ l \notin doubled' => Loc(p, l)' = Loc(p, l)
  <2>1. CASE l \in LocalOnly(items[p])
    <3>1. l \in taken' /\ Loc(p, l)' = items[p][l].n
      BY <1>2, <1>6, <1>8, <2>1
    <3> QED
      BY <1>2, <1>5, <1>6, <1>7, <1>9, <2>1, <3>1
  <2>2. CASE l \notin LocalOnly(items[p])
    <3>1. Loc(p, l)' = IF l \in taken THEN 0 ELSE x
      BY <1>2, <1>6, <1>8, <2>2
    <3> QED
      BY <1>6, <1>7, <3>1
  <2> QED
    BY <2>1, <2>2
<1>11. Way(l)' = Way(l)
  BY WayStays
<1>12. short \subseteq short' /\ doubled \subseteq doubled' /\ server'[l] = server[l] /\ owed'[l] = owed[l]
       /\ \A q \in Page : q # p => items'[q] = items[q] /\ todo'[q] = todo[q]
  BY <1>2, <1>3
<1> QED
  BY <1>4, <1>10, <1>11, <1>12, PageMoves

\* A page that saves its items I loses none: what is in localStorage again was
\* uploaded before.
LEMMA ClearAuthLoc ==
    ASSUME CartInv, CartInv', Alone, NEW p \in Page, page[p] # "closed", ClearAuth(p),
           UNCHANGED <<items, todo>>, NEW l \in Line
    PROVE  /\ doubled \subseteq doubled' /\ mixed \subseteq mixed'
           /\ l \notin mixed' => Loc(p, l)' >= Loc(p, l)
           /\ l \notin doubled' \cup mixed' => Loc(p, l)' = Loc(p, l)
<1>1. /\ stored' = items[p] /\ taken' = Claimed(p) /\ doubled' = doubled \cup Again(p)
      /\ Mix(Over(p))
  BY ClearAuthTypes
<1>2. items[p] \in [Line -> Item] /\ stored \in [Line -> Item] /\ page[p] \in Stages
  BY Stays
<1>3. mixed \subseteq mixed' /\ (l \in Over(p) => plain \/ l \in mixed')
  BY <1>1, Mixing DEF CartInv
<1> DEFINE x == LocalIn(stored, l)
           y == LocalIn(items[p], l)
<1>4. x \in Nat /\ y \in Nat /\ (l \notin LocalOnly(items[p]) => y = 0)
      /\ \A c \in Nat : ~(c > 0) => c = 0
  BY <1>2, LocalIs
<1>5. plain /\ l \notin taken => x = IF l \in Claimed(p) THEN 0 ELSE y
  <2>1. CASE plain /\ page[p] \in {"sync", "load"}
    <3>1. Clean /\ Claimed(p) = LocalOnly(items[p])
      BY <2>1, AloneIs DEF Claimed
    <3> QED
      BY <1>4, <3>1 DEF Clean, Kept
  <2>2. CASE plain /\ (page[p] \in {"op", "reload"} \/ (page[p] = "idle" /\ user[p]))
    <3>1. Clean /\ NoLocal(items[p])
      BY <2>2, AloneIs
    <3> QED
      BY <3>1 DEF Clean, Kept, NoLocal
  <2>3. CASE plain /\ (page[p] = "new" \/ (page[p] = "idle" /\ ~user[p]))
    <3>1. stored = items[p] /\ Claimed(p) = {}
      BY <2>3, AloneIs DEF Claimed
    <3> QED
      BY <3>1
  <2> QED
    BY <1>2, <2>1, <2>2, <2>3 DEF Stages
<1>6. l \notin mixed' /\ l \notin taken => x = IF l \in Claimed(p) THEN 0 ELSE y
  BY <1>3, <1>5 DEF Over
<1>7. Loc(p, l) = Up(p, l) + (IF l \in taken THEN 0 ELSE x)
  BY DEF Loc, Kept
<1>8. Loc(p, l)' = Up(p, l) + (IF l \in Claimed(p) THEN 0 ELSE y)
  BY <1>1 DEF Loc, Up, Kept, LocalIn
<1>9. l \in taken /\ l \notin Claimed(p) /\ l \notin doubled' => y = 0
  BY <1>1, <1>4 DEF Again
<1> HIDE DEF x, y
<1>10. Up(p, l) \in Nat
  BY PartsAreNat
<1> QED
  BY <1>1, <1>3, <1>4, <1>6, <1>7, <1>8, <1>9, <1>10

LEMMA SessionsFine ==
    ASSUME CartInv, CartInv', Alone, NEW p \in Page, SetAuth(p) \/ Boot(p) \/ Logout(p),
           NEW l \in Line, Fine(l)
    PROVE  Fine(l)'
<1>1. CASE SetAuth(p)
  <2>1. /\ page[p] \in {"new", "idle"} /\ InitCart(p, items[p], taken)
        /\ Mix(Differs(items[p])) /\ UNCHANGED <<server, stored, items, calls, owed, short>>
    BY <1>1 DEF SetAuth
  <2> QED
    BY <2>1, InitCartFine
<1>2. ASSUME page[p] # "closed", ClearAuth(p), UNCHANGED <<server, items, todo, calls, owed, short>>
      PROVE  Fine(l)'
  <2>1. Way(l)' = Way(l)
    BY <1>2, WayStays
  <2>2. /\ server'[l] = server[l] /\ owed'[l] = owed[l] /\ short \subseteq short'
        /\ \A q \in Page : q # p => items'[q] = items[q] /\ todo'[q] = todo[q]
    BY <1>2
  <2>3. /\ doubled \subseteq doubled' /\ mixed \subseteq mixed'
        /\ l \notin mixed' => Loc(p, l)' >= Loc(p, l)
        /\ l \notin doubled' \cup mixed' => Loc(p, l)' = Loc(p, l)
    BY <1>2, ClearAuthLoc
  <2> QED
    BY <2>1, <2>2, <2>3, PageMoves
<1>3. CASE Logout(p)
  <2>1. /\ page[p] # "closed" /\ ClearAuth(p)
        /\ UNCHANGED <<server, items, todo, calls, owed, short>>
    BY <1>3, Stays DEF Logout
  <2> QED
    BY <1>2, <2>1
<1>4. CASE Boot(p)
  <2>1. page[p] = "new" /\ UNCHANGED <<server, items, calls, owed, short>>
    BY <1>4 DEF Boot, shop
  <2>2. CASE InitCart(p, items[p], taken) /\ Mix(Differs(items[p])) /\ UNCHANGED <<known, stored>>
    BY <2>1, <2>2, InitCartFine
  <2>3. CASE ClearAuth(p) /\ UNCHANGED todo
    BY <1>2, <2>1, <2>3
  <2>4. CASE UNCHANGED <<stored, todo, doubled, mixed, taken>>
    <3>1. Total(l)' = Total(l)
      BY <2>1, <2>4 DEF Total, Way, Local, Up, Kept, LocalIn
    <3> QED
      BY <2>1, <2>4, <3>1 DEF Fine
  <2> QED
    BY <1>4, <2>2, <2>3, <2>4 DEF Boot
<1> QED
  BY <1>1, <1>3, <1>4

\* localStorage is emptied, or the page shows what the server has.
LEMMA ShowsFine ==
    ASSUME CartInv, CartInv', Alone, NEW p \in Page, SyncEnds(p) \/ Load(p) \/ ResetLocal(p),
           NEW l \in Line, Fine(l)
    PROVE  Fine(l)'
<1>1. /\ UNCHANGED <<server, todo, calls, owed, short, doubled>>
      /\ todo[p] = {} /\ page[p] # "closed"
      /\ page[p] \in {"sync", "load", "reload"} \/ (page[p] = "idle" /\ user[p])
      /\ \A q \in Page : q # p => items'[q] = items[q]
  <2>1. items \in [Page -> [Line -> Item]]
    BY Types DEF CartInv
  <2>2. \A q \in Page : q # p => items'[q] = items[q]
    BY <2>1 DEF SyncEnds, Load, ResetLocal
  <2> QED
    BY <2>2, Stays DEF SyncEnds, Load, ResetLocal, shop
<1>2. \/ UNCHANGED <<stored, taken, mixed>>
      \/ NoLocal(stored') /\ Mix(Wiped)
  <2>1. CASE Load(p)
    <3>1. PICK I \in {AsItems, NoItems} : items' = [items EXCEPT ![p] = I]
      BY <2>1 DEF Load
    <3>2. NoLocal(I) /\ items'[p] = I
      BY <3>1, ServerCopies, NothingLocal, Types DEF CartInv
    <3> QED
      BY <2>1, <3>2 DEF Load, Save
  <2>2. CASE SyncEnds(p) \/ ResetLocal(p)
    BY <2>2, NothingLocal DEF SyncEnds, ResetLocal, Save
  <2> QED
    BY <2>1, <2>2
<1>3. Up(p, l) = 0 /\ Up(p, l)' = 0
  BY <1>1 DEF Up
<1>4. CASE UNCHANGED <<stored, taken, mixed>>
  <2>1. Loc(p, l)' = Loc(p, l)
    BY <1>3, <1>4 DEF Loc, Kept, LocalIn
  <2>2. Loc(p, l) \in Nat /\ Way(l)' = Way(l)
    BY <1>1, PartsAreNat, WayStays
  <2> QED
    BY <1>1, <1>4, <2>1, <2>2, PageMoves
<1>5. CASE NoLocal(stored') /\ Mix(Wiped)
  <2>1. mixed \subseteq mixed' /\ (l \in Wiped => plain \/ l \in mixed')
    BY <1>5, Mixing DEF CartInv
  <2>2. plain => Kept(l) = 0
    BY <1>1, AloneIs DEF Clean
  <2>3. l \notin mixed' => Kept(l) = 0
    <3>1. Kept(l) \in Nat /\ (Kept(l) > 0 => l \in Wiped)
      BY PartsAreNat DEF Wiped
    <3> QED
      BY <2>1, <2>2, <3>1
  <2>4. Kept(l)' = 0
    BY <1>5 DEF NoLocal, Kept, LocalIn
  <2>5. l \notin mixed' => Loc(p, l)' = 0 /\ Loc(p, l) = 0
    BY <1>3, <2>3, <2>4 DEF Loc
  <2>6. Way(l)' = Way(l)
    BY <1>1, WayStays
  <2> QED
    BY <1>1, <2>1, <2>5, <2>6, PageMoves
<1> QED
  BY <1>2, <1>4, <1>5

-----------------------------------------------------------------------------
(* What the customer asks for.                                              *)

\* What a guest's page saves: the line it changes, and the others.
LEMMA GuestLoc ==
    ASSUME CartInv, CartInv', Alone, NEW p \in Page, NEW l \in Line, NEW i \in Item,
           GuestShows(p, l, i), owed' \in [Line -> Nat], short' \subseteq Line,
           doubled' \subseteq Line, doubled \cup Again(p) \subseteq doubled', NEW k \in Line
    PROVE  /\ mixed \subseteq mixed' /\ server'[k] = server[k] /\ Way(k)' = Way(k)
           /\ \A q \in Page : q # p => items'[q] = items[q] /\ todo'[q] = todo[q]
           /\ Loc(p, k)' = LocalIn(items'[p], k)
           /\ Loc(p, k) = IF k \in taken THEN 0 ELSE LocalIn(stored, k)
           /\ k \notin mixed' /\ k \notin taken => LocalIn(stored, k) = LocalIn(items[p], k)
           /\ k \notin doubled' /\ k \in taken => LocalIn(items[p], k) = 0
<1>1. /\ ~user[p] /\ page[p] \in {"new", "idle"} /\ Mix(Over(p))
      /\ UNCHANGED <<server, todo, calls>>
  BY DEF GuestShows, shop
<1>2. /\ items'[p] \in [Line -> Item] /\ stored' = items'[p] /\ taken' = {}
      /\ \A q \in Page : q # p => items'[q] = items[q]
  BY GuestIs
<1>3. todo[p] = {} /\ Claimed(p) = {} /\ items[p] \in [Line -> Item] /\ stored \in [Line -> Item]
  BY <1>1, Stays DEF Claimed
<1>4. mixed \subseteq mixed' /\ (k \in Over(p) => plain \/ k \in mixed')
  BY <1>1, Mixing DEF CartInv
<1>5. plain => stored = items[p]
  BY <1>1, AloneIs
<1>6. k \notin mixed' /\ k \notin taken => LocalIn(stored, k) = LocalIn(items[p], k)
  BY <1>3, <1>4, <1>5 DEF Over
<1>7. k \notin doubled' /\ k \in taken => LocalIn(items[p], k) = 0
  <2>1. LocalIn(items[p], k) \in Nat
    BY <1>3, LocalIs
  <2> QED
    BY <1>3, <2>1 DEF Again
<1>8. LocalIn(items'[p], k) \in Nat /\ LocalIn(stored, k) \in Nat
  BY <1>2, <1>3, LocalIs
<1>9. Loc(p, k)' = LocalIn(items'[p], k)
  <2>1. Up(p, k)' = 0
    BY <1>1, <1>3 DEF Up
  <2>2. Kept(k)' = LocalIn(items'[p], k)
    BY <1>2 DEF Kept, LocalIn
  <2> QED
    BY <1>8, <2>1, <2>2 DEF Loc
<1>10. Loc(p, k) = IF k \in taken THEN 0 ELSE LocalIn(stored, k)
  <2>1. Up(p, k) = 0
    BY <1>3 DEF Up
  <2> QED
    BY <1>8, <2>1 DEF Loc, Kept
<1>11. Way(k)' = Way(k)
  BY <1>1, WayStays
<1> QED
  BY <1>1, <1>2, <1>4, <1>6, <1>7, <1>9, <1>10, <1>11

LEMMA LocWithin ==
    ASSUME CartInv, NEW p \in Page, NEW l \in Line
    PROVE  Loc(p, l) <= Local(l)
<1>1. Up(One, l) \in Nat /\ Up(Two, l) \in Nat /\ Kept(l) \in Nat
  BY PartsAreNat, Senders
<1>2. CASE p = One
  BY <1>1, <1>2 DEF Loc, Local
<1>3. CASE p = Two
  BY <1>1, <1>3 DEF Loc, Local
<1> QED
  BY <1>2, <1>3 DEF Page

\* The lines that the guest leaves as they are.
LEMMA GuestOthers ==
    ASSUME CartInv, CartInv', Alone, NEW p \in Page, NEW l \in Line, NEW i \in Item,
           GuestShows(p, l, i), owed' \in [Line -> Nat], short' \subseteq Line,
           doubled' \subseteq Line, doubled \cup Again(p) \subseteq doubled',
           short \subseteq short',
           NEW k \in Line, k # l, owed'[k] = owed[k], Fine(k)
    PROVE  Fine(k)'
<1>1. /\ mixed \subseteq mixed' /\ server'[k] = server[k] /\ Way(k)' = Way(k)
      /\ \A q \in Page : q # p => items'[q] = items[q] /\ todo'[q] = todo[q]
      /\ Loc(p, k)' = LocalIn(items'[p], k)
      /\ Loc(p, k) = IF k \in taken THEN 0 ELSE LocalIn(stored, k)
      /\ k \notin mixed' /\ k \notin taken => LocalIn(stored, k) = LocalIn(items[p], k)
      /\ k \notin doubled' /\ k \in taken => LocalIn(items[p], k) = 0
  BY GuestLoc
<1>2. items'[p][k] = items[p][k]
  BY GuestIs
<1>3. LocalIn(items'[p], k) = LocalIn(items[p], k)
  BY <1>2 DEF LocalIn
<1>4. Loc(p, k)' \in Nat
  BY PartsAreNatNext
<1>5. l \in Line /\ doubled \subseteq doubled'
  OBVIOUS
<1>6. k \notin mixed' => Loc(p, k)' >= Loc(p, k)
  BY <1>1, <1>3, <1>4
<1>7. k \notin doubled' \cup mixed' => Loc(p, k)' = Loc(p, k)
  BY <1>1, <1>3
<1> QED
  BY <1>1, <1>5, <1>6, <1>7, PageMoves

LEMMA GuestAddFine ==
    ASSUME CartInv, CartInv', Alone, NEW p \in Page, NEW l \in Line, GuestAdd(p, l),
           NEW k \in Line, Fine(k)
    PROVE  Fine(k)'
<1>1. PICK i \in Item :
         /\ i.n = items[p][l].n + 1 /\ i.copy = items[p][l].copy
         /\ GuestShows(p, l, i)
         /\ owed' = [owed EXCEPT ![l] = owed[l] + 1] /\ owed' \in [Line -> Nat]
         /\ short' = (IF items[p][l].copy THEN short \cup {l} ELSE short)
         /\ short' \subseteq Line
         /\ doubled' = doubled \cup Again(p) /\ doubled' \subseteq Line
  BY GuestAddIs
<1>2. /\ owed \in [Line -> Nat] /\ short \subseteq short' /\ doubled \subseteq doubled'
      /\ doubled \cup Again(p) \subseteq doubled'
      /\ items[p] \in [Line -> Item]
  BY <1>1, LineSets, Stays
<1>3. CASE k # l
  <2>1. owed'[k] = owed[k]
    BY <1>1, <1>2, <1>3
  <2> QED
    BY <1>1, <1>2, <1>3, <2>1, GuestOthers
<1>4. CASE k = l
  <2>1. /\ mixed \subseteq mixed' /\ server'[l] = server[l] /\ Way(l)' = Way(l)
        /\ \A q \in Page : q # p => items'[q] = items[q] /\ todo'[q] = todo[q]
        /\ Loc(p, l)' = LocalIn(items'[p], l)
        /\ Loc(p, l) = IF l \in taken THEN 0 ELSE LocalIn(stored, l)
        /\ l \notin mixed' /\ l \notin taken => LocalIn(stored, l) = LocalIn(items[p], l)
        /\ l \notin doubled' /\ l \in taken => LocalIn(items[p], l) = 0
    BY <1>1, <1>2, GuestLoc
  <2>2. Local(l)' + Loc(p, l) = Local(l) + Loc(p, l)'
    BY <2>1, LocalMoves
  <2>3. /\ server[l] \in Nat /\ owed[l] \in Nat /\ Way(l) \in Nat /\ Local(l) \in Nat
        /\ Local(l)' \in Nat /\ Loc(p, l) \in Nat /\ Loc(p, l)' \in Nat
    BY PartsAreNat, PartsAreNatNext
  <2>4. items'[p][l] = i /\ items[p][l].n \in Nat /\ items[p][l].copy \in BOOLEAN
    BY <1>1, <1>2, GuestIs DEF Item
  <2>5. owed'[l] = owed[l] + 1
    BY <1>1, <1>2
  <2>6. /\ Total(l) = server[l] + Way(l) + Local(l)
        /\ Total(l)' = server[l] + Way(l) + Local(l)'
    BY <2>1 DEF Total
  <2>7. CASE items[p][l].copy
    <3>1. l \in short' /\ Loc(p, l)' = 0
      BY <1>1, <2>1, <2>4, <2>7 DEF LocalIn
    <3>2. l \notin doubled' \cup mixed' => Total(l)' + owed[l] <= Total(l) + owed'[l]
      BY <2>2, <2>3, <2>5, <2>6, <3>1
    <3> QED
      BY <1>2, <1>4, <2>1, <3>1, <3>2, Together
  <2>8. CASE ~items[p][l].copy
    <3>1. Loc(p, l)' = items[p][l].n + 1 /\ LocalIn(items[p], l) = items[p][l].n
      BY <1>1, <2>1, <2>4, <2>8 DEF LocalIn
    <3>2. l \notin short' \cup mixed' => Total(l)' + owed[l] >= Total(l) + owed'[l]
      <4>1. l \notin mixed' => Loc(p, l)' >= Loc(p, l) + 1
        BY <2>1, <2>4, <3>1
      <4> QED
        BY <2>2, <2>3, <2>5, <2>6, <4>1
    <3>3. l \notin doubled' \cup mixed' => Total(l)' + owed[l] <= Total(l) + owed'[l]
      <4>1. l \notin doubled' \cup mixed' => Loc(p, l)' = Loc(p, l) + 1
        BY <2>1, <2>4, <3>1
      <4> QED
        BY <2>2, <2>3, <2>5, <2>6, <4>1
    <3> QED
      BY <1>2, <1>4, <2>1, <3>2, <3>3, Together
  <2> QED
    BY <2>4, <2>7, <2>8
<1> QED
  BY <1>3, <1>4

LEMMA GuestSetFine ==
    ASSUME CartInv, CartInv', Alone, NEW p \in Page, NEW l \in Line, NEW n \in 0..Asks[l],
           GuestSet(p, l, n), NEW k \in Line, Fine(k)
    PROVE  Fine(k)'
<1>1. PICK i \in Item :
         /\ i.n = n /\ n \in Nat /\ (n # 0 => i.copy = items[p][l].copy) /\ (n = 0 => ~i.copy)
         /\ items[p][l].n > 0
         /\ GuestShows(p, l, i)
         /\ owed' = [owed EXCEPT ![l] = Less(owed[l] + n, items[p][l].n)]
         /\ owed' \in [Line -> Nat]
         /\ short' = (IF items[p][l].copy /\ n > items[p][l].n THEN short \cup {l} ELSE short)
         /\ short' \subseteq Line
         /\ doubled' = (doubled \cup Again(p)
                        \cup IF items[p][l].copy /\ n < items[p][l].n THEN {l} ELSE {})
         /\ doubled' \subseteq Line
  BY GuestSetIs
<1>2. /\ owed \in [Line -> Nat] /\ short \subseteq short' /\ doubled \subseteq doubled'
      /\ doubled \cup Again(p) \subseteq doubled'
      /\ items[p] \in [Line -> Item]
  BY <1>1, LineSets, Stays
<1>3. CASE k # l
  <2>1. owed'[k] = owed[k]
    BY <1>1, <1>2, <1>3
  <2> QED
    BY <1>1, <1>2, <1>3, <2>1, GuestOthers
<1>4. CASE k = l
  <2>1. /\ mixed \subseteq mixed' /\ server'[l] = server[l] /\ Way(l)' = Way(l)
        /\ \A q \in Page : q # p => items'[q] = items[q] /\ todo'[q] = todo[q]
        /\ Loc(p, l)' = LocalIn(items'[p], l)
        /\ Loc(p, l) = IF l \in taken THEN 0 ELSE LocalIn(stored, l)
        /\ l \notin mixed' /\ l \notin taken => LocalIn(stored, l) = LocalIn(items[p], l)
        /\ l \notin doubled' /\ l \in taken => LocalIn(items[p], l) = 0
    BY <1>1, <1>2, GuestLoc
  <2>2. Local(l)' + Loc(p, l) = Local(l) + Loc(p, l)'
    BY <2>1, LocalMoves
  <2> DEFINE m == items[p][l].n
  <2>3. /\ server[l] \in Nat /\ owed[l] \in Nat /\ Way(l) \in Nat /\ Local(l) \in Nat
        /\ Local(l)' \in Nat /\ Loc(p, l) \in Nat /\ Loc(p, l)' \in Nat /\ m \in Nat /\ n \in Nat
    BY <1>1, PartsAreNat, PartsAreNatNext
  <2>4. items'[p][l] = i /\ items[p][l].copy \in BOOLEAN
    BY <1>1, <1>2, GuestIs DEF Item
  <2>9. owed'[l] = Less(owed[l] + n, m)
    BY <1>1, <1>2
  <2>5. owed'[l] = IF owed[l] + n > m THEN owed[l] + n - m ELSE 0
    <3> HIDE DEF m
    <3> QED
      BY <2>3, <2>9 DEF Less
  <2>6. /\ Total(l) = server[l] + Way(l) + Local(l)
        /\ Total(l)' = server[l] + Way(l) + Local(l)'
    BY <2>1 DEF Total
  <2>7. CASE items[p][l].copy
    <3>1. /\ Loc(p, l)' = 0 /\ LocalIn(items[p], l) = 0
      BY <1>1, <2>1, <2>4, <2>7 DEF LocalIn
    <3>2. /\ n > m => l \in short'
          /\ n < m => l \in doubled'
      BY <1>1, <2>7
    <3> HIDE DEF m
    <3>3. l \notin mixed' => Loc(p, l) = 0
      BY <2>1, <3>1
    <3>4. l \notin short' \cup mixed' => Total(l)' + owed[l] >= Total(l) + owed'[l]
      BY <2>2, <2>3, <2>5, <2>6, <3>1, <3>2, <3>3
    <3>5. l \notin doubled' \cup mixed' => Total(l)' + owed[l] <= Total(l) + owed'[l]
      BY <2>2, <2>3, <2>5, <2>6, <3>1, <3>2, <3>3
    <3> QED
      BY <1>2, <1>4, <2>1, <3>4, <3>5, Together
  <2>8. CASE ~items[p][l].copy
    <3>1. Loc(p, l)' = n /\ LocalIn(items[p], l) = m
      BY <1>1, <2>1, <2>4, <2>8 DEF LocalIn
    <3>2. m > 0
      BY <1>1
    <3>3. CASE l \in mixed'
      BY <1>4, <3>3, MixedFine
    <3>4. CASE l \notin mixed' /\ l \notin taken
      <4>1. Loc(p, l) = m
        BY <2>1, <3>1, <3>4
      <4> HIDE DEF m
      <4>2. m <= Total(l) /\ Total(l)' = Total(l) - m + n
        <5>1. m <= Local(l)
          BY <4>1, LocWithin
        <5> QED
          BY <2>2, <2>3, <2>6, <3>1, <4>1, <5>1
      <4> QED
        BY <1>2, <1>4, <2>1, <2>3, <2>9, <4>2, OnPurpose
    <3>5. CASE l \notin mixed' /\ l \in taken
      <4>1. l \in doubled' /\ Loc(p, l) = 0
        BY <2>1, <3>1, <3>2, <3>5
      <4> HIDE DEF m
      <4>2. Total(l)' = Total(l) + n /\ owed'[l] <= owed[l] + n
        BY <2>2, <2>3, <2>5, <2>6, <3>1, <4>1
      <4>3. Total(l)' + owed[l] >= Total(l) + owed'[l]
        <5>1. Total(l) \in Nat /\ owed'[l] \in Nat
          BY PartsAreNat, PartsAreNatNext
        <5> QED
          BY <2>3, <4>2, <5>1
      <4> QED
        BY <1>2, <1>4, <2>1, <4>1, <4>3, Together
    <3> QED
      BY <3>3, <3>4, <3>5
  <2> QED
    BY <2>4, <2>7, <2>8
<1> QED
  BY <1>3, <1>4

\* The requests of a signed-in page.
LEMMA AsksFine ==
    ASSUME CartInv, CartInv', Alone, NEW p \in Page, NEW l \in Line,
           Add(p, l) \/ RemoveLocal(p, l) \/ Upload(p, l) \/ \E n \in 0..MaxQty : Change(p, l, n),
           NEW k \in Line, Fine(k)
    PROVE  Fine(k)'
<1>1. /\ UNCHANGED <<server, stored, items, short, doubled, taken>>
      /\ page[p] \in {"idle", "sync"} /\ (page[p] = "idle" => user[p])
  BY DEF Add, RemoveLocal, Upload, Change, shop, ghosts
<1>2. /\ \A m \in Line : items[p][m].n \in Nat
      /\ owed \in [Line -> Nat] /\ todo \in [Page -> SUBSET Line]
      /\ items[p] \in [Line -> Item] /\ p \in Sender
  BY PartsAreNat, Stays, Types, Senders DEF CartInv
<1>3. Kept(k)' = Kept(k)
  BY <1>1 DEF Kept, LocalIn
<1>4. calls[p] = NoCall
  <2>1. CASE Upload(p, l)
    BY <2>1 DEF Upload, Waiting
  <2>2. CASE Add(p, l) \/ RemoveLocal(p, l) \/ \E n \in 0..MaxQty : Change(p, l, n)
    <3>1. page[p] = "idle"
      BY <2>2 DEF Add, RemoveLocal, Change
    <3> QED
      BY <3>1, Stays
  <2> QED
    BY <2>1, <2>2
<1>5. Brings(calls[p], k) = 0
  BY <1>4 DEF Brings
<1>6. /\ server[k] \in Nat /\ owed[k] \in Nat /\ Way(k) \in Nat /\ Local(k) \in Nat
      /\ Local(k)' \in Nat /\ Way(k)' \in Nat /\ Loc(p, k) \in Nat /\ Kept(k) \in Nat
      /\ owed[l] \in Nat
  BY PartsAreNat, PartsAreNatNext
<1>7. /\ Total(k) = server[k] + Way(k) + Local(k)
      /\ Total(k)' = server[k] + Way(k)' + Local(k)'
  BY <1>1 DEF Total
<1>8. ASSUME UNCHANGED todo PROVE Local(k)' = Local(k)
  BY <1>1, <1>3, <1>8 DEF Local, Up
<1>9. CASE Add(p, l)
  <2>1. Send(p, "add", l, 1) /\ owed' = [owed EXCEPT ![l] = owed[l] + 1] /\ UNCHANGED <<todo, mixed>>
    BY <1>9 DEF Add
  <2>2. /\ \A t \in Sender : t # p => calls'[t] = calls[t]
        /\ Brings(calls'[p], k) = IF k = l THEN 1 ELSE 0
    BY <2>1, Sends
  <2>3. Way(k)' = Way(k) + IF k = l THEN 1 ELSE 0
    <3>1. Way(k)' + Brings(calls[p], k) = Way(k) + Brings(calls'[p], k)
      BY <1>2, <2>2, WayMoves
    <3> QED
      BY <1>5, <1>6, <2>2, <3>1
  <2>4. owed'[k] = owed[k] + IF k = l THEN 1 ELSE 0
    BY <1>2, <1>6, <2>1
  <2>5. Total(k)' + owed[k] = Total(k) + owed'[k] /\ Total(k)' + owed[k] \in Nat
    BY <1>6, <1>7, <1>8, <2>1, <2>3, <2>4
  <2> QED
    BY <1>1, <2>1, <2>5, Together
<1>10. ASSUME NEW n \in 0..MaxQty, Change(p, l, n) PROVE Fine(k)'
  <2>1. Send(p, IF n = 0 THEN "remove" ELSE "set", l, n) /\ UNCHANGED <<todo, mixed, owed>>
    BY <1>10 DEF Change, ghosts
  <2>2. n \in Nat
    BY CartAssumption
  <2>3. /\ \A t \in Sender : t # p => calls'[t] = calls[t]
        /\ Brings(calls'[p], k) = 0
    BY <2>1, <2>2, Sends
  <2>4. Way(k)' = Way(k)
    <3>1. Way(k)' + Brings(calls[p], k) = Way(k) + Brings(calls'[p], k)
      BY <1>2, <2>3, WayMoves
    <3> QED
      BY <1>5, <1>6, <2>3, <3>1
  <2>5. Total(k)' = Total(k)
    BY <1>7, <1>8, <2>1, <2>4
  <2> QED
    BY <1>1, <2>1, <2>5 DEF Fine
<1>11. CASE RemoveLocal(p, l)
  <2>1. /\ l \in LocalOnly(items[p]) /\ user[p] /\ page[p] = "idle"
        /\ Mix({l}) /\ UNCHANGED <<todo, calls>>
        /\ owed' = [owed EXCEPT ![l] = Less(owed[l], items[p][l].n)]
    BY <1>11 DEF RemoveLocal
  <2>2. mixed \subseteq mixed' /\ (plain \/ l \in mixed')
    BY <2>1, Mixing DEF CartInv
  <2>3. plain => FALSE
    <3>1. plain => NoLocal(items[p])
      BY <2>1, AloneIs
    <3> QED
      BY <1>2, <2>1, <3>1, NoneToUpload
  <2>4. CASE k = l
    BY <2>2, <2>3, <2>4, MixedFine
  <2>5. CASE k # l
    <3>1. owed'[k] = owed[k]
      BY <1>2, <2>1, <2>5
    <3>2. Way(k)' = Way(k)
      BY <2>1, WayStays
    <3>3. Total(k)' = Total(k)
      BY <1>7, <1>8, <2>1, <3>2
    <3> QED
      BY <1>1, <2>2, <3>1, <3>3 DEF Fine
  <2> QED
    BY <2>4, <2>5
<1>12. CASE Upload(p, l)
  <2>1. /\ Send(p, "add", l, items[p][l].n) /\ todo' = [todo EXCEPT ![p] = todo[p] \ {l}]
        /\ l \in todo[p] /\ UNCHANGED <<owed, mixed>>
    BY <1>2, <1>12 DEF Upload, ghosts
  <2> DEFINE a == IF k = l THEN items[p][l].n ELSE 0
  <2>2. /\ \A t \in Sender : t # p => calls'[t] = calls[t]
        /\ Brings(calls'[p], k) = a
    BY <1>2, <2>1, Sends
  <2>3. Way(k)' + Brings(calls[p], k) = Way(k) + Brings(calls'[p], k)
    BY <1>2, <2>2, WayMoves
  <2>4. todo'[p] = todo[p] \ {l} /\ \A q \in Page : q # p => items'[q] = items[q] /\ todo'[q] = todo[q]
    BY <1>1, <1>2, <2>1
  <2>5. Local(k)' + Loc(p, k) = Local(k) + Loc(p, k)'
    BY <2>4, LocalMoves
  <2>6. a \in Nat /\ Loc(p, k) = Loc(p, k)' + a /\ Loc(p, k)' \in Nat
    <3>1. Loc(p, k)' \in Nat
      BY PartsAreNatNext
    <3>2. Up(p, k)' + a = Up(p, k) /\ a \in Nat
      BY <1>1, <1>2, <2>1, <2>4 DEF Up
    <3>3. Up(p, k)' \in Nat /\ Up(p, k) \in Nat
      BY PartsAreNat, PartsAreNatNext
    <3> HIDE DEF a
    <3> QED
      BY <1>3, <1>6, <3>1, <3>2, <3>3 DEF Loc
  <2> HIDE DEF a
  <2>7. Total(k)' = Total(k)
    <3>1. Way(k)' = Way(k) + a
      BY <1>5, <1>6, <2>2, <2>3, <2>6
    <3>2. Local(k) = Local(k)' + a
      BY <1>6, <2>5, <2>6
    <3> QED
      BY <1>6, <1>7, <2>6, <3>1, <3>2
  <2> QED
    BY <1>1, <2>1, <2>7 DEF Fine
<1> QED
  BY <1>9, <1>10, <1>11, <1>12

-----------------------------------------------------------------------------
(* The server.                                                              *)

LEMMA AddWriteFine ==
    ASSUME CartInv, CartInv', NEW s \in Sender, AddWrite(s), NEW l \in Line, Fine(l)
    PROVE  Fine(l)'
<1> DEFINE c == calls[s]
<1>1. c \in Call /\ calls \in [Sender -> Call \cup {NoCall}] /\ c # NoCall /\ c.kind = "add"
      /\ c.line \in Line /\ c.n \in Nat /\ c.found \in Nat
  BY Types DEF AddWrite, CartInv, Call
<1>2. /\ ~Conflict(c) /\ server' = [server EXCEPT ![c.line] = Summed(c)]
      /\ short' = (IF (c.found # server[c.line] /\ c.found > 0) \/ c.found + c.n > MaxQty
                   THEN short \cup {c.line} ELSE short)
      /\ doubled' = (IF c.found > server[c.line] THEN doubled \cup {c.line} ELSE doubled)
      /\ Ends(s, calls, TRUE)
      /\ UNCHANGED <<stored, items, todo, owed, mixed, taken>>
  BY DEF AddWrite
<1>3. /\ \A k \in Line : Brings(calls'[s], k) = 0
      /\ \A t \in Sender : t # s => \A k \in Line : Brings(calls'[t], k) = Brings(calls[t], k)
  <2>1. calls = [t \in Sender |-> calls[t]] /\ \A t \in Sender : SameCall(calls[t], calls[t])
    BY <1>1 DEF SameCall
  <2> QED
    BY <1>1, <1>2, <2>1, Ended
<1>4. Way(l)' + Brings(calls[s], l) = Way(l)
  <2>1. Way(l)' + Brings(calls[s], l) = Way(l) + Brings(calls'[s], l)
    BY <1>3, WayMoves
  <2> QED
    BY <1>3, <2>1, PartsAreNat
<1>5. Local(l)' = Local(l)
  BY <1>2 DEF Local, Up, Kept, LocalIn
<1>6. /\ server \in [Line -> Nat] /\ server[c.line] \in Nat /\ server'[l] \in Nat
      /\ server[l] \in Nat /\ owed[l] \in Nat /\ Way(l) \in Nat /\ Way(l)' \in Nat /\ Local(l) \in Nat
  BY <1>1, PartsAreNat, PartsAreNatNext, Types DEF CartInv
<1>7. /\ Total(l) = server[l] + Way(l) + Local(l)
      /\ Total(l)' = server'[l] + Way(l)' + Local(l)
  BY <1>5 DEF Total
<1>8. short \subseteq short' /\ doubled \subseteq doubled' /\ mixed' = mixed /\ owed' = owed
  BY <1>2
<1>9. CASE l # c.line
  <2>1. server'[l] = server[l] /\ Brings(calls[s], l) = 0
    BY <1>1, <1>2, <1>6, <1>9 DEF Brings
  <2>2. Total(l)' = Total(l)
    BY <1>4, <1>6, <1>7, <2>1
  <2> QED
    BY <1>8, <2>2 DEF Fine
<1>10. CASE l = c.line
  <2>1. server'[l] = Summed(c) /\ Brings(calls[s], l) = c.n
    BY <1>1, <1>2, <1>6, <1>10 DEF Brings
  <2>2. /\ Summed(c) \in Nat
        /\ Summed(c) <= server[l] + c.n \/ c.found > server[l]
        /\ (c.found = server[l] \/ c.found = 0) /\ c.found + c.n <= MaxQty =>
             Summed(c) = server[l] + c.n
    BY <1>1, <1>2, <1>10, SumFits
  <2>3. l \notin short' => Summed(c) = server[l] + c.n
    <3>1. MaxQty \in Nat
      BY CartAssumption
    <3> QED
      BY <1>1, <1>2, <1>6, <1>10, <2>2, <3>1
  <2>4. l \notin doubled' => Summed(c) <= server[l] + c.n
    BY <1>1, <1>2, <1>6, <1>10, <2>2
  <2>5. l \notin short' \cup mixed' => Total(l)' + owed[l] >= Total(l) + owed'[l]
    BY <1>1, <1>4, <1>6, <1>7, <1>8, <2>1, <2>3
  <2>6. l \notin doubled' \cup mixed' => Total(l)' + owed[l] <= Total(l) + owed'[l]
    <3> HIDE DEF c
    <3> QED
      BY <1>1, <1>4, <1>6, <1>7, <1>8, <2>1, <2>4
  <2> QED
    BY <1>8, <2>5, <2>6, Together
<1> QED
  BY <1>9, <1>10

LEMMA ChangeWriteFine ==
    ASSUME CartInv, CartInv', NEW s \in Sender, ChangeWrite(s), NEW l \in Line, Fine(l)
    PROVE  Fine(l)'
<1> DEFINE c == calls[s]
           cs == IF c.kind = "remove" THEN Forget(c.line) ELSE calls
           k == Capped(c.n)
<1>1. c \in Call /\ calls \in [Sender -> Call \cup {NoCall}] /\ c # NoCall
      /\ c.kind \in {"set", "remove"} /\ c.line \in Line /\ c.n \in Nat
  BY Types DEF ChangeWrite, CartInv, Call
<1>2. /\ server' = [server EXCEPT ![c.line] = k]
      /\ owed' = [owed EXCEPT ![c.line] = Less(owed[c.line] + k, server[c.line])]
      /\ Ends(s, cs, TRUE)
      /\ UNCHANGED <<stored, items, todo, short, doubled, mixed, taken>>
  BY DEF ChangeWrite
<1>3. cs = [t \in Sender |-> cs[t]] /\ \A t \in Sender : SameCall(calls[t], cs[t])
  <2>1. calls = [t \in Sender |-> calls[t]] /\ \A t \in Sender : SameCall(calls[t], calls[t])
    BY <1>1 DEF SameCall
  <2> QED
    BY <1>1, <2>1, Forgotten
<1> HIDE DEF cs
<1>4. /\ \A m \in Line : Brings(calls'[s], m) = 0
      /\ \A t \in Sender : t # s => \A m \in Line : Brings(calls'[t], m) = Brings(calls[t], m)
  BY <1>1, <1>2, <1>3, Ended
<1>5. Brings(calls[s], l) = 0
  BY <1>1 DEF Brings
<1>6. Way(l)' = Way(l)
  <2>1. Way(l)' + Brings(calls[s], l) = Way(l) + Brings(calls'[s], l)
    BY <1>4, WayMoves
  <2> QED
    BY <1>4, <1>5, <2>1, PartsAreNat, PartsAreNatNext
<1>7. Local(l)' = Local(l)
  BY <1>2 DEF Local, Up, Kept, LocalIn
<1>8. /\ server \in [Line -> Nat] /\ owed \in [Line -> Nat] /\ k \in Nat
      /\ server[l] \in Nat /\ Way(l) \in Nat /\ Local(l) \in Nat
  BY <1>1, PartsAreNat, Types, CartAssumption DEF CartInv, Capped
<1> HIDE DEF k
<1>9. /\ Total(l) = server[l] + Way(l) + Local(l)
      /\ Total(l)' = server'[l] + Way(l) + Local(l)
  BY <1>6, <1>7 DEF Total
<1>10. CASE l # c.line
  <2>1. server'[l] = server[l] /\ owed'[l] = owed[l]
    BY <1>1, <1>2, <1>8, <1>10
  <2> QED
    BY <1>2, <1>9, <2>1 DEF Fine
<1>11. CASE l = c.line
  <2>1. server'[l] = k /\ owed'[l] = Less(owed[l] + k, server[l])
    BY <1>1, <1>2, <1>8, <1>11
  <2>2. server[l] <= Total(l) /\ Total(l)' = Total(l) - server[l] + k
    BY <1>8, <1>9, <2>1
  <2>3. short \subseteq short' /\ doubled \subseteq doubled' /\ mixed \subseteq mixed'
    BY <1>2
  <2> QED
    BY <1>8, <2>1, <2>2, <2>3, OnPurpose
<1> QED
  BY <1>10, <1>11

LEMMA FailsFine ==
    ASSUME CartInv, CartInv', Alone, NEW s \in Sender, Fails(s), NEW l \in Line, Fine(l)
    PROVE  Fine(l)'
<1>1. calls[s] \in Call /\ calls \in [Sender -> Call \cup {NoCall}] /\ calls[s] # NoCall
  BY Types DEF Fails, CartInv
<1>2. /\ Ends(s, calls, FALSE)
      /\ short' = (IF calls[s].kind = "add" THEN short \cup {calls[s].line} ELSE short)
      /\ (s \in Page /\ ClearAuth(s)) \/ UNCHANGED <<known, stored, user, doubled, mixed, taken>>
      /\ UNCHANGED <<server, items, todo, owed>>
  BY DEF Fails, shop
<1>3. /\ \A m \in Line : Brings(calls'[s], m) = 0
      /\ \A t \in Sender : t # s => \A m \in Line : Brings(calls'[t], m) = Brings(calls[t], m)
  <2>1. calls = [t \in Sender |-> calls[t]] /\ \A t \in Sender : SameCall(calls[t], calls[t])
    BY <1>1 DEF SameCall
  <2> QED
    BY <1>1, <1>2, <2>1, Ended
<1>4. Way(l)' + Brings(calls[s], l) = Way(l)
  <2>1. Way(l)' + Brings(calls[s], l) = Way(l) + Brings(calls'[s], l)
    BY <1>3, WayMoves
  <2> QED
    BY <1>3, <2>1, PartsAreNat
<1>5. l \notin short' => Brings(calls[s], l) = 0
  BY <1>1, <1>2 DEF Brings
<1>6. /\ doubled \subseteq doubled' /\ mixed \subseteq mixed'
      /\ l \notin mixed' => Local(l)' >= Local(l)
      /\ l \notin doubled' \cup mixed' => Local(l)' = Local(l)
  <2>1. Local(l) \in Nat /\ Local(l)' \in Nat
    BY PartsAreNat, PartsAreNatNext
  <2>2. CASE UNCHANGED <<known, stored, user, doubled, mixed, taken>>
    <3>1. Local(l)' = Local(l)
      BY <1>2, <2>2 DEF Local, Up, Kept, LocalIn
    <3> QED
      BY <2>1, <2>2, <3>1
  <2>3. CASE s \in Page /\ ClearAuth(s)
    <3>1. page[s] # "closed"
      BY <1>1, <2>3, Stays
    <3>2. /\ doubled \subseteq doubled' /\ mixed \subseteq mixed'
          /\ l \notin mixed' => Loc(s, l)' >= Loc(s, l)
          /\ l \notin doubled' \cup mixed' => Loc(s, l)' = Loc(s, l)
      BY <1>2, <2>3, <3>1, ClearAuthLoc
    <3>3. Local(l)' + Loc(s, l) = Local(l) + Loc(s, l)'
      BY <1>2, <2>3, LocalMoves
    <3>4. Loc(s, l) \in Nat /\ Loc(s, l)' \in Nat
      BY <2>3, PartsAreNat, PartsAreNatNext
    <3> QED
      BY <2>1, <3>2, <3>3, <3>4
  <2> QED
    BY <1>2, <2>2, <2>3
<1>7. /\ server[l] \in Nat /\ owed[l] \in Nat /\ Way(l) \in Nat /\ Way(l)' \in Nat
      /\ Local(l) \in Nat /\ Local(l)' \in Nat /\ Brings(calls[s], l) \in Nat
  BY PartsAreNat, PartsAreNatNext
<1>8. /\ Total(l) = server[l] + Way(l) + Local(l)
      /\ Total(l)' = server[l] + Way(l)' + Local(l)'
      /\ owed'[l] = owed[l] /\ short \subseteq short'
  BY <1>2 DEF Total
<1>9. l \notin short' \cup mixed' => Total(l)' + owed[l] >= Total(l) + owed'[l]
  BY <1>4, <1>5, <1>6, <1>7, <1>8
<1>10. l \notin doubled' \cup mixed' => Total(l)' + owed[l] <= Total(l) + owed'[l]
  BY <1>4, <1>6, <1>7, <1>8
<1> QED
  BY <1>6, <1>8, <1>9, <1>10, Together

\* Requests that stay on their way.
LEMMA SharedFine ==
    ASSUME CartInv, CartInv', NEW l \in Line, Fine(l),
           \/ SessionEnds \/ PayApproved
           \/ \E p \in Page : PlaceOrder(p) \/ LostAnswer(p)
           \/ \E s \in Sender : Read(s)
    PROVE  Fine(l)'
<1>1. UNCHANGED <<stored, items, todo, taken, mixed>>
  BY DEF SessionEnds, PayApproved, PlaceOrder, LostAnswer, Read, browser, ghosts
<1>2. Local(l)' = Local(l)
  BY <1>1 DEF Local, Up, Kept, LocalIn
<1>3. Way(l)' = Way(l)
  <2>1. CASE UNCHANGED calls
    BY <2>1, WayStays
  <2>2. CASE PayApproved \/ (\E p \in Page : LostAnswer(p)) \/ \E s \in Sender : Read(s)
    <3>1. \A t \in Sender : SameCall(calls[t], calls'[t])
      BY <2>2, AllForgotten, SentAgain, Goes
    <3>2. \A t \in Sender : Brings(calls'[t], l) = Brings(calls[t], l)
      BY <3>1, SameBrings
    <3> QED
      BY <3>2, WayStays
  <2> QED
    BY <2>1, <2>2 DEF SessionEnds, PlaceOrder
<1>4. /\ Total(l) = server[l] + Way(l) + Local(l)
      /\ Total(l)' = server'[l] + Way(l) + Local(l)
  BY <1>2, <1>3 DEF Total
<1>5. /\ server[l] \in Nat /\ owed[l] \in Nat /\ order[l] \in Nat
      /\ Way(l) \in Nat /\ Local(l) \in Nat /\ Total(l) \in Nat
      /\ server \in [Line -> Nat] /\ owed \in [Line -> Nat]
  BY PartsAreNat, Types DEF CartInv
<1>6. ASSUME UNCHANGED <<server, owed, short, doubled>> PROVE Fine(l)'
  BY <1>1, <1>4, <1>6 DEF Fine
<1>7. ASSUME NEW p \in Page, LostAnswer(p) PROVE Fine(l)'
  <2>1. /\ server' = [server EXCEPT ![calls[p].line] = Summed(calls[p])]
        /\ short' = short \cup {calls[p].line} /\ doubled' = doubled \cup {calls[p].line}
        /\ owed' = owed
    BY <1>7 DEF LostAnswer
  <2>2. CASE l = calls[p].line
    BY <2>1, <2>2 DEF Fine
  <2>3. CASE l # calls[p].line
    <3>1. server'[l] = server[l]
      BY <1>5, <2>1, <2>3
    <3> QED
      BY <1>1, <1>4, <2>1, <3>1 DEF Fine
  <2> QED
    BY <2>2, <2>3
<1>8. CASE PayApproved
  <2> DEFINE a == IF server[l] > order[l] THEN order[l] ELSE server[l]
  <2>1. /\ server'[l] = 0 /\ owed'[l] = Less(owed[l], a) /\ a \in Nat /\ a <= server[l]
        /\ short \subseteq short' /\ doubled' = doubled /\ mixed' = mixed
        /\ l \notin short' => a = server[l]
    BY <1>1, <1>5, <1>8 DEF PayApproved
  <2> HIDE DEF a
  <2>2. owed'[l] = IF owed[l] > a THEN owed[l] - a ELSE 0
    BY <2>1 DEF Less
  <2>3. l \notin short' \cup mixed' => (Total(l) >= owed[l] => Total(l)' >= owed'[l])
    BY <1>4, <1>5, <2>1, <2>2
  <2>4. Total(l) <= owed[l] => Total(l)' <= owed'[l]
    BY <1>4, <1>5, <2>1, <2>2
  <2> QED
    BY <2>1, <2>3, <2>4 DEF Fine
<1> QED
  BY <1>6, <1>7, <1>8 DEF SessionEnds, PlaceOrder, Read, shop, ghosts

LEMMA BalanceSteps == CartInv /\ CartInv' /\ Alone /\ Balanced /\ [Next]_vars => Balanced'
<1> SUFFICES ASSUME CartInv, CartInv', Alone, Balanced, [Next]_vars, NEW l \in Line
             PROVE  Fine(l)'
  BY DEF Balanced
<1>1. Fine(l)
  BY DEF Balanced
<1>2. CASE UNCHANGED vars
  <2>1. /\ UNCHANGED <<server, calls, stored, items, todo>>
        /\ UNCHANGED <<owed, short, doubled, mixed, taken>>
    BY <1>2 DEF vars, shop, browser, ghosts
  <2>2. Local(l)' = Local(l)
    BY <2>1 DEF Local, Up, Kept, LocalIn
  <2>3. Way(l)' = Way(l)
    BY <2>1, WayStays
  <2>4. Total(l)' = Total(l)
    BY <2>1, <2>2, <2>3 DEF Total
  <2> QED
    BY <1>1, <2>1, <2>4 DEF Fine
<1>3. CASE Next
  BY <1>1, <1>3, OpenFine, SessionsFine, ShowsFine, GuestAddFine, GuestSetFine, AsksFine,
     AddWriteFine, ChangeWriteFine, FailsFine, SharedFine DEF Next
<1> QED
  BY <1>2, <1>3

LEMMA BalanceStarts == Init => Balanced
<1> SUFFICES ASSUME Init, NEW l \in Line PROVE Fine(l)
  BY DEF Balanced
<1>1. server[l] = 0 /\ owed[l] = 0 /\ todo[One] = {} /\ todo[Two] = {}
      /\ calls[One] = NoCall /\ calls[Two] = NoCall /\ calls["left"] = NoCall
      /\ stored = NoItems /\ taken = {}
  BY Senders DEF Init
<1>2. Way(l) = 0
  BY <1>1 DEF Way, Brings
<1>3. Kept(l) = 0
  BY <1>1, NothingLocal DEF Kept, NoLocal
<1>4. Local(l) = 0
  BY <1>1, <1>3 DEF Local, Up
<1> QED
  BY <1>1, <1>2, <1>4 DEF Total, Fine

-----------------------------------------------------------------------------
(* Theorems.                                                                *)

\* Every row, item, page and request of the cart is what the code can hold, and
\* no row of a line with size and color is above MAX_QTY, whatever requests
\* overlap (cart.service.js, cart.store.js).
THEOREM CartTypeCorrect == Spec => []TypeOK
<1>1. Spec => []CartInv
  BY CartStarts, CartSteps, PTL DEF Spec
<1>2. CartInv => TypeOK
  BY DEF CartInv
<1> QED
  BY <1>1, <1>2, PTL

LEMMA Accounts == Spec => [](CartInv /\ Alone /\ Balanced)
<1>1. Init => CartInv /\ Alone /\ Balanced
  BY CartStarts, AloneStarts, BalanceStarts
<1>2. CartInv /\ Alone /\ Balanced /\ [Next]_vars => (CartInv /\ Alone /\ Balanced)'
  BY CartSteps, AloneSteps, BalanceSteps
<1> QED
  BY <1>1, <1>2, PTL DEF Spec

\* Units that the customer asked for are on the server, on their way there or
\* still in localStorage, in two pages as in one: they vanish only by a failed
\* request, the cap, requests that overlap, a lost answer, a guest's additions
\* to what she was shown while signed in, a payment that empties the cart of
\* what was added after its order, and, with a second page or a sign-in by
\* bootstrapAuth alone, lines that two copies disagree on.
THEOREM CartLosesNothing == Spec => []NothingLost
<1>1. CartInv /\ Alone /\ Balanced => NothingLost
  BY BalancedMeans
<1> QED
  BY <1>1, Accounts, PTL

\* Nor are there more than she asked for, but where the page is left, or signed
\* out, after an item was sent and before localStorage was emptied or the
\* server's cart shown, by requests that overlap, a lost answer, what a guest
\* takes from what she was shown while signed in, and lines that two copies
\* disagree on.
THEOREM CartDoublesNothing == Spec => []NothingDoubled
<1>1. CartInv /\ Alone /\ Balanced => NothingDoubled
  BY BalancedMeans
<1> QED
  BY <1>1, Accounts, PTL

=============================================================================
