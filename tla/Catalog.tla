------------------------------ MODULE Catalog ------------------------------
(***************************************************************************)
(* A product and the admin who edits it (admin-products.service.js,        *)
(* ProductFormModal.jsx, ProductList.jsx), while customers order it.       *)
(*                                                                         *)
(* The form sends the whole matrix of variants, with the stock of each as  *)
(* it was when the form was opened or as typed since.  The request uploads *)
(* photos, then a transaction counts the orders of each variant and the    *)
(* photos, and then writes; orders are placed and paid for meanwhile.  The *)
(* admin has one form open and one request about a photo under way at a    *)
(* time, and an error of a transaction means that it did not commit.       *)
(***************************************************************************)
EXTENDS Gallery

CONSTANTS
    Size, Color,
    Order,      \* each of one unit
    MaxStock,   \* bound: what the admin sets
    MaxImages   \* maxImages of ImageUploader

ASSUME CatalogAssumption == MaxStock \in Nat /\ MaxImages \in Nat

VARIABLES
    product,   \* none, active or archived
    simple,    \* product.stock
    variant,   \* the stock of each row of product_variants
    item,      \* the order item of each order
    form,      \* what the open form was given, or NoForm
    save,      \* createProduct or updateProduct under way, or NoSave
    removal    \* a final deleteProduct under way: none, or its step and photos

goods == <<product, simple, variant>>
vars  == <<gallery, goods, item, form, save, removal>>

NoForm    == [open |-> FALSE, new |-> FALSE]
NoSave    == [step |-> "none", new |-> FALSE, hand |-> <<>>, own |-> {},
              none |-> FALSE, sold |-> {}]
NoRemoval == [step |-> "none", images |-> {}]

\* A variant has a size, a color or both; a product without variants neither.
Key   == [size : Size \cup {"none"}, color : Color \cup {"none"}]
Plain == [size |-> "none", color |-> "none"]

Empty  == [k \in {} |-> 0]
NoItem == [step |-> "none", key |-> Plain, linked |-> FALSE]

TypeOK ==
    /\ GalleryTypeOK
    /\ product \in {"none", "active", "archived"}
    /\ simple \in Nat
    /\ DOMAIN variant \subseteq Key \ {Plain}
    /\ \A k \in DOMAIN variant : variant[k] \in Nat
    /\ item \in [Order -> [step : {"none", "quoted", "placed", "paid", "returned"},
                           key : Key, linked : BOOLEAN]]

Init ==
    /\ GalleryInit
    /\ product = "none" /\ simple = 0 /\ variant = Empty
    /\ item = [o \in Order |-> NoItem]
    /\ form = NoForm /\ save = NoSave /\ removal = NoRemoval

\* The images a request under way remembers, and those among them that only it
\* does: what a save uploaded, and what a deletion will destroy.
InHand == Range(save.hand) \cup removal.images
Held   == save.own \cup removal.images

\* Rows of order_items: they keep their product from being deleted.
Ordered == {o \in Order : item[o].step \in {"placed", "paid", "returned"}}

\* The variants some order is linked to: _count.orderItems.
SoldKeys == {k \in DOMAIN variant : \E o \in Ordered : item[o].linked /\ item[o].key = k}

-----------------------------------------------------------------------------
(* Customers.                                                               *)

\* buildQuote: a product with variants asks for one of them; without, it does
\* not mind a size and a color, of a cart that knows others.
Quote(o, k) ==
    /\ item[o].step = "none" /\ product = "active"
    /\ IF variant = Empty THEN simple > 0
                          ELSE k \in DOMAIN variant /\ variant[k] > 0
    /\ item' = [item EXCEPT ![o] =
                  [step |-> "quoted", key |-> k, linked |-> variant # Empty]]
    /\ UNCHANGED <<gallery, goods, form, save, removal>>

\* createOrder: the row is refused if its product or its variant is gone.
Place(o) ==
    /\ item[o].step = "quoted"
    /\ item' = [item EXCEPT ![o].step =
         IF product # "none" /\ (item[o].linked => item[o].key \in DOMAIN variant)
         THEN "placed" ELSE "none"]
    /\ UNCHANGED <<gallery, goods, form, save, removal>>

\* resolveStockTarget: the variant the item is linked to, else the one with its
\* size and color, else the product.
AtVariant(o) == item[o].key \in DOMAIN variant

Available(o) == IF AtVariant(o) THEN variant[item[o].key] ELSE simple

MoveStock(o, n) ==
    IF AtVariant(o)
    THEN variant' = [variant EXCEPT ![item[o].key] = @ + n] /\ UNCHANGED simple
    ELSE simple' = simple + n /\ UNCHANGED variant

\* The transaction of a save holds the row of the product.
Unlocked(o) == AtVariant(o) \/ save.step # "counted"

\* Mutant: what the quote saw is not checked again.
SellUnchecked(o) ==
    /\ item[o].step = "placed" /\ Unlocked(o)
    /\ MoveStock(o, -1)
    /\ item' = [item EXCEPT ![o].step = "paid"]
    /\ UNCHANGED <<gallery, product, form, save, removal>>

Sell(o) ==
    /\ item[o].step = "placed" /\ Unlocked(o)
    /\ Available(o) > 0
    /\ MoveStock(o, -1)
    /\ item' = [item EXCEPT ![o].step = "paid"]
    /\ UNCHANGED <<gallery, product, form, save, removal>>

GiveBack(o) ==
    /\ item[o].step = "paid" /\ Unlocked(o)
    /\ MoveStock(o, 1)
    /\ item' = [item EXCEPT ![o].step = "returned"]
    /\ UNCHANGED <<gallery, product, form, save, removal>>

-----------------------------------------------------------------------------
(* The form.                                                                *)

\* A new product: another instance would be another product.
OpenNew ==
    /\ product = "none" /\ form = NoForm
    /\ erasing = Quiet /\ removal = NoRemoval
    /\ form' = [open |-> TRUE, new |-> TRUE]
    /\ UNCHANGED <<gallery, goods, item, save, removal>>

\* openEdit: the form starts from what getProductById read.
OpenEdit ==
    /\ product # "none" /\ form = NoForm
    /\ form' = [open |-> TRUE, new |-> FALSE]
    /\ UNCHANGED <<gallery, goods, item, save, removal>>

\* buildCombos: colors by sizes, or the ones there are.
Combos(sizes, colors) ==
    [size : IF sizes = {} THEN {"none"} ELSE sizes,
     color : IF colors = {} THEN {"none"} ELSE colors] \ {Plain}

\* buildVariants: a stock for each, the one the form was opened with or the one
\* typed since (update, applyBulk).
Matrices(sizes, colors) == [Combos(sizes, colors) -> 0..MaxStock]

\* submit.  What the form sends does not change until the answer, so the model
\* chooses each part of it where the request uses it.
Submit ==
    /\ form.open /\ save = NoSave
    /\ save' = [NoSave EXCEPT !.step = "sent", !.new = form.new]
    /\ UNCHANGED <<gallery, goods, item, form, removal>>

\* addFiles, addUrls: never more photos than maxImages.
Room(n) == Len(photos) + Len(save.hand) + n <= MaxImages

\* Escape, or the page is left: a request that was sent goes on.
CloseForm ==
    /\ form.open /\ save = NoSave
    /\ form' = NoForm
    /\ UNCHANGED <<gallery, goods, item, save, removal>>

-----------------------------------------------------------------------------
(* createProduct, updateProduct.                                            *)

\* The request is refused: an edited product that is gone.
SaveRefused ==
    /\ save.step = "sent" /\ ~save.new /\ product = "none"
    /\ save' = NoSave
    /\ UNCHANGED <<gallery, goods, item, form, removal>>

SaveFiles(files) ==
    /\ save.step = "sent" /\ (save.new \/ product # "none") /\ Room(files)
    /\ \E s \in Taken(files, InHand \cup again) :
         \/ /\ UploadFiles(s)
            /\ save' = [save EXCEPT !.step = "uploaded", !.hand = s, !.own = Range(s)]
         \/ /\ FilesFail(s)
            /\ save' = NoSave
    /\ UNCHANGED <<photos, again, erasing, blurred, goods, item, form, removal>>

\* Of what is pasted, the images that are pasted twice, that the product has or
\* is losing, or that the shop's account does not hold for anybody.
Repeated(pasted) ==
    {x \in Range(pasted) :
        \/ x \notin stored \ strays
        \/ x \in Shown \cup Erased \cup InHand
        \/ \E i, j \in DOMAIN pasted : i # j /\ pasted[i] = x /\ pasted[j] = x}

\* URLs of other sites, and of images at Cloudinary, which are taken for what
\* they are called there: two URLs may be of one image, of one the product shows,
\* or of one that is gone by now.
SaveImports(remote, pasted) ==
    /\ save.step = "uploaded" /\ Room(remote + Len(pasted))
    /\ Range(pasted) \subseteq Library \cup Foreign \cup Shown
    /\ \E s \in Taken(remote, InHand \cup again) :
         \/ /\ UploadFiles(s)
            /\ save' = [save EXCEPT !.step = "ready", !.hand = @ \o s \o pasted,
                                    !.own = @ \cup Range(s)]
            /\ again' = again \cup Repeated(pasted)
         \/ /\ ImportFails(s, save.hand)
            /\ save' = NoSave /\ UNCHANGED again
    /\ UNCHANGED <<photos, erasing, blurred, goods, item, form, removal>>

\* The transaction of updateProduct: syncVariants reads which variants have
\* orders, and the photos are counted, before anything of theirs is written.
SaveCounts ==
    /\ save.step = "ready" /\ ~save.new /\ product # "none"
    /\ save' = [save EXCEPT !.step = "counted", !.none = photos = <<>>, !.sold = SoldKeys]
    /\ UNCHANGED <<gallery, goods, item, form, removal>>

Counting == save.step = "counted" /\ ~save.none /\ save.hand # <<>>

\* Mutant: variants that do not come any more are deleted, orders or not.
SyncedStrictly(cells, sold) == cells

\* syncVariants: those that come are updated or created; the others are deleted,
\* or left with no stock if they have orders.
Synced(cells, sold) ==
    [k \in DOMAIN cells \cup sold |-> IF k \in DOMAIN cells THEN cells[k] ELSE 0]

\* The items linked to a variant that goes keep no link (onDelete: SetNull); what
\* was only quoted for it will be refused.
Unlinked(keys) ==
    [o \in Order |->
       IF ~item[o].linked \/ item[o].key \in keys THEN item[o]
       ELSE [item[o] EXCEPT !.linked = FALSE,
                            !.step = IF @ = "quoted" THEN "none" ELSE @]]

\* A simple product with its stock, or variants and no stock of the product:
\* what validate lets through.
SaveWrites(cells, stock, active) ==
    /\ (save.step = "counted") \/ (save.step = "ready" /\ save.new)
    /\ (cells = Empty) \/ (stock = 0)
    /\ product' = IF active THEN "active" ELSE "archived"
    /\ simple' = stock
    /\ variant' = IF save.new THEN cells ELSE Synced(cells, save.sold)
    /\ item' = Unlinked(DOMAIN variant')
    /\ photos' = Appended(save.hand, save.new \/ save.none)
    /\ save' = NoSave /\ form' = NoForm
    /\ UNCHANGED <<stored, strays, again, erasing, blurred, removal>>

\* A clash of slugs or SKUs, a product that is gone, a lost connection: the
\* images uploaded for it are destroyed.
SaveFails ==
    /\ save.step \in {"ready", "counted"}
    /\ \E kept \in SUBSET save.own : DestroyImages(save.own, kept)
    /\ save' = NoSave
    /\ UNCHANGED <<photos, again, erasing, blurred, goods, item, form, removal>>

-----------------------------------------------------------------------------
(* ProductList, ImageUploader.                                              *)

\* Archived or active again: only the product changes.
SetActive ==
    /\ product # "none" /\ save.step # "counted"
    /\ product' \in {"active", "archived"} \ {product}
    /\ UNCHANGED <<gallery, simple, variant, item, form, save, removal>>

\* destroy, for archived products nobody ever ordered.
RemovalRead ==
    /\ product = "archived" /\ form = NoForm /\ removal = NoRemoval
    /\ Ordered = {}
    /\ removal' = [step |-> "read", images |-> Shown]
    /\ UNCHANGED <<gallery, goods, item, form, save>>

\* Its rows go with it, those added since it was read as well.
RemovalWrites ==
    /\ removal.step = "read" /\ save.step # "counted"
    /\ product # "none" /\ Ordered = {}
    /\ product' = "none" /\ simple' = 0 /\ variant' = Empty
    /\ photos' = <<>> /\ blurred' = FALSE
    /\ strays' = strays \cup ((Upload \cap stored \cap Shown) \ removal.images)
    /\ item' = [o \in Order |-> NoItem]
    /\ removal' = [removal EXCEPT !.step = "gone"]
    /\ UNCHANGED <<stored, again, erasing, form, save>>

\* An order was placed in between: the foreign key refuses.
RemovalRefused ==
    /\ removal.step = "read" /\ (Ordered # {} \/ product = "none")
    /\ removal' = NoRemoval
    /\ UNCHANGED <<gallery, goods, item, form, save>>

RemovalEnds ==
    /\ removal.step = "gone"
    /\ \E kept \in SUBSET (removal.images \cap Upload) :
         DestroyImages(removal.images, kept)
    /\ removal' = NoRemoval
    /\ UNCHANGED <<photos, again, erasing, blurred, goods, item, form, save>>

\* The buttons of the photos, which the open form of a product shows.
Photos ==
    /\ form.open /\ ~form.new /\ erasing = Quiet
    /\ \E i \in DOMAIN photos : SetMainImage(i) \/ DeleteRow(i)
    /\ UNCHANGED <<goods, item, form, save, removal>>

Erasing ==
    /\ DestroyImage \/ PassMain(Counting)
    /\ UNCHANGED <<goods, item, form, save, removal>>

\* The server dies and starts again: nothing that was under way goes on.
Dies ==
    /\ erasing # Quiet \/ save # NoSave \/ removal # NoRemoval
    /\ GalleryDies(Held \ Shown)
    /\ save' = NoSave /\ removal' = NoRemoval
    /\ UNCHANGED <<goods, item, form>>

Next ==
    \/ \E o \in Order : (\E k \in Key : Quote(o, k)) \/ Place(o) \/ Sell(o) \/ GiveBack(o)
    \/ OpenNew \/ OpenEdit \/ CloseForm
    \/ Submit \/ SaveRefused \/ SaveCounts \/ SaveFails
    \/ \E n \in 0..MaxImages :
         \/ SaveFiles(n)
         \/ \E pasted \in SeqOf(Image, MaxImages) : SaveImports(n, pasted)
    \/ \E sizes \in SUBSET Size, colors \in SUBSET Color, active \in BOOLEAN :
         \E cells \in Matrices(sizes, colors), n \in 0..MaxStock :
           SaveWrites(cells, n, active)
    \/ SetActive \/ RemovalRead \/ RemovalWrites \/ RemovalRefused \/ RemovalEnds
    \/ Photos \/ Erasing \/ Dies

Spec == Init /\ [][Next]_vars

-----------------------------------------------------------------------------
(* Properties.                                                              *)

\* Nothing that is shown was destroyed, but for an image pasted by a URL that was
\* no new one (Repeated): two rows may show it, and it goes with the first of
\* them.  And the shop's account holds no uploaded image that is neither shown nor
\* in the hands of a request: what a failed save had uploaded is destroyed, unless
\* Cloudinary failed or the server died then (createProduct, updateProduct,
\* deleteProduct, deleteProductImage).
ImagesAccounted ==
    /\ Shown \ again \subseteq stored \ strays
    /\ (stored \cap Upload) \ strays \subseteq Shown \cup Erased \cup Held

\* A product never has two main photos, and one that has photos has a main one,
\* but for a deletion that is not over, died, or took the last photo that a save
\* had counted (hasImages of updateProduct, deleteProductImage, setMainImage).
OneMainPhoto ==
    /\ Cardinality(Mains) <= 1
    /\ (photos # <<>> /\ erasing = Quiet /\ ~blurred) => Mains # {}

\* An order keeps the variant it sold, whatever is saved over it: only one placed
\* while syncVariants was between its count and its deletions may lose it.
HistoryKept ==
    [][\A o \in Ordered : (item[o].linked /\ ~item'[o].linked) =>
         (save.step = "counted" /\ item[o].key \notin save.sold)]_vars

=============================================================================
