--------------------------- MODULE CatalogProofs ---------------------------
(***************************************************************************)
(* Proofs about Catalog and Gallery, for any sizes, colors, orders and     *)
(* images: what is shown is at Cloudinary and what is there is accounted   *)
(* for, a product with photos has one main photo, and a saved product      *)
(* keeps the variants of its orders.                                       *)
(*                                                                         *)
(* A save, the deletion of a photo and that of the product are each under  *)
(* way over several steps and remember what they read in the first; the    *)
(* invariants say what of it is still so when they write.                  *)
(***************************************************************************)
EXTENDS Catalog, FiniteSetTheorems, TLAPS

-----------------------------------------------------------------------------
(* The rows and the sequences of images.                                    *)

LEMMA RowGone ==
    ASSUME NEW S, NEW s \in Seq(S), NEW i \in DOMAIN s
    PROVE  /\ RemoveAt(s, i) \in Seq(S)
           /\ Len(RemoveAt(s, i)) = Len(s) - 1
           /\ \A j \in 1..(Len(s) - 1) :
                RemoveAt(s, i)[j] = s[IF j < i THEN j ELSE j + 1]
<1> DEFINE a == SubSeq(s, 1, i - 1)
           b == SubSeq(s, i + 1, Len(s))
<1>1. i \in 1..Len(s) /\ Len(s) \in Nat
  OBVIOUS
<1>2. a \in Seq(S) /\ Len(a) = i - 1 /\ \A j \in 1..(i - 1) : a[j] = s[j]
  BY <1>1
<1>3. b \in Seq(S) /\ Len(b) = Len(s) - i /\ \A j \in 1..(Len(s) - i) : b[j] = s[i + j]
  BY <1>1
<1>4. RemoveAt(s, i) = a \o b
  BY DEF RemoveAt
<1> HIDE DEF a, b
<1>5. a \o b \in Seq(S) /\ Len(a \o b) = Len(s) - 1
  BY <1>1, <1>2, <1>3
<1>6. ASSUME NEW j \in 1..(Len(s) - 1)
      PROVE  (a \o b)[j] = s[IF j < i THEN j ELSE j + 1]
  <2>1. CASE j < i
    BY <2>1, <1>1, <1>2, <1>3
  <2>2. CASE ~(j < i)
    <3>1. (a \o b)[j] = b[j - (i - 1)]
      BY <2>2, <1>1, <1>2, <1>3
    <3>2. j - (i - 1) \in 1..(Len(s) - i)
      BY <2>2, <1>1
    <3> QED
      BY <2>2, <3>1, <3>2, <1>1, <1>3
  <2> QED
    BY <2>1, <2>2
<1> QED
  BY <1>4, <1>5, <1>6

LEMMA RowsAdded ==
    ASSUME photos \in Seq(Photo), NEW hand \in Seq(Image), NEW none \in BOOLEAN
    PROVE  /\ Appended(hand, none) \in Seq(Photo)
           /\ Len(Appended(hand, none)) = Len(photos) + Len(hand)
           /\ \A j \in 1..Len(photos) : Appended(hand, none)[j] = photos[j]
           /\ \A j \in 1..Len(hand) :
                /\ Appended(hand, none)[Len(photos) + j].image = hand[j]
                /\ Appended(hand, none)[Len(photos) + j].main <=> none /\ j = 1
<1> DEFINE row(j) == [image |-> hand[j], main |-> none /\ j = 1]
           b == [j \in DOMAIN hand |-> row(j)]
<1>1. ASSUME NEW j \in DOMAIN hand
      PROVE  row(j) \in Photo /\ row(j).image = hand[j] /\ (row(j).main <=> none /\ j = 1)
  <2>1. (none /\ j = 1) \in BOOLEAN /\ hand[j] \in Image
    OBVIOUS
  <2> QED
    BY <2>1, Zenon DEF Photo
<1> HIDE DEF row
<1>2. b \in Seq(Photo) /\ Len(b) = Len(hand) /\ \A j \in 1..Len(hand) : b[j] = row(j)
  BY <1>1
<1>3. Appended(hand, none) = photos \o b
  BY DEF Appended, row
<1> HIDE DEF b
<1>4. /\ photos \o b \in Seq(Photo)
      /\ Len(photos \o b) = Len(photos) + Len(hand)
      /\ \A j \in 1..Len(photos) : (photos \o b)[j] = photos[j]
      /\ \A j \in 1..Len(hand) : (photos \o b)[Len(photos) + j] = b[j]
  BY <1>2
<1>5. ASSUME NEW j \in 1..Len(hand)
      PROVE  /\ (photos \o b)[Len(photos) + j].image = hand[j]
             /\ (photos \o b)[Len(photos) + j].main <=> none /\ j = 1
  <2>1. j \in DOMAIN hand /\ (photos \o b)[Len(photos) + j] = row(j)
    BY <1>2, <1>4
  <2> QED
    BY <1>1, <2>1, Zenon
<1> QED
  BY <1>3, <1>4, <1>5, Zenon

LEMMA MainMoved ==
    ASSUME photos \in Seq(Photo), NEW i \in DOMAIN photos, SetMainImage(i)
    PROVE  /\ photos' \in Seq(Photo) /\ Len(photos') = Len(photos)
           /\ \A j \in 1..Len(photos) :
                photos'[j].image = photos[j].image /\ (photos'[j].main <=> j = i)
<1> DEFINE row(j) == [photos[j] EXCEPT !.main = j = i]
<1>1. ASSUME NEW j \in DOMAIN photos
      PROVE  row(j) \in Photo /\ row(j).image = photos[j].image /\ (row(j).main <=> j = i)
  <2>1. PICK e \in BOOLEAN : e <=> (j = i)
    OBVIOUS
  <2>2. (j = i) = e
    BY <2>1
  <2>3. photos[j] \in Photo
    OBVIOUS
  <2>4. [photos[j] EXCEPT !.main = e] \in Photo
        /\ [photos[j] EXCEPT !.main = e].image = photos[j].image
        /\ [photos[j] EXCEPT !.main = e].main = e
    BY <2>3 DEF Photo
  <2> QED
    BY <2>1, <2>2, <2>4, Zenon
<1>2. photos' = [j \in DOMAIN photos |-> row(j)]
  BY DEF SetMainImage
<1> HIDE DEF row
<1> QED
  BY <1>1, <1>2

LEMMA MainPassed ==
    ASSUME photos \in Seq(Photo), NEW main \in BOOLEAN
    PROVE  /\ Passed(main) \in Seq(Photo) /\ Len(Passed(main)) = Len(photos)
           /\ \A j \in 1..Len(photos) :
                /\ Passed(main)[j].image = photos[j].image
                /\ Passed(main)[j].main <=> (main /\ j = 1) \/ photos[j].main
<1>1. CASE main /\ photos # <<>>
  <2>1. 1 \in DOMAIN photos /\ photos[1] \in Photo
    BY <1>1
  <2>2. [photos[1] EXCEPT !.main = TRUE] \in Photo
        /\ [photos[1] EXCEPT !.main = TRUE].image = photos[1].image
        /\ [photos[1] EXCEPT !.main = TRUE].main = TRUE
    BY <2>1 DEF Photo
  <2> DEFINE first == [photos[1] EXCEPT !.main = TRUE]
  <2>3. Passed(main) = [photos EXCEPT ![1] = first]
    BY <1>1 DEF Passed
  <2> HIDE DEF first
  <2>4. /\ Passed(main) \in Seq(Photo) /\ Len(Passed(main)) = Len(photos)
        /\ Passed(main)[1] = first
        /\ \A j \in 1..Len(photos) : j # 1 => Passed(main)[j] = photos[j]
    BY <2>1, <2>2, <2>3 DEF first
  <2>5. ASSUME NEW j \in 1..Len(photos)
        PROVE  /\ Passed(main)[j].image = photos[j].image
               /\ Passed(main)[j].main <=> (main /\ j = 1) \/ photos[j].main
    <3>1. CASE j = 1
      BY <1>1, <3>1, <2>2, <2>4, Zenon DEF first
    <3>2. CASE j # 1
      BY <3>2, <2>4, Zenon
    <3> QED
      BY <3>1, <3>2
  <2> QED
    BY <2>4, <2>5
<1>2. CASE ~(main /\ photos # <<>>)
  <2>1. Passed(main) = photos
    BY <1>2 DEF Passed
  <2>2. ASSUME NEW j \in 1..Len(photos)
        PROVE  ~main
    BY <1>2
  <2> QED
    BY <2>1, <2>2, Zenon
<1> QED
  BY <1>1, <1>2

-----------------------------------------------------------------------------
(* What the requests under way remember.                                    *)

Form    == [open : BOOLEAN, new : BOOLEAN]
Save    == [step : {"none", "sent", "uploaded", "ready", "counted"}, new : BOOLEAN,
            hand : Seq(Image), own : SUBSET Upload,
            none : BOOLEAN, sold : SUBSET (Key \ {Plain})]
Removal == [step : {"none", "read", "gone"}, images : SUBSET Image]

RequestsOK ==
    /\ form \in Form /\ save \in Save /\ removal \in Removal
    /\ save.step = "none" => save = NoSave
    /\ removal.step = "none" => removal = NoRemoval
    /\ save.step = "sent" => save.hand = <<>> /\ save.own = {}
    /\ save.step = "uploaded" => Range(save.hand) = save.own

Types == TypeOK /\ RequestsOK

LEMMA HandOf ==
    ASSUME NEW s \in Seq(Image)
    PROVE  Range(s) \subseteq Image /\ Range(s) = {s[i] : i \in 1..Len(s)}
  BY DEF Range

LEMMA Joined ==
    ASSUME NEW S, NEW s \in Seq(S), NEW t \in Seq(S)
    PROVE  Range(s \o t) = Range(s) \cup Range(t)
<1>1. s \o t \in Seq(S) /\ Len(s \o t) = Len(s) + Len(t)
  OBVIOUS
<1>2. ASSUME NEW i \in DOMAIN (s \o t)
      PROVE  (s \o t)[i] \in Range(s) \cup Range(t)
  <2>1. CASE i <= Len(s)
    BY <2>1 DEF Range
  <2>2. CASE ~(i <= Len(s))
    <3>1. i - Len(s) \in 1..Len(t) /\ (s \o t)[i] = t[i - Len(s)]
      BY <2>2
    <3> QED
      BY <3>1 DEF Range
  <2> QED
    BY <2>1, <2>2
<1>3. ASSUME NEW i \in DOMAIN s
      PROVE  s[i] \in Range(s \o t)
  <2>1. i \in DOMAIN (s \o t) /\ (s \o t)[i] = s[i]
    BY <1>1
  <2> QED
    BY <2>1 DEF Range
<1>4. ASSUME NEW i \in DOMAIN t
      PROVE  t[i] \in Range(s \o t)
  <2>1. Len(s) + i \in DOMAIN (s \o t) /\ (s \o t)[Len(s) + i] = t[i]
    BY <1>1
  <2> QED
    BY <2>1 DEF Range
<1> QED
  BY <1>2, <1>3, <1>4 DEF Range

\* Public ids of new uploads: nobody knows them yet.
LEMMA TakenAreNew ==
    ASSUME NEW n \in Nat, NEW known, NEW s \in Taken(n, known)
    PROVE  /\ s \in Seq(Upload) /\ s \in Seq(Image)
           /\ Range(s) \subseteq Upload
           /\ Range(s) \cap (stored \cup Shown \cup Erased \cup known) = {}
           /\ \A i, j \in 1..Len(s) : s[i] = s[j] => i = j
<1> DEFINE U == Upload \ (stored \cup Shown \cup Erased \cup known)
<1>1. s \in [1..n -> U] /\ IsInjective(s)
  BY DEF Taken
<1>2. s \in Seq(U) /\ Len(s) = n
  BY <1>1
<1>3. Range(s) \subseteq U
  BY <1>2 DEF Range
<1>4. \A i, j \in 1..Len(s) : s[i] = s[j] => i = j
  BY <1>1, <1>2 DEF IsInjective
<1>5. U \subseteq Upload /\ U \subseteq Image
  BY DEF Image
<1> HIDE DEF U
<1>6. s \in Seq(Upload) /\ s \in Seq(Image)
  BY <1>2, <1>5
<1> QED
  BY <1>3, <1>4, <1>6 DEF U

-----------------------------------------------------------------------------
(* Type correctness.                                                        *)

LEMMA InitTypes == Init => Types
<1> SUFFICES ASSUME Init PROVE Types
  OBVIOUS
<1>1. GalleryTypeOK
  <2>1. <<>> \in Seq(Photo) /\ Quiet \in Erasure \cup {Quiet} /\ FALSE \in BOOLEAN
    OBVIOUS
  <2>2. stored \subseteq Upload \cup Library /\ strays \subseteq Upload
    BY DEF Init, GalleryInit
  <2> QED
    BY <2>1, <2>2 DEF Init, GalleryInit, GalleryTypeOK
<1>2. Plain \in Key /\ NoItem \in [step : {"none", "quoted", "placed", "paid", "returned"},
                                   key : Key, linked : BOOLEAN]
  BY DEF Plain, Key, NoItem
<1>3. TypeOK
  BY <1>1, <1>2 DEF Init, TypeOK, Empty
<1>4. RequestsOK
  BY DEF Init, RequestsOK, NoForm, NoSave, NoRemoval, Form, Save, Removal
<1> QED
  BY <1>3, <1>4 DEF Types

Customers == \E o \in Order : (\E k \in Key : Quote(o, k)) \/ Place(o) \/ Sell(o) \/ GiveBack(o)
Forms     == OpenNew \/ OpenEdit \/ CloseForm
Shelves   == SetActive \/ RemovalRead \/ RemovalWrites \/ RemovalRefused \/ RemovalEnds

ItemType == [step : {"none", "quoted", "placed", "paid", "returned"}, key : Key, linked : BOOLEAN]

LEMMA CustomersTypes == ASSUME Types, Customers PROVE Types'
<1> USE DEF Types, TypeOK, ItemType
<1>1. PICK o \in Order : (\E k \in Key : Quote(o, k)) \/ Place(o) \/ Sell(o) \/ GiveBack(o)
  BY DEF Customers
<1>2. UNCHANGED <<gallery, product, form, save, removal>>
  BY <1>1 DEF Quote, Place, Sell, GiveBack, goods
<1>3. GalleryTypeOK' /\ RequestsOK'
  BY <1>2 DEF gallery, GalleryTypeOK, RequestsOK, Shown, Erased, Range
<1>4. item[o] \in ItemType /\ item \in [Order -> ItemType]
  OBVIOUS
<1>5. item' \in [Order -> ItemType]
  <2>1. ASSUME NEW k \in Key, Quote(o, k) PROVE item' \in [Order -> ItemType]
    <3>1. (variant # Empty) \in BOOLEAN
      OBVIOUS
    <3>2. [step |-> "quoted", key |-> k, linked |-> variant # Empty] \in ItemType
      BY <3>1
    <3> QED
      BY <2>1, <3>2, <1>4 DEF Quote
  <2>2. ASSUME NEW st \in {"none", "placed", "paid", "returned"},
               item' = [item EXCEPT ![o].step = st]
        PROVE  item' \in [Order -> ItemType]
    <3>1. [item[o] EXCEPT !.step = st] \in ItemType
      BY <1>4
    <3> QED
      BY <2>2, <3>1, <1>4
  <2>3. CASE Place(o)
    BY <2>3, <2>2 DEF Place
  <2>4. CASE Sell(o)
    BY <2>4, <2>2 DEF Sell
  <2>5. CASE GiveBack(o)
    BY <2>5, <2>2 DEF GiveBack
  <2> QED
    BY <1>1, <2>1, <2>3, <2>4, <2>5
<1>6. /\ simple' \in Nat /\ DOMAIN variant' \subseteq Key \ {Plain}
      /\ \A k \in DOMAIN variant' : variant'[k] \in Nat
  <2>1. CASE UNCHANGED <<simple, variant>>
    BY <2>1
  <2>2. CASE Sell(o)
    BY <2>2 DEF Sell, MoveStock, Available, AtVariant
  <2>3. CASE GiveBack(o)
    BY <2>3 DEF GiveBack, MoveStock, AtVariant
  <2> QED
    BY <1>1, <2>1, <2>2, <2>3 DEF Quote, Place, goods
<1> QED
  BY <1>2, <1>3, <1>5, <1>6

LEMMA FormsTypes == ASSUME Types, Forms \/ Submit \/ SaveRefused PROVE Types'
<1>1. UNCHANGED <<gallery, goods, item, removal>>
  BY DEF Forms, OpenNew, OpenEdit, CloseForm, Submit, SaveRefused
<1>2. TypeOK'
  BY <1>1 DEF gallery, goods, TypeOK, GalleryTypeOK, Types
<1>3. form' \in Form
  <2>1. \A new \in BOOLEAN : [open |-> TRUE, new |-> new] \in Form
    BY DEF Form
  <2>2. NoForm \in Form
    BY DEF NoForm, Form
  <2>3. form \in Form
    BY DEF Types, RequestsOK
  <2> QED
    BY <2>1, <2>2, <2>3 DEF Forms, OpenNew, OpenEdit, CloseForm, Submit, SaveRefused
<1>4. NoSave \in Save /\ NoSave.step = "none" /\ NoSave.hand = <<>> /\ NoSave.own = {}
  BY DEF NoSave, Save
<1>5. CASE save' = save
  BY <1>1, <1>2, <1>3, <1>5 DEF RequestsOK, Types
<1>6. CASE save' = NoSave
  BY <1>1, <1>2, <1>3, <1>4, <1>6 DEF RequestsOK, Types
<1>7. CASE Submit
  <2>1. form.new \in BOOLEAN
    BY DEF Types, RequestsOK, Form
  <2>2. save' \in Save /\ save'.step = "sent" /\ save'.hand = <<>> /\ save'.own = {}
    BY <1>4, <1>7, <2>1 DEF Submit, Save
  <2> QED
    BY <1>1, <1>2, <1>3, <2>2 DEF RequestsOK, Types
<1> QED
  BY <1>5, <1>6, <1>7 DEF Forms, OpenNew, OpenEdit, CloseForm, SaveRefused

\* What Cloudinary holds stays within the account.
LEMMA ImagesTypes ==
    ASSUME GalleryTypeOK, NEW images, images \subseteq Image, NEW kept,
           kept \subseteq images \cap stored, DestroyImages(images, kept)
    PROVE  stored' \subseteq Upload \cup Library /\ strays' \subseteq Upload
  BY DEF GalleryTypeOK, DestroyImages

LEMMA SaveTypes ==
    ASSUME Types, \/ \E n \in Nat : SaveFiles(n)
                  \/ \E n \in Nat, pasted \in Seq(Image) : SaveImports(n, pasted)
                  \/ SaveCounts \/ SaveFails
    PROVE  Types'
<1>1. UNCHANGED <<photos, erasing, blurred, goods, item, form, removal>>
  BY DEF SaveFiles, SaveImports, SaveCounts, SaveFails, gallery
<1>a. again' \subseteq Image
  <2>1. again \subseteq Image
    BY DEF Types, TypeOK, GalleryTypeOK
  <2>2. ASSUME NEW n \in Nat, NEW pasted \in Seq(Image), SaveImports(n, pasted)
        PROVE  again' \subseteq Image
    <3>1. Repeated(pasted) \subseteq Image
      BY HandOf DEF Repeated
    <3>2. again' = again \/ again' = again \cup Repeated(pasted)
      BY <2>2 DEF SaveImports
    <3> QED
      BY <2>1, <3>1, <3>2
  <2> QED
    BY <2>1, <2>2 DEF SaveFiles, SaveCounts, SaveFails, gallery
<1>2. save \in Save /\ NoSave \in Save /\ NoSave.step = "none" /\ NoSave.hand = <<>>
  BY DEF NoSave, Save, Types, RequestsOK
<1>3. ASSUME stored' \subseteq Upload \cup Library, strays' \subseteq Upload, save' \in Save,
             save'.step = "none" => save' = NoSave, save'.step # "sent",
             save'.step = "uploaded" => Range(save'.hand) = save'.own
      PROVE  Types'
  BY <1>1, <1>a, <1>3 DEF Types, TypeOK, RequestsOK, GalleryTypeOK, goods
<1>4. ASSUME stored' \subseteq Upload \cup Library, strays' \subseteq Upload, save' = NoSave
      PROVE  Types'
  BY <1>2, <1>3, <1>4
<1>5. stored \subseteq Upload \cup Library /\ strays \subseteq Upload
  BY DEF Types, TypeOK, GalleryTypeOK
<1>6. ASSUME NEW n \in Nat, SaveFiles(n)
      PROVE  Types'
  <2>1. PICK s \in Taken(n, InHand \cup again) :
          \/ /\ UploadFiles(s)
             /\ save' = [save EXCEPT !.step = "uploaded", !.hand = s, !.own = Range(s)]
          \/ /\ FilesFail(s)
             /\ save' = NoSave
    BY <1>6 DEF SaveFiles
  <2>2. s \in Seq(Image) /\ Range(s) \subseteq Upload
    BY <2>1, TakenAreNew
  <2>3. stored' \subseteq Upload \cup Library /\ strays' \subseteq Upload
    BY <1>5, <2>1, <2>2 DEF UploadFiles, FilesFail
  <2>4. CASE save' = NoSave
    BY <1>4, <2>3, <2>4
  <2>5. CASE save' = [save EXCEPT !.step = "uploaded", !.hand = s, !.own = Range(s)]
    <3>1. save' \in Save /\ save'.step = "uploaded" /\ Range(save'.hand) = save'.own
      BY <1>2, <2>2, <2>5 DEF Save
    <3> QED
      BY <1>3, <2>2, <2>3, <3>1
  <2> QED
    BY <2>1, <2>4, <2>5
<1>7. ASSUME NEW n \in Nat, NEW pasted \in Seq(Image), SaveImports(n, pasted)
      PROVE  Types'
  <2>1. PICK s \in Taken(n, InHand \cup again) :
          \/ /\ UploadFiles(s)
             /\ save' = [save EXCEPT !.step = "ready", !.hand = @ \o s \o pasted,
                                     !.own = @ \cup Range(s)]
          \/ /\ ImportFails(s, save.hand)
             /\ save' = NoSave
    BY <1>7 DEF SaveImports
  <2>2. s \in Seq(Image) /\ Range(s) \subseteq Upload
    BY <2>1, TakenAreNew
  <2>3. Range(save.hand) \subseteq Upload
    BY <1>2, <1>7 DEF SaveImports, Types, RequestsOK, Save
  <2>4. stored' \subseteq Upload \cup Library /\ strays' \subseteq Upload
    BY <1>5, <2>1, <2>2, <2>3 DEF UploadFiles, ImportFails
  <2>5. CASE save' = NoSave
    BY <1>4, <2>4, <2>5
  <2>6. CASE save' = [save EXCEPT !.step = "ready", !.hand = @ \o s \o pasted,
                                  !.own = @ \cup Range(s)]
    <3>1. save.hand \in Seq(Image)
      BY <1>2 DEF Save
    <3>2. save.hand \o s \o pasted \in Seq(Image)
      BY <2>2, <3>1
    <3>3. save' \in Save /\ save'.step = "ready"
      BY <1>2, <2>2, <2>6, <3>2 DEF Save
    <3> QED
      BY <1>3, <2>4, <3>3
  <2> QED
    BY <2>1, <2>5, <2>6
<1>8. CASE SaveCounts
  <2>1. PICK e \in BOOLEAN : e <=> (photos = <<>>)
    OBVIOUS
  <2>2. (photos = <<>>) = e
    BY <2>1
  <2>3. save' = [save EXCEPT !.step = "counted", !.none = e, !.sold = SoldKeys]
    BY <1>8, <2>2 DEF SaveCounts
  <2>4. SoldKeys \in SUBSET (Key \ {Plain})
    BY DEF SoldKeys, Types, TypeOK
  <2>5. save' \in Save /\ save'.step = "counted"
    BY <1>2, <2>3, <2>4 DEF Save
  <2> QED
    BY <1>3, <1>5, <1>8, <2>5 DEF SaveCounts, gallery
<1>9. CASE SaveFails
  <2>1. PICK kept \in SUBSET save.own : DestroyImages(save.own, kept)
    BY <1>9 DEF SaveFails
  <2>2. stored' \subseteq Upload \cup Library /\ strays' \subseteq Upload
    BY <1>5, <2>1 DEF DestroyImages
  <2> QED
    BY <1>4, <1>9, <2>2 DEF SaveFails
<1> QED
  BY <1>6, <1>7, <1>8, <1>9

\* What a save leaves of the variants, and of the items linked to them.
LEMMA CellsTypes ==
    ASSUME NEW sizes \in SUBSET Size, NEW colors \in SUBSET Color,
           NEW cells \in Matrices(sizes, colors)
    PROVE  DOMAIN cells \subseteq Key \ {Plain} /\ \A k \in DOMAIN cells : cells[k] \in Nat
<1>1. Combos(sizes, colors) \subseteq Key \ {Plain}
  BY DEF Combos, Key
<1> QED
  BY <1>1, CatalogAssumption DEF Matrices

LEMMA UnlinkedItems ==
    ASSUME item \in [Order -> ItemType], NEW keys
    PROVE  /\ Unlinked(keys) \in [Order -> ItemType]
           /\ \A o \in Order :
                /\ Unlinked(keys)[o].step \in {item[o].step, "none"}
                /\ Unlinked(keys)[o].key = item[o].key
                /\ item[o].step # "quoted" => Unlinked(keys)[o].step = item[o].step
                /\ item[o].linked /\ ~Unlinked(keys)[o].linked => item[o].key \notin keys
<1> DEFINE row(o) == IF ~item[o].linked \/ item[o].key \in keys THEN item[o]
                     ELSE [item[o] EXCEPT !.linked = FALSE,
                                          !.step = IF @ = "quoted" THEN "none" ELSE @]
<1>1. ASSUME NEW o \in Order
      PROVE  /\ row(o) \in ItemType
             /\ row(o).step \in {item[o].step, "none"}
             /\ row(o).key = item[o].key
             /\ item[o].step # "quoted" => row(o).step = item[o].step
             /\ item[o].linked /\ ~row(o).linked => item[o].key \notin keys
  <2>1. item[o] \in ItemType
    OBVIOUS
  <2>2. CASE ~item[o].linked \/ item[o].key \in keys
    BY <2>1, <2>2
  <2>3. CASE ~(~item[o].linked \/ item[o].key \in keys)
    <3>1. PICK st : st = IF item[o].step = "quoted" THEN "none" ELSE item[o].step
      OBVIOUS
    <3>2. row(o) = [item[o] EXCEPT !.linked = FALSE, !.step = st]
      BY <2>3, <3>1
    <3>3. st \in {"none", "quoted", "placed", "paid", "returned"}
          /\ st \in {item[o].step, "none"} /\ (item[o].step # "quoted" => st = item[o].step)
      BY <2>1, <3>1 DEF ItemType
    <3> HIDE DEF row
    <3> QED
      BY <2>1, <2>3, <3>2, <3>3 DEF ItemType
  <2> QED
    BY <2>2, <2>3
<1>2. Unlinked(keys) = [o \in Order |-> row(o)]
  BY DEF Unlinked
<1> HIDE DEF row
<1> QED
  BY <1>1, <1>2

LEMMA WriteTypes ==
    ASSUME Types, NEW sizes \in SUBSET Size, NEW colors \in SUBSET Color,
           NEW active \in BOOLEAN, NEW cells \in Matrices(sizes, colors),
           NEW n \in 0..MaxStock, SaveWrites(cells, n, active)
    PROVE  Types'
<1>1. save \in Save /\ NoSave \in Save /\ NoForm \in Form
      /\ NoSave.step = "none" /\ NoSave.hand = <<>>
  BY DEF NoSave, Save, NoForm, Form, Types, RequestsOK
<1>2. RequestsOK'
  BY <1>1 DEF SaveWrites, RequestsOK, Types
<1>3. photos' \in Seq(Photo)
  <2>1. PICK none \in BOOLEAN : none <=> save.new \/ save.none
    OBVIOUS
  <2>2. (save.new \/ save.none) = none
    BY <1>1, <2>1 DEF Save
  <2>3. photos' = Appended(save.hand, none)
    BY <2>2, Zenon DEF SaveWrites
  <2>4. save.hand \in Seq(Image) /\ photos \in Seq(Photo)
    BY <1>1 DEF Save, Types, TypeOK, GalleryTypeOK
  <2> QED
    BY <2>3, <2>4, RowsAdded
<1>4. GalleryTypeOK'
  BY <1>3 DEF SaveWrites, Types, TypeOK, GalleryTypeOK
<1>5. /\ DOMAIN variant' \subseteq Key \ {Plain}
      /\ \A k \in DOMAIN variant' : variant'[k] \in Nat
  <2>1. DOMAIN cells \subseteq Key \ {Plain} /\ \A k \in DOMAIN cells : cells[k] \in Nat
    BY CellsTypes
  <2>2. save.sold \subseteq Key \ {Plain}
    BY <1>1 DEF Save
  <2>3. variant' = cells \/ variant' = Synced(cells, save.sold)
    BY DEF SaveWrites
  <2> QED
    BY <2>1, <2>2, <2>3 DEF Synced
<1>6. item' \in [Order -> ItemType]
  BY UnlinkedItems DEF SaveWrites, Types, TypeOK, ItemType
<1>7. product' \in {"none", "active", "archived"} /\ simple' \in Nat
  BY CatalogAssumption DEF SaveWrites
<1> QED
  BY <1>2, <1>4, <1>5, <1>6, <1>7 DEF Types, TypeOK, ItemType

LEMMA ShelvesTypes == ASSUME Types, Shelves PROVE Types'
<1>1. UNCHANGED <<form, save, erasing>>
  BY DEF Shelves, SetActive, RemovalRead, RemovalWrites, RemovalRefused, RemovalEnds, gallery
<1>2. removal' \in Removal /\ (removal'.step = "none" => removal' = NoRemoval)
  <2>1. removal \in Removal /\ (removal.step = "none" => removal = NoRemoval)
        /\ NoRemoval \in Removal
    BY DEF Types, RequestsOK, NoRemoval, Removal
  <2>2. CASE RemovalRead
    <3>1. photos \in Seq(Photo)
      BY DEF Types, TypeOK, GalleryTypeOK
    <3>2. \A i \in DOMAIN photos : photos[i] \in Photo
      BY <3>1
    <3>3. Shown \subseteq Image
      BY <3>2 DEF Shown, Photo
    <3> QED
      BY <2>2, <3>3 DEF RemovalRead, Removal
  <2>3. CASE RemovalWrites
    BY <2>1, <2>3 DEF RemovalWrites, Removal
  <2> QED
    BY <2>1, <2>2, <2>3 DEF Shelves, SetActive, RemovalRefused, RemovalEnds
<1>3. RequestsOK'
  BY <1>1, <1>2 DEF RequestsOK, Types
<1>4. GalleryTypeOK'
  <2>1. CASE UNCHANGED gallery
    BY <2>1 DEF gallery, GalleryTypeOK, Types, TypeOK
  <2>2. CASE RemovalWrites
    <3>1. <<>> \in Seq(Photo) /\ FALSE \in BOOLEAN
      OBVIOUS
    <3> QED
      BY <2>2, <3>1 DEF RemovalWrites, GalleryTypeOK, Types, TypeOK
  <2>3. CASE RemovalEnds
    BY <2>3 DEF RemovalEnds, DestroyImages, GalleryTypeOK, Types, TypeOK
  <2> QED
    BY <2>1, <2>2, <2>3 DEF Shelves, SetActive, RemovalRead, RemovalRefused
<1>5. CASE UNCHANGED goods /\ UNCHANGED item
  BY <1>3, <1>4, <1>5 DEF goods, Types, TypeOK
<1>6. CASE SetActive
  BY <1>3, <1>4, <1>6 DEF SetActive, Types, TypeOK
<1>7. CASE RemovalWrites
  <2>1. NoItem \in ItemType
    BY DEF NoItem, ItemType, Key, Plain
  <2>2. item' \in [Order -> ItemType]
    BY <1>7, <2>1 DEF RemovalWrites
  <2>3. /\ product' \in {"none", "active", "archived"} /\ simple' \in Nat
        /\ DOMAIN variant' \subseteq Key \ {Plain}
        /\ \A k \in DOMAIN variant' : variant'[k] \in Nat
    BY <1>7 DEF RemovalWrites, Empty
  <2> QED
    BY <1>3, <1>4, <2>2, <2>3 DEF Types, TypeOK, ItemType
<1> QED
  BY <1>5, <1>6, <1>7 DEF Shelves, RemovalRead, RemovalRefused, RemovalEnds

LEMMA PhotosTypes == ASSUME Types, Photos \/ Erasing \/ Dies PROVE Types'
<1>1. UNCHANGED <<goods, item, form>>
  BY DEF Photos, Erasing, Dies
<1>2. RequestsOK'
  <2>1. NoSave \in Save /\ NoSave.step = "none" /\ NoSave.hand = <<>> /\ NoRemoval \in Removal
    BY DEF NoSave, Save, NoRemoval, Removal
  <2> QED
    BY <2>1 DEF RequestsOK, Types, Photos, Erasing, Dies
<1>3. photos \in Seq(Photo) /\ blurred \in BOOLEAN /\ erasing \in Erasure \cup {Quiet}
      /\ stored \subseteq Upload \cup Library /\ strays \subseteq Upload
      /\ again \subseteq Image
  BY DEF Types, TypeOK, GalleryTypeOK
<1>4. GalleryTypeOK'
  <2>1. ASSUME NEW i \in DOMAIN photos, SetMainImage(i)
        PROVE  GalleryTypeOK'
    <3>1. photos' \in Seq(Photo)
      BY <1>3, <2>1, MainMoved
    <3> QED
      BY <1>3, <2>1, <3>1 DEF SetMainImage, GalleryTypeOK
  <2>2. ASSUME NEW i \in DOMAIN photos, DeleteRow(i)
        PROVE  GalleryTypeOK'
    <3>1. photos' \in Seq(Photo)
      BY <1>3, <2>2, RowGone DEF DeleteRow
    <3>2. photos[i] \in Photo
      BY <1>3
    <3>3. erasing' \in Erasure
      BY <2>2, <3>2 DEF DeleteRow, Photo, Erasure
    <3> QED
      BY <1>3, <2>2, <3>1, <3>3 DEF DeleteRow, GalleryTypeOK
  <2>3. CASE DestroyImage
    <3>1. stored' \subseteq Upload \cup Library /\ strays' \subseteq Upload
      BY <1>3, <2>3 DEF DestroyImage, DestroyImages
    <3>2. erasing \in Erasure
      BY <1>3, <2>3 DEF DestroyImage, Quiet
    <3>3. erasing' \in Erasure
      BY <2>3, <3>2 DEF DestroyImage, Erasure
    <3> QED
      BY <1>3, <2>3, <3>1, <3>3 DEF DestroyImage, GalleryTypeOK
  <2>4. CASE PassMain(Counting)
    <3>1. erasing \in Erasure
      BY <1>3, <2>4 DEF PassMain, Quiet
    <3>2. photos' \in Seq(Photo)
      BY <1>3, <2>4, <3>1, MainPassed DEF PassMain, Erasure
    <3>3. blurred' \in BOOLEAN
      BY <2>4 DEF PassMain
    <3> QED
      BY <1>3, <2>4, <3>2, <3>3 DEF PassMain, GalleryTypeOK
  <2>5. CASE Dies
    <3>1. blurred' \in BOOLEAN
      BY <2>5 DEF Dies, GalleryDies
    <3> QED
      BY <1>3, <2>5, <3>1 DEF Dies, GalleryDies, GalleryTypeOK
  <2> QED
    BY <2>1, <2>2, <2>3, <2>4, <2>5 DEF Photos, Erasing
<1> QED
  BY <1>1, <1>2, <1>4 DEF goods, Types, TypeOK

LEMMA PastedImages == SeqOf(Image, MaxImages) \subseteq Seq(Image)
  BY DEF SeqOf

LEMMA NextTypes == ASSUME Types, [Next]_vars PROVE Types'
<1>1. CASE UNCHANGED vars
  BY <1>1 DEF vars, gallery, goods, Types, TypeOK, RequestsOK, GalleryTypeOK
<1>2. ASSUME NEW n \in 0..MaxImages,
             \/ SaveFiles(n)
             \/ \E pasted \in SeqOf(Image, MaxImages) : SaveImports(n, pasted)
      PROVE  Types'
  <2>1. n \in Nat
    BY CatalogAssumption
  <2>2. SaveFiles(n) \/ \E pasted \in Seq(Image) : SaveImports(n, pasted)
    BY <1>2, PastedImages
  <2> QED
    BY <2>1, <2>2, SaveTypes
<1>3. ASSUME NEW sizes \in SUBSET Size, NEW colors \in SUBSET Color,
             NEW active \in BOOLEAN, NEW cells \in Matrices(sizes, colors),
             NEW n \in 0..MaxStock, SaveWrites(cells, n, active)
      PROVE  Types'
  BY <1>3, WriteTypes
<1>4. CASE Customers
  BY <1>4, CustomersTypes
<1>5. CASE Forms \/ Submit \/ SaveRefused
  BY <1>5, FormsTypes
<1>6. CASE SaveCounts \/ SaveFails
  BY <1>6, SaveTypes
<1>7. CASE Shelves
  BY <1>7, ShelvesTypes
<1>8. CASE Photos \/ Erasing \/ Dies
  BY <1>8, PhotosTypes
<1> DEFINE saves == \E n \in 0..MaxImages :
                      \/ SaveFiles(n)
                      \/ \E pasted \in SeqOf(Image, MaxImages) : SaveImports(n, pasted)
           writes == \E sizes \in SUBSET Size, colors \in SUBSET Color, active \in BOOLEAN :
                       \E cells \in Matrices(sizes, colors), n \in 0..MaxStock :
                         SaveWrites(cells, n, active)
<1>9. saves \/ writes => Types'
  BY <1>2, <1>3
<1>10. UNCHANGED vars \/ saves \/ writes \/ Customers \/ Forms \/ Submit \/ SaveRefused
       \/ SaveCounts \/ SaveFails \/ Shelves \/ Photos \/ Erasing \/ Dies
  BY DEF Next, Customers, Forms, Shelves
<1> HIDE DEF saves, writes
<1> QED
  BY <1>1, <1>4, <1>5, <1>6, <1>7, <1>8, <1>9, <1>10

-----------------------------------------------------------------------------
(* The editor.  The open form and the request it sent are of one kind; a new *)
(* product is not there yet; and a product that is not there has neither     *)
(* photos nor orders.                                                        *)

OneEditor ==
    /\ save # NoSave => form.open /\ form.new = save.new
    /\ form.new => form.open /\ product = "none"
    /\ save.step = "counted" => ~save.new /\ product # "none"
    /\ removal.step = "gone" => product = "none" /\ ~form.new

NothingLeft == product = "none" => photos = <<>> /\ Ordered = {}

SavesFiles   == \E n \in Nat : SaveFiles(n)
SavesImports == \E n \in Nat, pasted \in Seq(Image) : SaveImports(n, pasted)
SavesWrite   == \E sizes \in SUBSET Size, colors \in SUBSET Color, active \in BOOLEAN :
                  \E cells \in Matrices(sizes, colors), n \in 0..MaxStock :
                    SaveWrites(cells, n, active)

\* The disjuncts of Next, grouped by what they can disturb.
LEMMA NextIs ==
    ASSUME [Next]_vars
    PROVE  \/ UNCHANGED vars
           \/ Customers \/ Forms \/ Submit \/ SaveRefused \/ SaveCounts \/ SaveFails
           \/ SavesFiles \/ SavesImports \/ SavesWrite \/ Shelves
           \/ Photos \/ Erasing \/ Dies
<1>1. 0..MaxImages \subseteq Nat
  BY CatalogAssumption
<1>2. (\E n \in 0..MaxImages :
         \/ SaveFiles(n)
         \/ \E pasted \in SeqOf(Image, MaxImages) : SaveImports(n, pasted))
      => SavesFiles \/ SavesImports
  BY <1>1, PastedImages DEF SavesFiles, SavesImports
<1> QED
  BY <1>2 DEF Next, Customers, Forms, Shelves, SavesWrite

LEMMA WriteIs ==
    ASSUME Types, SavesWrite
    PROVE  /\ (save.step = "counted") \/ (save.step = "ready" /\ save.new)
           /\ product' \in {"active", "archived"}
           /\ photos' = Appended(save.hand, save.new \/ save.none)
           /\ save' = NoSave /\ form' = NoForm
           /\ UNCHANGED <<stored, strays, again, erasing, blurred, removal>>
           /\ item' = Unlinked(DOMAIN variant')
           /\ ~save.new => save.sold \subseteq DOMAIN variant'
<1>1. PICK active \in BOOLEAN : \E cells, n : SaveWrites(cells, n, active)
  BY DEF SavesWrite
<1>2. PICK cells, n : SaveWrites(cells, n, active)
  BY <1>1
<1> QED
  BY <1>2 DEF SaveWrites, Synced

LEMMA EditorKept == ASSUME Types, OneEditor, [Next]_vars PROVE OneEditor'
<1>1. /\ NoSave.step = "none" /\ NoSave.new = FALSE
      /\ NoForm.open = FALSE /\ NoForm.new = FALSE /\ NoRemoval.step = "none"
  BY DEF NoSave, NoForm, NoRemoval
<1>2. /\ save.step = "none" => save = NoSave
      /\ removal.step = "none" => removal = NoRemoval
      /\ save \in Save /\ form \in Form /\ removal \in Removal
  BY DEF Types, RequestsOK
<1>3. CASE UNCHANGED <<save, form, removal, product>>
  BY <1>3 DEF OneEditor
<1>4. CASE Customers
  BY <1>3, <1>4 DEF Customers, Quote, Place, Sell, GiveBack, goods
<1>5. CASE Forms
  <2>1. UNCHANGED <<product, save, removal>>
    BY <1>5 DEF Forms, OpenNew, OpenEdit, CloseForm, goods
  <2>2. CASE OpenNew
    <3>1. form'.open = TRUE /\ form'.new = TRUE
      BY <2>2 DEF OpenNew
    <3>2. form = NoForm /\ product = "none" /\ removal = NoRemoval
      BY <2>2 DEF OpenNew
    <3> QED
      BY <1>1, <2>1, <3>1, <3>2 DEF OneEditor
  <2>3. CASE OpenEdit
    <3>1. form'.open = TRUE /\ form'.new = FALSE
      BY <2>3 DEF OpenEdit
    <3>2. form = NoForm /\ product # "none"
      BY <2>3 DEF OpenEdit
    <3> QED
      BY <1>1, <2>1, <3>1, <3>2 DEF OneEditor
  <2>4. CASE CloseForm
    BY <1>1, <2>1, <2>4 DEF CloseForm, OneEditor
  <2> QED
    BY <1>5, <2>2, <2>3, <2>4 DEF Forms
<1>6. CASE Submit
  <2>1. save'.step = "sent" /\ save'.new = form.new
    <3>1. NoSave \in Save
      BY DEF NoSave, Save
    <3> QED
      BY <1>6, <3>1 DEF Submit, Save
  <2> QED
    BY <1>6, <2>1 DEF Submit, OneEditor, goods
<1>7. CASE SaveCounts
  <2>1. save'.step = "counted" /\ save'.new = save.new
    BY <1>2, <1>7 DEF SaveCounts, Save
  <2>2. save # NoSave
    BY <1>1, <1>7 DEF SaveCounts
  <2> QED
    BY <1>7, <2>1, <2>2 DEF SaveCounts, OneEditor, goods
<1>8. CASE SavesFiles
  <2>1. PICK n \in Nat : SaveFiles(n)
    BY <1>8 DEF SavesFiles
  <2>2. save # NoSave
    BY <1>1, <2>1 DEF SaveFiles
  <2>3. save' = NoSave \/ (save'.step = "uploaded" /\ save'.new = save.new)
    BY <1>2, <2>1 DEF SaveFiles, Save
  <2> QED
    BY <1>1, <2>1, <2>2, <2>3 DEF SaveFiles, OneEditor, goods
<1>9. CASE SavesImports
  <2>1. PICK n \in Nat, pasted \in Seq(Image) : SaveImports(n, pasted)
    BY <1>9 DEF SavesImports
  <2>2. save # NoSave
    BY <1>1, <2>1 DEF SaveImports
  <2>3. save' = NoSave \/ (save'.step = "ready" /\ save'.new = save.new)
    BY <1>2, <2>1 DEF SaveImports, Save
  <2> QED
    BY <1>1, <2>1, <2>2, <2>3 DEF SaveImports, OneEditor, goods
<1>10. CASE SavesWrite
  <2>1. PICK active, cells, n : SaveWrites(cells, n, active)
    BY <1>10 DEF SavesWrite
  <2>2. save # NoSave /\ removal' = removal
    BY <1>1, <2>1 DEF SaveWrites
  <2>3. removal.step # "gone"
    BY <2>1, <2>2 DEF SaveWrites, OneEditor
  <2> QED
    BY <1>1, <2>1, <2>2, <2>3 DEF SaveWrites, OneEditor
<1>11. CASE SaveRefused \/ SaveFails
  BY <1>1, <1>11 DEF SaveRefused, SaveFails, OneEditor, goods
<1>12. CASE Shelves
  <2>1. CASE RemovalRead
    BY <1>1, <1>3, <2>1 DEF RemovalRead, OneEditor, goods
  <2>2. CASE RemovalWrites
    <3>1. removal'.step = "gone" /\ ~form.new
      BY <1>2, <2>2 DEF RemovalWrites, OneEditor, Form, Removal
    <3> QED
      BY <1>2, <2>2, <3>1 DEF RemovalWrites, OneEditor
  <2>3. CASE RemovalRefused \/ RemovalEnds
    BY <1>1, <2>3 DEF RemovalRefused, RemovalEnds, OneEditor, goods
  <2>4. CASE SetActive
    BY <2>4 DEF SetActive, OneEditor
  <2> QED
    BY <1>12, <2>1, <2>2, <2>3, <2>4 DEF Shelves
<1>13. CASE Photos \/ Erasing
  BY <1>3, <1>13 DEF Photos, Erasing, goods
<1>14. CASE Dies
  BY <1>1, <1>14 DEF Dies, OneEditor, goods
<1>15. CASE UNCHANGED vars
  BY <1>3, <1>15 DEF vars, goods
<1> QED
  BY <1>4, <1>5, <1>6, <1>7, <1>8, <1>9, <1>10, <1>11, <1>12, <1>13, <1>14, <1>15, NextIs

LEMMA NothingLeftKept == ASSUME Types, NothingLeft, [Next]_vars PROVE NothingLeft'
<1>1. CASE UNCHANGED <<photos, item, product>>
  BY <1>1 DEF NothingLeft, Ordered
<1>2. CASE Customers
  <2>1. PICK o \in Order : (\E k \in Key : Quote(o, k)) \/ Place(o) \/ Sell(o) \/ GiveBack(o)
    BY <1>2 DEF Customers
  <2>2. UNCHANGED <<photos, product>>
    BY <2>1 DEF Quote, Place, Sell, GiveBack, goods, gallery
  <2>3. item \in [Order -> ItemType]
    BY DEF Types, TypeOK, ItemType
  <2>4. CASE product = "none" /\ Place(o)
    <3>1. item' = [item EXCEPT ![o].step = "none"]
      BY <2>4 DEF Place
    <3>2. \A p \in Order : item'[p].step \in {item[p].step, "none"}
      BY <2>3, <3>1 DEF ItemType
    <3> QED
      BY <2>2, <3>2 DEF NothingLeft, Ordered
  <2>5. CASE product = "none" /\ ~Place(o)
    BY <2>1, <2>5 DEF Quote, Sell, GiveBack, NothingLeft, Ordered
  <2> QED
    BY <2>2, <2>4, <2>5 DEF NothingLeft
<1>3. CASE SavesWrite
  BY <1>3, WriteIs DEF NothingLeft
<1>4. CASE Shelves
  <2>1. CASE RemovalWrites
    BY <2>1 DEF RemovalWrites, NothingLeft, Ordered, NoItem
  <2>2. CASE SetActive
    BY <2>2 DEF SetActive, NothingLeft
  <2> QED
    BY <1>1, <1>4, <2>1, <2>2 DEF Shelves, RemovalRead, RemovalRefused, RemovalEnds,
                                  goods, gallery
<1>5. CASE Photos \/ Erasing
  <2>1. UNCHANGED <<product, item>>
    BY <1>5 DEF Photos, Erasing, goods
  <2>2. photos = <<>> => photos' = <<>>
    BY <1>5 DEF Photos, SetMainImage, DeleteRow, Erasing, DestroyImage, PassMain, Passed
  <2> QED
    BY <2>1, <2>2 DEF NothingLeft, Ordered
<1>6. CASE Forms \/ Submit \/ SaveRefused \/ SaveCounts \/ SaveFails \/ Dies
  BY <1>1, <1>6 DEF Forms, OpenNew, OpenEdit, CloseForm, Submit, SaveRefused, SaveCounts,
                    SaveFails, Dies, GalleryDies, goods, gallery
<1>7. CASE SavesFiles \/ SavesImports
  BY <1>1, <1>7 DEF SavesFiles, SaveFiles, SavesImports, SaveImports, goods
<1>8. CASE UNCHANGED vars
  BY <1>1, <1>8 DEF vars, goods, gallery
<1> QED
  BY <1>2, <1>3, <1>4, <1>5, <1>6, <1>7, <1>8, NextIs

-----------------------------------------------------------------------------
(* Orders keep their variant.                                               *)

LEMMA OneStepKeepsHistory ==
    ASSUME Types, OneEditor, NothingLeft, [Next]_vars,
           NEW o \in Ordered, item[o].linked, ~item'[o].linked
    PROVE  save.step = "counted" /\ item[o].key \notin save.sold
<1>1. item \in [Order -> ItemType] /\ o \in Order /\ item[o].step \in {"placed", "paid", "returned"}
  BY DEF Types, TypeOK, ItemType, Ordered
<1>2. item' # item
  OBVIOUS
<1>3. ~Customers
  <2>1. ASSUME NEW p \in Order, (\E k \in Key : Quote(p, k)) \/ Place(p) \/ Sell(p) \/ GiveBack(p)
        PROVE  FALSE
    <3>1. CASE p # o
      BY <1>1, <2>1, <3>1 DEF Quote, Place, Sell, GiveBack
    <3>2. CASE p = o
      <4>1. PICK st : item' = [item EXCEPT ![o].step = st]
        BY <1>1, <2>1, <3>2 DEF Quote, Place, Sell, GiveBack
      <4> QED
        BY <1>1, <4>1 DEF ItemType
    <3> QED
      BY <3>1, <3>2
  <2> QED
    BY <2>1 DEF Customers
<1>4. SavesWrite \/ RemovalWrites
  BY <1>2, <1>3, NextIs
     DEF vars, goods, gallery, Forms, OpenNew, OpenEdit, CloseForm, Submit, SaveRefused, SaveCounts,
         SaveFails, Dies, SavesFiles, SaveFiles, SavesImports, SaveImports, Shelves,
         SetActive, RemovalRead, RemovalRefused, RemovalEnds, Photos, Erasing
<1>5. ~RemovalWrites
  BY DEF RemovalWrites
<1>6. SavesWrite
  BY <1>4, <1>5
<1>7. item[o].key \notin DOMAIN variant'
  BY <1>1, <1>6, WriteIs, UnlinkedItems
<1>8. ~save.new
  <2>1. save # NoSave
    BY <1>6, WriteIs DEF NoSave
  <2> QED
    BY <2>1 DEF OneEditor, NothingLeft
<1> QED
  BY <1>6, <1>7, <1>8, WriteIs

-----------------------------------------------------------------------------
(* The main photo.  There is one at most, and one unless the main one is     *)
(* being deleted or in doubt; while it is being deleted only a new first     *)
(* photo can be one; and a save that counted photos finds some, or the main  *)
(* one was the last to go.                                                   *)

MainGoes == erasing # Quiet /\ erasing.main

AtMostOneMain == \A i, j \in DOMAIN photos : photos[i].main /\ photos[j].main => i = j
OnlyFirstMain == MainGoes => \A i \in DOMAIN photos : photos[i].main => i = 1
SomeMain      == photos # <<>> /\ ~blurred /\ ~MainGoes => \E i \in DOMAIN photos : photos[i].main
CountHolds    ==
    /\ save.step = "counted" /\ save.none => photos = <<>>
    /\ save.step = "counted" /\ ~save.none /\ photos = <<>> /\ save.hand # <<>> =>
         blurred \/ MainGoes

MainInv == AtMostOneMain /\ OnlyFirstMain /\ SomeMain /\ CountHolds

LEMMA MainUndisturbed ==
    ASSUME MainInv, UNCHANGED <<photos, erasing, blurred>>,
           save' = save \/ save'.step # "counted"
    PROVE  MainInv'
  BY DEF MainInv, AtMostOneMain, OnlyFirstMain, SomeMain, CountHolds, MainGoes

LEMMA MainCounted == ASSUME Types, MainInv, SaveCounts PROVE MainInv'
<1>1. PICK e \in BOOLEAN : e <=> (photos = <<>>)
  OBVIOUS
<1>2. (photos = <<>>) = e
  BY <1>1
<1>3. save' = [save EXCEPT !.step = "counted", !.none = e, !.sold = SoldKeys]
  BY <1>2 DEF SaveCounts
<1>4. save \in Save
  BY DEF Types, RequestsOK
<1>5. save'.none = e
  BY <1>3, <1>4 DEF Save
<1>6. UNCHANGED <<photos, erasing, blurred>>
  BY DEF SaveCounts, gallery
<1> QED
  BY <1>1, <1>5, <1>6 DEF MainInv, AtMostOneMain, OnlyFirstMain, SomeMain, CountHolds, MainGoes

LEMMA MainWritten ==
    ASSUME Types, OneEditor, NothingLeft, MainInv, SavesWrite
    PROVE  MainInv'
<1>1. /\ save \in Save /\ photos \in Seq(Photo)
      /\ save.hand \in Seq(Image)
  BY DEF Types, RequestsOK, TypeOK, GalleryTypeOK, Save
<1>2. PICK e \in BOOLEAN : e <=> save.new \/ save.none
  OBVIOUS
<1>3. (save.new \/ save.none) = e
  BY <1>1, <1>2 DEF Save
<1>4. photos' = Appended(save.hand, e)
  BY <1>3, WriteIs, Zenon
<1>5. /\ photos' \in Seq(Photo)
      /\ Len(photos') = Len(photos) + Len(save.hand)
      /\ \A j \in 1..Len(photos) : photos'[j] = photos[j]
      /\ \A j \in 1..Len(save.hand) : photos'[Len(photos) + j].main <=> e /\ j = 1
  BY <1>1, <1>4, RowsAdded
<1>6. save # NoSave /\ save'.step # "counted" /\ UNCHANGED <<erasing, blurred>>
  BY WriteIs DEF NoSave
<1>7. save.new => photos = <<>>
  BY <1>6 DEF OneEditor, NothingLeft
<1>8. save.step = "counted" \/ save.new
  BY WriteIs
<1>9. e => photos = <<>>
  BY <1>2, <1>7, <1>8 DEF MainInv, CountHolds
<1>10. ~e => save.step = "counted" /\ ~save.none
  BY <1>2, <1>8
<1>11. ASSUME NEW j \in DOMAIN photos', photos'[j].main
       PROVE  (j \in DOMAIN photos /\ photos[j].main /\ ~e) \/ (j = 1 /\ e)
  <2>1. CASE j <= Len(photos)
    <3>1. j \in 1..Len(photos) /\ photos # <<>>
      BY <1>1, <1>5, <2>1
    <3> QED
      BY <1>5, <1>9, <1>11, <3>1
  <2>2. CASE ~(j <= Len(photos))
    <3>1. PICK k \in 1..Len(save.hand) : j = Len(photos) + k
      <4>1. j - Len(photos) \in 1..Len(save.hand)
        BY <1>1, <1>5, <2>2
      <4> QED
        BY <1>1, <1>5, <4>1
    <3>2. e /\ k = 1
      BY <1>5, <1>11, <3>1
    <3> QED
      BY <1>9, <3>1, <3>2
  <2> QED
    BY <2>1, <2>2
<1>12. AtMostOneMain'
  BY <1>11 DEF AtMostOneMain, MainInv
<1>13. OnlyFirstMain'
  BY <1>6, <1>11 DEF OnlyFirstMain, MainGoes, MainInv
<1>14. SomeMain'
  <2>1. CASE e
    <3>1. photos' # <<>> => 1 \in 1..Len(save.hand)
      BY <1>1, <1>5, <1>9, <2>1
    <3>2. photos' # <<>> => 1 \in DOMAIN photos' /\ photos'[1].main
      BY <1>5, <1>9, <2>1, <3>1
    <3> QED
      BY <3>2 DEF SomeMain
  <2>2. CASE ~e /\ photos = <<>>
    <3>1. photos' # <<>> => save.hand # <<>>
      BY <1>1, <1>5, <2>2
    <3> QED
      BY <1>6, <1>10, <2>2, <3>1 DEF SomeMain, MainGoes, MainInv, CountHolds
  <2>3. CASE photos # <<>>
    <3>1. ASSUME NEW i \in DOMAIN photos, photos[i].main
          PROVE  i \in DOMAIN photos' /\ photos'[i].main
      BY <1>1, <1>5, <3>1
    <3> QED
      BY <1>6, <2>3, <3>1 DEF SomeMain, MainGoes, MainInv
  <2> QED
    BY <2>1, <2>2, <2>3
<1>15. CountHolds'
  BY <1>6 DEF CountHolds
<1> QED
  BY <1>12, <1>13, <1>14, <1>15 DEF MainInv

LEMMA MainSet ==
    ASSUME Types, MainInv, NEW i \in DOMAIN photos, SetMainImage(i), UNCHANGED save,
           erasing = Quiet
    PROVE  MainInv'
<1>1. /\ photos \in Seq(Photo) /\ photos' \in Seq(Photo) /\ Len(photos') = Len(photos)
      /\ \A j \in 1..Len(photos) : photos'[j].main <=> j = i
  BY MainMoved DEF Types, TypeOK, GalleryTypeOK
<1>2. DOMAIN photos' = DOMAIN photos /\ photos # <<>> /\ photos' # <<>> /\ photos'[i].main
  BY <1>1
<1>3. erasing' = Quiet
  BY DEF SetMainImage
<1>4. AtMostOneMain'
  BY <1>1 DEF AtMostOneMain
<1>5. OnlyFirstMain' /\ SomeMain'
  BY <1>2, <1>3 DEF OnlyFirstMain, SomeMain, MainGoes
<1>6. CountHolds'
  BY <1>2 DEF CountHolds, MainInv
<1> QED
  BY <1>4, <1>5, <1>6 DEF MainInv

LEMMA MainDeleted ==
    ASSUME Types, MainInv, NEW i \in DOMAIN photos, DeleteRow(i), UNCHANGED save
    PROVE  MainInv'
<1>1. photos \in Seq(Photo) /\ i \in 1..Len(photos) /\ Len(photos) \in Nat
  BY DEF Types, TypeOK, GalleryTypeOK
<1>2. /\ photos' \in Seq(Photo) /\ Len(photos') = Len(photos) - 1
      /\ \A j \in 1..(Len(photos) - 1) : photos'[j] = photos[IF j < i THEN j ELSE j + 1]
  BY <1>1, RowGone DEF DeleteRow
<1>3. erasing = Quiet /\ blurred' = blurred
  BY DEF DeleteRow
<1>4. erasing' # Quiet /\ erasing'.main = photos[i].main
  BY DEF DeleteRow, Quiet
<1>5. MainGoes' <=> photos[i].main
  BY <1>4 DEF MainGoes
<1>6. ASSUME NEW j \in DOMAIN photos'
      PROVE  \E k \in DOMAIN photos : /\ k # i /\ photos'[j] = photos[k]
                                      /\ k = IF j < i THEN j ELSE j + 1
  BY <1>1, <1>2
<1>7. ASSUME NEW j \in DOMAIN photos, j # i
      PROVE  \E k \in DOMAIN photos' : photos'[k] = photos[j]
  <2>1. CASE j < i
    BY <1>1, <1>2, <2>1
  <2>2. CASE j > i
    <3>1. j - 1 \in 1..(Len(photos) - 1) /\ ~(j - 1 < i) /\ (j - 1) + 1 = j
      BY <1>1, <2>2
    <3> QED
      BY <1>2, <3>1
  <2> QED
    BY <1>1, <1>7, <2>1, <2>2
<1>8. AtMostOneMain'
  <2> SUFFICES ASSUME NEW j \in DOMAIN photos', NEW l \in DOMAIN photos',
                      photos'[j].main, photos'[l].main
               PROVE  j = l
    BY DEF AtMostOneMain
  <2>1. j \in Int /\ l \in Int
    BY <1>2
  <2>2. PICK k \in DOMAIN photos : photos'[j] = photos[k] /\ k = IF j < i THEN j ELSE j + 1
    BY <1>6
  <2>3. PICK m \in DOMAIN photos : photos'[l] = photos[m] /\ m = IF l < i THEN l ELSE l + 1
    BY <1>6
  <2>4. k = m
    BY <2>2, <2>3 DEF MainInv, AtMostOneMain
  <2> QED
    BY <1>1, <2>1, <2>2, <2>3, <2>4
<1>9. OnlyFirstMain'
  BY <1>5, <1>6 DEF OnlyFirstMain, MainInv, AtMostOneMain
<1>10. SomeMain'
  <2> SUFFICES ASSUME photos' # <<>>, ~blurred, ~photos[i].main
               PROVE  \E j \in DOMAIN photos' : photos'[j].main
    BY <1>3, <1>5 DEF SomeMain
  <2>1. photos # <<>>
    BY <1>1
  <2>2. PICK j \in DOMAIN photos : photos[j].main
    BY <1>3, <2>1 DEF MainInv, SomeMain, MainGoes
  <2> QED
    BY <1>7, <2>2
<1>11. CountHolds'
  <2>1. photos # <<>>
    BY <1>1
  <2>2. photos' = <<>> => blurred \/ MainGoes'
    <3> SUFFICES ASSUME photos' = <<>>, ~blurred PROVE photos[i].main
      BY <1>5
    <3>1. PICK j \in DOMAIN photos : photos[j].main
      BY <1>3, <2>1 DEF MainInv, SomeMain, MainGoes
    <3>2. j = i
      BY <1>1, <1>2
    <3> QED
      BY <3>1, <3>2
  <2> QED
    BY <1>3, <2>1, <2>2 DEF CountHolds, MainInv
<1> QED
  BY <1>8, <1>9, <1>10, <1>11 DEF MainInv

LEMMA MainTakesOver ==
    ASSUME Types, MainInv, PassMain(Counting), UNCHANGED save
    PROVE  MainInv'
<1>1. photos \in Seq(Photo) /\ erasing \in Erasure
  BY DEF Types, TypeOK, GalleryTypeOK, PassMain, Quiet
<1>2. erasing.main \in BOOLEAN /\ erasing # Quiet
  BY <1>1 DEF Erasure, PassMain, Quiet
<1>3. /\ photos' \in Seq(Photo) /\ Len(photos') = Len(photos)
      /\ \A j \in 1..Len(photos) :
           photos'[j].main <=> (erasing.main /\ j = 1) \/ photos[j].main
  BY <1>1, <1>2, MainPassed DEF PassMain
<1>4. DOMAIN photos' = DOMAIN photos /\ DOMAIN photos = 1..Len(photos)
      /\ (photos = <<>> <=> photos' = <<>>) /\ (photos # <<>> => 1 \in DOMAIN photos)
  BY <1>1, <1>3
<1>5. erasing' = Quiet
  BY DEF PassMain
<1>6. blurred' <=> blurred \/ (erasing.main /\ photos = <<>> /\ Counting)
  BY DEF PassMain
<1>7. AtMostOneMain'
  BY <1>2, <1>3, <1>4 DEF AtMostOneMain, OnlyFirstMain, MainInv, MainGoes
<1>8. OnlyFirstMain'
  BY <1>5 DEF OnlyFirstMain, MainGoes
<1>9. SomeMain'
  <2>1. CASE erasing.main
    BY <1>3, <1>4, <2>1 DEF SomeMain
  <2>2. CASE ~erasing.main
    BY <1>3, <1>4, <1>6, <2>2 DEF SomeMain, MainInv, MainGoes
  <2> QED
    BY <2>1, <2>2
<1>10. CountHolds'
  BY <1>2, <1>4, <1>6 DEF CountHolds, MainInv, MainGoes, Counting
<1> QED
  BY <1>7, <1>8, <1>9, <1>10 DEF MainInv

LEMMA MainKept ==
    ASSUME Types, OneEditor, NothingLeft, MainInv, [Next]_vars
    PROVE  MainInv'
<1>1. NoSave.step = "none"
  BY DEF NoSave
<1>2. CASE UNCHANGED vars \/ Customers
  BY <1>2, MainUndisturbed DEF vars, gallery, Customers, Quote, Place, Sell, GiveBack
<1>3. CASE Forms \/ SaveRefused \/ SaveFails
  BY <1>1, <1>3, MainUndisturbed
     DEF gallery, Forms, OpenNew, OpenEdit, CloseForm, SaveRefused, SaveFails
<1>4. CASE Submit
  <2>1. save'.step = "sent"
    BY <1>4 DEF Submit, NoSave
  <2> QED
    BY <1>4, <2>1, MainUndisturbed DEF gallery, Submit
<1>5. CASE SavesFiles \/ SavesImports
  <2>1. UNCHANGED <<photos, erasing, blurred>>
    BY <1>5 DEF SavesFiles, SaveFiles, SavesImports, SaveImports
  <2>2. save \in Save
    BY DEF Types, RequestsOK
  <2>3. save'.step # "counted"
    BY <1>1, <1>5, <2>2 DEF SavesFiles, SaveFiles, SavesImports, SaveImports, Save
  <2> QED
    BY <2>1, <2>3, MainUndisturbed
<1>6. CASE Shelves
  <2>1. CASE RemovalWrites
    BY <2>1 DEF RemovalWrites, MainInv, AtMostOneMain, OnlyFirstMain, SomeMain, CountHolds,
                MainGoes
  <2>2. CASE ~RemovalWrites
    BY <1>6, <2>2, MainUndisturbed
       DEF gallery, Shelves, SetActive, RemovalRead, RemovalRefused, RemovalEnds
  <2> QED
    BY <2>1, <2>2
<1>7. CASE Photos
  <2>1. PICK i \in DOMAIN photos : SetMainImage(i) \/ DeleteRow(i)
    BY <1>7 DEF Photos
  <2> QED
    BY <1>7, <2>1, MainSet, MainDeleted DEF Photos
<1>8. CASE Erasing /\ DestroyImage
  <2>1. erasing \in Erasure
    BY <1>8 DEF DestroyImage, Types, TypeOK, GalleryTypeOK, Quiet
  <2>2. erasing'.main = erasing.main /\ erasing'.step = "image" /\ erasing # Quiet
    BY <1>8, <2>1 DEF DestroyImage, Erasure, Quiet
  <2>3. MainGoes' <=> MainGoes
    BY <2>2 DEF MainGoes, Quiet
  <2>4. UNCHANGED <<photos, blurred, save>>
    BY <1>8 DEF DestroyImage, Erasing
  <2> QED
    BY <2>3, <2>4 DEF MainInv, AtMostOneMain, OnlyFirstMain, SomeMain, CountHolds
<1>9. CASE Erasing /\ ~DestroyImage
  BY <1>9, MainTakesOver DEF Erasing
<1>10. CASE Dies
  <2>1. erasing' = Quiet /\ save'.step # "counted" /\ UNCHANGED photos
        /\ (blurred' <=> blurred \/ MainGoes)
    BY <1>1, <1>10 DEF Dies, GalleryDies, MainGoes
  <2> QED
    BY <2>1 DEF MainInv, AtMostOneMain, OnlyFirstMain, SomeMain, CountHolds, MainGoes
<1> QED
  BY <1>2, <1>3, <1>4, <1>5, <1>6, <1>7, <1>8, <1>9, <1>10, NextIs, MainCounted, MainWritten

-----------------------------------------------------------------------------
(* The images.  An image pasted by a URL that was no new one apart, each is  *)
(* in one place: a row, the hand of the save, or the deletion of a photo;    *)
(* what a final deletion remembers is none of the hand's, and is what is     *)
(* left of the product once its rows are gone.                               *)

Apart(s, A) == \A i, j \in DOMAIN s : s[i] = s[j] /\ s[i] \notin A => i = j
Hand        == Range(save.hand) \ again
Doomed      == IF removal.step = "gone" THEN removal.images ELSE {}

RowsApart ==
    \A i, j \in DOMAIN photos :
      photos[i].image = photos[j].image /\ photos[i].image \notin again => i = j

HeldApart ==
    /\ save.own \subseteq Hand
    /\ Hand \cap (Shown \cup Erased \cup removal.images) = {}
    /\ (Erased \cap Shown) \ again = {}

ImagesKept ==
    /\ strays \subseteq stored
    /\ Shown \ again \subseteq stored \ strays
    /\ Hand \subseteq stored \ strays
    /\ (stored \cap Upload) \ strays \subseteq Shown \cup Erased \cup save.own \cup Doomed

ImagesInv == Apart(save.hand, again) /\ RowsApart /\ HeldApart /\ ImagesKept

LEMMA NothingInHand == Range(<<>>) = {} /\ \A A : Apart(<<>>, A)
  BY DEF Range, Apart

LEMMA ApartJoined ==
    ASSUME NEW a \in Seq(Image), NEW b \in Seq(Image), NEW A, Apart(a, A), Apart(b, A),
           Range(a) \cap Range(b) \subseteq A
    PROVE  Apart(a \o b, A)
<1>1. a \o b \in Seq(Image) /\ Len(a \o b) = Len(a) + Len(b)
  OBVIOUS
<1>2. ASSUME NEW i \in DOMAIN (a \o b)
      PROVE  \/ i \in DOMAIN a /\ (a \o b)[i] = a[i]
             \/ i - Len(a) \in DOMAIN b /\ (a \o b)[i] = b[i - Len(a)]
  OBVIOUS
<1> SUFFICES ASSUME NEW i \in DOMAIN (a \o b), NEW j \in DOMAIN (a \o b),
                    (a \o b)[i] = (a \o b)[j], (a \o b)[i] \notin A
             PROVE  i = j
  BY DEF Apart
<1>3. i \in Int /\ j \in Int /\ Len(a) \in Int
  BY <1>1
<1>4. \A k \in DOMAIN a, l \in DOMAIN b : a[k] = b[l] => a[k] \in A
  BY DEF Range
<1>5. CASE i \in DOMAIN a /\ (a \o b)[i] = a[i]
  BY <1>2, <1>4, <1>5 DEF Apart
<1>6. CASE i - Len(a) \in DOMAIN b /\ (a \o b)[i] = b[i - Len(a)]
  <2>1. CASE j \in DOMAIN a /\ (a \o b)[j] = a[j]
    BY <1>4, <1>6, <2>1
  <2>2. CASE j - Len(a) \in DOMAIN b /\ (a \o b)[j] = b[j - Len(a)]
    <3>1. i - Len(a) = j - Len(a)
      BY <1>6, <2>2 DEF Apart
    <3> QED
      BY <1>3, <3>1
  <2> QED
    BY <1>2, <2>1, <2>2
<1> QED
  BY <1>2, <1>5, <1>6

LEMMA ImagesUndisturbed ==
    ASSUME ImagesInv, UNCHANGED <<photos, stored, strays, again, erasing>>,
           save'.hand = save.hand, save'.own = save.own,
           removal'.images \subseteq removal.images, Doomed' = Doomed
    PROVE  ImagesInv'
<1>1. Shown' = Shown /\ Erased' = Erased /\ Hand' = Hand /\ RowsApart' /\ Apart(save'.hand, again')
  BY DEF Shown, Erased, Hand, RowsApart, ImagesInv
<1> QED
  BY <1>1 DEF ImagesInv, HeldApart, ImagesKept

\* New uploads join the hand, or are lost.
LEMMA ImagesUploaded ==
    ASSUME Types, ImagesInv, SavesFiles
    PROVE  ImagesInv'
<1>1. PICK n \in Nat : SaveFiles(n)
  BY DEF SavesFiles
<1>2. PICK s \in Taken(n, InHand \cup again) :
        \/ /\ UploadFiles(s)
           /\ save' = [save EXCEPT !.step = "uploaded", !.hand = s, !.own = Range(s)]
        \/ /\ FilesFail(s)
           /\ save' = NoSave
  BY <1>1 DEF SaveFiles
<1>3. /\ s \in Seq(Image) /\ Range(s) \subseteq Upload
      /\ Range(s) \cap (stored \cup Shown \cup Erased \cup removal.images \cup again) = {}
      /\ Apart(s, again)
  BY <1>2, TakenAreNew DEF InHand, Apart
<1>4. save.hand = <<>> /\ save.own = {} /\ save \in Save
  BY <1>1 DEF SaveFiles, Types, RequestsOK
<1>5. Hand = {}
  BY <1>4, NothingInHand DEF Hand
<1>6. UNCHANGED <<photos, again, erasing, removal>>
  BY <1>1 DEF SaveFiles
<1>7. Shown' = Shown /\ Erased' = Erased /\ Doomed' = Doomed /\ (RowsApart => RowsApart')
  BY <1>6 DEF Shown, Erased, Doomed, RowsApart
<1>8. CASE UploadFiles(s)
           /\ save' = [save EXCEPT !.step = "uploaded", !.hand = s, !.own = Range(s)]
  <2>1. save'.hand = s /\ save'.own = Range(s)
    BY <1>3, <1>4, <1>8 DEF Save
  <2>2. Hand' = Range(s)
    BY <1>3, <1>6, <2>1 DEF Hand
  <2>3. stored' = stored \cup Range(s) /\ strays' = strays
    BY <1>8 DEF UploadFiles
  <2> QED
    BY <1>3, <1>4, <1>5, <1>6, <1>7, <2>1, <2>2, <2>3 DEF ImagesInv, HeldApart, ImagesKept
<1>9. CASE FilesFail(s) /\ save' = NoSave
  <2>1. save'.hand = <<>> /\ save'.own = {}
    BY <1>9 DEF NoSave
  <2>2. Hand' = {}
    BY <2>1, NothingInHand DEF Hand
  <2>3. PICK up \in SUBSET Range(s) : stored' = stored \cup up /\ strays' = strays \cup up
    BY <1>9 DEF FilesFail
  <2> QED
    BY <1>3, <1>4, <1>5, <1>6, <1>7, <2>1, <2>2, <2>3, NothingInHand
       DEF ImagesInv, HeldApart, ImagesKept
<1> QED
  BY <1>2, <1>8, <1>9

\* What is pasted by a new URL: stored, nowhere else, and pasted once.
LEMMA PastedAnew ==
    ASSUME NEW pasted \in Seq(Image), NEW A, Repeated(pasted) \subseteq A
    PROVE  /\ Range(pasted) \ A \subseteq stored \ strays
           /\ (Range(pasted) \ A) \cap (Shown \cup Erased \cup InHand) = {}
           /\ Apart(pasted, A)
<1>1. \A x \in Range(pasted) \ A : x \notin Repeated(pasted)
  OBVIOUS
<1>2. Apart(pasted, A)
  <2> SUFFICES ASSUME NEW i \in DOMAIN pasted, NEW j \in DOMAIN pasted,
                      pasted[i] = pasted[j], pasted[i] \notin A
               PROVE  i = j
    BY DEF Apart
  <2>1. pasted[i] \in Range(pasted) \ A
    BY DEF Range
  <2> QED
    BY <1>1, <2>1 DEF Repeated
<1> QED
  BY <1>1, <1>2 DEF Repeated

\* They join the hand, with the photos of other sites.
LEMMA ImagesImported ==
    ASSUME Types, ImagesInv, SavesImports
    PROVE  ImagesInv'
<1>1. PICK n \in Nat, pasted \in Seq(Image) : SaveImports(n, pasted)
  BY DEF SavesImports
<1>2. PICK s \in Taken(n, InHand \cup again) :
        \/ /\ UploadFiles(s)
           /\ save' = [save EXCEPT !.step = "ready", !.hand = @ \o s \o pasted,
                                   !.own = @ \cup Range(s)]
           /\ again' = again \cup Repeated(pasted)
        \/ /\ ImportFails(s, save.hand)
           /\ save' = NoSave /\ UNCHANGED again
  BY <1>1 DEF SaveImports
<1>3. /\ s \in Seq(Image) /\ Range(s) \subseteq Upload
      /\ Range(s) \cap (stored \cup Shown \cup Erased \cup removal.images) = {}
      /\ Range(s) \cap Range(save.hand) = {} /\ Range(s) \cap again = {}
      /\ \A A : Apart(s, A)
  <2>1. /\ s \in Seq(Image) /\ Range(s) \subseteq Upload
        /\ Range(s) \cap (stored \cup Shown \cup Erased \cup (InHand \cup again)) = {}
        /\ \A i, j \in 1..Len(s) : s[i] = s[j] => i = j
    BY <1>2, TakenAreNew
  <2>2. \A A : Apart(s, A)
    BY <2>1 DEF Apart
  <2> QED
    BY <2>1, <2>2 DEF InHand
<1>4. /\ save \in Save /\ save.hand \in Seq(Image)
      /\ Range(save.hand) = save.own /\ save.own \subseteq Upload
  BY <1>1 DEF SaveImports, Types, RequestsOK, Save
<1>5. Hand = Range(save.hand)
  BY <1>4 DEF Hand, ImagesInv, HeldApart
<1>6. UNCHANGED <<photos, erasing, removal>>
  BY <1>1 DEF SaveImports
<1>7. Shown' = Shown /\ Erased' = Erased /\ Doomed' = Doomed
  BY <1>6 DEF Shown, Erased, Doomed
<1>8. CASE /\ UploadFiles(s)
           /\ save' = [save EXCEPT !.step = "ready", !.hand = @ \o s \o pasted,
                                   !.own = @ \cup Range(s)]
           /\ again' = again \cup Repeated(pasted)
  <2>1. Range(pasted) \subseteq Library \cup Foreign \cup Shown
    BY <1>1 DEF SaveImports
  <2>2. again \subseteq again' /\ Repeated(pasted) \subseteq again'
    BY <1>8
  <2> DEFINE fresh == Range(pasted) \ again'
  <2>3. /\ fresh \subseteq stored \ strays
        /\ fresh \cap (Shown \cup Erased \cup InHand) = {}
        /\ Apart(pasted, again')
    <3> DEFINE A == again'
    <3>1. Repeated(pasted) \subseteq A
      BY <2>2
    <3> HIDE DEF A
    <3>2. /\ Range(pasted) \ A \subseteq stored \ strays
          /\ (Range(pasted) \ A) \cap (Shown \cup Erased \cup InHand) = {}
          /\ Apart(pasted, A)
      BY <3>1, PastedAnew
    <3> QED
      BY <3>2 DEF A
  <2>4. Repeated(pasted) \subseteq Range(pasted)
    BY DEF Repeated
  <2>5. Range(save.hand) \cap again' = {} /\ Range(s) \cap again' = {}
    <3>1. (Range(save.hand) \cup Range(s)) \cap Range(pasted) = {}
      BY <1>3, <1>4, <1>5, <2>1, GalleryAssumption DEF ImagesInv, HeldApart
    <3>2. (Range(save.hand) \cup Range(s)) \cap again = {}
      BY <1>3, <1>5 DEF Hand
    <3> QED
      BY <1>8, <2>4, <3>1, <3>2
  <2>6. save.hand \o s \in Seq(Image) /\ save.hand \o s \o pasted \in Seq(Image)
    BY <1>3, <1>4
  <2>7. save'.hand = save.hand \o s \o pasted /\ save'.own = save.own \cup Range(s)
    BY <1>3, <1>4, <1>8, <2>6 DEF Save
  <2>8. Apart(save.hand, again') /\ (RowsApart => RowsApart')
    BY <1>6, <2>2 DEF ImagesInv, Apart, RowsApart
  <2>9. /\ Range(save.hand \o s) = Range(save.hand) \cup Range(s)
        /\ Apart(save.hand \o s, again')
    BY <1>3, <1>4, <2>8, Joined, ApartJoined
  <2>10. /\ Range(save'.hand) = Range(save.hand) \cup Range(s) \cup Range(pasted)
         /\ Apart(save'.hand, again')
    <3>1. Range((save.hand \o s) \o pasted) = Range(save.hand \o s) \cup Range(pasted)
      BY <2>6, Joined
    <3>2. Range(save.hand \o s) \cap Range(pasted) \subseteq again'
      BY <1>3, <1>4, <1>5, <2>1, <2>9, GalleryAssumption DEF ImagesInv, HeldApart
    <3>3. Apart((save.hand \o s) \o pasted, again')
      BY <2>3, <2>6, <2>9, <3>2, ApartJoined
    <3> QED
      BY <2>7, <2>9, <3>1, <3>3
  <2>11. Hand' = Hand \cup Range(s) \cup fresh
    BY <1>5, <2>5, <2>10 DEF Hand
  <2>12. stored' = stored \cup Range(s) /\ strays' = strays
    BY <1>8 DEF UploadFiles
  <2>13. fresh \cap removal.images = {}
    BY <2>3 DEF InHand
  <2> HIDE DEF fresh
  <2>14. HeldApart'
    BY <1>3, <1>4, <1>5, <1>6, <1>7, <2>2, <2>3, <2>7, <2>11, <2>13
       DEF ImagesInv, HeldApart
  <2>15. ImagesKept'
    BY <1>3, <1>7, <2>2, <2>3, <2>7, <2>11, <2>12 DEF ImagesInv, ImagesKept
  <2> QED
    BY <2>8, <2>10, <2>14, <2>15 DEF ImagesInv
<1>9. CASE ImportFails(s, save.hand) /\ save' = NoSave /\ UNCHANGED again
  <2>1. save'.hand = <<>> /\ save'.own = {}
    BY <1>9 DEF NoSave
  <2>2. Hand' = {} /\ (RowsApart => RowsApart')
    BY <1>6, <1>9, <2>1, NothingInHand DEF Hand, RowsApart
  <2>3. PICK late \in SUBSET Range(s), kept \in SUBSET Hand :
          /\ stored' = (stored \ Hand) \cup late \cup kept
          /\ strays' = strays \cup late \cup kept
    BY <1>5, <1>9 DEF ImportFails
  <2> QED
    BY <1>3, <1>4, <1>5, <1>6, <1>7, <1>9, <2>1, <2>2, <2>3, NothingInHand
       DEF ImagesInv, HeldApart, ImagesKept
<1> QED
  BY <1>2, <1>8, <1>9

\* The hand becomes rows.
LEMMA ImagesWritten ==
    ASSUME Types, ImagesInv, SavesWrite
    PROVE  ImagesInv'
<1>1. /\ save \in Save /\ photos \in Seq(Photo) /\ save.hand \in Seq(Image)
      /\ Len(photos) \in Nat
  BY DEF Types, RequestsOK, TypeOK, GalleryTypeOK, Save
<1>2. PICK e \in BOOLEAN : e <=> save.new \/ save.none
  OBVIOUS
<1>3. (save.new \/ save.none) = e
  BY <1>1, <1>2 DEF Save
<1>4. photos' = Appended(save.hand, e)
  BY <1>3, WriteIs, Zenon
<1>5. /\ photos' \in Seq(Photo)
      /\ Len(photos') = Len(photos) + Len(save.hand)
      /\ \A j \in 1..Len(photos) : photos'[j] = photos[j]
      /\ \A j \in 1..Len(save.hand) : photos'[Len(photos) + j].image = save.hand[j]
  <2> DEFINE rows == Appended(save.hand, e)
  <2>1. /\ rows \in Seq(Photo)
        /\ Len(rows) = Len(photos) + Len(save.hand)
        /\ \A j \in 1..Len(photos) : rows[j] = photos[j]
        /\ \A j \in 1..Len(save.hand) :
             /\ rows[Len(photos) + j].image = save.hand[j]
             /\ rows[Len(photos) + j].main <=> e /\ j = 1
    BY <1>1, RowsAdded, Zenon
  <2>2. photos' = rows
    BY <1>4
  <2> HIDE DEF rows
  <2> QED
    BY <2>1, <2>2, Zenon
<1>6. save'.hand = <<>> /\ save'.own = {} /\ UNCHANGED <<stored, strays, again, erasing, removal>>
  <2>1. NoSave.hand = <<>> /\ NoSave.own = {}
    BY DEF NoSave
  <2> QED
    BY <2>1, WriteIs
<1>7. ASSUME NEW j \in DOMAIN photos'
      PROVE  \/ j \in DOMAIN photos /\ photos'[j].image = photos[j].image
             \/ j - Len(photos) \in DOMAIN save.hand
                /\ photos'[j].image = save.hand[j - Len(photos)]
  <2>1. CASE j <= Len(photos)
    BY <1>1, <1>5, <2>1
  <2>2. CASE ~(j <= Len(photos))
    <3>1. PICK k \in 1..Len(save.hand) : j = Len(photos) + k
      <4>1. j - Len(photos) \in 1..Len(save.hand)
        BY <1>1, <1>5, <2>2
      <4> QED
        BY <1>1, <1>5, <4>1
    <3>2. j - Len(photos) = k /\ k \in DOMAIN save.hand
      BY <1>1, <3>1
    <3> QED
      BY <1>5, <3>1, <3>2
  <2> QED
    BY <2>1, <2>2
<1>8. Shown' = Shown \cup Range(save.hand)
  <2>1. \A j \in DOMAIN photos : j \in DOMAIN photos' /\ photos'[j].image = photos[j].image
    BY <1>1, <1>5
  <2>2. ASSUME NEW j \in DOMAIN save.hand
        PROVE  /\ Len(photos) + j \in DOMAIN photos'
               /\ photos'[Len(photos) + j].image = save.hand[j]
    <3>1. j \in 1..Len(save.hand) /\ Len(save.hand) \in Nat
      BY <1>1
    <3> QED
      BY <1>1, <1>5, <3>1
  <2>3. Shown' \subseteq Shown \cup Range(save.hand)
    BY <1>7 DEF Shown, Range
  <2>4. Shown \subseteq Shown'
    BY <2>1 DEF Shown
  <2>5. Range(save.hand) \subseteq Shown'
    BY <2>2 DEF Shown, Range
  <2> QED
    BY <2>3, <2>4, <2>5
<1>9. \A k \in DOMAIN photos, l \in DOMAIN save.hand :
        photos[k].image = save.hand[l] => save.hand[l] \in again
  BY DEF ImagesInv, HeldApart, Hand, Shown, Range
<1>10. RowsApart'
  <2> SUFFICES ASSUME NEW i \in DOMAIN photos', NEW j \in DOMAIN photos',
                      photos'[i].image = photos'[j].image, photos'[i].image \notin again
               PROVE  i = j
    BY <1>6 DEF RowsApart
  <2>1. i \in Int /\ j \in Int
    BY <1>5
  <2>2. CASE i \in DOMAIN photos /\ photos'[i].image = photos[i].image
    BY <1>7, <1>9, <2>2 DEF ImagesInv, RowsApart
  <2>3. CASE i - Len(photos) \in DOMAIN save.hand
             /\ photos'[i].image = save.hand[i - Len(photos)]
    <3>1. CASE j \in DOMAIN photos /\ photos'[j].image = photos[j].image
      BY <1>9, <2>3, <3>1
    <3>2. CASE j - Len(photos) \in DOMAIN save.hand
               /\ photos'[j].image = save.hand[j - Len(photos)]
      <4>1. i - Len(photos) = j - Len(photos)
        BY <2>3, <3>2 DEF ImagesInv, Apart
      <4> QED
        BY <1>1, <2>1, <4>1
    <3> QED
      BY <1>7, <3>1, <3>2
  <2> QED
    BY <1>7, <2>2, <2>3
<1>11. Hand' = {} /\ Erased' = Erased /\ Doomed' = Doomed
  BY <1>6, NothingInHand DEF Hand, Erased, Doomed
<1>12. Shown' \ again = (Shown \ again) \cup Hand /\ save.own \subseteq Range(save.hand)
  BY <1>8 DEF Hand, ImagesInv, HeldApart
<1>13. HeldApart'
  BY <1>6, <1>11, <1>12 DEF ImagesInv, HeldApart
<1>14. ImagesKept'
  BY <1>6, <1>8, <1>11, <1>12 DEF ImagesInv, ImagesKept, Hand
<1> QED
  BY <1>6, <1>10, <1>13, <1>14, NothingInHand DEF ImagesInv

\* The rows of a product that goes.
LEMMA ImagesRemoved ==
    ASSUME Types, OneEditor, NothingLeft, ImagesInv, Shelves
    PROVE  ImagesInv'
<1>1. removal \in Removal /\ (removal.step = "none" => removal = NoRemoval)
      /\ NoRemoval.step = "none" /\ NoRemoval.images = {}
  BY DEF Types, RequestsOK, NoRemoval
<1>2. CASE SetActive
  BY <1>2, ImagesUndisturbed DEF SetActive, gallery, Doomed
<1>3. CASE RemovalRead
  <2>1. removal'.step = "read" /\ removal'.images = Shown /\ removal = NoRemoval
    BY <1>3 DEF RemovalRead
  <2>2. UNCHANGED <<photos, stored, strays, again, erasing, save>>
    BY <1>3 DEF RemovalRead, gallery
  <2>3. Shown' = Shown /\ Erased' = Erased /\ Hand' = Hand /\ RowsApart'
    BY <2>2 DEF Shown, Erased, Hand, RowsApart, ImagesInv
  <2>4. Doomed' = Doomed
    BY <1>1, <2>1 DEF Doomed
  <2> QED
    BY <2>1, <2>2, <2>3, <2>4 DEF ImagesInv, HeldApart, ImagesKept
<1>4. CASE RemovalWrites
  <2>1. removal'.step = "gone" /\ removal'.images = removal.images /\ removal.step = "read"
    BY <1>1, <1>4 DEF RemovalWrites, Removal
  <2>2. photos' = <<>> /\ UNCHANGED <<stored, again, erasing, save>>
        /\ strays' = strays \cup ((Upload \cap stored \cap Shown) \ removal.images)
    BY <1>4 DEF RemovalWrites
  <2>3. Shown' = {} /\ Erased' = Erased /\ Hand' = Hand /\ RowsApart' /\ Apart(save'.hand, again')
    BY <2>2 DEF Shown, Erased, Hand, RowsApart, ImagesInv
  <2>4. Doomed' = removal.images /\ Doomed = {}
    BY <2>1 DEF Doomed
  <2> QED
    BY <2>1, <2>2, <2>3, <2>4 DEF ImagesInv, HeldApart, ImagesKept
<1>5. CASE RemovalRefused
  <2>1. Doomed' = {} /\ Doomed = {} /\ removal'.images = {}
    BY <1>1, <1>5 DEF RemovalRefused, Doomed
  <2> QED
    BY <1>5, <2>1, ImagesUndisturbed DEF RemovalRefused, gallery
<1>6. CASE RemovalEnds
  <2>1. PICK kept \in SUBSET (removal.images \cap Upload) : DestroyImages(removal.images, kept)
    BY <1>6 DEF RemovalEnds
  <2>2. /\ kept \subseteq removal.images \cap stored
        /\ stored' = stored \ (removal.images \ kept)
        /\ strays' = (strays \ removal.images) \cup (kept \cap Upload)
    BY <2>1 DEF DestroyImages
  <2>3. UNCHANGED <<photos, again, erasing, save>> /\ removal' = NoRemoval
    BY <1>6 DEF RemovalEnds
  <2>4. photos = <<>>
    BY <1>6 DEF RemovalEnds, OneEditor, NothingLeft
  <2>5. Shown = {}
    BY <2>4 DEF Shown
  <2>6. Shown' = {} /\ Erased' = Erased /\ Hand' = Hand /\ RowsApart' /\ Apart(save'.hand, again')
    BY <2>3, <2>4 DEF Shown, Erased, Hand, RowsApart, ImagesInv
  <2>7. Doomed = removal.images /\ Doomed' = {}
    BY <1>1, <1>6, <2>3 DEF RemovalEnds, Doomed
  <2>8. HeldApart'
    BY <1>1, <2>3, <2>6 DEF ImagesInv, HeldApart
  <2>9. ImagesKept'
    BY <2>2, <2>3, <2>5, <2>6, <2>7 DEF ImagesInv, HeldApart, ImagesKept
  <2> QED
    BY <2>6, <2>8, <2>9 DEF ImagesInv
<1> QED
  BY <1>2, <1>3, <1>4, <1>5, <1>6 DEF Shelves

\* The rows change their main photo, or lose one.
LEMMA ImagesRelabelled ==
    ASSUME photos \in Seq(Photo), photos' \in Seq(Photo), Len(photos') = Len(photos),
           \A j \in 1..Len(photos) : photos'[j].image = photos[j].image
    PROVE  Shown' = Shown /\ (UNCHANGED again /\ RowsApart => RowsApart')
<1>1. DOMAIN photos' = DOMAIN photos /\ \A j \in DOMAIN photos : photos'[j].image = photos[j].image
  OBVIOUS
<1>2. Shown' = Shown
  BY <1>1 DEF Shown
<1>3. UNCHANGED again /\ RowsApart => RowsApart'
  BY <1>1 DEF RowsApart
<1> QED
  BY <1>2, <1>3

LEMMA ImageDeleted ==
    ASSUME Types, ImagesInv, NEW i \in DOMAIN photos, DeleteRow(i), UNCHANGED <<save, removal>>
    PROVE  ImagesInv'
<1>1. photos \in Seq(Photo) /\ i \in 1..Len(photos) /\ Len(photos) \in Nat
  BY DEF Types, TypeOK, GalleryTypeOK
<1>2. /\ photos' \in Seq(Photo) /\ Len(photos') = Len(photos) - 1
      /\ \A j \in 1..(Len(photos) - 1) : photos'[j] = photos[IF j < i THEN j ELSE j + 1]
  BY <1>1, RowGone DEF DeleteRow
<1>3. ASSUME NEW j \in DOMAIN photos'
      PROVE  \E k \in DOMAIN photos : /\ k # i /\ photos'[j] = photos[k]
                                      /\ k = IF j < i THEN j ELSE j + 1
  BY <1>1, <1>2
<1>4. ASSUME NEW j \in DOMAIN photos, j # i
      PROVE  \E k \in DOMAIN photos' : photos'[k] = photos[j]
  <2>1. CASE j < i
    BY <1>1, <1>2, <2>1
  <2>2. CASE j > i
    <3>1. j - 1 \in 1..(Len(photos) - 1) /\ ~(j - 1 < i) /\ (j - 1) + 1 = j
      BY <1>1, <2>2
    <3> QED
      BY <1>2, <3>1
  <2> QED
    BY <1>1, <1>4, <2>1, <2>2
<1>5. RowsApart'
  <2> SUFFICES ASSUME NEW j \in DOMAIN photos', NEW l \in DOMAIN photos',
                      photos'[j].image = photos'[l].image, photos'[j].image \notin again
               PROVE  j = l
    BY DEF RowsApart, DeleteRow
  <2>1. j \in Int /\ l \in Int
    BY <1>2
  <2>2. PICK k \in DOMAIN photos : photos'[j] = photos[k] /\ k = IF j < i THEN j ELSE j + 1
    BY <1>3
  <2>3. PICK m \in DOMAIN photos : photos'[l] = photos[m] /\ m = IF l < i THEN l ELSE l + 1
    BY <1>3
  <2>4. k = m
    BY <2>2, <2>3 DEF ImagesInv, RowsApart
  <2> QED
    BY <1>1, <2>1, <2>2, <2>3, <2>4
<1> DEFINE x == photos[i].image
<1>6. Erased = {} /\ Erased' = {x} /\ x \in Shown
  BY DEF DeleteRow, Erased, Quiet, Shown
<1>7. Shown' \subseteq Shown
  BY <1>3 DEF Shown
<1>8. Shown \subseteq Shown' \cup {x}
  BY <1>4 DEF Shown
<1>9. x \notin again => x \notin Shown'
  BY <1>3 DEF Shown, ImagesInv, RowsApart
<1>10. Hand' = Hand /\ Doomed' = Doomed /\ UNCHANGED <<stored, strays, again>> /\ Apart(save'.hand, again')
  BY DEF Hand, Doomed, DeleteRow, ImagesInv
<1> HIDE DEF x
<1>11. HeldApart'
  BY <1>6, <1>7, <1>9, <1>10 DEF ImagesInv, HeldApart
<1>12. ImagesKept'
  BY <1>6, <1>7, <1>8, <1>10 DEF ImagesInv, ImagesKept
<1> QED
  BY <1>5, <1>10, <1>11, <1>12 DEF ImagesInv

LEMMA ImagesKeptInv ==
    ASSUME Types, OneEditor, NothingLeft, ImagesInv, [Next]_vars
    PROVE  ImagesInv'
<1>1. save \in Save /\ (save.step = "none" => save = NoSave) /\ NoSave.hand = <<>> /\ NoSave.own = {}
      /\ NoRemoval.step = "none" /\ NoRemoval.images = {}
  BY DEF Types, RequestsOK, NoSave, NoRemoval
<1>2. CASE UNCHANGED vars \/ Customers \/ Forms
  BY <1>2, ImagesUndisturbed
     DEF vars, gallery, Customers, Quote, Place, Sell, GiveBack, Forms, OpenNew, OpenEdit,
         CloseForm, Doomed
<1>3. CASE Submit \/ SaveRefused \/ SaveCounts
  <2>1. save'.hand = save.hand /\ save'.own = save.own
    <3>1. CASE Submit
      <4>1. save'.hand = <<>> /\ save'.own = {}
        BY <3>1 DEF Submit, NoSave
      <4> QED
        BY <1>1, <3>1, <4>1 DEF Submit
    <3>2. CASE SaveRefused
      BY <1>1, <3>2 DEF SaveRefused, Types, RequestsOK
    <3>3. CASE SaveCounts
      BY <1>1, <3>3 DEF SaveCounts, Save
    <3> QED
      BY <1>3, <3>1, <3>2, <3>3
  <2> QED
    BY <1>3, <2>1, ImagesUndisturbed DEF Submit, SaveRefused, SaveCounts, gallery, Doomed
<1>4. CASE SaveFails
  <2>1. PICK kept \in SUBSET save.own : DestroyImages(save.own, kept)
    BY <1>4 DEF SaveFails
  <2>2. save.own \subseteq Upload
    BY <1>1 DEF Save
  <2>3. /\ kept \subseteq stored /\ stored' = stored \ (save.own \ kept)
        /\ strays' = (strays \ save.own) \cup kept
    BY <2>1, <2>2 DEF DestroyImages
  <2>4. save'.hand = <<>> /\ save'.own = {} /\ UNCHANGED <<photos, again, erasing, removal>>
    BY <1>1, <1>4 DEF SaveFails
  <2>5. Shown' = Shown /\ Erased' = Erased /\ Doomed' = Doomed /\ RowsApart' /\ Hand' = {}
    BY <2>4, NothingInHand DEF Shown, Erased, Doomed, RowsApart, ImagesInv, Hand
  <2> QED
    BY <2>3, <2>4, <2>5, NothingInHand DEF ImagesInv, HeldApart, ImagesKept
<1>5. CASE Photos
  <2>1. PICK i \in DOMAIN photos : SetMainImage(i) \/ DeleteRow(i)
    BY <1>5 DEF Photos
  <2>2. CASE SetMainImage(i)
    <3>1. photos \in Seq(Photo)
      BY DEF Types, TypeOK, GalleryTypeOK
    <3>2. Shown' = Shown /\ (UNCHANGED again /\ RowsApart => RowsApart')
      BY <2>2, <3>1, MainMoved, ImagesRelabelled
    <3>3. UNCHANGED <<stored, strays, again, erasing, save, removal>>
      BY <1>5, <2>2 DEF SetMainImage, Photos
    <3>4. Erased' = Erased /\ Doomed' = Doomed /\ Hand' = Hand
      BY <3>3 DEF Erased, Doomed, Hand
    <3> QED
      BY <3>2, <3>3, <3>4 DEF ImagesInv, HeldApart, ImagesKept
  <2>3. CASE DeleteRow(i)
    BY <1>5, <2>3, ImageDeleted DEF Photos
  <2> QED
    BY <2>1, <2>2, <2>3
<1>6. CASE Erasing /\ DestroyImage
  <2>1. PICK kept \in SUBSET Erased : DestroyImages(Erased, kept)
    BY <1>6 DEF DestroyImage
  <2>2. /\ kept \subseteq stored /\ stored' = stored \ (Erased \ kept)
        /\ strays' = (strays \ Erased) \cup (kept \cap Upload)
    BY <2>1 DEF DestroyImages
  <2>3. erasing'.step = "image" /\ UNCHANGED <<photos, again, save, removal>>
    <3>1. erasing \in Erasure
      BY <1>6 DEF DestroyImage, Types, TypeOK, GalleryTypeOK, Quiet
    <3> QED
      BY <1>6, <3>1 DEF DestroyImage, Erasing, Erasure
  <2>4. Shown' = Shown /\ Erased' = {} /\ Doomed' = Doomed /\ RowsApart' /\ Hand' = Hand
        /\ Apart(save'.hand, again')
    BY <2>3 DEF Shown, Erased, Doomed, RowsApart, ImagesInv, Hand
  <2> QED
    BY <2>2, <2>3, <2>4 DEF ImagesInv, HeldApart, ImagesKept
<1>7. CASE Erasing /\ ~DestroyImage
  <2>1. PassMain(Counting) /\ UNCHANGED <<save, removal>>
    BY <1>7 DEF Erasing
  <2>2. photos \in Seq(Photo) /\ erasing \in Erasure
    BY <2>1 DEF Types, TypeOK, GalleryTypeOK, PassMain, Quiet
  <2>3. erasing.main \in BOOLEAN /\ Erased = {} /\ Erased' = {}
    BY <2>1, <2>2 DEF Erasure, PassMain, Erased, Quiet
  <2>4. Shown' = Shown /\ (UNCHANGED again /\ RowsApart => RowsApart')
    BY <2>1, <2>2, <2>3, MainPassed, ImagesRelabelled DEF PassMain
  <2>5. Doomed' = Doomed /\ Hand' = Hand /\ UNCHANGED <<stored, strays, again>>
    BY <2>1 DEF Doomed, Hand, PassMain
  <2> QED
    BY <2>1, <2>3, <2>4, <2>5 DEF ImagesInv, HeldApart, ImagesKept
<1>8. CASE Dies
  <2>1. /\ strays' = strays \cup (Upload \cap stored \cap (Erased \cup (Held \ Shown)))
        /\ save'.hand = <<>> /\ save'.own = {} /\ removal' = NoRemoval /\ erasing' = Quiet
        /\ UNCHANGED <<photos, stored, again>>
    BY <1>1, <1>8 DEF Dies, GalleryDies
  <2>2. Shown' = Shown /\ Erased' = {} /\ Doomed' = {} /\ RowsApart' /\ Hand' = {}
    BY <1>1, <2>1, NothingInHand DEF Shown, Erased, Quiet, Doomed, RowsApart, ImagesInv, Hand
  <2>3. save.own \subseteq Held /\ Doomed \subseteq Held /\ Held \subseteq Hand \cup removal.images
    BY DEF Held, Doomed, ImagesInv, HeldApart
  <2>4. HeldApart' /\ Apart(save'.hand, again')
    BY <1>1, <2>1, <2>2, NothingInHand DEF HeldApart
  <2>5. ImagesKept'
    BY <1>1, <2>1, <2>2, <2>3 DEF ImagesInv, HeldApart, ImagesKept
  <2> QED
    BY <2>2, <2>4, <2>5 DEF ImagesInv
<1> QED
  BY <1>2, <1>3, <1>4, <1>5, <1>6, <1>7, <1>8, NextIs, ImagesUploaded, ImagesImported,
     ImagesWritten, ImagesRemoved

-----------------------------------------------------------------------------
(* The theorems.                                                            *)

CatalogInv == Types /\ OneEditor /\ NothingLeft /\ MainInv /\ ImagesInv

LEMMA CatalogStarts == Init => CatalogInv
<1> SUFFICES ASSUME Init PROVE CatalogInv
  OBVIOUS
<1>1. OneEditor /\ NothingLeft
  BY DEF Init, GalleryInit, OneEditor, NothingLeft, Ordered, NoItem, NoForm, NoSave, NoRemoval
<1>2. MainInv
  BY DEF Init, GalleryInit, MainInv, AtMostOneMain, OnlyFirstMain, SomeMain, CountHolds, MainGoes,
         NoSave
<1>3. /\ photos = <<>> /\ stored = Library /\ strays = {}
      /\ save.hand = <<>> /\ save.own = {} /\ removal.images = {} /\ erasing = Quiet
  BY DEF Init, GalleryInit, NoSave, NoRemoval
<1>4. Hand = {} /\ Erased = {} /\ Shown = {}
  BY <1>3, NothingInHand DEF Hand, Erased, Quiet, Shown
<1>5. ImagesInv
  BY <1>3, <1>4, NothingInHand, GalleryAssumption
     DEF ImagesInv, RowsApart, HeldApart, ImagesKept
<1> QED
  BY <1>1, <1>2, <1>5, InitTypes DEF CatalogInv

LEMMA CatalogSteps == CatalogInv /\ [Next]_vars => CatalogInv'
  BY NextTypes, EditorKept, NothingLeftKept, MainKept, ImagesKeptInv DEF CatalogInv

\* Types, the one editor, the main photo and the whereabouts of every image: the
\* inductive invariant behind the theorems below.
THEOREM CatalogInvariant == Spec => []CatalogInv
  BY CatalogStarts, CatalogSteps, PTL DEF Spec

\* The rows of a product and of its photos, the images at Cloudinary and what
\* its customers ordered stay what they are taken for, whatever is saved,
\* removed, sold or interrupted.
THEOREM CatalogTypeCorrect == Spec => []TypeOK
<1>1. CatalogInv => TypeOK
  BY DEF CatalogInv, Types
<1> QED
  BY <1>1, CatalogInvariant, PTL

\* What is shown is there, but for the images pasted by a URL that was no new one
\* (ImageUploader compares the text of URLs, and two may be of one image); and
\* what the shop pays for at Cloudinary is shown or in the hands of a request,
\* unless Cloudinary failed or the server died.
THEOREM EveryImageAccounted == Spec => []ImagesAccounted
<1>1. CatalogInv => ImagesAccounted
  <2> SUFFICES ASSUME CatalogInv PROVE ImagesAccounted
    OBVIOUS
  <2>1. save.own \subseteq Held /\ Doomed \subseteq Held
    BY DEF Held, Doomed
  <2> QED
    BY <2>1 DEF CatalogInv, ImagesInv, ImagesKept, ImagesAccounted
<1> QED
  BY <1>1, CatalogInvariant, PTL

\* At most one main photo, and one if there are photos and none is going.
THEOREM TheMainPhoto == Spec => []OneMainPhoto
<1>1. CatalogInv => OneMainPhoto
  <2> SUFFICES ASSUME CatalogInv PROVE OneMainPhoto
    OBVIOUS
  <2>1. Cardinality(Mains) <= 1
    <3>1. CASE Mains = {}
      BY <3>1, FS_EmptySet
    <3>2. CASE Mains # {}
      <4>1. PICK i : i \in Mains
        BY <3>2
      <4>2. Mains = {i}
        BY <4>1 DEF Mains, CatalogInv, MainInv, AtMostOneMain
      <4>3. Cardinality({i}) = 1
        BY FS_Singleton
      <4> QED
        BY <4>2, <4>3
    <3> QED
      BY <3>1, <3>2
  <2>2. (photos # <<>> /\ erasing = Quiet /\ ~blurred) => Mains # {}
    BY DEF Mains, CatalogInv, MainInv, SomeMain, MainGoes
  <2> QED
    BY <2>1, <2>2 DEF OneMainPhoto
<1> QED
  BY <1>1, CatalogInvariant, PTL

\* Saving a product over its orders does not take their variant from them.
THEOREM OrdersKeepTheirVariant == Spec => HistoryKept
<1>1. CatalogInv /\ [Next]_vars =>
        [\A o \in Ordered : (item[o].linked /\ ~item'[o].linked) =>
           (save.step = "counted" /\ item[o].key \notin save.sold)]_vars
  BY OneStepKeepsHistory DEF CatalogInv
<1> QED
  BY <1>1, CatalogInvariant, PTL DEF Spec, HistoryKept

=============================================================================
