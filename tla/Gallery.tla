------------------------------ MODULE Gallery ------------------------------
(***************************************************************************)
(* The photos of a product: rows of product_images and the images they     *)
(* show at Cloudinary (admin-products.service.js, cloudinary.utils.js).    *)
(* The database and Cloudinary share no transaction: images are uploaded   *)
(* before the rows are written and destroyed after they are deleted.       *)
(***************************************************************************)
EXTENDS Naturals, FiniteSets, SequencesExt

CONSTANTS
    Upload,    \* bound: images Cloudinary stores for the admin, by public_id
    Library,   \* images the shop's account had before
    Foreign    \* images in somebody else's account there: publicId is empty

Image == Upload \cup Library \cup Foreign

ASSUME GalleryAssumption ==
    /\ IsFiniteSet(Image)
    /\ Upload \cap Library = {} /\ Foreign \cap (Upload \cup Library) = {}

VARIABLES
    photos,    \* the rows, by their order
    stored,    \* what the shop's account at Cloudinary holds
    strays,    \* ghost: held there for nobody, for a reason named below
    again,     \* ghost: pasted by a URL that was no new one of an image held there
    erasing,   \* deleteProductImage between two of its statements, or Quiet
    blurred    \* ghost: the main photo is in doubt, for a reason named below

gallery == <<photos, stored, strays, again, erasing, blurred>>

Quiet   == [step |-> "none"]
Photo   == [image : Image, main : BOOLEAN]
Erasure == [image : Image, main : BOOLEAN, step : {"row", "image"}]
Shown   == {photos[i].image : i \in DOMAIN photos}
Mains   == {i \in DOMAIN photos : photos[i].main}
Erased  == IF erasing.step = "row" THEN {erasing.image} ELSE {}

GalleryTypeOK ==
    /\ photos \in Seq(Photo)
    /\ stored \subseteq Upload \cup Library /\ strays \subseteq Upload
    /\ again \subseteq Image
    /\ erasing \in Erasure \cup {Quiet} /\ blurred \in BOOLEAN

GalleryInit ==
    /\ photos = <<>> /\ stored = Library /\ strays = {} /\ again = {}
    /\ erasing = Quiet /\ blurred = FALSE

-----------------------------------------------------------------------------
(* Cloudinary.                                                              *)

\* Public ids for n uploads: Cloudinary makes up new ones, unlike those it holds
\* and those somebody still knows.
Taken(n, known) ==
    {s \in [1..n -> Upload \ (stored \cup Shown \cup Erased \cup known)] : IsInjective(s)}

\* destroyImages never fails: what Cloudinary keeps is only logged.
DestroyImages(images, kept) ==
    /\ kept \subseteq images \cap stored
    /\ stored' = stored \ (images \ kept)
    /\ strays' = (strays \ images) \cup (kept \cap Upload)

\* uploadProductFiles: nothing is uploaded if one of them is no image; when an
\* upload fails nobody remembers the others.
UploadFiles(s) == stored' = stored \cup Range(s) /\ UNCHANGED strays
FilesFail(s) ==
    \E up \in SUBSET Range(s) :
      /\ up # Range(s)
      /\ stored' = stored \cup up /\ strays' = strays \cup up

\* Mutant: a failed import leaves the files that were uploaded before it.
ImportFailsLazily(s, hand) ==
    \E late \in SUBSET Range(s) :
      /\ late # Range(s)
      /\ stored' = stored \cup late /\ strays' = strays \cup late

\* importRemoteImages: when one fails those already in are destroyed, not
\* those that arrive later; then the caller destroys the uploaded files.
ImportFails(s, hand) ==
    \E late \in SUBSET Range(s), kept \in SUBSET Range(hand) :
      /\ late # Range(s)
      /\ stored' = (stored \ Range(hand)) \cup late \cup kept
      /\ strays' = strays \cup late \cup kept

-----------------------------------------------------------------------------
(* The rows.                                                                *)

\* Mutant: the first photo of every save is a main one.
AppendedAlways(hand, none) ==
    photos \o [i \in DOMAIN hand |-> [image |-> hand[i], main |-> i = 1]]

\* New photos go last; the first one is the main one if the save saw none.
Appended(hand, none) ==
    photos \o [i \in DOMAIN hand |-> [image |-> hand[i], main |-> none /\ i = 1]]

\* setMainImage, one transaction: whatever it was, the main photo is clear now.
SetMainImage(i) ==
    /\ i \in DOMAIN photos /\ ~photos[i].main
    /\ photos' = [j \in DOMAIN photos |-> [photos[j] EXCEPT !.main = j = i]]
    /\ blurred' = FALSE
    /\ UNCHANGED <<stored, strays, again, erasing>>

\* deleteProductImage: the row, then the image, then another main photo.
DeleteRow(i) ==
    /\ erasing = Quiet
    /\ i \in DOMAIN photos
    /\ photos' = RemoveAt(photos, i)
    /\ erasing' = [image |-> photos[i].image, main |-> photos[i].main, step |-> "row"]
    /\ UNCHANGED <<stored, strays, again, blurred>>

DestroyImage ==
    /\ erasing.step = "row"
    /\ \E kept \in SUBSET Erased : DestroyImages(Erased, kept)
    /\ erasing' = [erasing EXCEPT !.step = "image"]
    /\ UNCHANGED <<photos, again, blurred>>

\* The first one left becomes the main photo if the deleted one was.
Passed(main) ==
    IF main /\ photos # <<>> THEN [photos EXCEPT ![1].main = TRUE] ELSE photos

\* counting: a save has seen the photo that is gone and not yet added its own.
PassMain(counting) ==
    /\ erasing.step = "image"
    /\ photos' = Passed(erasing.main)
    /\ blurred' = (blurred \/ (erasing.main /\ photos = <<>> /\ counting))
    /\ erasing' = Quiet
    /\ UNCHANGED <<stored, strays, again>>

\* The process dies: nobody has the images in hand, and no photo takes the
\* place of a main one that was being deleted.
GalleryDies(hand) ==
    /\ erasing' = Quiet
    /\ strays' = strays \cup (Upload \cap stored \cap (Erased \cup hand))
    /\ blurred' = (blurred \/ (erasing # Quiet /\ erasing.main))
    /\ UNCHANGED <<photos, stored, again>>

=============================================================================
