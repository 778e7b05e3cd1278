------------------------------ MODULE MCCatalog ------------------------------
(* A product of one size and one color: with none, one or both of them.    *)
EXTENDS Catalog

CONSTANTS u1, u2

\* Images Cloudinary stores are interchangeable.
Symmetry == Permutations(Upload)

=============================================================================
