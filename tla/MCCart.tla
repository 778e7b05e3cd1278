------------------------------- MODULE MCCart -------------------------------
(* Two pages, and one line with size and color.                             *)
EXTENDS Cart, TLC

CONSTANT shirt

const_Line == {shirt}
const_Asks == (shirt :> 2)

Pages == Permutations({One, Two})

\* Bounds: a line that was mixed, or both lost and doubled, says nothing more;
\* with two pages, no request outlives its page.
Tells == /\ \E l \in Line : l \notin mixed \cup (short \cap doubled)
         /\ plain \/ calls["left"] = NoCall

=============================================================================
