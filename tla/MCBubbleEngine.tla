--------------------------- MODULE MCBubbleEngine ---------------------------
(* Instance of BubbleEngine for TLC. *)
EXTENDS BubbleEngine, TLC

CONSTANTS red, blue

TwoColors == {red, blue}
ColorSymmetry == Permutations(TwoColors)

\* In the top row and in the third, both off the centres of their cells, and
\* right of the field.
SomePoints == {<<20, 16>>, <<95, 73>>, <<130, 70>>}
=============================================================================
