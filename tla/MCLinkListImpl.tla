--------------------------- MODULE MCLinkListImpl ---------------------------
(* The small instance of LinkListImpl that TLC checks.                     *)
EXTENDS LinkListImpl, TLC

CONSTANTS n1, n2, n3, n4, d1, d2, d3, d4

MCNode == {n1, n2, n3, n4}
MCData == {d1, d2, d3, d4}

\* Neither node addresses nor data pointers are ever ordered.
MCSymmetry == Permutations(MCNode) \cup Permutations(MCData)
=============================================================================
