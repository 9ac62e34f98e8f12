--------------------------- MODULE MCSearchService ---------------------------
(* Small instances of SearchService for TLC: ranks 0 to 3 under K = 60.       *)
EXTENDS SearchService, TLC

CONSTANTS i1, i2, i3, blank, x

\* The empty text matches nothing.
MCRelevance(t) == IF t = blank THEN 0 ELSE 1

Symmetry == Permutations({i1, i2, i3})
=============================================================================
