--------------------------- MODULE MCSearchIndex ---------------------------
EXTENDS SearchIndex, TLC

Symmetry == Permutations(Contents) \union Permutations(Calls)
=============================================================================
