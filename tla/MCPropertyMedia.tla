---------------------------- MODULE MCPropertyMedia ----------------------------
EXTENDS PropertyMedia, TLC

\* Files, staff members and properties are interchangeable.
Symmetry == Permutations(Uploads) \cup Permutations(Editors) \cup Permutations(Properties)
=============================================================================
