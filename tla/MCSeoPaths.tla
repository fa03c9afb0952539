------------------------------ MODULE MCSeoPaths ------------------------------
EXTENDS SeoPaths, TLC

CONSTANTS flat, ad, slug, photos, x

\* One flat with a CRM slug, and a listing page without.
FlatSlug == [k \in {flat} |-> slug]

\* A form that names a section for the photos, and one that does not.
PhotosOrNot == {photos :> x, <<>>}
Nothing == {<<>>}

Symmetry ==
  Permutations(Sources \ {slug}) \cup Permutations(Paths \ (Sources \cup {slug})) \cup Permutations(Clients)
=============================================================================
