----------------------------- MODULE MCListings -----------------------------
EXTENDS Listings, TLC

Home(type, possession, price, created) ==
  [texts |-> {possession}, slug |-> type, words |-> {type, possession}, type |-> type, deal |-> "Sell", possession |-> possession, bedrooms |-> 2, sublocation |-> "rs puram",
   price |-> price, city |-> "coimbatore", condition |-> "", created |-> created, units |-> {}]
Unit(price, free) == [price |-> price, rent |-> 0, deal |-> "Sell", bedrooms |-> 3, free |-> free]
Site(possession, units, created) ==
  [Home("villa", possession, 0, created) EXCEPT !.slug = "villas", !.units = units]

\* 2 and 6 have the type of 3, and 1 all else; it is a type no project has.  4 and
\* 5 are projects.
SomeFacts ==
  1 :> Home("apartment", "ready", 8, 1) @@ 2 :> [Home("office", "", 20, 1) EXCEPT !.slug = "second", !.bedrooms = 3, !.sublocation = ""]
  @@ 3 :> Home("office", "ready", 8, 1)
  @@ 4 :> Site("ready", {Unit(10, TRUE), Unit(6, FALSE)}, 1) @@ 5 :> Site("ready", {Unit(30, FALSE)}, 2)
  @@ 6 :> [Home("office", "ready", 8, 1) EXCEPT !.slug = "third", !.texts = {}]

SomeQueries ==
  {NoQuery, [NoQuery EXCEPT !.sort = TRUE, !.max = 20], [NoQuery EXCEPT !.type = "villa", !.bedrooms = 3],
   [NoQuery EXCEPT !.text = "ready"],
   [NoQuery EXCEPT !.type = "office", !.text = "ready", !.sort = TRUE], [NoQuery EXCEPT !.type = "office"]}
SomePicks == {<<>>, <<3>>, <<2, 3>>, <<5>>}
\* A slug, an older one of the same home, one of another website, one of a project.
SomePaths ==
  {[slug |-> "apartment", type |-> "apartment", id |-> 1, words |-> {"apartment", "ready"}],
   [slug |-> "flat", type |-> "office", id |-> 3, words |-> {"flat", "ready"}],
   [slug |-> "other", type |-> "office", id |-> 2, words |-> {"other"}],
   [slug |-> "villas", type |-> "", id |-> 0, words |-> {"villas"}]}
RequestSymmetry == Permutations(Requests)

SomeMixes == {{"handpicked_properties", "featured_projects", "replace"}, {"wishlist", "toggle"}, {"similar"}, {"page"}, {"detail"}}
=============================================================================
