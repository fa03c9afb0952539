------------------------------ MODULE MCSeoPages ------------------------------
(***************************************************************************)
(* Two flats for sale in one locality and a villa project; changes made    *)
(* one after the other while nobody asks for the routes, or few of them    *)
(* while two requests do.                                                  *)
(***************************************************************************)
EXTENDS SeoPages, TLC

SomeSlug == "p1" :> "/flat-1" @@ "p2" :> "/flat-2" @@ "j1" :> "/villas"
SomeOldSlug == "j1" :> "/green-villas"
SomeGroup == "p1" :> "flats" @@ "p2" :> "flats" @@ "j1" :> "villas"
SomePlace == "p1" :> "Peelamedu" @@ "p2" :> "Peelamedu" @@ "j1" :> "Peelamedu"
SomeAutoPath ==
  <<"flats", "Peelamedu">> :> "/flats-in-peelamedu" @@ <<"flats", "city">> :> "/flats-in-city"

Row(status, units, content) == [status |-> status, units |-> units, content |-> content]
SomeRows ==
  [i \in {"p1", "p2", "j1"} |->
     IF i = "j1" THEN {Row("booked", "taken", {"photos"}), Row("booked", "none", {}), Row("draft", "free", {"photos"}), Row("archived", "free", {"photos"}), Row("published", "taken", {})}
     ELSE IF i = "p1" THEN {Row("pending", "none", {"photos"}), Row("unavailable", "none", {"photos"})}
     ELSE {Row("sold", "none", {"photos"})}]

\* Of the addresses of automatic pages only listing pages make use.
SomeRules ==
  {[group |-> "flats", place |-> "Peelamedu", min |-> 2, guard |-> TRUE, pinned |-> FALSE],
   [group |-> "flats", place |-> "city", min |-> 2, guard |-> TRUE, pinned |-> TRUE],
   [group |-> "villas", place |-> "city", min |-> 1, guard |-> TRUE, pinned |-> FALSE]}
Setting(index, canonical) == [s \in {"photos"} |-> [index |-> index, canonical |-> canonical]]
Form(path, index, canonical, auto, sections) ==
  [path |-> path, index |-> index, canonical |-> canonical, auto |-> auto, sections |-> sections]
New == Form("/new", TRUE, "self", TRUE, Setting("", ""))
SomeForms ==
  {Form("/flat-1", TRUE, "self", TRUE, Setting("no", "self")), New,
   Form("/new", TRUE, "self", FALSE, Setting("yes", "parent")), Form("/new", FALSE, "self", TRUE, Setting("", "self")),
   Form("/villas", TRUE, "custom", TRUE, Setting("", "")), Form("/flats-in-peelamedu", TRUE, "self", TRUE, Setting("", ""))}

VARIABLE part   \* whether a behaviour is about the pages or about the routes

\* Only listing pages use the addresses of automatic pages.
OwnAddresses == \A i \in Inventory : configs'[i].path \notin {SomeAutoPath[g] : g \in DOMAIN SomeAutoPath}

\* A change of every kind that touches the routes.
FewEdits ==
  \/ SaveRedirect("/flat-1", "/flat-2") \/ RemoveRedirect("/flat-1")
  \/ SavePage("p2", New)
  \/ \E k \in Listings : RemoveListing(k) \/ SaveListing(k, New, CHOOSE r \in SomeRules : r.group = "villas")

MCInit == SeoPagesInit /\ part \in {"pages", "routes"}
MCNext ==
  /\ \/ part = "pages" /\ Edit /\ OwnAddresses
     \/ part = "routes" /\ FewEdits
     \/ part = "routes" /\ Route
  /\ UNCHANGED part
MCSpec == MCInit /\ [][MCNext]_<<seoVars, part>>
Callers2 == Permutations(Callers)
=============================================================================
