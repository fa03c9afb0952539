------------------------------- MODULE Listings -------------------------------
(***************************************************************************)
(* What the site shows of its properties and projects: the sections of the *)
(* home page (showcases), the rails of similar listings, the listing pages *)
(* and the wishlist.  Every one of them reads the database several times   *)
(* for one answer, while the CRM changes what is live.                     *)
(*                                                                         *)
(* A listing is live (available and approved; published), taken (sold or   *)
(* rented; booked: still on the listing pages), retired (archived: its     *)
(* page still opens), hidden (not approved; draft), or gone.               *)
(***************************************************************************)
EXTENDS Integers, Sequences, FiniteSets, SequencesExt, FiniteSetsExt

CONSTANTS
  Homes, Sites,          \* ids of properties and of projects; no number is both
  Facts,                 \* what is stored of each
  Guests, Requests,
  Queries, PickLists,
  Paths,                 \* [slug, type and id of its suffix, words]: what visitors ask for
  FallbackLimit, SameTypePool, OtherTypePool, SimilarLimit, PageSize, MaxItems,
  Wished,                \* listings that are put on wishlists
  Mixes,                 \* kinds of requests that occur together
  MaxEdits, MaxRows, MaxReaders, MaxUnlive  \* bounds of the model

ASSUME HomesAndSites ==
  /\ Homes \subseteq Nat \ {0} /\ IsFiniteSet(Homes)
  /\ Sites \subseteq Nat \ {0} /\ IsFiniteSet(Sites)
  /\ Homes \intersect Sites = {}
ASSUME LimitsAreOfSome == {FallbackLimit, SameTypePool, OtherTypePool, SimilarLimit, PageSize} \subseteq Nat \ {0}
ASSUME FactsAreNumbers ==
  \A l \in Homes \union Sites :
    /\ Facts[l].price \in Nat /\ Facts[l].created \in Nat
    /\ \A u \in Facts[l].units : u.price \in Nat /\ u.rent \in Nat
ASSUME PicksAreLists == PickLists \subseteq Seq(Homes \union Sites)

VARIABLES
  status,                \* of each listing
  picks,                 \* showcase_items: the ids of each section, in order
  saved, nextRow,        \* saved_listings: [row, guest, listing]
  req,                   \* the requests being answered
  edits, mix

listingVars == <<status, picks, saved, nextRow, req, edits, mix>>

Listings == Homes \union Sites
Sections == {"handpicked_properties", "featured_projects"}
KindOf(section) == IF section = "handpicked_properties" THEN Homes ELSE Sites

Live == {l \in Listings : status[l] = "live"}
Public == {l \in Listings : status[l] \in {"live", "taken"}}
Open == {l \in Listings : status[l] \in {"live", "taken", "retired"}}

\* A set in order, given what of it comes before each element.
InOrder(before) ==
  [k \in 1..Cardinality(DOMAIN before) |-> CHOOSE x \in DOMAIN before : Cardinality(before[x]) = k - 1]

First(s, n) == SubSeq(s, 1, IF Len(s) < n THEN Len(s) ELSE n)

\* The elements of s that are in S, in their order.
Only(s, S) ==
  LET I == {i \in DOMAIN s : s[i] \in S}
      order == InOrder([i \in I |-> {j \in I : j < i}])
  IN [k \in DOMAIN order |-> s[order[k]]]

\* Newest first; an id is given when the row is created.
Newest(S, n) == First(InOrder([l \in S |-> {m \in S : m > l}]), n)

-----------------------------------------------------------------------------
(* Ranking *)

\* What is not known is "", 0 or no unit.
Same(a, b) == a # "" /\ a = b
WithinBand(price, target) ==
  price # 0 /\ target # 0 /\ 4 * price <= 5 * target /\ 4 * price >= 3 * target

HomeCriteria(b, c) ==
  << Same(b.type, c.type), Same(b.deal, c.deal), Same(b.possession, c.possession),
     b.bedrooms # 0 /\ b.bedrooms = c.bedrooms, Same(b.sublocation, c.sublocation),
     WithinBand(c.price, b.price), Same(b.city, c.city), Same(b.condition, c.condition) >>

\* computeProjectRanges: of the units that are free.
Prices(f) == {u.price : u \in {v \in f.units : v.free}} \ {0}
Bhk(f) == {u.bedrooms : u \in {v \in f.units : v.free}} \ {0}

PricesOverlap(b, c) == b # {} /\ c # {} /\ 4 * Min(c) <= 5 * Max(b) /\ 4 * Max(c) >= 3 * Min(b)

SiteCriteria(b, c) ==
  << Same(b.type, c.type), Same(b.possession, c.possession), Bhk(b) \intersect Bhk(c) # {},
     Same(b.sublocation, c.sublocation), PricesOverlap(Prices(b), Prices(c)), Same(b.city, c.city) >>

Criteria(b, c) == IF b \in Homes THEN HomeCriteria(Facts[b], Facts[c]) ELSE SiteCriteria(Facts[b], Facts[c])

\* There are eight criteria, or six.
Points(m, i, n) == IF i \in DOMAIN m /\ m[i] THEN n ELSE 0

\* Faulty variant: points that lower criteria can outweigh.
ScorePoints(m) ==
  Points(m, 1, 8) + Points(m, 2, 7) + Points(m, 3, 6) + Points(m, 4, 5)
    + Points(m, 5, 4) + Points(m, 6, 3) + Points(m, 7, 2) + Points(m, 8, 1)

\* Each criterion outweighs those below it together.
Score(m) ==
  Points(m, 1, 128) + Points(m, 2, 64) + Points(m, 3, 32) + Points(m, 4, 16)
    + Points(m, 5, 8) + Points(m, 6, 4) + Points(m, 7, 2) + Points(m, 8, 1)

Closer(base, a, b) ==
  LET sa == Score(Criteria(base, a)) sb == Score(Criteria(base, b)) IN sa > sb \/ (sa = sb /\ a > b)

RankByPriority(base, candidates) ==
  LET C == candidates \ {base} IN First(InOrder([a \in C |-> {b \in C : Closer(base, b, a)}]), SimilarLimit)

-----------------------------------------------------------------------------
(* The listing pages *)

\* Projects are of these types; a search for another type is one for properties alone.
PROJECT_TYPES == {"apartment", "villa", "plot"}
Delegated(q) == q.type # "" /\ q.type \notin PROJECT_TYPES

\* A filter that is not given is "" or 0.
HomeFits(q, l) ==
  LET f == Facts[l] IN
  /\ q.text # "" => q.text \in f.texts
  /\ q.type # "" => f.type = q.type
  /\ q.deal # "" => f.deal = q.deal
  /\ q.place # "" => q.place \in {f.city, f.sublocation}
  /\ q.max # 0 => f.price <= q.max
  /\ q.bedrooms # 0 => f.bedrooms >= q.bedrooms

\* A project is for sale unless rents are asked for.
Ask(q, u) == IF q.deal = "Rent" THEN u.rent ELSE u.price

OfferedUnits(q, l) ==
  {u \in Facts[l].units :
     /\ u.free \/ status[l] = "taken"
     /\ u.deal = IF q.deal = "Rent" THEN "Rent" ELSE "Sell"
     /\ q.max # 0 => Ask(q, u) <= q.max
     /\ q.bedrooms # 0 => u.bedrooms >= q.bedrooms}

SiteFits(q, l) ==
  /\ Facts[l].type \in PROJECT_TYPES
  /\ q.type # "" => Facts[l].type = q.type
  /\ q.text # "" => q.text \in Facts[l].texts
  /\ q.place # "" => q.place \in {Facts[l].city, Facts[l].sublocation}
  /\ OfferedUnits(q, l) # {}

Found(q) ==
  {l \in Homes \intersect Public : HomeFits(q, l)}
    \union {l \in Sites \intersect Public : ~Delegated(q) /\ SiteFits(q, l)}

SortValue(q, l) == IF l \in Homes THEN Facts[l].price ELSE Min({Ask(q, u) : u \in OfferedUnits(q, l)})

\* Faulty variant: rows created at the same time have no order.
BeforeUntied(q, a, b) ==
  IF q.sort /\ SortValue(q, a) # SortValue(q, b) THEN SortValue(q, a) < SortValue(q, b)
  ELSE Facts[a].created > Facts[b].created

\* ORDER BY price, created_at DESC, kind ASC, id DESC: projects come first.  The
\* search for properties alone orders by price or by created_at DESC, and pages
\* by the key as well.
Before(q, a, b) ==
  IF q.sort /\ SortValue(q, a) # SortValue(q, b) THEN SortValue(q, a) < SortValue(q, b)
  ELSE IF Delegated(q) /\ q.sort THEN a < b
  ELSE IF Facts[a].created # Facts[b].created THEN Facts[a].created > Facts[b].created
  ELSE IF Delegated(q) THEN a < b
  ELSE IF (a \in Sites) # (b \in Sites) THEN a \in Sites
  ELSE a > b

\* What the database may answer: it chooses between rows that are not ordered.
Orders(q) ==
  {s \in SetToSeqs(Found(q)) : \A i, j \in DOMAIN s : i < j => ~Before(q, s[j], s[i])}

PageOf(s, page) ==
  SubSeq(s, (page - 1) * PageSize + 1, IF page * PageSize < Len(s) THEN page * PageSize ELSE Len(s))

-----------------------------------------------------------------------------
(* Requests *)

NoQuery == [text |-> "", type |-> "", deal |-> "", place |-> "", max |-> 0, bedrooms |-> 0, sort |-> FALSE]
None == [kind |-> "none", step |-> "", who |-> 0, ids |-> <<>>, got |-> <<>>, todo |-> {}, part |-> {},
         page |-> 0, upto |-> 0, q |-> NoQuery, wished |-> FALSE, indexed |-> FALSE, seen |-> {}]

ListingsInit ==
  /\ status \in [Listings -> {"live", "taken", "retired", "hidden"}]
  /\ Cardinality(Listings \ Live) <= MaxUnlive
  /\ picks = [s \in Sections |-> <<>>]
  /\ saved = {} /\ nextRow = 1
  /\ req = [r \in Requests |-> None]
  /\ edits = 0 /\ mix \in Mixes

\* Requests that read do not disturb one another.
Reading == {r \in Requests : req[r].kind \notin {"none", "toggle", "replace"}}

\* The CRM publishes, hides, sells or removes a listing.
Edit ==
  /\ edits < MaxEdits
  /\ \E l \in {k \in Listings : status[k] # "gone"} :
       \E s \in {"live", "taken", "retired", "hidden", "gone"} \ {status[l]} :
         /\ status' = [status EXCEPT ![l] = s]
         /\ req' = [r \in Requests |->
                      IF r \notin Reading THEN req[r] ELSE [req[r] EXCEPT !.seen = @ \union {<<l, s>>}]]
  /\ edits' = edits + 1
  /\ UNCHANGED <<picks, saved, nextRow, mix>>

SeenNow == {<<l, status[l]>> : l \in Listings}

Begins(kind, step) ==
  [None EXCEPT !.kind = kind, !.step = step, !.seen = SeenNow]

Read(r) ==
  /\ req[r] = None /\ Cardinality(Reading) < MaxReaders
  /\ \/ \E s \in Sections \intersect mix : req' = [req EXCEPT ![r] = Begins(s, "ids")]
     \/ /\ "similar" \in mix
        /\ \E b \in Listings : req' = [req EXCEPT ![r] = [Begins("similar", "base") EXCEPT !.who = b]]
     \/ /\ "wishlist" \in mix
        /\ \E g \in Guests : req' = [req EXCEPT ![r] = [Begins("wishlist", "rows") EXCEPT !.who = g]]
     \/ /\ "page" \in mix
        /\ \E q \in Queries :
             req' = [req EXCEPT ![r] = [Begins("page", "keys") EXCEPT !.q = q, !.page = 1]]
     \/ /\ "detail" \in mix
        /\ \E step \in {"slug", "id", "project"}, p \in Paths :
             req' = [req EXCEPT ![r] = [Begins("detail", step) EXCEPT !.todo = {p}]]
  /\ UNCHANGED <<status, picks, saved, nextRow, edits, mix>>

Write(r) ==
  /\ req[r] = None
  /\ \/ /\ "toggle" \in mix
        /\ \E g \in Guests, l \in Wished :
             req' = [req EXCEPT ![r] = [None EXCEPT !.kind = "toggle", !.step = "find", !.who = g, !.ids = <<l>>]]
     \/ /\ "replace" \in mix
        /\ \E s \in Sections, ids \in PickLists :
             /\ IsInjective(ids) /\ Len(ids) <= MaxItems /\ ToSet(ids) \subseteq KindOf(s)
             /\ req' = [req EXCEPT ![r] = [None EXCEPT !.kind = "replace", !.step = "check", !.ids = ids, !.q.type = s]]
  /\ UNCHANGED <<status, picks, saved, nextRow, edits, mix>>

\* The caller has its answer.
Finish(r) ==
  /\ req[r].step = "done"
  /\ req' = [req EXCEPT ![r] = None]
  /\ UNCHANGED <<status, picks, saved, nextRow, edits, mix>>

At(r, kinds, step) == req[r].kind \in kinds /\ req[r].step = step
Become(r, q) == req' = [req EXCEPT ![r] = q] /\ UNCHANGED <<status, picks, saved, nextRow, edits, mix>>

\* Showcases: handpickedProperties, featuredProjects.
ReadPicks(r) ==
  /\ At(r, Sections, "ids")
  /\ LET ids == picks[req[r].kind] IN
       Become(r, [req[r] EXCEPT !.ids = ids, !.step = IF ids = <<>> THEN "fallback" ELSE "load"])

\* Faulty variant: the picks are loaded by id alone.
LoadPicksAll(r) ==
  /\ At(r, Sections, "load")
  /\ LET got == Only(req[r].ids, {l \in Listings : status[l] # "gone"}) IN
       Become(r, [req[r] EXCEPT !.got = got, !.step = IF got = <<>> THEN "fallback" ELSE "done"])

\* Faulty variant: picks that are no longer live leave the section empty.
LoadPicksOnly(r) ==
  /\ At(r, Sections, "load")
  /\ Become(r, [req[r] EXCEPT !.got = Only(req[r].ids, Live), !.step = "done"])

LoadPicks(r) ==
  /\ At(r, Sections, "load")
  /\ LET got == Only(req[r].ids, Live) IN
       Become(r, [req[r] EXCEPT !.got = got, !.step = IF got = <<>> THEN "fallback" ELSE "done"])

Fallback(r) ==
  /\ At(r, Sections, "fallback")
  /\ LET S == IF req[r].kind = "featured_projects" THEN Sites \intersect Live
              ELSE {l \in Homes \intersect Live : Facts[l].type = "apartment"}
     IN Become(r, [req[r] EXCEPT !.got = Newest(S, FallbackLimit), !.step = "done"])

\* Similar listings: live ones of the city, and of the deal.
Comparable(b) ==
  {l \in (Live \ {b}) \intersect (IF b \in Homes THEN Homes ELSE Sites) :
     /\ Facts[l].city = Facts[b].city
     /\ b \in Homes => Facts[l].deal = Facts[b].deal}
SameType(b) == {l \in Listings : Facts[l].type = Facts[b].type}

ReadBase(r) ==
  /\ At(r, {"similar"}, "base")
  /\ Become(r, [req[r] EXCEPT !.step =
        IF status[req[r].who] = "gone" \/ Facts[req[r].who].city = "" THEN "done" ELSE "same"])

ReadSameType(r) ==
  /\ At(r, {"similar"}, "same")
  /\ LET b == req[r].who IN
       Become(r, [req[r] EXCEPT !.step = "other",
                                !.ids = Newest(Comparable(b) \intersect SameType(b), SameTypePool)])

ReadOtherType(r) ==
  /\ At(r, {"similar"}, "other")
  /\ LET b == req[r].who
         pool == ToSet(req[r].ids) \union ToSet(Newest(Comparable(b) \ SameType(b), OtherTypePool))
     IN Become(r, [req[r] EXCEPT !.part = pool, !.got = RankByPriority(b, pool), !.step = "done"])

\* Detail pages.  A path that is the slug of no property may still name one
\* by the type and id at its end, if half the words of the slug are in it.
PathOf(r) == CHOOSE p \in req[r].todo : TRUE
Describes(p, l) ==
  LET W == Facts[l].words IN IF W = {} THEN p.words = {} ELSE 2 * Cardinality(W \intersect p.words) >= Cardinality(W)

ReadSlug(r) ==
  /\ At(r, {"detail"}, "slug")
  /\ LET S == {l \in Open \intersect Homes : Facts[l].slug = PathOf(r).slug} IN
     \/ S # {} /\ \E l \in S : Become(r, [req[r] EXCEPT !.got = <<l>>, !.step = "rest"])
     \/ S = {} /\ Become(r, [req[r] EXCEPT !.step = "suffix"])

ReadSuffix(r) ==
  /\ At(r, {"detail"}, "suffix")
  /\ LET p == PathOf(r)
         S == {l \in Open \intersect Homes : l = p.id /\ Facts[l].type = p.type /\ Describes(p, l)}
     IN Become(r, IF S = {} THEN None ELSE [req[r] EXCEPT !.got = <<p.id>>, !.step = "rest"])

ReadById(r) ==
  /\ At(r, {"detail"}, "id")
  /\ LET p == PathOf(r)
         S == {l \in Open \intersect Homes : l = p.id /\ Facts[l].type = p.type}
     IN Become(r, IF S = {} THEN None ELSE [req[r] EXCEPT !.got = <<p.id>>, !.step = "rest"])

\* A project's page is hidden only while it is a draft.
ReadProject(r) ==
  /\ At(r, {"detail"}, "project")
  /\ LET S == {l \in Sites : status[l] # "gone" /\ Facts[l].slug = PathOf(r).slug} IN
     \/ \E l \in S : Become(r, IF l \in Open THEN [req[r] EXCEPT !.got = <<l>>, !.step = "rest"] ELSE None)
     \/ S = {} /\ Become(r, None)

\* What hangs on the row is read after it, and missed if it is gone by then.
ReadRest(r) ==
  /\ At(r, {"detail"}, "rest")
  /\ Become(r, [req[r] EXCEPT !.step = "done"])

\* Listing pages: the keys of a page, then its properties and its projects.  A
\* search for properties alone comes here without the index, or if it fails or
\* has no hits for this page.
ReadKeys(r) ==
  /\ At(r, {"page"}, "keys")
  /\ \E s \in Orders(req[r].q) :
       Become(r, [req[r] EXCEPT !.ids = PageOf(s, req[r].page), !.part = {},
                                !.todo = IF Delegated(req[r].q) THEN {Homes} ELSE {Homes, Sites},
                                !.step = "load"])

\* A search for properties alone that has a text asks the index for a page of
\* hits.  What is in the index may be out of date in any way.
ReadHits(r) ==
  /\ At(r, {"page"}, "keys") /\ Delegated(req[r].q) /\ req[r].q.text # ""
  /\ \E n \in 1..PageSize : \E hits \in [1..n -> Homes] :
       /\ IsInjective(hits) /\ (req[r].page - 1) * PageSize + n <= Cardinality(Homes)
       /\ Become(r, [req[r] EXCEPT !.ids = hits, !.part = {}, !.todo = {}, !.indexed = TRUE, !.step = "hits"])

\* Of the hits those are shown that the database shows and that are where and
\* what was asked for: the type, the deal and the text are the index's.
LoadHits(r) ==
  /\ At(r, {"page"}, "hits")
  /\ LET q == [req[r].q EXCEPT !.text = "", !.type = "", !.deal = ""] IN
       Become(r, [req[r] EXCEPT !.part = {l \in ToSet(req[r].ids) \intersect Homes \intersect Public : HomeFits(q, l)},
                                !.step = "load"])

ReadPage(r) ==
  /\ At(r, {"page"}, "load")
  /\ \E kind \in req[r].todo :
       Become(r, [req[r] EXCEPT !.part = @ \union (ToSet(req[r].ids) \intersect kind \intersect Found(req[r].q)),
                                !.todo = @ \ {kind}])

\* The visitor goes on to the next page as long as the pages are full.
NextPage(r) ==
  /\ At(r, {"page"}, "load") /\ req[r].todo = {}
  /\ LET items == Only(req[r].ids, req[r].part) IN
       Become(r, [req[r] EXCEPT !.got = @ \o items, !.page = @ + 1,
                                !.step = IF Len(req[r].ids) < PageSize THEN "done" ELSE "keys"])

\* Wishlist: list.  What is no longer live stays in the list without a card.
RowsOf(g) == {w \in saved : w.guest = g}

ReadRows(r) ==
  /\ At(r, {"wishlist"}, "rows")
  /\ LET R == RowsOf(req[r].who)
         rows == InOrder([w \in R |-> {v \in R : v.row > w.row}]) IN
       Become(r, [req[r] EXCEPT !.ids = [i \in DOMAIN rows |-> rows[i].listing],
                                !.todo = {Homes, Sites}, !.step = "cards"])

ReadCards(r) ==
  /\ At(r, {"wishlist"}, "cards")
  /\ \E kind \in req[r].todo :
       Become(r, [req[r] EXCEPT !.part = @ \union (ToSet(req[r].ids) \intersect kind \intersect Live),
                                !.todo = @ \ {kind}])

ShowCards(r) ==
  /\ At(r, {"wishlist"}, "cards") /\ req[r].todo = {}
  /\ Become(r, [req[r] EXCEPT !.got = Only(req[r].ids, req[r].part), !.step = "done"])

\* Wishlist: toggle.
Rows(g, l) == {w \in RowsOf(g) : w.listing = l}

FindRow(r) ==
  /\ At(r, {"toggle"}, "find")
  /\ LET rows == Rows(req[r].who, Head(req[r].ids)) IN
       Become(r, [req[r] EXCEPT !.upto = nextRow, !.part = {w.row : w \in rows},
                                !.step = IF rows = {} THEN "check" ELSE "delete"])

DeleteRow(r) ==
  /\ At(r, {"toggle"}, "delete")
  /\ saved' = {w \in saved : w.row # Min(req[r].part)}
  /\ req' = [req EXCEPT ![r].step = "done"]
  /\ UNCHANGED <<status, picks, nextRow, edits, mix>>

\* Not found unless it is live.
CheckLive(r) ==
  /\ At(r, {"toggle"}, "check")
  /\ Become(r, IF Head(req[r].ids) \in Live THEN [req[r] EXCEPT !.step = "insert"] ELSE None)

\* Faulty variant: as if the table had no key of guest and listing.
InsertTwice(r) ==
  /\ At(r, {"toggle"}, "insert") /\ nextRow <= MaxRows
  /\ saved' = saved \union {[row |-> nextRow, guest |-> req[r].who, listing |-> Head(req[r].ids)]}
  /\ nextRow' = nextRow + 1
  /\ req' = [req EXCEPT ![r].step = "done", ![r].wished = TRUE]
  /\ UNCHANGED <<status, picks, edits, mix>>

\* INSERT IGNORE: a row that is there stays.
Insert(r) ==
  /\ At(r, {"toggle"}, "insert") /\ nextRow <= MaxRows
  /\ saved' = IF Rows(req[r].who, Head(req[r].ids)) # {} THEN saved
              ELSE saved \union {[row |-> nextRow, guest |-> req[r].who, listing |-> Head(req[r].ids)]}
  /\ nextRow' = nextRow + 1
  /\ req' = [req EXCEPT ![r].step = "done", ![r].wished = TRUE]
  /\ UNCHANGED <<status, picks, edits, mix>>

\* Showcases: replace.  The section is deleted and inserted in one transaction.
CheckPicks(r) ==
  /\ At(r, {"replace"}, "check")
  /\ Become(r, IF \A l \in ToSet(req[r].ids) : status[l] # "gone" THEN [req[r] EXCEPT !.step = "write"] ELSE None)

WritePicks(r) ==
  /\ At(r, {"replace"}, "write")
  /\ picks' = [picks EXCEPT ![req[r].q.type] = req[r].ids]
  /\ req' = [req EXCEPT ![r] = None]
  /\ UNCHANGED <<status, saved, nextRow, edits, mix>>

ListingsNext ==
  \/ Edit
  \/ \E r \in Requests :
       \/ Read(r) \/ Write(r) \/ Finish(r)
       \/ ReadPicks(r) \/ LoadPicks(r) \/ Fallback(r)
       \/ ReadBase(r) \/ ReadSameType(r) \/ ReadOtherType(r)
       \/ ReadSlug(r) \/ ReadSuffix(r) \/ ReadById(r) \/ ReadProject(r) \/ ReadRest(r)
       \/ ReadKeys(r) \/ ReadHits(r) \/ LoadHits(r) \/ ReadPage(r) \/ NextPage(r)
       \/ ReadRows(r) \/ ReadCards(r) \/ ShowCards(r)
       \/ FindRow(r) \/ DeleteRow(r) \/ CheckLive(r) \/ Insert(r)
       \/ CheckPicks(r) \/ WritePicks(r)

ListingsSpec == ListingsInit /\ [][ListingsNext]_listingVars

-----------------------------------------------------------------------------
(* Properties *)

Answered == {r \in Requests : req[r].step = "done" /\ req[r].kind # "toggle"}

\* What listing l was between the start of the request and its answer.
During(r, l) == {s \in {"live", "taken", "retired", "hidden", "gone"} : <<l, s>> \in req[r].seen}

\* What a request may show.
MayShow(kind) ==
  {"live"} \union (IF kind \in {"page", "detail"} THEN {"taken"} ELSE {})
           \union (IF kind = "detail" THEN {"retired"} ELSE {})

\* What is shown was live at some time while its request was answered (on the
\* listing pages: live or taken; a page of its own: not hidden either),
\* however often its status changed between the reads.
OnlyLiveShown ==
  \A r \in Answered, l \in Listings :
    l \in ToSet(req[r].got) =>
      During(r, l) \intersect MayShow(req[r].kind) # {}

\* The home page does not lose a section as long as there is something live
\* for it: a project, or an apartment, that is live all the time.
SectionKept ==
  \A r \in Answered :
    req[r].kind \in Sections /\ req[r].got = <<>> =>
      ~ \E l \in KindOf(req[r].kind) :
          During(r, l) = {"live"} /\ (l \in Homes => Facts[l].type = "apartment")

\* A similar listing that matches a higher criterion is above one that does
\* not, whatever else they match; and what is left out is not above the last.
Above(b, x, y) ==
  LET mx == Criteria(b, x) my == Criteria(b, y) IN
  \E i \in DOMAIN mx : mx[i] /\ ~my[i] /\ \A j \in 1..(i - 1) : mx[j] = my[j]
RailInOrder ==
  \A r \in Answered : req[r].kind = "similar" =>
    LET got == req[r].got IN
    /\ \A i, j \in DOMAIN got : i < j => ~Above(req[r].who, got[j], got[i])
    /\ \A l \in req[r].part \ ToSet(got), i \in DOMAIN got : ~Above(req[r].who, l, got[i])

\* Who pages through a listing that nobody changes meets each match once: all
\* properties and projects of a search over both, all properties of a search
\* for another type.  Not so once a page was one of the index, which may lack
\* matches and whose hits are thinned out after they were cut into pages.
PagesComplete ==
  \A r \in Answered :
    req[r].kind = "page" /\ ~req[r].indexed /\ (\A l \in Listings : Cardinality(During(r, l)) = 1) =>
      IsInjective(req[r].got) /\ ToSet(req[r].got) = Found(req[r].q)

\* A toggle that answers `saved' leaves the listing saved; one that answers
\* `removed' leaves no row of it but one that was stored after it looked,
\* however many clicks overlap.
TogglesTruly ==
  [][\A r \in Requests :
       req[r].kind = "toggle" /\ req'[r].step = "done" /\ req[r].step # "done" =>
         LET rows == {w \in saved' : w.guest = req[r].who /\ w.listing = Head(req[r].ids)} IN
         IF req'[r].wished THEN rows # {} ELSE \A w \in rows : w.row >= req[r].upto]_listingVars
=============================================================================
