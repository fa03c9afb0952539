------------------------------- MODULE SeoPages -------------------------------
(***************************************************************************)
(* What the SEO engine tells visitors and crawlers (seo-engine.service.ts):*)
(* what it answers for a path, which paths the sitemaps list, and the      *)
(* routes it keeps in memory for the front end.  The CRM changes the       *)
(* inventory behind its back.  One status stands for those the engine does *)
(* not tell apart: "pending" for a property not approved, "draft" for one  *)
(* not published, "sold" for sold and rented.  There is one city.  Texts,  *)
(* structured data, the fixed pages and the automatic pages by bedrooms    *)
(* are left out, and so is that the CRM makes a record or changes a slug.  *)
(***************************************************************************)
EXTENDS Naturals, FiniteSets

CONSTANTS
  Properties, Projects,
  Listings,        \* config keys of explicit listing pages
  Paths, NoPath,
  Slug,            \* inventory -> the path of its CRM slug (of a project: canonical_slug)
  OldSlug,         \* project -> the path of its column slug, which leads to it too
  Group,           \* inventory -> its type and whether it is sold or let
  Place,           \* inventory -> its locality
  City,            \* the place that is all localities together
  AutoPath,        \* <<group of properties, place>> -> the path of its automatic page
  Sections,        \* sub-pages of a page: photos, floor plans, ...
  Rows,            \* inventory -> the rows the CRM may save
  Rules,           \* the rules of listing pages
  PageForms,           \* what editors may save: [path, index, canonical, auto, sections]
  Callers,         \* requests for the routes that may be under way together
  Life,            \* seconds the routes are kept
  MaxClock, MaxChanges   \* bounds of the model

Inventory == Properties \union Projects
Keys == Inventory \union Listings
Groups == {Group[i] : i \in Inventory}
Automated == {Group[i] : i \in Properties}   \* only of properties there are automatic pages
Localities == {Place[i] : i \in Inventory}
Areas == Localities \union {City}

ASSUME SeoPagesAssumption ==
  /\ Properties \cap Projects = {} /\ Inventory \cap Listings = {}
  /\ NoPath \notin Paths \union Inventory /\ City \notin Localities /\ "" \notin Sections
  /\ Slug \in [Inventory -> Paths] /\ OldSlug \in [Projects -> Paths]
  /\ AutoPath \in [Automated \X Areas -> Paths]
  /\ \A g, h \in Automated \X Areas : AutoPath[g] = AutoPath[h] => g = h
  /\ Life \in Nat /\ IsFiniteSet(Inventory)
  /\ \A f \in PageForms : f.path \in Paths /\ f.index \in BOOLEAN

\* A setting that says nothing leaves it to the template, and that to the default.
Unsaid == [index |-> "", canonical |-> ""]
Silent == [s \in Sections |-> Unsaid]
NoRule == [group |-> "", place |-> "", min |-> 0, guard |-> FALSE, pinned |-> FALSE]
NoConfig == [path |-> NoPath, index |-> TRUE, canonical |-> "self", auto |-> TRUE, sections |-> Silent, rule |-> NoRule]
NoRow == [status |-> "deleted", units |-> "none", content |-> {}]

VARIABLES
  stock,       \* rows of properties and projects: [status, units, content]; the
               \* units of a project are "none", all "taken" or some "free"
  configs,     \* seo_configs with their seo_listing_pages
  templates,   \* section settings of the templates, by group
  redirects,   \* active seo_redirects: source -> destination
  activeAreas, \* the localities that are, and the city if it is
  routingCache,   \* [routes, expires, raced]
  calls,       \* routing() of each caller: what its two queries returned
  unseen,      \* changes committed whose request has not emptied the cache yet
  clock, changes

tables == <<stock, configs, templates, redirects, activeAreas>>
routing == <<routingCache, calls, unseen, clock>>
seoVars == <<tables, routing, changes>>

Exists(k) == configs[k].path # NoPath
InStock(i) == stock[i] # NoRow
Slugs(i) == {Slug[i]} \union IF i \in Projects THEN {OldSlug[i]} ELSE {}

-----------------------------------------------------------------------------
(* Listing pages *)

Live(i) ==
  IF i \in Properties THEN stock[i].status \in {"available", "sold"}
  ELSE \/ stock[i].status = "published" /\ stock[i].units = "free"
       \/ stock[i].status = "booked" /\ stock[i].units # "none"

\* matchingInventory: what a rule's page shows.
Matching(rule) == {i \in Inventory : Live(i) /\ Group[i] = rule.group /\ rule.place \in {City, Place[i]}}

\* inferRule: the rule of an automatic page, if path is the path of one, in a
\* city and locality that are active.
Inferred(path) ==
  {[group |-> g[1], place |-> g[2], min |-> 2, guard |-> TRUE, pinned |-> FALSE] :
     g \in {h \in Automated \X activeAreas : AutoPath[h] = path /\ City \in activeAreas}}

Thin(rule) == rule.guard /\ ~rule.pinned /\ Cardinality(Matching(rule)) < rule.min

-----------------------------------------------------------------------------
(* resolve *)

None == [kind |-> "none", path |-> NoPath, item |-> NoPath, index |-> FALSE, self |-> FALSE]
Gone == [None EXCEPT !.kind = "gone"]
RedirectTo(path) == [None EXCEPT !.kind = "redirect", !.path = path]

Hidden(i) == ~InStock(i) \/ stock[i].status \in {"pending", "draft"}
PathOf(i) == IF Exists(i) THEN configs[i].path ELSE Slug[i]

\* The page of an inventory record: at its own path, which the others lead to
\* unless its editor has said otherwise.
ItemPage(i, path) ==
  IF Hidden(i) THEN Gone
  ELSE IF PathOf(i) # path /\ configs[i].auto THEN RedirectTo(PathOf(i))
  ELSE [kind |-> "page", path |-> PathOf(i), item |-> i, index |-> configs[i].index,
        self |-> configs[i].canonical = "self" /\ PathOf(i) = path]

ListingPage(rule, c, path) ==
  [kind |-> "page", path |-> path, item |-> NoPath, index |-> c.index /\ ~Thin(rule), self |-> c.canonical = "self"]

\* A listing page saved without a rule of its own has that of the automatic page.
RuleAt(k, path) ==
  IF configs[k].rule = NoRule /\ Inferred(path) # {} THEN CHOOSE r \in Inferred(path) : TRUE ELSE configs[k].rule

\* An explicit address goes before a CRM slug, that before an automatic page.
Resolve(path) ==
  LET own == {k \in Keys : Exists(k) /\ configs[k].path = path}
      slugged == {i \in Inventory : InStock(i) /\ path \in Slugs(i)}
      first == IF slugged \cap Properties # {} THEN slugged \cap Properties ELSE slugged
  IN IF redirects[path] # NoPath THEN RedirectTo(redirects[path])
     ELSE IF own # {} THEN LET k == CHOOSE x \in own : TRUE IN
            IF k \in Listings THEN ListingPage(RuleAt(k, path), configs[k], path) ELSE ItemPage(k, path)
     ELSE IF slugged # {} THEN ItemPage(CHOOSE i \in first : TRUE, path)
     ELSE IF Inferred(path) # {} THEN ListingPage(CHOOSE r \in Inferred(path) : TRUE, NoConfig, path)
     ELSE None

\* mergeSections: the default, over it the template, over it the page's own.
Merged(i, s) ==
  LET Said(f) == IF configs[i].sections[s][f] # "" THEN configs[i].sections[s][f] ELSE templates[Group[i]][s][f]
  IN [index |-> Said("index") # "no", self |-> Said("canonical") \in {"", "self"}]

\* resolveSection: a sub-page is found through its page.
ResolveSection(path, s) ==
  LET root == Resolve(path) IN
  IF root.kind # "page" THEN root
  ELSE IF root.item = NoPath THEN None
  ELSE [root EXCEPT !.index = root.index /\ Merged(root.item, s).index, !.self = Merged(root.item, s).self]

-----------------------------------------------------------------------------
(* The sitemaps *)

\* Groups and places with two live properties: the query looks at no city or
\* locality being active.
Automatic == {g \in Automated \X Areas :
  Cardinality({i \in Properties : Live(i) /\ Group[i] = g[1] /\ g[2] \in {City, Place[i]}}) >= 2}

ExplicitPaths == {configs[k].path : k \in {l \in Listings : Exists(l)}}

LocalityPaths ==
  ({AutoPath[g] : g \in Automatic} \ ExplicitPaths)
    \union {p \in ExplicitPaths : Resolve(p).kind = "page" /\ Resolve(p).index /\ Resolve(p).self}

Listed(i) == InStock(i) /\ stock[i].status \notin {"pending", "draft"} /\ configs[i].index /\ configs[i].canonical = "self"

\* Faulty variant: the template is not asked.
SectionListedAlone(i, s) ==
  /\ s \in stock[i].content
  /\ configs[i].sections[s].canonical \in {"", "self"} /\ configs[i].sections[s].index # "no"

\* Only sub-pages with something to show; those of archived projects have not.
SectionListed(i, s) ==
  /\ s \in stock[i].content /\ stock[i].status # "archived"
  /\ Merged(i, s).self /\ Merged(i, s).index

\* sitemapEntries of all groups; section "" is the page itself.
Sitemap ==
  LET items == {i \in Inventory : Listed(i)}
  IN {e \in {[path |-> p, section |-> ""] : p \in LocalityPaths \union {PathOf(i) : i \in items}} : redirects[e.path] = NoPath}
     \union UNION {{[path |-> PathOf(i), section |-> s] : s \in {t \in Sections : SectionListed(i, t)}} : i \in items}

-----------------------------------------------------------------------------
Routes == [redirects |-> redirects, paths |-> {configs[k].path : k \in {j \in Keys : Exists(j)}}]

NoCall == [under |-> FALSE, redirects |-> {}, paths |-> {}, raced |-> FALSE]

SeoPagesInit ==
  /\ stock = [i \in Inventory |->
       IF i \in Projects THEN [status |-> "published", units |-> "free", content |-> Sections]
       ELSE [status |-> "available", units |-> "none", content |-> Sections]]
  /\ configs = [k \in Keys |-> NoConfig]
  /\ templates = [g \in Groups |-> Silent]
  /\ redirects = [p \in Paths |-> NoPath]
  /\ activeAreas = Areas
  /\ routingCache = [routes |-> Routes, expires |-> 0, raced |-> FALSE]
  /\ calls = [c \in Callers |-> NoCall]
  /\ unseen = 0 /\ clock = 0 /\ changes = 0

Change == changes < MaxChanges /\ changes' = changes + 1

-----------------------------------------------------------------------------
(* The CRM *)

\* A record is saved; one that was waiting for approval may have got it.
CrmSave(i, row) ==
  /\ InStock(i) /\ row # stock[i] /\ Change
  /\ stock' = [stock EXCEPT ![i] = row]
  /\ UNCHANGED <<configs, templates, redirects, activeAreas, routing>>

\* The config stays, without its record (ON DELETE SET NULL).
CrmDelete(i) ==
  /\ InStock(i) /\ Change
  /\ stock' = [stock EXCEPT ![i] = NoRow]
  /\ UNCHANGED <<configs, templates, redirects, activeAreas, routing>>

\* updateStatus of a locality or, in the same words, of the city.
CrmArea(a) ==
  /\ Change
  /\ activeAreas' = IF a \in activeAreas THEN activeAreas \ {a} ELSE activeAreas \union {a}
  /\ UNCHANGED <<stock, configs, templates, redirects, routing>>

-----------------------------------------------------------------------------
(* The SEO users.  The request empties the cache when its transaction is   *)
(* over, which is a step of its own.                                       *)

Committed ==
  /\ Change
  /\ unseen' = unseen + 1
  /\ calls' = [c \in Callers |-> [calls[c] EXCEPT !.raced = calls[c].under]]
  /\ UNCHANGED <<stock, activeAreas, routingCache, clock>>

Free(path, k) ==
  /\ \A j \in Keys \ {k} : Exists(j) => configs[j].path # path
  /\ redirects[path] = NoPath
  /\ \A i \in Inventory \ {k} : InStock(i) => path \notin Slugs(i)

\* persistConfig; the former path of the page leads to the new one.
Save(k, f, sections, rule) ==
  /\ Free(f.path, k)
  /\ configs' = [configs EXCEPT ![k] =
       [path |-> f.path, index |-> f.index, canonical |-> f.canonical, auto |-> f.auto, sections |-> sections, rule |-> rule]]
  /\ LET former == IF Exists(k) THEN configs[k].path ELSE IF k \in Inventory THEN Slug[k] ELSE f.path
     IN redirects' = IF f.auto /\ former # f.path THEN [redirects EXCEPT ![former] = f.path] ELSE redirects
  /\ UNCHANGED templates
  /\ Committed

\* saveConfig, of a page of the inventory or of a listing page without its rule.
SavePage(k, f) ==
  IF k \in Listings THEN Save(k, f, Silent, configs[k].rule)
  ELSE (InStock(k) \/ Exists(k)) /\ Save(k, f, f.sections, NoRule)

SaveTemplate(g, sections) ==
  /\ templates' = [templates EXCEPT ![g] = sections]
  /\ UNCHANGED <<configs, redirects>>
  /\ Committed

\* saveListing: one page for each group and place.
SaveListing(k, f, rule) ==
  /\ \A l \in Listings \ {k} : Exists(l) => <<configs[l].rule.group, configs[l].rule.place>> # <<rule.group, rule.place>>
  /\ Save(k, f, Silent, rule)

\* It asks for the rule, by its id.
RemoveListing(k) ==
  /\ configs[k].rule # NoRule
  /\ configs' = [configs EXCEPT ![k] = NoConfig]
  /\ UNCHANGED <<templates, redirects>>
  /\ Committed

\* The destination is known; that it does not lead back is SeoPaths' concern.
SaveRedirect(source, dest) ==
  /\ source # dest /\ redirects[dest] = NoPath
  /\ Resolve(dest).kind # "none"
  /\ redirects' = [redirects EXCEPT ![source] = dest]
  /\ UNCHANGED <<configs, templates>>
  /\ Committed

RemoveRedirect(source) ==
  /\ redirects[source] # NoPath
  /\ redirects' = [redirects EXCEPT ![source] = NoPath]
  /\ UNCHANGED <<configs, templates>>
  /\ Committed

\* Faulty variant: the cache is left to its time.
InvalidateLater ==
  /\ unseen > 0 /\ unseen' = unseen - 1
  /\ UNCHANGED <<tables, calls, routingCache, clock, changes>>

Invalidate ==
  /\ unseen > 0 /\ unseen' = unseen - 1
  /\ routingCache' = [routingCache EXCEPT !.expires = 0]
  /\ UNCHANGED <<tables, calls, clock, changes>>

-----------------------------------------------------------------------------
(* routing *)

ClockTick == clock < MaxClock /\ clock' = clock + 1 /\ UNCHANGED <<tables, routingCache, calls, unseen, changes>>

\* Without a cache every caller asks the database, and nobody waits for another.
StartRouting(c) ==
  /\ ~calls[c].under /\ routingCache.expires <= clock
  /\ calls' = [calls EXCEPT ![c] = [NoCall EXCEPT !.under = TRUE]]
  /\ UNCHANGED <<tables, routingCache, unseen, clock, changes>>

\* The two queries see the tables at different times.
ReadRedirects(c) ==
  /\ calls[c].under /\ calls[c].redirects = {}
  /\ calls' = [calls EXCEPT ![c].redirects = {redirects}]
  /\ UNCHANGED <<tables, routingCache, unseen, clock, changes>>

ReadPaths(c) ==
  /\ calls[c].under /\ calls[c].paths = {}
  /\ calls' = [calls EXCEPT ![c].paths = {Routes.paths}]
  /\ UNCHANGED <<tables, routingCache, unseen, clock, changes>>

StoreRoutes(c) ==
  /\ calls[c].redirects # {} /\ calls[c].paths # {}
  /\ routingCache' =
       [routes |-> [redirects |-> CHOOSE r \in calls[c].redirects : TRUE, paths |-> CHOOSE p \in calls[c].paths : TRUE],
        expires |-> clock + Life, raced |-> calls[c].raced]
  /\ calls' = [calls EXCEPT ![c] = NoCall]
  /\ UNCHANGED <<tables, unseen, clock, changes>>

\* Steps that change the tables.
Edit ==
  \/ \E i \in Inventory :
       \/ CrmDelete(i)
       \/ \E row \in Rows[i] : CrmSave(i, row)
  \/ \E k \in Keys, f \in PageForms : SavePage(k, f)
  \/ \E a \in Areas : CrmArea(a)
  \/ \E g \in Groups, f \in PageForms : SaveTemplate(g, f.sections)
  \/ \E k \in Listings : RemoveListing(k) \/ \E f \in PageForms, rule \in Rules : SaveListing(k, f, rule)
  \/ \E source, dest \in Paths : SaveRedirect(source, dest)
  \/ \E source \in Paths : RemoveRedirect(source)

\* Steps that do not.
Route ==
  \/ ClockTick \/ Invalidate
  \/ \E c \in Callers : StartRouting(c) \/ ReadRedirects(c) \/ ReadPaths(c) \/ StoreRoutes(c)

SeoPagesNext == Edit \/ Route

SeoPagesSpec == SeoPagesInit /\ [][SeoPagesNext]_seoVars

-----------------------------------------------------------------------------
(* Properties *)

\* Every page a sitemap lists is one that crawlers may index, at that very
\* address: the sitemaps and resolve compute it apart.  Excepted are, as the
\* README says, automatic pages of places that are not active, and sections
\* of pages whose address an administrator redirects.
SitemapIndexable ==
  \A e \in Sitemap :
    \/ LET page == IF e.section = "" THEN Resolve(e.path) ELSE ResolveSection(e.path, e.section)
       IN page.kind = "page" /\ page.path = e.path /\ page.index /\ page.self
    \/ e.section # "" /\ redirects[e.path] # NoPath
    \/ \E g \in Automatic : AutoPath[g] = e.path /\ {g[2], City} \ activeAreas # {}

\* The routes in memory are those of the tables as soon as a change has emptied
\* the cache.  Only what a request read while a change was committed may be
\* older.
RoutesFresh ==
  routingCache.expires > clock => routingCache.routes = Routes \/ routingCache.raced \/ unseen > 0
=============================================================================
