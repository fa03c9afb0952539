# Majestan backend: TLA+ models and proofs

The Majestan backend (NestJS, MySQL, Meilisearch, an S3 bucket) serves a
real-estate website and takes the edits that the CRM and the SEO team make.
Most of its code answers queries. What is hard in it is what several people and
several stores do at once: two editors of one project, a post whose address
changes under its readers, a photo that is a row in the database and an object
in a bucket, a search index beside the tables it copies, a migration that stops
half-way. This directory models those parts, checks them with TLC on small
instances and proves what matters most for every size with TLAPS.

`PROJECT.json` lists the components, the runs, the lines of the source each
definition stands for, the faulty variants with which every property was seen
to fail, the hazards, the findings and the theorems. Paths below are relative
to `src/src`.

## 1. The system

Staff work in the CRM and the SEO command centre; visitors use the website,
whose server calls the public API; property owners register by phone and submit
posts. All requests run in one Node process and meet in the database: a handler
gives way at each `await`, so that between any two of its statements others run.

| Component | State it keeps | Operations | What is hard | What makes it correct |
|---|---|---|---|---|
| Editorial, `modules/editorial` | `blog_posts`, `redirects` of kind blog-slug | create, content save, metadata save with rename, remove, resolve an address | two owners of one row, saves from old revisions, addresses given up and taken again, a redirect manager on the same table | old links lead to their post in one hop; a save happens at once or not at all |
| Projects, `modules/admin/projects` | `projects`, `project_units`, a revision per field and unit | save of fields and units, change of status, removal, form loading | merging a stale form into a newer row | no field or unit is overwritten unseen, nobody is refused without reason |
| SEO engine, `modules/seo-engine` | `seo_configs`, `seo_config_versions`, `seo_templates`, `redirects`; routes in memory | save, restore, duplicate, remove, redirect manager, resolve, sitemaps, routing cache | checks on other rows made before another commit; the same question answered by two pieces of code; a cache filled while tables change | no loop, former paths follow, no version lost, paths unique; sitemaps and pages agree; routes are fresh |
| Properties, `modules/admin/properties`, `modules/owner-post` | `properties` and their details, images, units, documents; objects in the bucket | load, save, owner's submission, status, removal | objects have no transaction, deletions nobody awaits, retries of rolled-back saves | what is shown is stored, an owner can send again, nothing unseen is removed |
| Advertisements, `modules/admin/ads`, `modules/ads` | `ads`; objects in the bucket | create, update, status, remove, reorder, public list | images shared by ads, moves between placements, whole-row saves | images of ads are stored, ads fit their placement |
| Object storage, `modules/storage` | objects under temporary and permanent keys | signed upload, processing of images, deletion | a failing image service is replaced by a fallback | together with its users |
| Search index, `modules/search` | two Meilisearch indexes | index or delete one document, reindex, search | calls not awaited, failures swallowed, reading by offset while rows change | drafts stay out, a quiet index is exact |
| Public listing, `modules/properties` | none | search through the index or the database | hits older than the rows | hidden rows are never listed |
| Home page, showcases, similar listings, listing pages, wishlist | `showcase_items`, `saved_listings` | sections with fallbacks, replacement, rails, filters and pages, toggle | an answer put together from several reads; clicks that overlap | only what was live is shown, no section and no match is lost, a toggle says what it did |
| One-time passwords, accounts, text messages, `modules/auth`, `modules/sms` | `phone_otps`, `users` | request, verify, register, sign in | limits, sending, supersession and use of a code are separate statements that can fail | codes are limited, the last one answered works, a verified phone was proven |
| Leads, `modules/leads` | `leads`; forwardings in memory | record, forward to the CRM, a second attempt | nobody waits for the forwarding; its answer may be lost; restarts; visit dates | a lead reaches the CRM, at most twice; visits lie within three months |
| Google reviews, `modules/reviews` | one cache entry, one fetch in flight | get | fetches that fail or are slow | Google is asked seldom, however many wait |
| Response limit, `common/runtime-guardrails.ts` | four counters, listeners on responses | admit, refuse, release, snapshot, stop | a response may emit finish, close or both | the limit is kept and no slot leaks |
| Legacy import, `database/migrations/1779100000000-*` | the tables of the old and the new site | up and down, statement by statement | no transaction; INSERT IGNORE hides what does not fit; repetition on filled tables | what is imported is complete, the old posts survive |
| Migrations, `database/migrations`, `scripts/*-migration*.ts` | the schema and the table `migrations` | run all, run those of the SEO engine, revert | no transaction; guards that read what earlier statements made | recorded means done; only some can get stuck |
| Cities, sublocations, builders, property SEO, listing page SEO, `modules/admin` | one table each, no revisions | create, update, status, upsert, remove | a row is loaded, asked about and saved in separate statements; TypeORM updates what differs or inserts what is gone | what a save was answered with stays, field by field |
| Admin tables, legacy blogs | single rows, counters, a cache of column names | generic create, update, soft deletion, likes | little: single statements | counters counted in SQL |
| Metadata, enquiries, dashboard, SEO sign-in, guards, throttler, filters, configuration, health | none of their own | per request | none | none |

They interact through calls and shared rows. The SEO engine and Editorial share
`redirects`; property saves call the storage and then, without waiting, the
index, the cache of the front end and the deletion of objects; the public
listing asks the index and then the database; owner posts use the save of
properties; wishlist, showcases, similar listings and home page read the same
rows with the same test for being live. Deleting an object, indexing a row and
refreshing the front end are calls whose failure is logged and forgotten.

## 2. The modules

Each module models one component, has the component's name for what it
describes, and treats as one step what one statement or one transaction makes
atomic. `MC...` modules give TLC values for functions, symmetry sets and bounds,
and put components together for a run; `...Proofs` hold the theorems.

**`Editorial`.** `posts`, `redirects` and the request in progress of each
client. A save is *submit*, *load the row* and *write*, since `updateContent`
and `updateSeo` read the post before they write it under the revision they were
sent; a rename, which locks the row, is one step: it points the post's earlier
redirects at the new address, frees the address it takes and leaves a redirect
behind. The history variable `former` holds the addresses a post was published
under.

**`AtomicSaves`.** What editors are promised, without statements: a row has a
content half and a metadata half, and a save replaces its half and raises the
revision if the row still has the one it names, or is refused. `SavesAtomic` in
`Editorial` maps posts to rows and requests to forms; `PublicProofs` proves
it.

**`ProjectMerge`.** `project` is the row with its units and `fieldRevisions`;
`forms` is what each member of staff has open and was shown. Loading is two
steps, the row and then the units; `update` locks the row and is one. Forms are
of three kinds: those that name the fields and units they change, those that
send whole lists, and those without a revision. A save also writes what
`update` computes from the columns it is sent (`Derived`): the builder's name,
the addresses of the videos, the canonical slug. `PATCH :id/status` and removal
are actions too.

**`SeoPaths`.** `configs`, `versions`, `redirects` and the form or save in progress
of each user. A form is opened with the revision of its row and, for a listing
page, the id of its rule. A save begins a transaction, which locks the row and
checks (`BeginSave`, `BeginRedirect`), and writes (`CommitSave`,
`CommitRedirect`); in between others commit. What a form does not name stays as
it was (`Merged`, for `normalizeSeoInput`); the checks of an address are made
when one is written (`Addresses`), that of the revision when there is a row.
`restore` reads the version and the row before its transaction (`ReadVersion`)
and then saves like a form (`BeginRestore`), so it merges as well. Config keys
are of inventory, which has a path of its own from the CRM slug, or of listing
pages, which can be removed with their rule and made again under a new id
(`created`); a form or a version that names a rule that is gone is refused
(`ListingGone`).

**`SeoPages`.** What the same rows say to visitors and crawlers. `Resolve` and
`ResolveSection` are `resolve` with its redirects, retired inventory, both slugs
of a project, explicit listing pages with and without a rule, automatic ones of
places that are active, the thin-page rule and the settings a section takes
from its page, its template or the default; `Sitemap` is the sitemaps' own
computation over the same tables. Of the CRM the module has saves of status,
units and content, deletion, and places that open and close; it has neither new
records nor changes of slugs. Saves, redirects and the CRM's changes are
steps. A request for the routes reads `redirects` and the paths in two
statements and stores both; every change empties the cache when it commits.

**`PropertyMedia`.** `rows`, the `stored` objects, those `doomed` by a deletion
under way, and the form of every actor. A save begins, processes its files one
by one (`Copy`, or `FallBack` when the image service fails), and commits or is
rolled back. Staff send the version they loaded; owners keep their uploads until
the commit. The slots stand for photos, floor plans and documents, because they
are kept in different tables and cleaned up by different lines.

**`AdMedia`.** `rows`, `stored`, `doomed` and the request `op` of every member
of staff, whose steps are those of `update`: checks, validation of all uploads,
the desktop and then the mobile image, the write, and the deletion of replaced
images that no ad refers to, counted one by one. TypeORM's `save` is two statements:
`SelectAd` reads the row and notes in which columns the loaded and changed
entity differs (`diff`), and `UpdateAd` writes those columns; a row that is gone
is inserted as the entity is (`InsertAd`). What others do in between is neither
seen nor, in other columns, overwritten. `mixed` and `overlapped` are history:
ads written by a request that another one overtook while one of the two moved
the ad, and whether requests ever overlapped.
Placements take two images, one or an optional second one, as
`ad-placement-specs.ts` has it. `reorder` writes nothing but the order and is
left out.

**`AdminRows`.** The panels that load a row, ask other rows about it and save
what they loaded: the `entries` of five tables, the `requests` of users and
`promised`, what answered saves say of each row. TypeORM's `save` is two
statements, `Select` and then `UpdateRow` of the columns in which the entity
differs, or `InsertRow` when there is no such row. Columns that are only copied
are one; sections of property SEO are columns here.

**`SearchIndex`.** `rows`, `index`, the calls under way, the reindex and a
search. An index call reads its row and then sends a document or a deletion; a
reindex empties the index and sends public rows batch by batch with an offset; a
search takes a page of hits, and the database's gate decides about each. `off`
names the rows whose document nobody promises: something overlapped or failed
and no later call has set it right.

**`Listings`.** `status` of every listing, the picks of the sections, the saved
listings and the requests being answered. Each request is the sequence of reads
its handler makes: a section reads its picks, then the cards, then the fallback;
the rail reads the listing, the pool of its type and the other types; a listing
page its keys and then its rows, or, for a type no project has (`Delegated`),
what `PropertiesService.search` reads: the hits of the search index and their
rows (`ReadHits`, `LoadHits`), any hits, or a page of the database; a page of its
own the slug, then the id in the slug, then projects; the wishlist its rows and then the cards of both kinds.
Between any two reads the CRM may change a status. The toggle looks for the
row, and then deletes it or checks that the listing is live and inserts.
Matching, price ranges of projects over their free units and the criteria of the
rail, eight for properties and six for projects, are operators over `Facts`.

**`Accounts`** and **`PhoneAccounts`**. `PhoneAccounts` declares `rows`
(`phone_otps`), `users` and the request of each client, and states what is
promised of them; `Accounts` says how they change.
A request for a code asks the limits, sends, supersedes and inserts; a
verification finds the newest unused code, compares, and writes what it has
read; registration looks for the account and then inserts it under the unique
key. The provider may refuse a message, or take it without its answer arriving;
any statement may fail.

**`Leads`.** `leads`, the forwardings under way (`jobs`), what the CRM has been
told, and a restart that forgets the jobs. Forms are what the four endpoints
accept or refuse, with the arithmetic of visit dates (months of their own
length, years of 366 days).

**`Reviews`.** The cache with its expiry, the fetch in flight with its two
requests, and the readers that wait for it. `SelectBest` is the sorting and
filtering.

**`RuntimeGuardrails`.** Four counters and, per response, which events the
middleware still listens to. `Emit(r, e)` is the release: it removes both
listeners and counts down. `Snapshot` is the periodic log line, which resets
all counters but the active.

**`LegacyImport`.** The tables of the old site that are there, those of the new
one as sets of the keys and references that decide what INSERT IGNORE drops,
and the migration as the sequence `ImportStatements`. A crash stops it between two,
a start runs it from the first; `down` is the same the other way.

**`Migrations`.** The 55 migrations after the import as sequences of statements
over a schema of facts (`Add`, `Put`, `Drop`, `Clear`, and guards that look at the
schema). Two releases, both scripts with the lists they have, crashes and
reverts. `MigrationRules` states what the properties need of such a list, as
rules that can be read off it: what a migration owes is on every one of its paths
and nothing of another migration removes it, whatever is not listed as
unguarded can be repeated from wherever it stopped, and the guards that decide
find what the unified schema had.

`MCProcess`, `MCStatements` and `MCPanels` put several of these into one run
each: a variable `part` says which one a behaviour is about, and the others rest. Each
behaviour of a part is one of the part alone, so that the run checks what runs
of their own would.

## 3. What the runs check

| Run | Instance | Shows |
|---|---|---|
| `editorial` | links: 2 posts, 4 addresses, one request at a time, 4 revisions. saves: 1 post, 2 addresses, 2 clients | Old links resolve in one hop to one post through renames, reclaimed addresses, removal and the redirect manager; saves interleaved by statement implement `AtomicSaves`. Four addresses are enough for two posts to swap and return. |
| `project_merges` | 3 columns (one computed from another, one the status), 2 units, 2 forms, 3 revisions; a write changes columns or units | No named column and no unit is overwritten or removed unseen, by saves unit by unit and of whole lists; a refusal has an overlap. |
| `seo_redirects` | an inventory page and a listing page, 4 paths, one user, 3 revisions, one page made again; the redirect manager edits the redirects of 2 paths | No loop, and former paths lead where their page is, also with the bound on hops (2) below the longest chain. |
| `seo_history` | the same with 2 paths, 2 users and one setting a page may have or not; nobody is in the redirect manager | No revision that was replaced is lost, paths unique, nothing unseen replaced. |
| `seo_pages` | pages: 2 flats, a villa project and a listing page, 7 paths, 3 changes. routes: fewer kinds of changes, 2 requests, a clock of 2 with entries kept for 1 | What a sitemap lists is a page that may be indexed at that address; the routes in memory are those of the tables but for what a request read while a change committed. |
| `media_shown` | 1 property, 2 uploads, 2 staff and an owner; image service, the owner's transactions and deletions fail | Files of a property at rest are in the bucket and stay; an owner can send again; nothing unseen is removed. |
| `panels` | ads: 2 ads, 3 uploads, 3 placements, one member of staff; checks, the image service and the database fail. races: 2 members of staff whose requests about one ad overlap, new images, no failure. rows: 2 users, 2 rows per table, 4 requests, 2 texts | Images of ads stay in the bucket, also when ads share them; an ad fits its placement, also when requests overlap between the statements of a save. What a save of a builder, a place, property SEO or a listing page was answered with stays, but for what overlapping saves undo. |
| `search_published` | 2 rows, batches of 1, 2 contents, 2 calls, 3 changes, all may fail | Only what was public gets into the index; a call that ran alone, or a reindex nothing interfered with, leaves it exact; no hidden row is listed. |
| `listings` | 4 properties, 3 of them of a type no project has, and 2 projects, pages of 2, pools of 1; one reader and one change of status beside a toggle or a replacement | Only what was live is shown, sections survive, the rail is in the order of its criteria, paging by the database meets each match once, toggles tell the truth. |
| `process` | responses: 4, limit 2. leads: 2 visitors, 2 leads, a restart, the dates around the ends of short months. reviews: 2 readers, a clock of 6, lifetimes 3 and 1 | The limit and the totals, and that a full server admits requests again; that leads reach the CRM, at most twice, and which visits are accepted; that Google is asked seldom. |
| `statements` | import: 2 kinds of listings, all tables or up to 2 missing, 2 crashes, one revert. migrations: 2 crashes and reverts. accounts: 2 clients, 1 phone, 1 address, a limit of 1, 3 codes of one purpose or 2 of both | Import, migrations and one-time codes with every statement a step. |
| `project_required` | 2 forms, 3 columns | Refuted, see section 4. |

Why the bounds are enough: the hazards are races of two actors over one row,
or of one actor with the calls it left behind; two actors, two rows to be
confused with each other and one more key or address than rows already show
each of them, and each property has a faulty variant of the code that these
bounds catch. Bounds on revisions leave room for a save by each actor after
the one it missed. In `statements` a limit of one code stands for five, since
what can exceed it is the requests that overlap, which are counted against the
clients. `listings` keeps kinds of requests that share no state apart
(`Mixes`). The theorems below have no bounds.

Fairness is assumed in one place, `process`. Every response emits `close` in
the end, which Node does for every response, sent or aborted; `finish` is not
assumed. A visitor's request that has begun goes on to its next statement
(`Serve`), and an attempt to forward ends and its timer fires (`Forward`): the
first is a promise the event loop resumes; for the second, Node's `fetch` gives
up on a server that sends no headers, and `sleep` is a timer. Nothing is assumed of visitors, restarts, or what the
CRM answers. Everywhere else callers may stop at any moment.

`CHECK_DEADLOCK FALSE` stands in every configuration: a bound on revisions,
saves, leads, crashes or time lets each model come to rest, and where all
responses have ended and the log was stopped nothing is left to do. None of
these systems waits for anything then; the one that could (the response
limit) has the liveness property `SlotReturned`.

## 4. Where code and text disagree, and under which conditions the rest holds

`project_required` is a run that TLC refutes: `projectType` is part of every
request, so a save that merges another field puts back the type its form was
loaded with, though the merge promises that edits of different fields do not
touch each other.

The positive runs and the theorems say what holds nevertheless, and under which
condition. These conditions are not decoration; without them the properties
fail, each for a reason that can be read off the module:

* `FieldsMerge` leaves out the columns that are written without a stamp. The
  status: `PATCH :id/status` bumps the revision without stamping the field
  (`admin-projects.service.ts:473`), so a form from before may change the status
  over it. What `update` computes: a save of `builderId` puts the builder's name
  over a `builderName` saved since, and a form from before may change the name
  back; likewise `videoUrls` and `canonicalSlug` (`:395`, `:396`, `:403`).
* `UnitsMerge` speaks of units that are there: a unit dropped by a whole list
  is not stamped, and a stale edit of it inserts it again.
* `NoLoops` is for one SEO user: two saves, each checked before the other
  commits, can close a loop.
* `MediaShown` supposes that staff transactions commit: `update` processes a
  photo inside its transaction without retaining the upload
  (`admin-properties.service.ts:1093`; owners' uploads are retained), so that a
  save sent again after a rollback stores a temporary key whose object is gone.
* `FitsPlacement` excepts ads updated by a request that another one overtook,
  one of the two moving the ad (`mixed`). `save` writes the columns in which its
  entity differs from the row it selects (`admin-ads.service.ts:227`), checked
  against the row it loaded: a save that drops the mobile image of an offer
  selects the row, a second one moves the ad to the hero with a new mobile
  image, and the UPDATE of the first then empties a column the hero needs.
* `NothingUnseenRemoved` is about forms that send the version they loaded; `update`
  compares none when there is none (`admin-properties.service.ts:725`).
* `ImagesShown` is for requests that do not overlap: a change of status that
  loaded the ad before writes back images deleted meanwhile, or a removed ad. It also
  supposes that nobody names again the temporary key an ad kept while the image
  service was down (`Reuse`); a save would take it for a fresh upload
  (`storage.service.ts:380`).
* `SavesKept` excepts the fields that two overlapping saves name or write
  (`Contested`): each saves the row as it loaded it, so that one may undo the
  other, and a save of a row that was removed meanwhile inserts it again. A null
  sent for a listing page keeps what the row has, so no form clears a field.
* `HistoryKept` is about revisions that a save replaced. A restore is a save of
  what the version held: settings, sections and image texts are merged into what
  there is (`seo-fields.ts:159`, `:212`), so entries added later survive it.
  What `removeListing` deletes is in no version (`seo-engine.service.ts:837`),
  and a version of a removed listing page cannot be restored, as it names a rule
  that is gone (`:797`).
* `NothingUnseenReplaced` is about rows that are there: the revision is compared
  only with that of an existing row (`seo-engine.service.ts:462`), by number. A
  form of a page that was removed makes it anew, and one that was loaded before
  a page was removed and made again passes if the numbers agree.
* `PagesComplete` is about pages the database cuts. For a type no project has,
  `search` leaves a query with a text to the search index
  (`properties.service.ts:319`): stale hits are dropped from a page after it was
  cut, and what is not in the index is never met.
* `SettledExact` is for calls that ran alone: two index calls of one row that
  overlap can leave a document of a row that is hidden by now, although
  `search.service.ts:256` says that only live and approved properties belong in
  the index. The listing's gate, `ListedArePublic`, holds all the same.
* `SitemapIndexable` excepts automatic pages of inactive localities and cities
  (`seo-engine.service.ts:979`, `:994`) and sections of pages whose address an administrator redirects: the sitemap lists both,
  while `resolve` answers nothing or a redirect. It also supposes that no
  inventory page is moved to the address of an automatic page.
* `RoutesFresh` excepts a fill that raced a change: no request joins a fill
  under way, its two queries run at different times, and its result may be
  stored after the change emptied the cache, for up to the five seconds the
  cache lives.
* `SectionKept` speaks of apartments: the fallback of the handpicked section
  takes nothing else, so the section disappears when only other types are live.
* `TogglesTruly` allows rows stored after a removing click looked: three clicks
  that overlap can remove and store again.
* `CodesPerWindow` allows as many codes more as requests overlap: the limit is
  asked before the code it counts is stored. `LastAnsweredWorks` excepts a
  request that failed after it superseded the old code. Two verifications of
  one code can both read it unused and both succeed (`otp.service.ts:86`).
* `Told` excepts a restart and a CRM that fails twice: a lead that waits for its
  second attempt is in memory only and nothing sends it later.
* `OldPostsKept` and `Imported` except a revert that died after the renaming and
  is run again (`again`): it drops `blogs`, which is the old table by then.
* `RecordedIsDone` excepts `Losable`, four things that a guard skips for good
  once an earlier statement of the same migration ran: the rows of the renamed
  sublocations with their city, the property key of the leads, the custom
  canonicals, and the redirects from unsafe slugs. `StuckOnlyUnguarded` names
  the migrations that stop at the same statement on every later start.

More observations that no run is about:

* Removing a post leaves its redirects; a draft moved onto such an address and
  published is hidden behind them.
* Removing a property leaves the objects of its floor plans in the bucket
  (`admin-properties.service.ts:1269`). An owner's submission whose answer was
  lost and that is sent again makes a second property with the same files.
* An empty mobile key of an ad is refused after the desktop image was copied
  (`FinalizeMobile`), and a search page whose hits are all stale is answered
  empty (`Answer`).
* A visit can be booked for the thirtieth of February: the format of a date and
  `IsDateString` look at its shape (`leads.service.ts:214`). `VisitsNear` speaks
  of dates there are.
* A phone number of letters is accepted by property, project and WhatsApp
  enquiries and forwarded as an empty number; general enquiries hang on the
  fallback property 999, as do wishes and enquiries of listings the import did
  not copy, where several wishes of one user become one.
* An import run again after a crash stores the leads twice, having no key to
  find them by. Two old users with one address are one new user; the id of the
  second is free for the next account, which then owns its listings.
* `details` and `detailsBySlug` test the approval alone, and project details
  hide drafts alone, so an archived listing's page opens; a card without a slug
  links to an address that never resolves; projects of the same second have no
  fixed order between pages.
* `AddSublocationDescription1782100000000` is in no list of the data source.

## 5. What is proved

All theorems are checked to the last leaf, from the assumptions on constants
next to their declarations (for instance that no address is the name of the
page outside, that there are finitely many paths, a path being a string of
bounded length, or that the owner is no editor); TLC evaluates those in the
runs. Each rests on an inductive invariant that says why the property holds.

* **Editorial** (`PublicProofs`). `TypeOK`, `OneHop`, `OldLinksResolve` and
  `FieldsKeepTheirOwner` follow from one inductive invariant. `OldLinksResolve`
  alone is not inductive: a rename keeps old links only if the redirects of the
  post are exactly the promised ones (`PromisesKept`), if no promised address
  is taken by another post (`PromisesFree`, `PromisesOwned`), and if the row a
  request has loaded is a true past of the post (`SnapshotsHonest`).
* **Refinement** (`PublicProofs`). `SavesRefine`: every behaviour of
  `Editorial` is one of `AtomicSaves`. Its initial states map to initial
  states; loading a row, moving redirects and the redirect manager map to
  stutters; a write maps to `Save` or `Delete` because what it writes is what it
  loaded at the revision it checks (`SnapshotsHonest` again) with its own half
  replaced; every other end of a request maps to `Refuse`.
* **ProjectMerge** (`CatalogueProofs`). `FieldsMerge`, `UnitsMerge` and
  `RefusedForOverlap` from the invariant that a unit, or a column that is written
  only when it is named, is as the form shows it unless it is stamped after the
  form's revision, and that stamps are those of the saves since.
* **Wishlists** (`CatalogueProofs`). `TogglesTruly`, an action property, for any
  guests, listings and clicks: a guest has one row of a listing and rows are
  numbered as they are stored (`WishTable`), so that a click that found a row
  found the only one, and all it did not see have later numbers (`Click`).
* **What visitors are shown** (`CatalogueProofs`). `OnlyLiveShown`, `SectionKept`,
  `RailInOrder` and `PagesComplete`, for any number of listings, requests and
  changes of the CRM, any limits, facts and queries; of `PagesComplete` pages with
  hits of the search index are excepted, whatever the type. `ReadInv` says of every
  request that it has seen each listing as it is now, and that what it holds it
  saw in a state in which it may be shown (`Fits`); that an empty section had
  nothing to fall back to (`Kept`); that a rail is ordered (`Rail`); and that the
  pages of a visitor are, as long as nothing was changed, the beginning of the
  whole (`Paged`). Sequences are put in order by the place of each element, the
  number of those before it: in a strict total order these places are all
  different, hence, by a pigeonhole argument, exactly 1 to the size of the set
  (`Places`, `InOrderOf`), and there is only one sequence in that order
  (`OneOrder`), which is why the order being total makes pages complete
  (`OrdersSorted`). `AboveScores` is the arithmetic of the criteria: one outweighs
  those below it together.
* **SEO paths** (`SeoPathsProofs`), for any number of users: `PathsUnique`,
  `HistoryKept` and `NothingUnseenReplaced`. A save about to commit still has
  the revision of its row, or it is to make the row (`Held`); an existing row has
  one save about to commit (`OneWriter`); what a row holds was written last of
  it, and rows made later have later ids (`LastWritten`).
* **Redirects** (`SeoPathsProofs`), for one user at a time, which is the theorems'
  hypothesis: `NoLoops` and `FormerPathsFollow`, for any number of paths and any
  bound on hops. `Roads` is inductive: from everywhere a visitor arrives, and
  from the place a save or a redirect under way leads to, without meeting its
  source. What walks along redirects do is proved by induction over their
  steps, which the module derives from the fact that a nonempty set of numbers
  has a least one (`Least`, `Induct`), and a pigeonhole argument gives the number
  of paths as the bound within which every walk ends (`WalkShort`). For the
  former paths `Leads` says in addition that each redirect along them leads to
  another of them or to the page (`Chained`), that the address a save takes is
  where the page is, or leads nowhere and is nobody's slug (`TargetFree`), and that no page lives at the slug of another
  (`SlugsFree`).
* **SEO pages** (`ProcessProofs`). `RoutesFresh`, for any number of requests and
  of changes: what a request has read while no change was committed is what the
  tables say (`ReadsFresh`), and so is what it stores, until the change that
  makes it stale empties the cache. `SitemapIndexable`: the sitemaps and `resolve`
  compute from the same rows, but in different ways; they agree because no
  address is of two pages (`AddressInv`). Its hypotheses are that no slug of a
  record, of the two a project has, is the slug of another or the address of an
  automatic page (`SlugsApart`), and that no
  inventory page is moved to the address of an automatic page (`OwnPages`, section 4).
* **PropertyMedia** (`PropertyMediaProofs`). `TypeOK`, `NothingUnseenRemoved`
  and `OwnerCanRetry`: whoever fails, uploads of an owner stay until her
  property exists. `MediaShown`, if the transactions of staff commit (section
  4): the invariant `Files` follows every object from the form over the save to
  the row, each in one place only, and says that nothing doomed is needed.
* **Advertisements** (`PanelProofs`). `FitsPlacement` for any number of staff
  whose requests overlap, statement by statement: a request that is not
  overtaken still knows the placement of its ad and, if it moves it, all columns
  of the row it will update (`Tracks`). `ImagesShown` as long as requests do not
  overlap and no temporary key is sent again: what a request has copied but not
  written, what it will delete, and what it read of the ads that share an image
  are true of the rows and the bucket as long as nobody else writes (`Shows`).
* **Plain rows** (`PanelProofs`). `SavesKept` for any number of users, rows,
  requests and texts, with no hypothesis. `Sound` says of a request under way
  what its entity has in common with the row: all that nobody has written since
  it was loaded and that its form does not name; of a row that is gone all was
  written since. Then `UpdateRow` of the columns that differ writes what the
  form says and leaves the rest, and `InsertRow` overwrites nothing that was
  promised.
* **SearchIndex** (`PublicProofs`). `OnlyPublished`: index, documents
  under way and batches only hold what was public once. `ListedArePublic`, an
  action property: whatever the index holds, a page comes about in one step,
  with rows that are public in it; it needs that a search only holds ids of rows
  (`HitsOfRows`). `SettledExact`
  (`ExactInv`): an undisturbed reindex has sent exactly the public rows that its
  offset is past, which holds because reading by offset counts in the same order
  every time, and a call that is alone for its row carries what the row says.
* **Accounts** (`StatementsProofs`). `CodesPerWindow`: codes stored in a window and
  requests that have passed the limit are counted together. `LastAnsweredWorks`:
  the newest unused code of a phone is the one last answered, unless a request
  has superseded it since. `VerifiedHasProof`: a request that carries a
  verification has read an accepted code.
* **Import** (`StatementsProofs`). `OldPostsKept`, for any tables of the old site and
  any number of crashes and reverts: a revert that begins finds the posts under
  their other name unless an earlier one was left half done. `Imported`
  (`NothingIgnored`), for any rows besides: when the import is through, every
  listing, enquiry, wish and post of the old site has its copy. After each statement
  what it and the earlier ones owe is there (`Progress`), since INSERT IGNORE
  drops a row only when its key is taken, and then by an earlier copy of it; or, of
  users, by an earlier user of the address. Such a user is not copied; her
  listings go to the system's user or to whoever has been given her id.
* **Migrations** (`MigrationsProofs`). `RecordedIsDone` and `StuckOnlyUnguarded`, for
  any releases, any number of crashes and reverts and any data that the guards
  test, from `MigrationsAssumption` alone: that releases end at a migration, that
  the facts the old data may or may not have are of tables of the unified schema,
  and that no migration adds one of them, but for a key of the leads. The proof has two halves. The first
  (`RulesSuffice`) is about any list that keeps `MigrationRules`. It splits what is
  left of a migration into paths without branches, in which a guard stands for
  the fact it found, and its invariant `Sound` looks ahead along all of them:
  each statement that is to come finds what it needs, or something has died, and
  at the end all that is owed holds (`OnPaths`). The step that runs a statement
  moves to the rest of a path (`PathShift`, `StepGoes`); what is recorded stays done,
  as no other migration takes it away (`Owed`); and migrations that cannot be
  repeated, or whose guards decide once, find their facts untouched (`Apart`).
  The second half shows that the 55 migrations keep the rules (`RulesHold`), by
  their kinds: those that only put and clear, those that add and drop (`Fragile`,
  the ones that cannot be repeated, are among them), and the eight that branch or
  are of neither kind, each by itself.
* **Process** (`ProcessProofs`). Of the response limit: `WithinLimit`,
  `PeakCovers` and `CountedOnce`, since a response listens to its events exactly
  as long as it is counted (`ListensWhileOpen`). Of the leads: `ToldAtMostTwice`,
  since a lead is in the hands of one request or of one forwarding (`OneHand`),
  and before its first attempt the CRM has nothing; and `VisitsNear` for every
  day of the calendar: three months on is 89 to 92 days later, and the texts of
  dates compare like the days since the beginning of the year. Of the reviews:
  `AskedSeldom`.

The type invariants of these components are proved and no run repeats them.
Proofs rest on TLAPS's SMT backend, Zenon and LS4. Liveness (`SlotReturned`,
`Told`) is out of its reach and stays with TLC.

Only model-checked: the two liveness properties, and what the bounds of a run
say beyond a theorem's hypotheses (for `NoLoops`, `MediaShown` and `ImagesShown`
these are the conditions of section 4). Every invariant and every action property
of the runs is stated by a theorem.

## 6. Plan

Built so far, in the order of importance: the shared rows (Editorial, projects,
SEO paths, property files), the stores beside the database (ads, search), what
visitors see (SEO pages, listings), what statements leave when they stop
(accounts, migrations, import), what the process keeps in memory (responses,
leads, reviews), the plain rows of the panels, the refinement of Editorial's
saves, and the theorems above. Left, in this order:

1. Property saves as a second refinement of `AtomicSaves`.
2. The rest of the SEO engine: audits, quality scores, schema overrides, the
   duplicate of a config; pure functions against definitions.

## 7. What is not modelled, and why

Passwords, tokens and cookies are cryptography and look-ups without state.
Read-only queries of the dashboard and of enquiries relate no two states.
Formats (image sizes, schema.org data, page titles, slugs put together from
titles) are data that none of the properties tell apart. Framework code
(throttling, validation pipes, TypeORM) is modelled where its behaviour decides
something, as in whole-row saves, consistent snapshots and unique keys. Of
migrations the column types and the data of rows are left out, and the
verification scripts under `scripts/` are clients of the API without state.
Everything else not modelled is in the plan, and `PROJECT.json` gives the reason
for each component.
