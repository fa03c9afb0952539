------------------------------- MODULE SeoPaths -------------------------------
(***************************************************************************)
(* The addresses of SEO pages: seo_configs with their versions, and the    *)
(* redirects that a change of address or the redirect manager leaves.      *)
(*                                                                         *)
(* A save is a transaction.  It locks the row of its own config, checks    *)
(* everything else in one consistent snapshot, and writes; the checks and  *)
(* the writes are two steps, and other saves commit in between.            *)
(***************************************************************************)
EXTENDS Naturals, FiniteSets

CONSTANTS
  Keys,         \* config keys
  Listings,     \* those of listing pages: no inventory behind them, removable
  Paths,        \* public paths
  NoPath,       \* there is none
  Keep,         \* the form does not name the path
  Slug,         \* inventory key -> the path of its CRM slug
  Columns,      \* what a config always has, if only as NoValue
  Entries,      \* settings, sections and image texts it may have
  Values, NoValue,
  Bodies,       \* what forms send: values of some columns and entries
  Clients,      \* saves that may be in progress at the same time
  MaxHops,      \* redirects saveRedirect follows before it gives up
  Sources,      \* bound: paths whose redirects the redirect manager edits
  MaxRevision,  \* bound: a config is not saved again once it has this revision,
                \* or one less each time it was created again
  MaxCreated    \* bound: a page created this often is not removed again

Inventory == Keys \ Listings

\* What a config may hold.
Content ==
  UNION {[Columns \cup E -> Values \cup {NoValue}] : E \in SUBSET Entries}

\* A path is a string of bounded length.
ASSUME SeoPathsAssumption ==
  /\ IsFiniteSet(Paths)
  /\ Listings \subseteq Keys
  /\ Sources \subseteq Paths
  /\ NoPath \notin Paths /\ Keep \notin Paths \cup {NoPath}
  /\ Slug \in [Inventory -> Paths]
  /\ \A j, k \in Inventory : Slug[j] = Slug[k] => j = k
  /\ MaxHops \in Nat \ {0}
  /\ MaxRevision \in Nat \ {0}
  /\ Bodies \subseteq UNION {[F -> Values \cup {NoValue}] : F \in SUBSET (Columns \cup Entries)}

VARIABLES
  configs,    \* seo_configs: key -> row
  versions,   \* seo_config_versions: rows never change and are never removed
  redirects,  \* seo_redirects: source -> row
  created,    \* how often a config was inserted; its row has that id
  request,    \* the transaction each client is in
  written,    \* history: what each revision of each row of a config held
  former      \* history: paths each page has left with a redirect to its new one

vars == <<configs, versions, redirects, created, request, written, former>>

\* rule: it has a row of seo_listing_pages, which goes when the config goes.
Config == [path : Paths \cup {NoPath}, content : Content, revision : Nat, rule : BOOLEAN]
NoConfig == [path |-> NoPath, revision |-> 0]

Redirect == [dest : Paths, active : BOOLEAN]
NoRedirect == [dest |-> NoPath, active |-> FALSE]

Version == [key : Keys, id : Nat, rule : BOOLEAN, revision : Nat, content : Content]

Idle == [kind |-> "idle"]
\* A form that is open: revision is the one it was loaded at, 0 for a new page;
\* rule is the listing_id it sends, 0 for none.
OpenForm == [kind : {"form"}, key : Keys, revision : Nat, rule : Nat]
\* A version that has been read to be restored, and the path there was.
RestoreForm == [kind : {"restore"}, key : Keys, revision : Nat, rule : Nat,
                path : Paths \cup {NoPath}, content : Content]
\* A transaction that has made its checks.
SaveRequest == [kind : {"config"}, key : Keys, revision : Nat, insert : BOOLEAN, newRule : BOOLEAN,
                path : Paths \cup {NoPath}, content : Content, redirect : BOOLEAN]
RedirectRequest == [kind : {"redirect"}, source : Paths, dest : Paths, active : BOOLEAN]

TypeOK ==
  /\ configs \in [Keys -> Config \cup {NoConfig}]
  /\ versions \subseteq Version
  /\ redirects \in [Paths -> Redirect \cup {NoRedirect}]
  /\ created \in [Keys -> Nat]
  /\ request \in [Clients -> OpenForm \cup RestoreForm \cup SaveRequest \cup RedirectRequest \cup {Idle}]
  /\ \A k \in Keys : written[k] \subseteq [id : Nat, revision : Nat, content : Content]
  /\ former \in [Keys -> SUBSET Paths]

Exists(k) == configs[k] # NoConfig

\* The path a page is found at: its own, or the slug of its inventory.
PathOf(k) ==
  IF Exists(k) /\ configs[k].path # NoPath THEN configs[k].path
  ELSE IF k \in Inventory THEN Slug[k] ELSE NoPath

\* normalizeSeoInput: what the body names replaces what there was, and what it
\* does not name stays.
Merged(k, body) ==
  LET old == IF Exists(k) THEN configs[k].content ELSE [f \in Columns |-> NoValue] IN
  [f \in DOMAIN body \cup DOMAIN old |-> IF f \in DOMAIN body THEN body[f] ELSE old[f]]

(***************************************************************************)
(* Following redirects                                                     *)
(***************************************************************************)

Hop(p) == IF redirects[p].active THEN redirects[p].dest ELSE p

\* Where a visitor is after following n redirects from p.
After(p, n) ==
  LET f[i \in 0..n] == IF i = 0 THEN p ELSE Hop(f[i - 1]) IN f[n]

End(p) == After(p, Cardinality(Paths))

\* Faulty variant: only the destination itself is compared with the source.
RefusedDirect(source, dest) == source = dest \/ Hop(dest) = source

\* saveRedirect walks from the destination and gives up when it meets the
\* source or has followed MaxHops redirects.
Refused(source, dest) ==
  \/ \E n \in 0..(MaxHops - 1) : After(dest, n) = source
  \/ \A n \in 0..(MaxHops - 1) : redirects[After(dest, n)].active

Init ==
  /\ configs = [k \in Keys |-> NoConfig]
  /\ versions = {}
  /\ redirects = [p \in Paths |-> NoRedirect]
  /\ created = [k \in Keys |-> 0]
  /\ request = [c \in Clients |-> Idle]
  /\ written = [k \in Keys |-> {}]
  /\ former = [k \in Keys |-> {}]

(***************************************************************************)
(* saveConfig, saveListing and restore                                     *)
(***************************************************************************)

\* SELECT ... FOR UPDATE: one transaction at a time holds an existing row.
Locked(k) ==
  \E c \in Clients : request[c].kind = "config" /\ request[c].key = k /\ Exists(k)

\* Faulty variant: the redirects are not looked at.
FreeOfPages(p, k) ==
  /\ \A j \in Keys \ {k} : Exists(j) => configs[j].path # p
  /\ \A j \in Inventory \ {k} : Slug[j] # p

\* The address may be given to k: no other page, no active redirect and no
\* other inventory has it.
Free(p, k) ==
  /\ \A j \in Keys \ {k} : Exists(j) => configs[j].path # p
  /\ ~redirects[p].active
  /\ \A j \in Inventory \ {k} : Slug[j] # p

\* Where the save puts the page: where the form names, or where it is if the
\* form does not; without either, at the slug of its inventory or nowhere.
Target(k, p) ==
  IF p \in Paths THEN p
  ELSE IF p = Keep /\ Exists(k) THEN configs[k].path
  ELSE IF k \in Inventory THEN Slug[k] ELSE NoPath

\* The save writes an address, which is checked then.
Addresses(k, p) == Target(k, p) # NoPath /\ (p = Keep => ~Exists(k))

\* The save moves the page, and does not opt out of a redirect.
Moves(k, p, redirect) == redirect /\ p # NoPath /\ PathOf(k) \notin {NoPath, p}

\* The config is that of a listing page.
HasRule(k) == Exists(k) /\ configs[k].rule

OpenSaveForm(c, k) ==
  /\ request[c] = Idle
  /\ configs[k].revision + created[k] <= MaxRevision
  /\ request' = [request EXCEPT ![c] =
       [kind |-> "form", key |-> k, revision |-> configs[k].revision,
        rule |-> IF HasRule(k) THEN created[k] ELSE 0]]
  /\ UNCHANGED <<configs, versions, redirects, created, written, former>>

\* Faulty variant: the revision is not compared.
AcceptableUnrevised(k, revision, p, redirect) ==
  /\ Addresses(k, p) => Free(Target(k, p), k)
  /\ Moves(k, Target(k, p), redirect) => ~Refused(PathOf(k), Target(k, p))

\* The checks of persistConfig: the revision of a row that is there, an address
\* that is written, the redirect it needs.
Acceptable(k, revision, p, redirect) ==
  /\ Exists(k) => revision = configs[k].revision
  /\ Addresses(k, p) => Free(Target(k, p), k)
  /\ Moves(k, Target(k, p), redirect) => ~Refused(PathOf(k), Target(k, p))

\* The transaction begins: it locks the row, checks, and is about to write;
\* or it is refused (400, 404, 409).
Begin(c, p, body, redirect, newRule, allowed) ==
  LET k == request[c].key
  IN /\ ~Locked(k)
     /\ request' = [request EXCEPT ![c] =
          IF allowed /\ Acceptable(k, request[c].revision, p, redirect)
            THEN [kind |-> "config", key |-> k, revision |-> request[c].revision,
                  insert |-> ~Exists(k), newRule |-> newRule, path |-> Target(k, p),
                  content |-> Merged(k, body), redirect |-> Moves(k, Target(k, p), redirect)]
            ELSE Idle]
     /\ UNCHANGED <<configs, versions, redirects, created, written, former>>

\* saveConfig; or saveListing, which needs a path and adds a rule unless the form
\* names one.  That rule was there when saveListing looked, before it began.
BeginSave(c, p, body, redirect, listing) ==
  /\ request[c].kind = "form"
  /\ listing => request[c].key \in Listings
  /\ Begin(c, p, body, redirect, listing /\ request[c].rule = 0, listing => p \in Paths)

\* restore reads the version and the row, before its transaction.  The version of
\* a listing page names its rule, which saveListing then looks for.
ReadVersion(c, v) ==
  LET f == request[c] IN
  /\ f.kind = "form" /\ v.key = f.key
  /\ request' = [request EXCEPT ![c] =
       IF /\ Exists(v.key) /\ f.revision = configs[v.key].revision
          /\ v.rule => HasRule(v.key) /\ v.id = created[v.key] /\ configs[v.key].path # NoPath
         THEN [kind |-> "restore", key |-> v.key, revision |-> f.revision,
               rule |-> IF v.rule THEN v.id ELSE 0,
               path |-> configs[v.key].path, content |-> v.content]
         ELSE Idle]
  /\ UNCHANGED <<configs, versions, redirects, created, written, former>>

\* restore: what the version held is saved, at the path there was.
BeginRestore(c, redirect) ==
  /\ request[c].kind = "restore"
  /\ Begin(c, request[c].path, request[c].content, redirect, FALSE, TRUE)

\* saveListing looks for the rule that is named, and it is gone (404).
ListingGone(c) ==
  LET f == request[c] IN
  /\ f.kind \in {"form", "restore"} /\ f.rule # 0
  /\ ~(HasRule(f.key) /\ created[f.key] = f.rule)
  /\ request' = [request EXCEPT ![c] = Idle]
  /\ UNCHANGED <<configs, versions, redirects, created, written, former>>

\* Faulty variant: there is no unique key on the path.
UniqueKey(r) ==
  /\ r.insert => ~Exists(r.key)
  /\ r.newRule => ~HasRule(r.key)

\* The unique keys of seo_configs and seo_listing_pages: the writes go through.
Unique(r) ==
  /\ \A j \in Keys \ {r.key} : Exists(j) /\ r.path # NoPath => configs[j].path # r.path
  /\ r.insert => ~Exists(r.key)
  /\ r.newRule => ~HasRule(r.key)

\* Faulty variant: the version is filed under the revision that replaces it.
VersionOfNext(k) ==
  [key |-> k, id |-> created[k], rule |-> configs[k].rule, revision |-> configs[k].revision + 1,
   content |-> configs[k].content]

VersionOf(k) ==
  [key |-> k, id |-> created[k], rule |-> configs[k].rule, revision |-> configs[k].revision,
   content |-> configs[k].content]

\* persistRedirect inside a save: the old path leads to the new one.
RedirectsAfter(r) ==
  IF Moves(r.key, r.path, r.redirect)
    THEN [redirects EXCEPT ![PathOf(r.key)] = [dest |-> r.path, active |-> TRUE]]
    ELSE redirects

\* History: a move with a redirect adds a former path, one without a redirect
\* gives up those there were.
FormerAfter(r) ==
  [former EXCEPT ![r.key] =
     IF PathOf(r.key) = r.path THEN @
     ELSE IF Moves(r.key, r.path, r.redirect) THEN @ \cup {PathOf(r.key)}
     ELSE {}]

CommitSave(c) ==
  LET r   == request[c]
      k   == r.key
      id  == IF Exists(k) THEN created[k] ELSE created[k] + 1
      rev == configs[k].revision + 1
  IN /\ r.kind = "config"
     /\ Unique(r)
     /\ configs' = [configs EXCEPT ![k] =
          [path |-> r.path, content |-> r.content, revision |-> rev, rule |-> HasRule(k) \/ r.newRule]]
     /\ created' = [created EXCEPT ![k] = id]
     /\ versions' = versions \cup (IF Exists(k) THEN {VersionOf(k)} ELSE {})
     /\ redirects' = RedirectsAfter(r)
     /\ written' = [written EXCEPT ![k] = @ \cup {[id |-> id, revision |-> rev, content |-> r.content]}]
     /\ former' = FormerAfter(r)
     /\ request' = [request EXCEPT ![c] = Idle]

\* ER_DUP_ENTRY: the transaction rolls back (409).
Duplicate(c) ==
  /\ request[c].kind = "config"
  /\ ~Unique(request[c])
  /\ request' = [request EXCEPT ![c] = Idle]
  /\ UNCHANGED <<configs, versions, redirects, created, written, former>>

\* removeListing: the config goes with its rule, its versions and redirects stay.
\* What it held last is in none of them.
RemoveListing(k) ==
  /\ k \in Listings
  /\ HasRule(k)
  /\ ~Locked(k)
  /\ created[k] < MaxCreated
  /\ configs' = [configs EXCEPT ![k] = NoConfig]
  /\ former' = [former EXCEPT ![k] = {}]
  /\ UNCHANGED <<versions, redirects, created, request, written>>

(***************************************************************************)
(* The redirect manager                                                    *)
(***************************************************************************)

\* resolve: there is a page at the path.
Resolves(p) == \E k \in Keys : PathOf(k) = p \/ (k \in Inventory /\ Slug[k] = p)

\* The destination must be an existing public page, and not lead back.
BeginRedirect(c, s, d, active) ==
  /\ request[c] = Idle
  /\ ~Refused(s, d)
  /\ Resolves(d)
  /\ request' = [request EXCEPT ![c] =
       [kind |-> "redirect", source |-> s, dest |-> d, active |-> active]]
  /\ UNCHANGED <<configs, versions, redirects, created, written, former>>

\* Following redirects from q leads through p.
Through(q, p) == \E n \in 0..Cardinality(Paths) : After(q, n) = p

\* History: who takes over or removes the redirect of a path a page has left
\* takes back the promise of all former paths that depend on it.
Released(p) ==
  former' = [k \in Keys |-> {q \in former[k] : ~Through(q, p) \/ p = PathOf(k)}]

CommitRedirect(c) ==
  LET r == request[c] IN
  /\ r.kind = "redirect"
  /\ redirects' = [redirects EXCEPT ![r.source] = [dest |-> r.dest, active |-> r.active]]
  /\ Released(r.source)
  /\ request' = [request EXCEPT ![c] = Idle]
  /\ UNCHANGED <<configs, versions, created, written>>

RemoveRedirect(p) ==
  /\ redirects[p] # NoRedirect
  /\ redirects' = [redirects EXCEPT ![p] = NoRedirect]
  /\ Released(p)
  /\ UNCHANGED <<configs, versions, created, request, written>>

Next ==
  \/ \E c \in Clients :
       \/ \E k \in Keys : OpenSaveForm(c, k)
       \/ \E p \in Paths \cup {NoPath, Keep}, body \in Bodies, redirect, listing \in BOOLEAN :
            BeginSave(c, p, body, redirect, listing)
       \/ \E v \in versions : ReadVersion(c, v)
       \/ \E redirect \in BOOLEAN : BeginRestore(c, redirect)
       \/ ListingGone(c)
       \/ CommitSave(c)
       \/ Duplicate(c)
       \/ \E s \in Sources, d \in Paths, active \in BOOLEAN : BeginRedirect(c, s, d, active)
       \/ CommitRedirect(c)
  \/ \E k \in Listings : RemoveListing(k)
  \/ \E p \in Sources : RemoveRedirect(p)

Spec == Init /\ [][Next]_vars

(***************************************************************************)
(* Properties                                                              *)
(***************************************************************************)

\* Redirects never form a loop: a visitor who follows them arrives.
\* Holds for one administrator at a time; see the README for two.
NoLoops == \A p \in Paths : ~redirects[End(p)].active

\* A path that a page has left with a redirect leads wherever the page's own
\* path leads, after any number of moves and redirects of other pages.
FormerPathsFollow ==
  \A k \in Keys : \A p \in former[k] : End(p) = End(PathOf(k))

\* Every revision that a later save replaced is in the history of its page, with
\* its own number and as it was stored, also after the page was removed and
\* created again.  It is not asked that a removal keeps what it removes (it does
\* not), nor that a restore leaves nothing else (it merges).
HistoryKept ==
  \A k \in Keys : \A w, later \in written[k] :
    w.id = later.id /\ w.revision < later.revision =>
      \E v \in versions : v.key = k /\ v.id = w.id /\ v.revision = w.revision /\ v.content = w.content

\* A save that replaces a row replaces the revision its form was loaded at,
\* although the check and the write are separate steps.
NothingUnseenReplaced ==
  [][\A c \in Clients :
       request[c].kind = "config" /\ Exists(request[c].key)
         /\ configs'[request[c].key] # configs[request[c].key]
         /\ request'[c] = Idle
       => configs'[request[c].key].revision = request[c].revision + 1]_vars

\* No path belongs to two pages.
PathsUnique ==
  \A j, k \in Keys :
    Exists(j) /\ Exists(k) /\ configs[j].path = configs[k].path /\ configs[j].path # NoPath => j = k
=============================================================================
