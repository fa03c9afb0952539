----------------------------- MODULE LegacyImport -----------------------------
(***************************************************************************)
(* The migration that moves the old site's tables into the unified ones    *)
(* (src/database/migrations/1779100000000-RefactorLegacyToUnifiedSchema).  *)
(* Old rows are copied with INSERT IGNORE: a row whose key is taken, or    *)
(* that refers to a row that is not there, is left out without a word.     *)
(* scripts/run-migrations.ts runs it without a transaction, and records it *)
(* when it is through: one that stopped half-way starts again from its     *)
(* first statement.                                                        *)
(***************************************************************************)
EXTENDS Naturals, Sequences, FiniteSets, SequencesExt

CONSTANTS
  Kinds,        \* the old tables of listings, in the order of the loops
  Span,         \* ids of one kind go from a multiple of it: 100000000
  UnitKinds,    \* the kinds whose rows become units too
  OwnedKinds,   \* the kinds whose rows name the user who entered them
  OldUsers,     \* rows of `user' in the order of their ids: [id, email]
  OldLogins,    \* ids of `login'
  OldHomes,     \* rows of each kind: [id, by, photos, amenities]
  OldWishes,    \* rows of `wishlist': [user, guest, kind, home]; user 0 is a guest
  OldEnquiries, \* rows of `enquiry': [id, kind, home]
  OldInterests, \* ids of `propertydetails'
  OldPosts,     \* ids of the old `blogs'
  MaxStops, MaxUndone   \* bounds of the model

Orphan == Span - 1   \* 999, below the ids of every kind
System == 1          \* the user that owns what nobody else does
SystemMail == <<"system", 0>>

\* Ids are keys of the old tables and fit between those of two kinds, and nobody
\* has entered the system's address for herself.
ImportAssumption ==
  /\ Kinds \in Seq(STRING) /\ Span \in Nat /\ Span > 1
  /\ \A k \in ToSet(Kinds) : \A h \in OldHomes[k] :
       h.id \in 1 .. (Span - 1) /\ \A g \in OldHomes[k] : g.id = h.id => g = h
  /\ \A r \in OldEnquiries \union OldWishes : r.home \in 1 .. (Span - 1)
  /\ \A i \in DOMAIN OldUsers :
       /\ OldUsers[i].id # 0 /\ (OldUsers[i].email = SystemMail => OldUsers[i].id = System)
       /\ \A j \in DOMAIN OldUsers : OldUsers[j].id = OldUsers[i].id => j = i

Offset(k) == Span * (CHOOSE i \in DOMAIN Kinds : Kinds[i] = k)

\* What hasTable may find of the old site.
OldTables == {"user", "login", "wishlist", "enquiry", "propertydetails", "blogs"} \union ToSet(Kinds)

VARIABLES
  old,          \* the old tables that exist
  blogs,        \* what the table `blogs' is: "none", "old" or "new"
  renamed,      \* whether there is a table `legacy_blogs'
  newUsers,     \* users: [id, email]
  homes,        \* properties: [id, kind, owner]
  parts,        \* details, units, photos and amenities: <<table, home, key>>
  leads,        \* [of, copy, home]
  wishes,       \* <<user, home>>
  posts,        \* ids in the new blogs
  import,       \* what runs: [dir, pc]
  imported,     \* whether the table `migrations' has it
  again,        \* whether a revert began that was already half done
  stops, undone

importVars == <<old, blogs, renamed, newUsers, homes, parts, leads, wishes, posts, import,
                imported, again, stops, undone>>
data == <<newUsers, homes, parts, leads, wishes, posts>>

\* The statements of `up', those of a loop one for each kind.
Each(s) == [i \in DOMAIN Kinds |-> [do |-> s, kind |-> Kinds[i]]]
One(s) == <<[do |-> s, kind |-> ""]>>

\* Faulty variant: nobody makes sure that the system's user is there.
UsersUnowned == One("user") \o One("login") \o One("wisher")

UserStatements == One("user") \o One("login") \o One("wisher") \o One("system")

ImportStatements ==
  One("rename") \o One("create") \o UserStatements
  \o Each("homes") \o One("orphan") \o Each("details") \o Each("photos") \o Each("units")
  \o Each("amenities") \o One("enquiry") \o One("propertydetails") \o One("wishlist") \o One("posts")

NoImport == [dir |-> "none", pc |-> 0]

ImportInit ==
  /\ old \in SUBSET OldTables
  /\ blogs = IF "blogs" \in old THEN "old" ELSE "none"
  /\ renamed = FALSE
  /\ newUsers = {} /\ homes = {} /\ parts = {} /\ leads = {} /\ wishes = {} /\ posts = {}
  /\ import = NoImport
  /\ imported = FALSE
  /\ again = FALSE
  /\ stops = 0 /\ undone = 0

-----------------------------------------------------------------------------
(* Running, stopping, reverting *)

StartImport ==
  /\ import = NoImport
  /\ ~imported
  /\ import' = [dir |-> "up", pc |-> 1]
  /\ UNCHANGED <<old, blogs, renamed, data, imported, again, stops, undone>>

RecordImport ==
  /\ import.dir = "up" /\ import.pc = Len(ImportStatements) + 1
  /\ imported' = TRUE
  /\ import' = NoImport
  /\ UNCHANGED <<old, blogs, renamed, data, again, stops, undone>>

StopImport ==
  /\ import # NoImport
  /\ stops < MaxStops
  /\ stops' = stops + 1
  /\ import' = NoImport
  /\ UNCHANGED <<old, blogs, renamed, data, imported, again, undone>>

\* undoLastMigration, while this one is the last that is recorded.
UndoImport ==
  /\ import = NoImport
  /\ imported
  /\ undone < MaxUndone
  /\ undone' = undone + 1
  /\ again' = (again \/ blogs = "old")
  /\ import' = [dir |-> "down", pc |-> 1]
  /\ UNCHANGED <<old, blogs, renamed, data, imported, stops>>

\* Faulty variant: blogs has its name back before the new tables go.
DropTablesLast ==
  /\ import.dir = "down" /\ import.pc = 1
  /\ blogs' = "none"
  /\ renamed' = FALSE
  /\ newUsers' = {} /\ homes' = {} /\ parts' = {} /\ leads' = {} /\ wishes' = {} /\ posts' = {}
  /\ import' = [import EXCEPT !.pc = 2]
  /\ UNCHANGED <<old, imported, again, stops, undone>>

\* down: the unified tables go, whatever they hold; then blogs gets its name.
DropTables ==
  /\ import.dir = "down" /\ import.pc = 1
  /\ blogs' = "none"
  /\ newUsers' = {} /\ homes' = {} /\ parts' = {} /\ leads' = {} /\ wishes' = {} /\ posts' = {}
  /\ import' = [import EXCEPT !.pc = 2]
  /\ UNCHANGED <<old, renamed, imported, again, stops, undone>>

RenameBack ==
  /\ import.dir = "down" /\ import.pc = 2
  /\ IF renamed /\ blogs = "none" THEN blogs' = "old" /\ renamed' = FALSE
                                  ELSE UNCHANGED <<blogs, renamed>>
  /\ import' = [import EXCEPT !.pc = 3]
  /\ UNCHANGED <<old, data, imported, again, stops, undone>>

UnrecordImport ==
  /\ import.dir = "down" /\ import.pc = 3
  /\ imported' = FALSE
  /\ import' = NoImport
  /\ UNCHANGED <<old, blogs, renamed, data, again, stops, undone>>

-----------------------------------------------------------------------------
(* The statements of up *)

At(s) == import.dir = "up" /\ import.pc \in DOMAIN ImportStatements /\ ImportStatements[import.pc].do = s
Kind == ImportStatements[import.pc].kind
Done == import' = [import EXCEPT !.pc = @ + 1]
Schema == <<old, blogs, renamed, imported, again, stops, undone>>

\* renameLegacyBlogsTable: blogs is the old table if it has no author_id.
OldBlogs == blogs = "old" /\ ~renamed

Rename ==
  /\ At("rename")
  /\ IF OldBlogs THEN blogs' = "none" /\ renamed' = TRUE ELSE UNCHANGED <<blogs, renamed>>
  /\ Done
  /\ UNCHANGED <<old, data, imported, again, stops, undone>>

\* createTargetTables: CREATE TABLE IF NOT EXISTS, blogs among them.
Create ==
  /\ At("create")
  /\ blogs' = IF blogs = "none" THEN "new" ELSE blogs
  /\ Done
  /\ UNCHANGED <<old, renamed, data, imported, again, stops, undone>>

\* INSERT IGNORE of the old users in the order of their ids: of those that share
\* an address the first one goes in.
Taken(u) == \E v \in newUsers : v.id = u.id \/ v.email = u.email
Fitting ==
  {i \in DOMAIN OldUsers :
     /\ ~Taken(OldUsers[i])
     /\ \A j \in DOMAIN OldUsers :
          j < i /\ OldUsers[j].email = OldUsers[i].email => Taken(OldUsers[j])}

LargestId == LET S == {u.id : u \in newUsers} \union {0} IN CHOOSE n \in S : \A m \in S : m <= n

\* INSERT IGNORE of users without an id: each address that is new gets one of the
\* next ids, in an order the database chooses.
PutMails(M) ==
  LET new == {m \in M : \A u \in newUsers : u.email # m} IN
    \E ids \in Injection(new, 1 .. (LargestId + Cardinality(new))) :
      /\ \A m \in new : ids[m] > LargestId
      /\ newUsers' = newUsers \union {[id |-> ids[m], email |-> m] : m \in new}

Guests == {w.guest : w \in {x \in OldWishes : x.user = 0}}
Mail(guest) == <<"legacy-wishlist", guest>>

\* migrateUsers, statement by statement.
MigrateUsers ==
  /\ \/ /\ At("user")
        /\ newUsers' = newUsers \union {OldUsers[i] : i \in IF "user" \in old THEN Fitting ELSE {}}
     \/ /\ At("login")
        /\ PutMails(IF "login" \in old THEN {<<"legacy-login", i>> : i \in OldLogins} ELSE {})
     \/ /\ At("wisher")
        /\ PutMails(IF "wishlist" \in old THEN {Mail(g) : g \in Guests} ELSE {})
     \/ /\ At("system")
        /\ LET u == [id |-> System, email |-> SystemMail] IN
             newUsers' = newUsers \union IF Taken(u) THEN {} ELSE {u}
  /\ Done
  /\ UNCHANGED <<Schema, homes, parts, leads, wishes, posts>>

UserIds == {u.id : u \in newUsers}
HomeIds == {h.id : h \in homes}
Owner(by) == IF Kind \in OwnedKinds /\ by \in UserIds THEN by ELSE System

\* INSERT IGNORE of homes: the id is free and the owner is a user.
PutHomes(S) == homes \union {h \in S : h.id \notin HomeIds /\ h.owner \in UserIds}

MigrateProperties ==
  /\ \/ /\ At("homes")
        /\ homes' = IF Kind \notin old THEN homes
             ELSE PutHomes({[id |-> Offset(Kind) + h.id, kind |-> Kind, owner |-> Owner(h.by)] :
                            h \in OldHomes[Kind]})
     \/ /\ At("orphan")
        /\ homes' = PutHomes({[id |-> Orphan, kind |-> "other", owner |-> System]})
  /\ Done
  /\ UNCHANGED <<Schema, newUsers, parts, leads, wishes, posts>>

\* INSERT IGNORE of rows that belong to a home.
PutParts(S) == parts \union {p \in S : p[2] \in HomeIds}

DetailsOf(h) == {0}
PhotosOf(h) == h.photos
UnitsOf(k, h) == IF k \in UnitKinds THEN {h.id} ELSE {}
AmenitiesOf(h) == h.amenities

PartsOf(k, h) == [details |-> DetailsOf(h), photos |-> PhotosOf(h),
                  units |-> UnitsOf(k, h), amenities |-> AmenitiesOf(h)]

MigrateParts(s) ==
  /\ At(s)
  /\ parts' = IF Kind \notin old THEN parts
       ELSE PutParts(UNION {{<<s, Offset(Kind) + h.id, x>> : x \in PartsOf(Kind, h)[s]} : h \in OldHomes[Kind]})
  /\ Done
  /\ UNCHANGED <<Schema, newUsers, homes, leads, wishes, posts>>

\* The home an old reference means; one that was not copied is the orphan.
HomeOf(kind, id) ==
  IF kind \in ToSet(Kinds) /\ Offset(kind) + id \in HomeIds THEN Offset(kind) + id ELSE Orphan

\* INSERT IGNORE of leads: they have no key of their own to be found by.
PutLeads(S) ==
  leads \union {[of |-> l.of, home |-> l.home,
                 copy |-> 1 + Cardinality({x \in leads : x.of = l.of})] :
                l \in {y \in S : y.home \in HomeIds}}

MigrateLeads ==
  /\ \/ /\ At("enquiry")
        /\ leads' = IF "enquiry" \notin old THEN leads
             ELSE PutLeads({[of |-> <<"enquiry", e.id>>, home |-> HomeOf(e.kind, e.home)] : e \in OldEnquiries})
     \/ /\ At("propertydetails")
        /\ leads' = IF "propertydetails" \notin old THEN leads
             ELSE PutLeads({[of |-> <<"interest", i>>, home |-> Orphan] : i \in OldInterests})
  /\ Done
  /\ UNCHANGED <<Schema, newUsers, homes, parts, wishes, posts>>

Wisher(w) ==
  IF w.user \in UserIds THEN w.user
  ELSE IF \E u \in newUsers : u.email = Mail(w.guest) THEN (CHOOSE u \in newUsers : u.email = Mail(w.guest)).id
  ELSE System

MigrateWishlists ==
  /\ At("wishlist")
  /\ wishes' = IF "wishlist" \notin old THEN wishes
       ELSE wishes \union {<<Wisher(w), HomeOf(w.kind, w.home)>> : w \in OldWishes}
  /\ Done
  /\ UNCHANGED <<Schema, newUsers, homes, parts, leads, posts>>

MigrateBlogs ==
  /\ At("posts")
  /\ posts' = IF renamed THEN posts \union OldPosts ELSE posts
  /\ Done
  /\ UNCHANGED <<Schema, newUsers, homes, parts, leads, wishes>>

-----------------------------------------------------------------------------
ImportNext ==
  \/ StartImport \/ RecordImport \/ StopImport \/ UndoImport \/ DropTables \/ RenameBack \/ UnrecordImport
  \/ Rename \/ Create \/ MigrateUsers \/ MigrateProperties
  \/ \E s \in {"details", "photos", "units", "amenities"} : MigrateParts(s)
  \/ MigrateLeads \/ MigrateWishlists \/ MigrateBlogs

ImportSpec == ImportInit /\ [][ImportNext]_importVars

-----------------------------------------------------------------------------
\* The old site's posts are there under one of their table's two names, however
\* often the migration stops, starts again and is reverted: but for a revert that
\* stopped after it had renamed the table and before it was recorded, and is run
\* again.  That one drops blogs, which is the old table.
OldPostsKept == "blogs" \in old /\ ~again => (blogs = "old" \/ renamed)

\* An old user none before whom has her address.
First(i) == \A j \in DOMAIN OldUsers : j < i => OldUsers[j].email # OldUsers[i].email
Known(by) == "user" \in old /\ \E i \in DOMAIN OldUsers : OldUsers[i].id = by /\ First(i)

\* The property of an old listing.
Copy(kind, id) ==
  IF kind \in ToSet(Kinds) \intersect old /\ \E h \in OldHomes[kind] : h.id = id
  THEN Offset(kind) + id ELSE Orphan

\* When it is through and about to be recorded, every listing of the old site
\* has its property with all its parts, owned by the old user who entered it if
\* she was the first to have her address; every enquiry a lead and every wish an
\* entry, for its listing if that one was copied and of its user or guest; and
\* every post its copy.  Nothing else was ignored, whichever tables there were
\* and wherever earlier runs stopped.
Imported ==
  import = [dir |-> "up", pc |-> Len(ImportStatements) + 1] /\ ~again =>
    /\ \A k \in ToSet(Kinds) \intersect old : \A h \in OldHomes[k] :
         LET id == Copy(k, h.id) parted == PartsOf(k, h) IN
           /\ \E x \in homes :
                /\ x.id = id /\ x.kind = k /\ x.owner \in UserIds
                /\ IF k \in OwnedKinds /\ Known(h.by) THEN x.owner = h.by
                   ELSE x.owner \in {System, h.by}
           /\ \A s \in DOMAIN parted : \A p \in parted[s] : <<s, id, p>> \in parts
    /\ \A i \in DOMAIN OldUsers : Known(OldUsers[i].id) => OldUsers[i] \in newUsers
    /\ "enquiry" \in old => \A e \in OldEnquiries :
         \E l \in leads : l.of = <<"enquiry", e.id>> /\ l.home = Copy(e.kind, e.home)
    /\ "propertydetails" \in old => \A i \in OldInterests : \E l \in leads : l.of = <<"interest", i>>
    /\ "wishlist" \in old => \A w \in OldWishes :
         \E x \in wishes :
           /\ x[2] = Copy(w.kind, w.home)
           /\ Known(w.user) => x[1] = w.user
           /\ w.user = 0 => \E u \in newUsers : u.id = x[1] /\ u.email = Mail(w.guest)
    /\ "blogs" \in old => OldPosts \subseteq posts

=============================================================================
