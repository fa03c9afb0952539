------------------------------- MODULE AdminRows -------------------------------
(***************************************************************************)
(* The panels of the CRM that load a row, ask other rows about it and save *)
(* what they loaded: builders, cities and their sublocations, the SEO of   *)
(* properties and of listing pages (src/modules/admin/builders, cities,    *)
(* sublocations, seo, listing-page-seo).  No row has a revision and none   *)
(* is locked; every statement is a step.                                   *)
(*                                                                         *)
(* TypeORM's save is two statements: it selects the row, and then updates  *)
(* the columns in which the loaded entity differs from it, or inserts the  *)
(* entity when there is no such row.  Columns that are only copied are one *)
(* (`rest`).  Logos are left out, as are failures of Google, which lead to *)
(* an empty list, and the removal of properties.                           *)
(***************************************************************************)
EXTENDS Naturals

CONSTANTS
  Users,     \* members of staff, each with one request at a time
  Texts,     \* what a text may be
  Localities,   \* names of sublocations
  MaxRows, MaxRequests,   \* bounds of the model: rows a table ever gets, requests
  NULL, Contested

VARIABLES
  about,     \* the tables a behaviour is about
  entries,      \* of each table, its rows by id
  nextId,    \* AUTO_INCREMENT of each table
  requests,        \* the request of each user
  asked,     \* how many requests there were
  promised   \* history: what answered saves say of each row, field by field

adminVars == <<about, entries, nextId, requests, asked, promised>>

Ids == 1..MaxRows
NoRow == <<>>

\* seo_data holds sections with fields of their own: two of the section
\* locality, one of which Google fills, and one of the section photos.
Fields == [
  builders         |-> {"name", "slug", "rest"},
  cities           |-> {"name", "active"},
  sublocations     |-> {"city", "name", "active"},
  property_seo     |-> {"property", "title", "categories", "photos"},
  listing_page_seo |-> {"page", "title", "rest"}]

UniqueKey == [
  builders         |-> {"slug"},
  cities           |-> {"name"},
  sublocations     |-> {"city", "name"},
  property_seo     |-> {"property"},
  listing_page_seo |-> {"page"}]

Places == {"cities", "sublocations"}

NoRequest == [step |-> "idle"]
There(t, i) == entries[t][i] # NoRow
Over(set, row) == [f \in DOMAIN row |-> IF f \in DOMAIN set THEN set[f] ELSE row[f]]
Also(f, v, set) == [g \in DOMAIN set \union {f} |-> IF g = f THEN v ELSE set[g]]
BlankEntry(t) == [f \in Fields[t] |-> NULL]

\* Another row has the key of this one.
Clashes(t, i, row) ==
  \E j \in Ids \ {i} : There(t, j) /\ \A f \in UniqueKey[t] : entries[t][j][f] = row[f]

AdminRowsInit ==
  /\ about \in {{"builders"}, Places, {"property_seo"}, {"listing_page_seo"}}
  /\ entries = [t \in about |-> [i \in Ids |-> NoRow]]
  /\ nextId = [t \in about |-> 1]
  /\ requests = [u \in Users |-> NoRequest]
  /\ asked = 0
  /\ promised = entries

-----------------------------------------------------------------------------
(* Requests.                                                               *)

Flags == {"0", "1"}

\* The forms of creating and, for places, of updating: all fields but the slug.
Whole == [
  builders     |-> [{"name"} -> Texts],
  cities       |-> {[name |-> n, active |-> a] : n \in Texts, a \in Flags},
  sublocations |-> {[city |-> c, name |-> n, active |-> a] : c \in Ids, n \in Localities, a \in Flags}]

\* Forms with some fields only.
Partial == [
  builders         |-> [{"name"} -> Texts] \union [{"rest"} -> Texts],
  property_seo     |-> [{"title"} -> Texts] \union [{"photos"} -> Texts],
  listing_page_seo |-> [{"title"} -> Texts \union {NULL}] \union [{"rest"} -> Texts \union {NULL}]]

Submit(u, kind, t, i, set, step) ==
  /\ requests[u] = NoRequest /\ t \in about /\ asked < MaxRequests
  /\ asked' = asked + 1
  /\ requests' = [requests EXCEPT ![u] = [step |-> step, kind |-> kind, table |-> t, id |-> i, set |-> set,
                               row |-> Over(set, BlankEntry(t)), since |-> {}, n |-> 0, new |-> FALSE, diff |-> {}]]
  /\ UNCHANGED <<about, entries, nextId, promised>>

CreateEntry(u) ==
  \E t \in about \intersect DOMAIN Whole : \E set \in Whole[t] :
    Submit(u, "create", t, 0, set, CASE t = "builders" -> "slug" [] t = "cities" -> "unique" [] t = "sublocations" -> "city")

UpdateEntry(u) ==
  \E t \in about \ {"property_seo"}, i \in Ids :
    \E set \in IF t \in Places THEN Whole[t] ELSE Partial[t] : Submit(u, "update", t, i, set, "load")

UpdateEntryStatus(u) ==
  \E t \in about \intersect Places, i \in Ids, a \in Flags : Submit(u, "status", t, i, [active |-> a], "load")

RequestRemoval(u) ==
  \E t \in about \ {"property_seo"}, i \in Ids : Submit(u, "remove", t, i, NoRow, "load")

\* upsertPropertySeo and upsertByPath. A page's null keeps what the row has.
Upsert(u) ==
  \/ \E set \in Partial["property_seo"] : Submit(u, "upsert", "property_seo", 0, set, "load")
  \/ \E set \in Partial["listing_page_seo"] :
       Submit(u, "upsert", "listing_page_seo", 0, [f \in {g \in DOMAIN set : set[g] # NULL} |-> set[f]], "load")

\* generateLocalityData: the row is read after Google has answered.
GenerateLocality(u) ==
  \E places \in Texts : Submit(u, "upsert", "property_seo", 0, [categories |-> places], "load")

-----------------------------------------------------------------------------
(* Statements.                                                             *)

End(u) == requests' = [requests EXCEPT ![u] = NoRequest]
Refuse(u) == End(u) /\ UNCHANGED <<about, entries, nextId, asked, promised>>
Go(u, r) == requests' = [requests EXCEPT ![u] = r] /\ UNCHANGED <<about, entries, nextId, asked, promised>>

\* Faulty variant: the section a form names is replaced.
SectionReplaced(set, row) ==
  [f \in DOMAIN row |->
     IF f \in DOMAIN set THEN set[f]
     ELSE IF f \in {"title", "categories"} /\ {"title", "categories"} \intersect DOMAIN set # {} THEN NULL
     ELSE row[f]]

\* The loaded entity with what the form says, section by section.
Merged(set, row) == Over(set, row)

AfterLoad(r, row) ==
  IF r.kind = "remove" THEN "delete"
  ELSE IF r.table = "sublocations" /\ r.kind = "update" THEN "city"
  ELSE IF r.table = "cities" /\ r.kind = "update" THEN "unique"
  ELSE IF r.table = "builders" /\ "name" \in DOMAIN r.set /\ r.set.name # row.name THEN "slug"
  ELSE "save"

Load(u) ==
  LET r == requests[u]
      row == entries[r.table][r.id] IN
  /\ r.step = "load" /\ r.kind # "upsert"
  /\ IF There(r.table, r.id) THEN Go(u, [r EXCEPT !.row = Merged(r.set, row), !.step = AfterLoad(r, row)])
     ELSE Refuse(u)

\* The row of the one property or page there is, or a new entity for it.
LoadByKey(u) ==
  LET r == requests[u]
      new == [f \in Fields[r.table] |-> IF f \in UniqueKey[r.table] THEN "key" ELSE NULL] IN
  /\ r.step = "load" /\ r.kind = "upsert"
  /\ IF \E i \in Ids : There(r.table, i)
     THEN \E i \in Ids : There(r.table, i)
            /\ Go(u, [r EXCEPT !.id = i, !.row = Merged(r.set, entries[r.table][i]), !.step = "save"])
     ELSE Go(u, [r EXCEPT !.row = Merged(r.set, new), !.step = "save"])

EnsureCityExists(u) ==
  LET r == requests[u] IN
  /\ r.step = "city"
  /\ IF There("cities", r.set.city) /\ entries.cities[r.set.city].active = "1"
     THEN Go(u, [r EXCEPT !.step = "unique"]) ELSE Refuse(u)

EnsureUnique(u) ==
  LET r == requests[u] IN
  /\ r.step = "unique"
  /\ IF Clashes(r.table, r.id, r.row) THEN Refuse(u) ELSE Go(u, [r EXCEPT !.step = "save"])

\* generateUniqueSlug: one candidate after the other.
ChooseSlug(u) ==
  LET r == requests[u]
      candidate == <<r.set.name, r.n>>
      row == [r.row EXCEPT !.slug = candidate] IN
  /\ r.step = "slug"
  /\ IF Clashes("builders", r.id, row) THEN Go(u, [r EXCEPT !.n = @ + 1])
     ELSE Go(u, [r EXCEPT !.row = row, !.set = Also("slug", candidate, @), !.step = "save"])

\* The SELECT of save tells whether to insert, or which columns to update.
Select(u) ==
  LET r == requests[u] IN
  /\ r.step = "save"
  /\ IF r.id # 0 /\ There(r.table, r.id)
     THEN Go(u, [r EXCEPT !.diff = {f \in DOMAIN r.row : r.row[f] # entries[r.table][r.id][f]}, !.step = "update"])
     ELSE Go(u, [r EXCEPT !.step = "insert"])

\* The unique key, and the foreign key of sublocations.
Accepts(t, i, row) == ~Clashes(t, i, row) /\ (t = "sublocations" => There("cities", row.city))

\* History: a save that overlaps others contests the fields they name or write.
Promise(r, row, old) ==
  [f \in DOMAIN row |-> IF f \in r.since THEN Contested
                        ELSE IF f \in DOMAIN r.set THEN r.set[f]
                        ELSE IF old = NoRow THEN r.row[f] ELSE old[f]]

\* The requests that have loaded one of the rows learn which fields were written.
Overlapped(u, written, fields) ==
  [v \in Users |-> IF v = u THEN NoRequest
                   ELSE IF requests[v].step \in {"idle", "load"} \/ <<requests[v].table, requests[v].id>> \notin written THEN requests[v]
                   ELSE [requests[v] EXCEPT !.since = @ \union fields]]

Store(u, i, row, fields) ==
  LET r == requests[u] IN
  IF Accepts(r.table, i, row)
  THEN /\ entries' = [entries EXCEPT ![r.table][i] = row]
       /\ promised' = [promised EXCEPT ![r.table][i] = Promise(r, row, @)]
       /\ requests' = Overlapped(u, {<<r.table, i>>}, fields)
       /\ nextId' = [nextId EXCEPT ![r.table] = IF i < @ THEN @ ELSE i + 1]
       /\ UNCHANGED <<about, asked>>
  ELSE Refuse(u)

\* A row that is gone is no row to update, which is no error.
UpdateRow(u) ==
  LET r == requests[u]
      row == entries[r.table][r.id] IN
  /\ r.step = "update"
  /\ IF There(r.table, r.id)
     THEN Store(u, r.id, [f \in DOMAIN row |-> IF f \in r.diff THEN r.row[f] ELSE row[f]], r.diff \union DOMAIN r.set)
     ELSE Refuse(u)

\* A removed row is inserted again under its id.
InsertRow(u) ==
  LET r == requests[u] IN
  /\ r.step = "insert"
  /\ IF r.id = 0 THEN nextId[r.table] \in Ids /\ Store(u, nextId[r.table], r.row, Fields[r.table])
     ELSE IF There(r.table, r.id) THEN Refuse(u)
     ELSE Store(u, r.id, r.row, Fields[r.table])

\* The sublocations of a city go with it.
Leaving(t, i) ==
  {<<t, i>>} \union IF t # "cities" THEN {}
                    ELSE {<<"sublocations", j>> : j \in {k \in Ids : There("sublocations", k) /\ entries.sublocations[k].city = i}}

DeleteEntry(u) ==
  LET r == requests[u]
      gone == Leaving(r.table, r.id) IN
  /\ r.step = "delete"
  /\ entries' = [t \in about |-> [i \in Ids |-> IF <<t, i>> \in gone THEN NoRow ELSE entries[t][i]]]
  /\ promised' = [t \in about |-> [i \in Ids |-> IF <<t, i>> \in gone THEN NoRow ELSE promised[t][i]]]
  /\ requests' = Overlapped(u, gone, UNION {Fields[t] : t \in about})
  /\ UNCHANGED <<about, nextId, asked>>

AdminRowsNext == \E u \in Users :
  \/ CreateEntry(u) \/ UpdateEntry(u) \/ UpdateEntryStatus(u) \/ RequestRemoval(u) \/ Upsert(u) \/ GenerateLocality(u)
  \/ Load(u) \/ LoadByKey(u) \/ EnsureCityExists(u) \/ EnsureUnique(u) \/ ChooseSlug(u)
  \/ Select(u) \/ UpdateRow(u) \/ InsertRow(u) \/ DeleteEntry(u)

AdminRowsSpec == AdminRowsInit /\ [][AdminRowsNext]_adminVars

-----------------------------------------------------------------------------
\* What a save was answered with is what the row holds, field by field, until a
\* later save names the field or the row is removed; only saves of the row that
\* overlapped, one loading it before the other wrote, may have undone each other.
SavesKept ==
  \A t \in about, i \in Ids : \A f \in DOMAIN promised[t][i] :
    f \in DOMAIN entries[t][i] /\ promised[t][i][f] \in {entries[t][i][f], Contested}
=============================================================================
