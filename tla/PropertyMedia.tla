---------------------------- MODULE PropertyMedia ----------------------------
(***************************************************************************)
(* The photos, plans and documents of a property: objects in a bucket that *)
(* database rows refer to by key.                                          *)
(*                                                                         *)
(* A browser uploads to a temporary key.  The save that names the key      *)
(* writes a copy under the permanent key, inside the transaction that      *)
(* writes the rows; the transaction may still be rolled back, the bucket   *)
(* has no transaction at all.  Objects nobody needs any more are deleted   *)
(* by calls nobody waits for.  A save is therefore as many steps as it has *)
(* files, and every deletion is a step of its own.                         *)
(***************************************************************************)
EXTENDS Naturals, FiniteSets

CONSTANTS
  Uploads,     \* what browsers upload: the names of the files
  Properties,  \* ids of properties
  Editors,     \* staff members; every editor sends the version it loaded
  Owner,       \* a property owner submitting a property of her own
  Slots,       \* of AllSlots, those in use
  Failing,     \* who may fail: of Actors, whose transactions; "bucket", deletions
  MaxVersion   \* bound: no save of a property that has this version

AllSlots == {"files", "plans", "units", "documents"}
Actors == Editors \cup {Owner}

ASSUME MediaAssumption ==
  /\ Owner \notin Editors
  /\ Slots \subseteq AllSlots
  /\ MaxVersion \in Nat

Keys == [at : {"temp", "properties"}, file : Uploads]
Staged(u) == [at |-> "temp", file |-> u]
Temporary(k) == k.at = "temp"

\* The name of the copy follows from the name of the upload.
Permanent(k) == [at |-> "properties", file |-> k.file]

VARIABLES
  stored,   \* the objects in the bucket
  doomed,   \* objects some call is about to delete
  rows,     \* the properties; a removed one keeps the media it had last
  forms,    \* what an actor is editing
  saves,    \* the transaction of an actor's save
  removal,  \* the removal of a property that is under way
  fresh     \* history: names no upload has used

vars == <<stored, doomed, rows, forms, saves, removal, fresh>>

Media == [Slots -> SUBSET Keys]
NoMedia == [s \in Slots |-> {}]
KeysOf(m) == UNION {m[s] : s \in Slots}

NotYet == [version |-> 0, live |-> FALSE, media |-> NoMedia]
Closed == [open |-> FALSE]
Idle == [busy |-> FALSE]

\* A form for a property that does not exist yet has version 0.
Form == [open : {TRUE}, property : Properties, version : Nat, seen : Media, media : Media]
Save == [busy : {TRUE}, sent : SUBSET Slots, result : Media,
         todo : SUBSET (Slots \X Keys), deferred : SUBSET Keys]

TypeOK ==
  /\ stored \subseteq Keys
  /\ doomed \subseteq Keys
  /\ rows \in [Properties -> [version : Nat, live : BOOLEAN, media : Media]]
  /\ forms \in [Actors -> Form \cup {Closed}]
  /\ saves \in [Actors -> Save \cup {Idle}]
  /\ removal \in [of : Properties, keys : SUBSET Keys] \cup {Closed}
  /\ fresh \subseteq Uploads
  /\ \A a \in Actors : saves[a].busy => forms[a].open

Init ==
  /\ stored = {}
  /\ doomed = {}
  /\ rows = [p \in Properties |-> NotYet]
  /\ forms = [a \in Actors |-> Closed]
  /\ saves = [a \in Actors |-> Idle]
  /\ removal = Closed
  /\ fresh = Uploads

Saving(p) == \E a \in Actors : saves[a].busy /\ forms[a].property = p

-----------------------------------------------------------------------------
(* Forms *)

\* An editor loads a property.
Load(a) ==
  /\ a \in Editors /\ ~forms[a].open
  /\ \E p \in Properties :
       /\ rows[p].live
       /\ forms' = [forms EXCEPT ![a] =
            [open |-> TRUE, property |-> p, version |-> rows[p].version,
             seen |-> rows[p].media, media |-> rows[p].media]]
  /\ UNCHANGED <<stored, doomed, rows, saves, removal, fresh>>

\* Anyone starts a new property.  (Its id is chosen when the row is inserted;
\* which it is makes no difference before.)
Start(a) ==
  /\ ~forms[a].open
  /\ \E p \in Properties :
       /\ rows[p] = NotYet
       /\ \A b \in Actors : forms[b].open => forms[b].property # p
       /\ forms' = [forms EXCEPT ![a] =
            [open |-> TRUE, property |-> p, version |-> 0,
             seen |-> NoMedia, media |-> NoMedia]]
  /\ UNCHANGED <<stored, doomed, rows, saves, removal, fresh>>

\* The form with ks as its list of a section.
With(f, s, ks) ==
  [open |-> TRUE, property |-> f.property, version |-> f.version, seen |-> f.seen,
   media |-> [f.media EXCEPT ![s] = ks]]

\* Owners add photos and floor plans; the plans are sent as documents.
SlotsOf(a) == IF a = Owner THEN Slots \cap {"files", "documents"} ELSE Slots

\* The browser uploads a file to the signed URL of a temporary key.
Upload(a) ==
  /\ forms[a].open /\ ~saves[a].busy
  /\ \E u \in fresh, s \in SlotsOf(a) :
       /\ forms' = [forms EXCEPT ![a] = With(forms[a], s, forms[a].media[s] \cup {Staged(u)})]
       /\ stored' = stored \cup {Staged(u)}
       /\ fresh' = fresh \ {u}
  /\ UNCHANGED <<doomed, rows, saves, removal>>

\* An editor takes a file out of the form.
Discard(a) ==
  /\ a \in Editors /\ forms[a].open /\ ~saves[a].busy
  /\ \E s \in Slots : \E k \in forms[a].media[s] :
       forms' = [forms EXCEPT ![a] = With(forms[a], s, forms[a].media[s] \ {k})]
  /\ UNCHANGED <<stored, doomed, rows, saves, removal, fresh>>

-----------------------------------------------------------------------------
(* Saves *)

\* Faulty variant: the save of an editor compares nothing.
CurrentIfLive(f) == LET row == rows[f.property] IN row.version > 0 => row.live

\* The version a form was loaded with is the row's; a new property has none.
Current(f) ==
  LET row == rows[f.property] IN
    /\ f.version = row.version
    /\ f.version > 0 => row.live

\* What a save has to copy: the temporary keys it sends, except those of
\* documents that the property already has.
ToCopy(f, sent) ==
  {x \in sent \X Keys :
     /\ x[2] \in f.media[x[1]]
     /\ Temporary(x[2])
     /\ x[1] = "documents" => x[2] \notin rows[f.property].media["documents"]}

\* Begin a save: lock the row, compare versions.  A section the form has not
\* changed may be sent or left out.
BeginSave(a) ==
  /\ forms[a].open /\ ~saves[a].busy
  /\ ~Saving(forms[a].property)
  /\ Current(forms[a])
  /\ rows[forms[a].property].version < MaxVersion
  /\ \E sent \in SUBSET Slots :
       /\ \A s \in Slots \ sent : forms[a].media[s] = rows[forms[a].property].media[s]
       /\ LET todo == ToCopy(forms[a], sent) IN
            saves' = [saves EXCEPT ![a] =
              [busy |-> TRUE, sent |-> sent, todo |-> todo, deferred |-> {},
               result |-> [s \in Slots |-> {k \in forms[a].media[s] : <<s, k>> \notin todo}]]]
  /\ UNCHANGED <<stored, doomed, rows, forms, removal, fresh>>

\* The version is not the row's (409), or the row is gone (404); the editor
\* has to load again.
Refused(a) ==
  /\ forms[a].open /\ ~saves[a].busy
  /\ ~Saving(forms[a].property)
  /\ ~Current(forms[a])
  /\ forms' = [forms EXCEPT ![a] = Closed]
  /\ UNCHANGED <<stored, doomed, rows, saves, removal, fresh>>

\* File x of save v is done: the rows will refer to k, and the commit will
\* delete also.
Done(v, x, k, also) ==
  [busy |-> TRUE, sent |-> v.sent, todo |-> v.todo \ {x}, deferred |-> v.deferred \cup also,
   result |-> [v.result EXCEPT ![x[1]] = v.result[x[1]] \cup {k}]]

\* Faulty variant: only updates keep the uploads of documents.
RetainsUpdated(a, s) == s = "documents" /\ forms[a].version > 0

\* Does the copy leave the temporary object until the transaction commits?
Retains(a, s) == a = Owner \/ (s = "documents" /\ forms[a].version > 0)

\* A photo or plan is resized into its permanent key, a document moved there.
\* The temporary object is deleted by the commit, or right away: for a photo
\* by a call that is not awaited.
Copy(a) ==
  /\ saves[a].busy
  /\ \E x \in saves[a].todo :
       LET k == x[2]
           kept == Retains(a, x[1])
           moved == x[1] = "documents" /\ ~kept IN
       /\ k \in stored
       /\ saves' = [saves EXCEPT ![a] =
            Done(saves[a], x, Permanent(k), IF kept THEN {k} ELSE {})]
       /\ stored' = (IF moved THEN stored \ {k} ELSE stored) \cup {Permanent(k)}
       /\ doomed' = IF kept \/ moved THEN doomed ELSE doomed \cup {k}
  /\ UNCHANGED <<rows, forms, removal, fresh>>

\* imgproxy fails, or finds no object: the rows will refer to the temporary
\* key as it is.
FallBack(a) ==
  /\ saves[a].busy
  /\ \E x \in saves[a].todo :
       /\ x[1] # "documents"
       /\ saves' = [saves EXCEPT ![a] = Done(saves[a], x, x[2], {})]
  /\ UNCHANGED <<stored, doomed, rows, forms, removal, fresh>>

\* The transaction is rolled back: a document is no longer in the bucket, or
\* any statement fails.  The form stays as it is and may be saved again.
Rollback(a) ==
  /\ saves[a].busy
  /\ \/ a \in Failing
     \/ \E x \in saves[a].todo : x[1] = "documents" /\ x[2] \notin stored
  /\ saves' = [saves EXCEPT ![a] = Idle]
  /\ UNCHANGED <<stored, doomed, rows, forms, removal, fresh>>

\* Faulty variant: every former key is taken for an orphan.
OrphansAll(a, s) == rows[forms[a].property].media[s]

\* The keys of a section the save leaves without a row.  For photos and units
\* the request is what counts, for plans the processed list.
Orphans(a, s) ==
  rows[forms[a].property].media[s] \
    (IF s = "plans" THEN saves[a].result[s] ELSE forms[a].media[s])

\* All files are done: the rows are written, and what they no longer need is
\* deleted by a call that is not awaited.
Commit(a) ==
  /\ saves[a].busy /\ saves[a].todo = {}
  /\ LET p == forms[a].property IN
     /\ rows' = [rows EXCEPT ![p] =
          [version |-> rows[p].version + 1, live |-> TRUE, media |-> saves[a].result]]
     /\ doomed' = doomed \cup saves[a].deferred
                    \cup UNION {Orphans(a, s) : s \in saves[a].sent}
  /\ forms' = [forms EXCEPT ![a] = Closed]
  /\ saves' = [saves EXCEPT ![a] = Idle]
  /\ UNCHANGED <<stored, removal, fresh>>

-----------------------------------------------------------------------------
(* Removal and deletion *)

\* The keys of a property are read first, without a lock.
BeginRemoval ==
  /\ removal = Closed
  /\ \E p \in Properties :
       /\ rows[p].live
       /\ removal' = [of |-> p, keys |-> UNION {rows[p].media[s] : s \in Slots \ {"plans"}}]
  /\ UNCHANGED <<stored, doomed, rows, forms, saves, fresh>>

\* Then its row is deleted, once no save holds it, and the objects after it.
Remove ==
  /\ removal # Closed
  /\ ~Saving(removal.of)
  /\ rows' = [rows EXCEPT ![removal.of].live = FALSE]
  /\ doomed' = doomed \cup removal.keys
  /\ removal' = Closed
  /\ UNCHANGED <<stored, forms, saves, fresh>>

\* One of the deletions reaches the bucket.
Delete ==
  /\ \E k \in doomed :
       /\ doomed' = doomed \ {k}
       /\ stored' = stored \ {k}
  /\ UNCHANGED <<rows, forms, saves, removal, fresh>>

\* A deletion fails, or the process ends before it: the object stays.
DeletionLost ==
  /\ "bucket" \in Failing
  /\ \E k \in doomed : doomed' = doomed \ {k}
  /\ UNCHANGED <<stored, rows, forms, saves, removal, fresh>>

Next ==
  \/ \E a \in Actors :
       \/ Load(a) \/ Start(a) \/ Upload(a) \/ Discard(a)
       \/ BeginSave(a) \/ Refused(a) \/ Copy(a) \/ FallBack(a)
       \/ Rollback(a) \/ Commit(a)
  \/ BeginRemoval \/ Remove \/ Delete \/ DeletionLost

Spec == Init /\ [][Next]_vars

-----------------------------------------------------------------------------
(* Correctness *)

\* What the rows of a property refer to is in the bucket and stays there,
\* whenever no save of it is under way.  Rows and objects are changed by
\* different calls, and deletions arrive when they like.
MediaShown ==
  \A p \in Properties :
    rows[p].live /\ ~Saving(p) => KeysOf(rows[p].media) \subseteq stored \ doomed

\* As long as the owner's property has not been created, everything she has
\* uploaded is still there: a submission that failed, at whichever point, can
\* be sent again.
OwnerCanRetry ==
  forms[Owner].open =>
    {k \in KeysOf(forms[Owner].media) : Temporary(k)} \subseteq stored \ doomed

\* A save that takes a file from a property is a save by someone who had that
\* file in front of them: nobody's new photo goes because a colleague saved an
\* older form.
NothingUnseenRemoved ==
  [][\A p \in Properties : rows[p].live /\ rows'[p].live =>
       \A s \in Slots : rows[p].media[s] \ rows'[p].media[s] \subseteq
         UNION {forms[a].seen[s] : a \in {b \in Actors :
                  saves[b].busy /\ ~saves'[b].busy /\ forms[b].property = p}}]_vars

=============================================================================
