------------------------------- MODULE AdMedia -------------------------------
(***************************************************************************)
(* Advertisements and their images (src/modules/admin/ads).  An ad has a   *)
(* desktop image and, as its placement demands, a mobile one; both are     *)
(* objects in the bucket, uploaded under a temporary key and copied under  *)
(* a final one while the ad is saved.  A save checks all uploads, copies   *)
(* them one after the other, writes the row and then deletes the images    *)
(* that it replaced, unless another ad still refers to them.  Nothing of   *)
(* this is a transaction.  Writing the row is two statements of TypeORM's: *)
(* the row is selected, and then the columns are updated in which the ad   *)
(* differs that was loaded and changed, or a row that is gone is inserted. *)
(***************************************************************************)
EXTENDS Naturals, FiniteSets

CONSTANTS
  Ads,          \* ids
  Uploads,      \* names of uploaded files, each sent once
  Staff,        \* those who edit ads, each one request at a time
  Takes,        \* what each placement takes: "both", "optional" or "single"
  None,         \* no mobile image
  Failing,      \* what may fail: "imgproxy", "ratio", "database"
  Reuse,        \* places ("temp", "ads") of images of ads that saves name again
  BlankMobile   \* whether saves may name the empty string as mobile image

Placements == DOMAIN Takes

ASSUME TakesAssumption == \A p \in Placements : Takes[p] \in {"both", "optional", "single"}

Keys == [at : {"temp", "ads"}, file : Uploads]
Staged(u) == [at |-> "temp", file |-> u]

\* The name of the copy follows from the name of the upload.
Final(k) == [at |-> "ads", file |-> k.file]

VARIABLES
  stored,   \* the objects in the bucket
  doomed,   \* objects some call is about to delete
  rows,     \* the ads
  op,       \* the request of each staff member
  fresh,    \* history: uploads not sent yet
  mixed,    \* history: ads a request updated that was overtaken (Overtaken)
  overlapped   \* history: a request began while another one was under way

vars == <<stored, doomed, rows, op, fresh, mixed, overlapped>>
history == <<mixed, overlapped>>

\* What a save may name for an image: a key, or nothing ("same"); for the
\* mobile image also the empty string ("blank") or null ("clear").
Same == [at |-> "same", file |-> None]
Blank == [at |-> "blank", file |-> None]
Clear == [at |-> "clear", file |-> None]
IsTemp(k) == k.at = "temp"

Absent == [live |-> FALSE, placement |-> CHOOSE p \in Placements : TRUE,
           desktop |-> Clear, mobile |-> Clear]
ImagesOf(row) == {row.desktop, row.mobile} \ {Clear}
Shown == {a \in Ads : rows[a].live}
Referenced == UNION {ImagesOf(rows[a]) : a \in Shown}

Columns == {"placement", "desktop", "mobile"}

Idle == [step |-> "idle", ad |-> CHOOSE a \in Ads : TRUE, desktop |-> Same, mobile |-> Same,
         entity |-> Absent, moved |-> FALSE, diff |-> {}, overtaken |-> FALSE, old |-> {}]

Init ==
  /\ stored = {}
  /\ doomed = {}
  /\ rows = [a \in Ads |-> Absent]
  /\ op = [s \in Staff |-> Idle]
  /\ fresh = Uploads
  /\ mixed = {}
  /\ overlapped = FALSE

-----------------------------------------------------------------------------
(* Requests *)

TempsOf(d, m) == {k \in {d, m} : IsTemp(k)}

\* What a save can name: a new upload, or an image that an ad has.
Named == {Staged(u) : u \in fresh} \union {k \in Referenced : k.at \in Reuse}

\* The files of a request are uploaded before it is sent, one for each image.
Send(d, m) ==
  LET new == {k \in TempsOf(d, m) : k.file \in fresh}
  IN /\ IsTemp(d) => d # m
     /\ fresh' = fresh \ {k.file : k \in new}
     /\ stored' = stored \union new

\* Faulty variant: a mobile image may be cleared wherever the ad stays.
RefusesMoved(row, p, d, m) ==
  /\ p # row.placement
  /\ \/ ~IsTemp(d)
     \/ Takes[p] = "both" /\ ~IsTemp(m)

\* The checks of update before any upload is looked at.
Refuses(row, p, d, m) ==
  \/ p # row.placement /\ ~IsTemp(d)
  \/ p # row.placement /\ Takes[p] = "both" /\ ~IsTemp(m)
  \/ Takes[p] = "both" /\ m = Clear

\* History: whether requests ever overlapped.
Begin(s) ==
  /\ op[s].step = "idle"
  /\ overlapped' = (overlapped \/ \E t \in Staff \ {s} : op[t].step # "idle")
  /\ UNCHANGED mixed

\* A key named for an image the placement does not take is dropped.
Ignored(p, m) == Takes[p] = "single" /\ m \in Keys

Proceed(s, a, p, d, m, entity, moved) ==
  /\ op' = [op EXCEPT ![s] =
       [step |-> "validate", ad |-> a, desktop |-> d,
        mobile |-> IF Ignored(p, m) THEN Same ELSE m,
        entity |-> entity, moved |-> moved, diff |-> {}, overtaken |-> FALSE, old |-> {}]]
  /\ doomed' = IF Ignored(p, m) THEN doomed \union TempsOf(m, m) ELSE doomed

\* create; without a mobile image the ad has none, like one that is moved.
Create(s, a, p, d, m) ==
  /\ Begin(s)
  /\ rows[a] = Absent /\ \A t \in Staff : op[t].step # "idle" => op[t].ad # a
  /\ d \in Named /\ m \in Named \union {Same}
  /\ Send(d, m)
  /\ IF Takes[p] = "both" /\ m = Same
       THEN doomed' = doomed \union TempsOf(d, d) /\ op' = op
       ELSE Proceed(s, a, p, d, m,
                    [live |-> TRUE, placement |-> p, desktop |-> Clear, mobile |-> Clear], TRUE)
  /\ UNCHANGED rows

\* update loads the ad and checks what it is sent.
Update(s, a, p, d, m) ==
  /\ Begin(s)
  /\ rows[a].live
  /\ d \in Named \union {Same}
  /\ m \in Named \union {Same, Clear} \union (IF BlankMobile THEN {Blank} ELSE {})
  /\ Send(d, m)
  /\ IF Refuses(rows[a], p, d, m)
       THEN doomed' = doomed \union TempsOf(d, m) /\ op' = op
       ELSE Proceed(s, a, p, d, m,
                    [rows[a] EXCEPT !.placement = p], p # rows[a].placement)
  /\ UNCHANGED rows

\* updateStatus loads the ad, to save it with another status.
UpdateStatus(s, a) ==
  /\ Begin(s)
  /\ rows[a].live
  /\ op' = [op EXCEPT ![s] = [Idle EXCEPT !.step = "save", !.ad = a, !.entity = rows[a]]]
  /\ UNCHANGED <<stored, doomed, rows, fresh>>

\* remove loads the ad, to delete its row and then its images.
Remove(s, a) ==
  /\ Begin(s)
  /\ rows[a].live
  /\ op' = [op EXCEPT ![s] = [Idle EXCEPT !.step = "delete", !.ad = a, !.entity = rows[a]]]
  /\ UNCHANGED <<stored, doomed, rows, fresh>>

-----------------------------------------------------------------------------
(* The steps of a save *)

\* The uploads that are looked at before any of them is copied.
Checked(o) == TempsOf(o.desktop, o.mobile)

\* An upload is missing or has the wrong ratio: all uploads are deleted.
Validate(s) ==
  /\ op[s].step = "validate"
  /\ \/ /\ Checked(op[s]) \subseteq stored
        /\ op' = [op EXCEPT ![s].step = "desktop"]
        /\ doomed' = doomed
     \/ /\ Checked(op[s]) # {}
        /\ Checked(op[s]) \subseteq stored => "ratio" \in Failing
        /\ op' = [op EXCEPT ![s] = Idle]
        /\ doomed' = doomed \union TempsOf(op[s].desktop, op[s].mobile)
  /\ UNCHANGED <<stored, rows, fresh, history>>

\* processAdImage of k with result key: a copy, or k itself if that failed.
Finalize(k, key) ==
  \/ /\ ~IsTemp(k)
     /\ key = k
     /\ UNCHANGED <<stored, doomed>>
  \/ /\ IsTemp(k) /\ k \in stored
     /\ key = Final(k)
     /\ stored' = stored \union {Final(k)}
     /\ doomed' = doomed \union {k}
  \/ /\ IsTemp(k)
     /\ k \in stored => "imgproxy" \in Failing
     /\ key = k
     /\ UNCHANGED <<stored, doomed>>

\* The image an upload takes the place of.
Replaced(k, key, old) == IF IsTemp(k) /\ key # old THEN {old} \ {Clear} ELSE {}

FinalizeDesktop(s) ==
  /\ op[s].step = "desktop"
  /\ LET o == op[s] IN
       IF o.desktop = Same
         THEN op' = [op EXCEPT ![s].step = "mobile"] /\ UNCHANGED <<stored, doomed>>
         ELSE \E key \in {o.desktop, Final(o.desktop)} :
                /\ Finalize(o.desktop, key)
                /\ op' = [op EXCEPT ![s].step = "mobile", ![s].entity.desktop = key,
                            ![s].old = Replaced(o.desktop, key, o.entity.desktop)]
  /\ UNCHANGED <<rows, fresh, history>>

\* Without an image for the new placement, or where none is taken, the mobile
\* image goes; an empty string is refused only now.
FinalizeMobile(s) ==
  /\ op[s].step = "mobile"
  /\ LET o == op[s]
         gone == \/ Takes[o.entity.placement] = "single"
                 \/ o.moved /\ o.mobile \in {Same, Blank}
                 \/ o.mobile = Clear
     IN \/ /\ gone
           /\ op' = [op EXCEPT ![s].step = "save", ![s].entity.mobile = Clear,
                       ![s].old = @ \union ({o.entity.mobile} \ {Clear})]
           /\ UNCHANGED <<stored, doomed>>
        \/ /\ ~gone /\ o.mobile = Same
           /\ op' = [op EXCEPT ![s].step = "save"]
           /\ UNCHANGED <<stored, doomed>>
        \/ /\ ~gone /\ o.mobile = Blank
           /\ op' = [op EXCEPT ![s] = Idle]
           /\ UNCHANGED <<stored, doomed>>
        \/ /\ ~gone /\ o.mobile \in Keys
           /\ \E key \in {o.mobile, Final(o.mobile)} :
                /\ Finalize(o.mobile, key)
                /\ op' = [op EXCEPT ![s].step = "save", ![s].entity.mobile = key,
                            ![s].old = @ \union Replaced(o.mobile, key, o.entity.mobile)]
  /\ UNCHANGED <<rows, fresh, history>>

\* The SELECT of save tells whether to insert, or which columns to update.
\* (For a new ad there is none; it finds no row.)
SelectAd(s) ==
  /\ op[s].step = "save"
  /\ LET row == rows[op[s].ad] IN
       op' = [op EXCEPT ![s].step = IF row.live THEN "update" ELSE "insert",
                        ![s].diff = {f \in Columns : op[s].entity[f] # row[f]}]
  /\ UNCHANGED <<stored, doomed, rows, fresh, history>>

\* Requests that have loaded an ad and not written it yet.
Saving == {"validate", "desktop", "mobile", "save", "update", "insert"}

\* History: another request has changed the ad since this one, o, loaded it,
\* and one of the two moves it to another placement.
Overtaken(o, a, row) ==
  o.overtaken \/ /\ o.step \in Saving /\ o.ad = a
                 /\ row # rows[a]
                 /\ o.moved \/ row.placement # rows[a].placement

Write(s, row) ==
  /\ rows' = [rows EXCEPT ![op[s].ad] = row]
  /\ op' = [t \in Staff |->
       IF t = s THEN [op[s] EXCEPT !.step = "clean", !.diff = {}, !.overtaken = FALSE]
       ELSE [op[t] EXCEPT !.overtaken = Overtaken(op[t], op[s].ad, row)]]

\* The row as the UPDATE leaves it; of one that is gone there is nothing to update.
Updated(o) ==
  LET row == rows[o.ad] IN
  IF ~row.live THEN row
  ELSE [row EXCEPT !.placement = IF "placement" \in o.diff THEN o.entity.placement ELSE @,
                   !.desktop = IF "desktop" \in o.diff THEN o.entity.desktop ELSE @,
                   !.mobile = IF "mobile" \in o.diff THEN o.entity.mobile ELSE @]

UpdateAd(s) ==
  /\ op[s].step = "update"
  /\ Write(s, Updated(op[s]))
  /\ mixed' = IF op[s].overtaken THEN mixed \union {op[s].ad} ELSE mixed
  /\ UNCHANGED <<stored, doomed, fresh, overlapped>>

\* A removed ad is inserted again under its id, as it was loaded and changed,
\* unless another request has done so.
InsertAd(s) ==
  /\ op[s].step = "insert"
  /\ IF rows[op[s].ad].live
       THEN op' = [op EXCEPT ![s] = Idle] /\ rows' = rows
       ELSE Write(s, op[s].entity)
  /\ UNCHANGED <<stored, doomed, fresh, history>>

DeleteRow(s) ==
  /\ op[s].step = "delete"
  /\ rows' = [rows EXCEPT ![op[s].ad].live = FALSE]
  /\ op' = [op EXCEPT ![s].step = "clean", ![s].old = ImagesOf(op[s].entity)]
  /\ UNCHANGED <<stored, doomed, fresh, history>>

SaveFails(s) ==
  /\ "database" \in Failing
  /\ op[s].step \in {"save", "update", "insert", "delete"}
  /\ op' = [op EXCEPT ![s] = Idle]
  /\ UNCHANGED <<stored, doomed, rows, fresh, history>>

\* Faulty variant: the replaced image is deleted whoever else shows it.
UncountedUnused(k) == TRUE

Unused(k) == k \notin Referenced

\* deleteUnreferencedKeys: a replaced image is deleted unless an ad has it.
Clean(s) ==
  /\ op[s].step = "clean"
  /\ IF op[s].old = {}
       THEN op' = [op EXCEPT ![s] = Idle] /\ doomed' = doomed
       ELSE \E k \in op[s].old :
              /\ op' = [op EXCEPT ![s].old = @ \ {k}]
              /\ doomed' = IF Unused(k) THEN doomed \union {k} ELSE doomed
  /\ UNCHANGED <<stored, rows, fresh, history>>

\* A deletion that fails is logged and forgotten: one that never comes.
Delete(k) ==
  /\ k \in doomed
  /\ doomed' = doomed \ {k}
  /\ stored' = stored \ {k}
  /\ UNCHANGED <<rows, op, fresh, history>>

-----------------------------------------------------------------------------
Acts(s) ==
  \/ \E a \in Ads :
       \/ \E p \in Placements :
            \/ \E d \in Named, m \in Named \union {Same} : Create(s, a, p, d, m)
            \/ \E d \in Named \union {Same}, m \in Named \union {Same, Blank, Clear} :
                 Update(s, a, p, d, m)
       \/ UpdateStatus(s, a)
       \/ Remove(s, a)
  \/ Validate(s) \/ FinalizeDesktop(s) \/ FinalizeMobile(s)
  \/ SelectAd(s) \/ UpdateAd(s) \/ InsertAd(s) \/ DeleteRow(s) \/ SaveFails(s) \/ Clean(s)

Deletes == \E k \in doomed : Delete(k)

Next == (\E s \in Staff : Acts(s)) \/ Deletes

Spec == Init /\ [][Next]_vars

-----------------------------------------------------------------------------
\* Every image of an ad is in the bucket and nobody is about to delete it,
\* although images are replaced, shared between ads and deleted after the
\* rows: the tests "keeps a creative that remains referenced by another ad or
\* image slot" and "keeps the old creative when saving its replacement fails".
\* As long as requests do not overlap: a save undoes in the row, not in the
\* bucket, what was changed since it loaded the ad.
ImagesShown == ~overlapped => Referenced \subseteq stored \ doomed

\* An ad has the images its placement takes, however its placement, its images
\* and its status are changed, also by requests that overlap and write only
\* the columns in which they differ from what they found; but for ads updated
\* by a request that another one overtook, one of the two moving the ad.
FitsPlacement ==
  \A a \in Shown \ mixed :
    /\ rows[a].desktop # Clear
    /\ Takes[rows[a].placement] = "both" => rows[a].mobile # Clear
    /\ Takes[rows[a].placement] = "single" => rows[a].mobile = Clear

=============================================================================
