---------------------------- MODULE ProjectMerge ----------------------------
(***************************************************************************)
(* Staff editing one project at the same time.                             *)
(*                                                                         *)
(* A save names the fields and the units it changes and the revision its   *)
(* form was loaded at.  The row remembers, per field and per unit, the     *)
(* revision that last changed it (fieldRevisions), so a save from an older *)
(* revision is merged unless what it changes was changed since.  update    *)
(* runs in one transaction that starts by locking the project's row: it is *)
(* one step.  Loading a form is two: the row first, then its units.        *)
(***************************************************************************)
EXTENDS Naturals, FiniteSets

CONSTANTS
  Fields,       \* columns of a project that a form edits
  Required,     \* columns the request must carry whether edited or not
  StatusField,  \* the column PATCH :id/status writes
  Derived,      \* for each column those update computes when it is sent:
                \* builderName for builderId, videoUrls for videos,
                \* canonicalSlug for slug
  Values,       \* what a column may hold
  Codes,        \* unit codes
  UnitValues,   \* what a unit may hold
  NoUnit,       \* there is no unit of this code
  Units,        \* the key of the unit list as a whole
  Clients,      \* staff members with a form open
  MaxRevision   \* bound: no write to a project that has this revision

Keys == Fields \cup Codes \cup {Units}

ASSUME ProjectAssumption ==
  /\ Required \subseteq Fields
  /\ StatusField \in Fields
  /\ Derived \in [Fields -> SUBSET Fields]
  /\ Fields \cap Codes = {}
  /\ Units \notin Fields \cup Codes
  /\ NoUnit \notin UnitValues
  /\ MaxRevision \in Nat \ {0}

VARIABLES
  project,   \* the row with its units; stamps is fieldRevisions (absent: 0)
  removed,   \* the row has been deleted
  forms,     \* what each staff member has loaded
  since      \* history: keys that saves named since the form's row was read

vars == <<project, removed, forms, since>>

UnitList == [Codes -> UnitValues \cup {NoUnit}]
Project == [revision : Nat, fields : [Fields -> Values], units : UnitList,
            stamps : [Keys -> Nat]]

\* How the editor a form belongs to describes its saves:
\*   merge  names its fields (changedFields) and units (changedUnitCodes);
\*   list   names its fields, and sends its units as one list;
\*   older  names nothing and sends everything, with its revision;
\*   blind  sends no revision.
Kinds == {"merge", "list", "older", "blind"}

Form == [stage : {"row", "open"}, kind : Kinds, revision : Nat,
         fields : [Fields -> Values], units : UnitList]
Closed == [stage |-> "closed"]

TypeOK ==
  /\ project \in Project
  /\ \A k \in Keys : project.stamps[k] <= project.revision
  /\ removed \in BOOLEAN
  /\ forms \in [Clients -> Form \cup {Closed}]
  /\ since \in [Clients -> SUBSET Keys]

Init ==
  /\ project \in [revision : {1}, fields : [Fields -> Values],
                  units : UnitList, stamps : [Keys -> {0}]]
  /\ removed = FALSE
  /\ forms = [c \in Clients |-> Closed]
  /\ since = [c \in Clients |-> {}]

(***************************************************************************)
(* Loading a form: details reads the row, then its units.                  *)
(***************************************************************************)

ReadRow(c, kind) ==
  /\ forms[c] = Closed
  /\ ~removed
  /\ forms' = [forms EXCEPT ![c] =
       [stage |-> "row", kind |-> kind, revision |-> project.revision,
        fields |-> project.fields, units |-> [u \in Codes |-> NoUnit]]]
  /\ since' = [since EXCEPT ![c] = {}]
  /\ UNCHANGED <<project, removed>>

\* Faulty variant: the revision is read again, after the columns it describes.
LoadedLate(c) ==
  [stage |-> "open", kind |-> forms[c].kind, revision |-> project.revision,
   fields |-> forms[c].fields, units |-> project.units]

Loaded(c) ==
  [stage |-> "open", kind |-> forms[c].kind, revision |-> forms[c].revision,
   fields |-> forms[c].fields, units |-> project.units]

ReadUnits(c) ==
  /\ forms[c].stage = "row"
  /\ forms' = [forms EXCEPT ![c] = Loaded(c)]
  /\ UNCHANGED <<project, removed, since>>

(***************************************************************************)
(* A save.  e and w are the edits of the form: functions from the edited   *)
(* fields and units to what they are to hold.                              *)
(***************************************************************************)

Edits == UNION {[F -> Values] : F \in SUBSET Fields}
UnitEdits == UNION {[C -> UnitValues \cup {NoUnit}] : C \in SUBSET Codes}

\* unitByUnit, and its opposite: the list is replaced.
ByUnit(kind, w) == kind = "merge" /\ DOMAIN w # {}
WholeList(kind, w) == kind = "older" \/ (kind = "list" /\ DOMAIN w # {})

\* The columns the payload holds.
Sent(kind, e) == IF kind = "older" THEN Fields ELSE DOMAIN e \cup Required

\* What update computes from the columns sent: builderName and canonicalSlug
\* only if there is such a builder and a slug, so any part of it.
Computed(F) == UNION {Derived[f] : f \in F}
Computations(kind, e) ==
  UNION {[D -> Values] : D \in SUBSET Computed(Sent(kind, e))}

\* changedFields, or every key of the payload when there is none.
Listed(kind, e, w) ==
  (IF kind \in {"merge", "list"} THEN DOMAIN e ELSE Sent(kind, e))
    \cup (IF ByUnit(kind, w) \/ WholeList(kind, w) THEN {Units} ELSE {})

FieldsOf(c, e) == [f \in Fields |-> IF f \in DOMAIN e THEN e[f] ELSE forms[c].fields[f]]
UnitsOf(c, w) == [u \in Codes |-> IF u \in DOMAIN w THEN w[u] ELSE forms[c].units[u]]

\* Faulty variant: what the form already shows counts as changed after it.
AfterOrAt(k, base) == project.stamps[k] >= base

After(k, base) == project.stamps[k] > base

\* findConflicts
Conflicts(base, kind, e, w) ==
  {f \in DOMAIN e : After(f, base)}
    \cup (IF ByUnit(kind, w) THEN {u \in DOMAIN w : After(u, base)} ELSE {})
    \cup (IF WholeList(kind, w) /\ \E k \in Codes \cup {Units} : After(k, base)
            THEN {Units} ELSE {})

Accepted(c, kind, e, w) ==
  /\ ~removed
  /\ \/ kind = "blind" /\ DOMAIN w = {}
     \/ kind # "blind" /\ forms[c].revision = project.revision
     \/ kind \in {"merge", "list"} /\ Conflicts(forms[c].revision, kind, e, w) = {}

\* The keys a save stamps: what it listed, and the units it touched or, for a
\* list, those it sent.
Named(c, kind, e, w) ==
  Listed(kind, e, w) \cup
  {u \in Codes : \/ ByUnit(kind, w) /\ u \in DOMAIN w
                 \/ WholeList(kind, w) /\ UnitsOf(c, w)[u] # NoUnit}

\* nextFieldRevisions, with the revision this save creates.
Stamps(c, kind, e, w) ==
  [k \in Keys |-> IF k \in Named(c, kind, e, w)
                    THEN project.revision + 1 ELSE project.stamps[k]]

\* Faulty variant: the whole list is rewritten although only some were touched.
NextUnitsWhole(c, kind, w) ==
  IF DOMAIN w = {} THEN project.units ELSE UnitsOf(c, w)

\* The units the transaction leaves behind.
NextUnits(c, kind, w) ==
  [u \in Codes |->
    IF WholeList(kind, w) \/ (ByUnit(kind, w) /\ u \in DOMAIN w)
      THEN UnitsOf(c, w)[u] ELSE project.units[u]]

\* The columns the statement leaves behind; g is what update has computed.
\* A computed column is written although nobody named it.
NextFields(c, kind, e, g) ==
  [f \in Fields |-> CASE f \in DOMAIN g -> g[f]
                     [] f \in Sent(kind, e) \ DOMAIN g -> FieldsOf(c, e)[f]
                     [] OTHER -> project.fields[f]]

Save(c, e, w, g) ==
  LET kind == forms[c].kind IN
  /\ Accepted(c, kind, e, w)
  /\ project' =
       [revision |-> project.revision + 1,
        fields   |-> NextFields(c, kind, e, g),
        units    |-> NextUnits(c, kind, w),
        stamps   |-> Stamps(c, kind, e, w)]
  /\ since' = [d \in Clients |-> IF d = c THEN {} ELSE since[d] \cup Named(c, kind, e, w)]
  /\ forms' = [forms EXCEPT ![c] = Closed]
  /\ UNCHANGED removed

\* 404 or 409: nothing is written, the editor has to load the form again.
Refuse(c, e, w) ==
  /\ ~Accepted(c, forms[c].kind, e, w)
  /\ forms' = [forms EXCEPT ![c] = Closed]
  /\ since' = [since EXCEPT ![c] = {}]
  /\ UNCHANGED <<project, removed>>

\* What an editor can send: edits that differ from what was loaded.
Request(c, e, w) ==
  /\ \A f \in DOMAIN e : e[f] # forms[c].fields[f]
  /\ \A u \in DOMAIN w : w[u] # forms[c].units[u]
  /\ DOMAIN e # {} \/ DOMAIN w # {}

Submit(c) ==
  /\ forms[c].stage = "open"
  /\ project.revision < MaxRevision
  /\ \E e \in Edits, w \in UnitEdits :
       /\ Request(c, e, w)
       /\ \/ \E g \in Computations(forms[c].kind, e) : Save(c, e, w, g)
          \/ Refuse(c, e, w)

(***************************************************************************)
(* The other writers of the row.                                           *)
(***************************************************************************)

\* updateStatus: the version column counts up, fieldRevisions stays.
UpdateStatus(v) ==
  /\ ~removed
  /\ project.revision < MaxRevision
  /\ project' = [revision |-> project.revision + 1,
                 fields   |-> [project.fields EXCEPT ![StatusField] = v],
                 units    |-> project.units,
                 stamps   |-> project.stamps]
  /\ UNCHANGED <<removed, forms, since>>

RemoveProject ==
  /\ ~removed
  /\ removed' = TRUE
  /\ UNCHANGED <<project, forms, since>>

Next ==
  \/ \E c \in Clients : \/ \E kind \in Kinds : ReadRow(c, kind)
                        \/ ReadUnits(c)
                        \/ Submit(c)
  \/ \E v \in Values : UpdateStatus(v)
  \/ RemoveProject

Spec == Init /\ [][Next]_vars

(***************************************************************************)
(* Properties                                                              *)
(***************************************************************************)

\* The step is an accepted save that c made from a revision it named.
Saves(c) ==
  /\ forms[c].stage = "open"
  /\ forms[c].kind # "blind"
  /\ project' # project
  /\ forms'[c] # forms[c]

Plain == Fields \ (Required \cup {StatusField} \cup Computed(Fields))

\* No lost update on a column: an accepted save overwrites only what its
\* editor was shown, however old the revision and whoever saved in between.
\* Not promised for the columns the code writes without naming them: those
\* sent with every request, those update computes from others (a save of
\* builderId overwrites a builderName saved since, unseen) and the status.
FieldsMerge ==
  [][\A c \in Clients, f \in Plain :
       Saves(c) /\ project'.fields[f] # project.fields[f]
         => project.fields[f] = forms[c].fields[f]]_vars

\* No lost update on a unit: an accepted save changes or removes a unit only
\* if its editor was shown that unit as it is.
UnitsMerge ==
  [][\A c \in Clients, u \in Codes :
       Saves(c) /\ project.units[u] # NoUnit /\ project'.units[u] # project.units[u]
         => project.units[u] = forms[c].units[u]]_vars

\* Edits of different fields and units do not block each other: a save that
\* names what it changes is refused only if somebody named one of the same
\* things since (for a list of units: any unit, or the list).
Overlap(c, e, w) ==
  \/ (DOMAIN e \cup DOMAIN w) \cap since[c] # {}
  \/ /\ forms[c].kind = "list"
     /\ DOMAIN w # {}
     /\ (Codes \cup {Units}) \cap since[c] # {}

RefusedForOverlap ==
  \A c \in Clients : \A e \in Edits, w \in UnitEdits :
    /\ forms[c].stage = "open"
    /\ forms[c].kind \in {"merge", "list"}
    /\ ~removed
    /\ Request(c, e, w)
    /\ ~Accepted(c, forms[c].kind, e, w)
    => Overlap(c, e, w)

\* The same promise for the columns every request has to carry.
RequiredFieldsMerge ==
  [][\A c \in Clients, f \in Required \ {StatusField} :
       Saves(c) /\ project'.fields[f] # project.fields[f]
         => project.fields[f] = forms[c].fields[f]]_vars

=============================================================================
