---------------------------- MODULE CatalogueProofs ----------------------------
(***************************************************************************)
(* What is kept of projects and of listings.                               *)
(*                                                                         *)
(* ProjectMerge: what the revision stamps guarantee, for any fields,       *)
(* units, staff members and number of saves.  A unit, or a column that     *)
(* saves write only when they name it, is still as a form shows it if it   *)
(* is not stamped later than the form's revision.  An accepted save writes *)
(* only such units and columns, or is at the row's own revision, which no  *)
(* stamp exceeds; and besides the columns the code writes unnamed.         *)
(*                                                                         *)
(* Listings: what a click on a wishlist answers, however many overlap.  A  *)
(* guest has one row of a listing, so that who found one deletes the only  *)
(* one there was, and later ones have later numbers.                       *)
(*                                                                         *)
(* What a request shows was read while it could be shown: each read leaves *)
(* in the request only what it has seen, and changes of the CRM are seen   *)
(* by all that read.  A set in order holds every element once, at the      *)
(* place given by how many are before it; from this follow the order of    *)
(* the rails, and that the pages of a listing, put together, are the whole.*)
(***************************************************************************)
EXTENDS ProjectMerge, Listings, FiniteSetTheorems, SequenceTheorems, WellFoundedInduction, TLAPS

\* A unit or a plain column that is not stamped after a form was loaded is as
\* the form shows it, and the stamps after its revision are those of the saves
\* since.  (Plain leaves out the columns update writes without a stamp: those
\* of every request, the computed ones and the status.)
Follows(c) ==
  /\ forms[c].revision <= project.revision
  /\ \A f \in Plain : project.stamps[f] <= forms[c].revision
       => forms[c].fields[f] = project.fields[f]
  /\ forms[c].stage = "open" =>
       \A u \in Codes :
         project.units[u] # NoUnit /\ project.stamps[u] <= forms[c].revision
           => forms[c].units[u] = project.units[u]
  /\ \A k \in Keys : project.stamps[k] > forms[c].revision <=> k \in since[c]

IInv == TypeOK /\ \A c \in Clients : forms[c] # Closed => Follows(c)

(***************************************************************************)
(* Lemmas about requests                                                   *)
(***************************************************************************)

\* The edits of a request are of fields and units, and to values of theirs.
LEMMA EditTypes ==
  ASSUME NEW e \in Edits, NEW w \in UnitEdits
  PROVE  /\ DOMAIN e \subseteq Fields
         /\ \A f \in DOMAIN e : e[f] \in Values
         /\ DOMAIN w \subseteq Codes
         /\ \A u \in DOMAIN w : w[u] \in UnitValues \cup {NoUnit}
<1>1. PICK F \in SUBSET Fields : e \in [F -> Values]
  BY DEF Edits
<1>2. PICK C \in SUBSET Codes : w \in [C -> UnitValues \cup {NoUnit}]
  BY DEF UnitEdits
<1>3. QED
  BY <1>1, <1>2

\* A form that is not closed is typed.
LEMMA OpenForm ==
  ASSUME TypeOK, NEW c \in Clients, forms[c] # Closed
  PROVE  /\ forms[c] \in Form
         /\ forms[c].stage \in {"row", "open"}
         /\ forms[c].kind \in Kinds
         /\ forms[c].revision \in Nat
         /\ forms[c].fields \in [Fields -> Values]
         /\ forms[c].units \in UnitList
BY DEF TypeOK, Form

\* The kinds and stages of a closed form are none of the others.
LEMMA ClosedForm ==
  ASSUME TypeOK, NEW c \in Clients, forms[c].stage \in {"row", "open"}
  PROVE  forms[c] # Closed
BY DEF Closed

\* The row's parts are typed, and no stamp is ahead of the revision.
LEMMA RowTypes ==
  ASSUME TypeOK
  PROVE  /\ project.revision \in Nat
         /\ project.fields \in [Fields -> Values]
         /\ project.units \in UnitList
         /\ project.stamps \in [Keys -> Nat]
         /\ \A k \in Keys : project.stamps[k] <= project.revision
BY DEF TypeOK, Project

\* What a save names is a set of keys.
LEMMA NamedKeys ==
  ASSUME NEW c, NEW kind, NEW e \in Edits, NEW w \in UnitEdits
  PROVE  Named(c, kind, e, w) \subseteq Keys
BY EditTypes, ProjectAssumption DEF Named, Listed, Sent, Keys

\* What update computes are columns that may hold it.
LEMMA ComputedTypes ==
  ASSUME NEW kind, NEW e \in Edits, NEW g \in Computations(kind, e)
  PROVE  /\ DOMAIN g \subseteq Computed(Fields)
         /\ DOMAIN g \subseteq Fields
         /\ \A f \in DOMAIN g : g[f] \in Values
<1>1. PICK D \in SUBSET Computed(Sent(kind, e)) : g \in [D -> Values]
  BY DEF Computations
<1>2. Sent(kind, e) \subseteq Fields
  <2>1. DOMAIN e \subseteq Fields
    BY DEF Edits
  <2>2. Required \subseteq Fields
    BY ProjectAssumption
  <2> QED  BY <2>1, <2>2 DEF Sent
<1>3. Computed(Sent(kind, e)) \subseteq Computed(Fields)
  BY <1>2 DEF Computed
<1>4. Computed(Fields) \subseteq Fields
  BY ProjectAssumption DEF Computed
<1>5. QED
  BY <1>1, <1>3, <1>4

\* The row a save writes is typed and stamped with the revision it creates.
LEMMA SavedRow ==
  ASSUME TypeOK, NEW c \in Clients, forms[c] # Closed,
         NEW e \in Edits, NEW w \in UnitEdits,
         NEW g \in Computations(forms[c].kind, e), Save(c, e, w, g)
  PROVE  /\ project'.revision = project.revision + 1
         /\ project'.stamps = Stamps(c, forms[c].kind, e, w)
         /\ \A f \in Plain \ Sent(forms[c].kind, e) : project'.fields[f] = project.fields[f]
         /\ project'.units = NextUnits(c, forms[c].kind, w)
         /\ project' \in Project
         /\ \A k \in Keys : project'.stamps[k] <= project'.revision
<1> DEFINE kind == forms[c].kind
<1>1. /\ project'.revision = project.revision + 1
      /\ project'.stamps = Stamps(c, kind, e, w)
      /\ project'.fields = NextFields(c, kind, e, g)
      /\ project'.units = NextUnits(c, kind, w)
      /\ project' = [revision |-> project'.revision, fields |-> project'.fields,
                     units |-> project'.units, stamps |-> project'.stamps]
  BY DEF Save
<1>2. project'.stamps \in [Keys -> Nat]
  BY <1>1, RowTypes DEF Stamps
<1>3. \A k \in Keys : project'.stamps[k] <= project'.revision
  BY <1>1, RowTypes DEF Stamps
<1>4. project'.fields \in [Fields -> Values]
  <2>1. ASSUME NEW f \in Fields PROVE NextFields(c, kind, e, g)[f] \in Values
    <3>1. CASE f \in DOMAIN g
      BY <3>1, ComputedTypes DEF NextFields
    <3>2. CASE f \in Sent(kind, e) \ DOMAIN g
      BY <3>2, OpenForm, EditTypes DEF NextFields, FieldsOf
    <3>3. CASE f \notin DOMAIN g /\ f \notin Sent(kind, e)
      BY <3>3, RowTypes DEF NextFields
    <3>4. QED
      BY <3>1, <3>2, <3>3
  <2>2. NextFields(c, kind, e, g) = [f \in Fields |-> NextFields(c, kind, e, g)[f]]
    BY DEF NextFields
  <2>3. QED
    BY <1>1, <2>1, <2>2
<1>7. \A f \in Plain \ Sent(kind, e) : project'.fields[f] = project.fields[f]
  BY <1>1, ComputedTypes DEF NextFields, Plain
<1>5. project'.units \in UnitList
  <2>1. UnitsOf(c, w) \in UnitList
    BY OpenForm, EditTypes DEF UnitsOf, UnitList
  <2>2. QED
    BY <1>1, <2>1, RowTypes DEF NextUnits, UnitList
<1>6. project' \in Project
  BY <1>1, <1>2, <1>4, <1>5, RowTypes DEF Project
<1>8. QED
  BY <1>1, <1>3, <1>6, <1>7

\* A form at the row's revision shows everything the row holds, and so does
\* one whose save has no conflict, for what that save names.
LEMMA AcceptedSeen ==
  ASSUME IInv, NEW c \in Clients, forms[c].stage = "open",
         forms[c].kind # "blind", NEW e \in Edits, NEW w \in UnitEdits,
         Accepted(c, forms[c].kind, e, w)
  PROVE  /\ \A f \in Plain \cap Sent(forms[c].kind, e) :
              project.fields[f] = forms[c].fields[f]
         /\ \A u \in Codes :
              /\ project.units[u] # NoUnit
              /\ \/ WholeList(forms[c].kind, w)
                 \/ ByUnit(forms[c].kind, w) /\ u \in DOMAIN w
              => project.units[u] = forms[c].units[u]
<1> DEFINE kind == forms[c].kind
<1>1. TypeOK /\ forms[c] # Closed /\ Follows(c)
  BY ClosedForm DEF IInv
<1>2. forms[c].revision \in Nat /\ Plain \subseteq Keys /\ Codes \subseteq Keys
  BY <1>1, OpenForm DEF Plain, Keys
<1>3. CASE forms[c].revision = project.revision
  BY <1>1, <1>2, <1>3, RowTypes DEF Follows
<1>4. CASE kind \in {"merge", "list"} /\ Conflicts(forms[c].revision, kind, e, w) = {}
  <2>1. \A f \in DOMAIN e : ~(project.stamps[f] > forms[c].revision)
    BY <1>4 DEF Conflicts, After
  <2>2. Plain \cap Sent(kind, e) \subseteq DOMAIN e
    BY <1>4 DEF Plain, Sent
  <2>3. \A f \in Plain \cap Sent(kind, e) : project.fields[f] = forms[c].fields[f]
    BY <1>1, <1>2, <2>1, <2>2, RowTypes DEF Follows
  <2>4. ASSUME NEW u \in Codes, WholeList(kind, w) \/ (ByUnit(kind, w) /\ u \in DOMAIN w)
        PROVE  ~(project.stamps[u] > forms[c].revision)
    BY <1>4, <2>4 DEF Conflicts, After
  <2>5. QED
    BY <1>1, <1>2, <2>3, <2>4, RowTypes DEF Follows
<1>5. QED
  BY <1>3, <1>4 DEF Accepted

(***************************************************************************)
(* The invariant                                                           *)
(***************************************************************************)

\* The initial states: no form is open and nothing is stamped.
LEMMA InitInv == Init => IInv
<1> SUFFICES ASSUME Init PROVE IInv
  OBVIOUS
<1>1. TypeOK
  <2>1. /\ project.revision = 1
        /\ project.fields \in [Fields -> Values]
        /\ project.units \in UnitList
        /\ project.stamps \in [Keys -> {0}]
        /\ project = [revision |-> project.revision, fields |-> project.fields,
                      units |-> project.units, stamps |-> project.stamps]
    BY DEF Init
  <2>2. project.stamps \in [Keys -> Nat] /\ \A k \in Keys : project.stamps[k] = 0
    BY <2>1
  <2>3. project \in Project
    BY <2>1, <2>2 DEF Project
  <2>4. \A k \in Keys : project.stamps[k] <= project.revision
    BY <2>1, <2>2
  <2>5. removed \in BOOLEAN /\ forms \in [Clients -> Form \cup {Closed}]
        /\ since \in [Clients -> SUBSET Keys]
    BY DEF Init
  <2>6. QED
    BY <2>3, <2>4, <2>5 DEF TypeOK
<1>2. \A c \in Clients : forms[c] = Closed
  BY DEF Init
<1>3. QED
  BY <1>1, <1>2 DEF IInv

\* Reading the row starts a form that shows it.
LEMMA ReadRowInv ==
  ASSUME IInv, NEW c \in Clients, NEW kind \in Kinds, ReadRow(c, kind)
  PROVE  IInv'
<1>1. TypeOK
  BY DEF IInv
<1>2. /\ forms'[c] = [stage |-> "row", kind |-> kind, revision |-> project.revision,
                      fields |-> project.fields, units |-> [u \in Codes |-> NoUnit]]
      /\ since'[c] = {}
      /\ \A d \in Clients \ {c} : forms'[d] = forms[d] /\ since'[d] = since[d]
      /\ project' = project
  BY <1>1 DEF ReadRow, TypeOK
<1>3. TypeOK'
  <2>1. forms'[c] \in Form
    BY <1>1, <1>2, RowTypes DEF Form, UnitList
  <2>2. QED
    BY <1>1, <1>2, <2>1 DEF ReadRow, TypeOK
<1>4. ASSUME NEW d \in Clients, forms'[d] # Closed PROVE Follows(d)'
  <2>1. CASE d = c
    BY <1>1, <1>2, <2>1, RowTypes DEF Follows, Plain, Keys
  <2>2. CASE d # c
    BY <1>2, <1>4, <2>2 DEF Follows, IInv
  <2>3. QED
    BY <2>1, <2>2
<1>5. QED
  BY <1>3, <1>4 DEF IInv

\* Reading the units later than the row does no harm: what changed in between
\* is stamped after the revision of the form.
LEMMA ReadUnitsInv ==
  ASSUME IInv, NEW c \in Clients, ReadUnits(c)
  PROVE  IInv'
<1>1. TypeOK /\ forms[c] # Closed
  BY ClosedForm DEF IInv, ReadUnits
<1>2. /\ forms'[c] = [stage |-> "open", kind |-> forms[c].kind,
                      revision |-> forms[c].revision,
                      fields |-> forms[c].fields, units |-> project.units]
      /\ \A d \in Clients \ {c} : forms'[d] = forms[d]
      /\ project' = project /\ since' = since
  BY <1>1 DEF ReadUnits, Loaded, TypeOK
<1>3. TypeOK'
  <2>1. forms'[c] \in Form
    BY <1>1, <1>2, OpenForm, RowTypes DEF Form
  <2>2. QED
    BY <1>1, <1>2, <2>1 DEF ReadUnits, TypeOK
<1>4. ASSUME NEW d \in Clients, forms'[d] # Closed PROVE Follows(d)'
  <2>1. CASE d = c
    BY <1>1, <1>2, <2>1 DEF Follows, IInv
  <2>2. CASE d # c
    BY <1>2, <1>4, <2>2 DEF Follows, IInv
  <2>3. QED
    BY <2>1, <2>2
<1>5. QED
  BY <1>3, <1>4 DEF IInv

\* An accepted save stamps what it changes with a revision no open form has.
LEMMA SaveInv ==
  ASSUME IInv, NEW c \in Clients, forms[c].stage = "open",
         NEW e \in Edits, NEW w \in UnitEdits,
         NEW g \in Computations(forms[c].kind, e), Save(c, e, w, g)
  PROVE  IInv'
<1> DEFINE kind == forms[c].kind
           named == Named(c, kind, e, w)
<1>1. TypeOK /\ forms[c] # Closed
  BY ClosedForm DEF IInv
<1>2. /\ forms'[c] = Closed
      /\ \A d \in Clients \ {c} : forms'[d] = forms[d]
      /\ \A d \in Clients \ {c} : since'[d] = since[d] \cup named
      /\ since' \in [Clients -> SUBSET Keys]
      /\ forms' \in [Clients -> Form \cup {Closed}]
      /\ removed' = removed
  BY <1>1, NamedKeys DEF Save, TypeOK
<1>0. /\ project'.revision = project.revision + 1
      /\ project'.stamps = Stamps(c, kind, e, w)
      /\ \A f \in Plain \ Sent(kind, e) : project'.fields[f] = project.fields[f]
      /\ project'.units = NextUnits(c, kind, w)
      /\ project' \in Project
      /\ \A k \in Keys : project'.stamps[k] <= project'.revision
  BY <1>1, SavedRow
<1>3. TypeOK'
  BY <1>1, <1>2, <1>0 DEF TypeOK
<1>4. \A k \in Keys : IF k \in named THEN project'.stamps[k] = project.revision + 1
                                    ELSE project'.stamps[k] = project.stamps[k]
  BY <1>0 DEF Stamps
<1>5. \A f \in Plain \ named : project'.fields[f] = project.fields[f]
  <2>1. \A f \in Plain \ named : f \notin Sent(kind, e)
    BY DEF Named, Listed, Sent, Plain
  <2>2. QED
    BY <1>0, <2>1
<1>6. \A u \in Codes \ named : \/ project'.units[u] = project.units[u]
                               \/ project'.units[u] = NoUnit
  BY <1>0 DEF Named, NextUnits
<1>7. ASSUME NEW d \in Clients, forms'[d] # Closed PROVE Follows(d)'
  <2>1. d # c /\ forms'[d] = forms[d] /\ forms[d] # Closed /\ Follows(d)
    BY <1>2, <1>7 DEF IInv
  <2>2. forms[d].revision \in Nat /\ project.revision \in Nat
        /\ forms[d].revision <= project.revision
    BY <1>1, <2>1, OpenForm, RowTypes DEF Follows
  <2>3. forms'[d].revision <= project'.revision
    BY <1>0, <2>1, <2>2
  <2>4. \A f \in Plain : project'.stamps[f] <= forms'[d].revision
          => forms'[d].fields[f] = project'.fields[f]
    BY <1>4, <1>5, <2>1, <2>2 DEF Follows, Plain, Keys
  <2>5. ASSUME forms'[d].stage = "open", NEW u \in Codes,
               project'.units[u] # NoUnit, project'.stamps[u] <= forms'[d].revision
        PROVE  forms'[d].units[u] = project'.units[u]
    BY <1>4, <1>6, <2>1, <2>2, <2>5 DEF Follows, Keys
  <2>6. \A k \in Keys : project'.stamps[k] > forms'[d].revision <=> k \in since'[d]
    BY <1>2, <1>4, <2>1, <2>2 DEF Follows
  <2>7. QED
    BY <2>3, <2>4, <2>5, <2>6 DEF Follows
<1>8. QED
  BY <1>3, <1>7 DEF IInv

\* A refused save leaves everything but its own form.
LEMMA RefuseInv ==
  ASSUME IInv, NEW c \in Clients, NEW e \in Edits, NEW w \in UnitEdits,
         Refuse(c, e, w)
  PROVE  IInv'
<1>1. TypeOK
  BY DEF IInv
<1>2. /\ forms'[c] = Closed
      /\ \A d \in Clients \ {c} : forms'[d] = forms[d] /\ since'[d] = since[d]
      /\ project' = project
  BY <1>1 DEF Refuse, TypeOK
<1>3. TypeOK'
  BY <1>1 DEF Refuse, TypeOK
<1>4. ASSUME NEW d \in Clients, forms'[d] # Closed PROVE Follows(d)'
  BY <1>2, <1>4 DEF Follows, IInv
<1>5. QED
  BY <1>3, <1>4 DEF IInv

\* A status change touches no stamp and no plain column.
LEMMA UpdateStatusInv ==
  ASSUME IInv, NEW v \in Values, UpdateStatus(v)
  PROVE  IInv'
<1>1. TypeOK
  BY DEF IInv
<1>2. /\ project'.revision = project.revision + 1
      /\ project'.fields = [project.fields EXCEPT ![StatusField] = v]
      /\ project'.units = project.units
      /\ project'.stamps = project.stamps
      /\ project' = [revision |-> project'.revision, fields |-> project'.fields,
                     units |-> project'.units, stamps |-> project'.stamps]
      /\ forms' = forms /\ since' = since /\ removed' = removed
  BY DEF UpdateStatus
<1>7. project' \in Project
  BY <1>1, <1>2, RowTypes DEF Project
<1>3. TypeOK'
  BY <1>1, <1>2, <1>7, RowTypes DEF TypeOK
<1>4. ASSUME NEW d \in Clients, forms'[d] # Closed PROVE Follows(d)'
  <2>1. forms[d].revision \in Nat /\ project.revision \in Nat
    BY <1>1, <1>2, <1>4, OpenForm, RowTypes
  <2>2. QED
    BY <1>1, <1>2, <1>4, <2>1, RowTypes DEF Follows, IInv, Plain
<1>5. QED
  BY <1>3, <1>4 DEF IInv

\* The invariant is inductive.
LEMMA NextInv == IInv /\ [Next]_vars => IInv'
<1> SUFFICES ASSUME IInv, [Next]_vars PROVE IInv'
  OBVIOUS
<1>1. CASE UNCHANGED vars
  BY <1>1 DEF vars, IInv, TypeOK, Follows, Plain
<1>2. ASSUME NEW c \in Clients, NEW kind \in Kinds, ReadRow(c, kind) PROVE IInv'
  BY <1>2, ReadRowInv
<1>3. ASSUME NEW c \in Clients, ReadUnits(c) PROVE IInv'
  BY <1>3, ReadUnitsInv
<1>4. ASSUME NEW c \in Clients, Submit(c) PROVE IInv'
  BY <1>4, SaveInv, RefuseInv DEF Submit
<1>5. ASSUME NEW v \in Values, UpdateStatus(v) PROVE IInv'
  BY <1>5, UpdateStatusInv
<1>6. CASE RemoveProject
  BY <1>6 DEF RemoveProject, IInv, TypeOK, Follows, Plain
<1>7. QED
  BY <1>1, <1>2, <1>3, <1>4, <1>5, <1>6 DEF Next

(***************************************************************************)
(* Theorems                                                                *)
(***************************************************************************)

\* In every reachable state each open form shows the units and the plain
\* columns that are not stamped after it.
THEOREM ProjectInvariant == Spec => []IInv
BY InitInv, NextInv, PTL DEF Spec

\* Every reachable state is typed, and no stamp is ahead of the revision.
THEOREM ProjectTypes == Spec => []TypeOK
<1>1. IInv => TypeOK
  BY DEF IInv
<1>2. QED
  BY <1>1, ProjectInvariant, PTL

\* Of the columns that saves write only when they name them, an accepted save
\* overwrites only those its editor was shown as they are.
THEOREM NoLostColumn == Spec => FieldsMerge
<1> DEFINE Seen == \A c \in Clients, f \in Plain :
                     Saves(c) /\ project'.fields[f] # project.fields[f]
                       => project.fields[f] = forms[c].fields[f]
<1>1. IInv /\ [Next]_vars => [Seen]_vars
  <2> SUFFICES ASSUME IInv, Next, NEW c \in Clients, NEW f \in Plain, Saves(c),
                      project'.fields[f] # project.fields[f]
               PROVE  project.fields[f] = forms[c].fields[f]
    BY DEF vars
  <2>1. TypeOK /\ forms[c] # Closed
    BY ClosedForm DEF IInv, Saves
  <2>2. PICK e \in Edits, w \in UnitEdits :
          \E g \in Computations(forms[c].kind, e) : Save(c, e, w, g)
    BY <2>1 DEF Next, ReadRow, ReadUnits, Submit, Save, Refuse, UpdateStatus, RemoveProject, Saves, TypeOK
  <2>3. PICK g \in Computations(forms[c].kind, e) : Save(c, e, w, g)
    BY <2>2
  <2>4. \A h \in Plain \ Sent(forms[c].kind, e) : project'.fields[h] = project.fields[h]
    BY <2>1, <2>3, SavedRow
  <2>5. f \in Plain \cap Sent(forms[c].kind, e)
    BY <2>4
  <2>6. QED
    BY <2>3, <2>5, AcceptedSeen DEF Save, Saves
<1>2. QED
  BY <1>1, ProjectInvariant, PTL DEF Spec, FieldsMerge

\* An accepted save changes or removes only units its editor was shown as they are.
THEOREM NoLostUnit == Spec => UnitsMerge
<1> DEFINE Seen == \A c \in Clients, u \in Codes :
                     Saves(c) /\ project.units[u] # NoUnit
                              /\ project'.units[u] # project.units[u]
                       => project.units[u] = forms[c].units[u]
<1>1. IInv /\ [Next]_vars => [Seen]_vars
  <2> SUFFICES ASSUME IInv, Next, NEW c \in Clients, NEW u \in Codes, Saves(c),
                      project.units[u] # NoUnit, project'.units[u] # project.units[u]
               PROVE  project.units[u] = forms[c].units[u]
    BY DEF vars
  <2>1. TypeOK /\ forms[c] # Closed
    BY ClosedForm DEF IInv, Saves
  <2>2. PICK e \in Edits, w \in UnitEdits :
          \E g \in Computations(forms[c].kind, e) : Save(c, e, w, g)
    BY <2>1 DEF Next, ReadRow, ReadUnits, Submit, Save, Refuse, UpdateStatus, RemoveProject, Saves, TypeOK
  <2>3. PICK g \in Computations(forms[c].kind, e) : Save(c, e, w, g)
    BY <2>2
  <2>4. project'.units = NextUnits(c, forms[c].kind, w)
    BY <2>1, <2>3, SavedRow
  <2>5. \/ WholeList(forms[c].kind, w)
        \/ ByUnit(forms[c].kind, w) /\ u \in DOMAIN w
    BY <2>4 DEF NextUnits
  <2>6. QED
    BY <2>3, <2>5, AcceptedSeen DEF Save, Saves
<1>2. QED
  BY <1>1, ProjectInvariant, PTL DEF Spec, UnitsMerge

\* A save that names what it changes is refused only for an overlap.
THEOREM RefusalsOverlap == Spec => []RefusedForOverlap
<1>1. IInv => RefusedForOverlap
  <2> SUFFICES ASSUME IInv, NEW c \in Clients, NEW e \in Edits, NEW w \in UnitEdits,
                      forms[c].stage = "open", forms[c].kind \in {"merge", "list"},
                      ~removed, ~Accepted(c, forms[c].kind, e, w)
               PROVE  Overlap(c, e, w)
    BY DEF RefusedForOverlap
  <2>1. TypeOK /\ forms[c] # Closed /\ Follows(c)
    BY ClosedForm DEF IInv
  <2>2. PICK k : k \in Conflicts(forms[c].revision, forms[c].kind, e, w)
    BY DEF Accepted
  <2>3. \A j \in Keys : project.stamps[j] > forms[c].revision => j \in since[c]
    BY <2>1 DEF Follows
  <2>4. DOMAIN e \subseteq Keys /\ Codes \cup {Units} \subseteq Keys /\ DOMAIN w \subseteq Codes
    BY EditTypes DEF Keys
  <2>5. QED
    BY <2>2, <2>3, <2>4 DEF Conflicts, After, Overlap, WholeList, ByUnit
<1>2. QED
  BY <1>1, ProjectInvariant, PTL

-----------------------------------------------------------------------------
(* Wishlists *)

AnswerFields == {"kind", "step", "who", "ids", "got", "todo", "part", "page", "upto", "q", "wished", "indexed", "seen"}

\* A click that found a row deletes that one: there was no other, and what is
\* there besides was stored after it looked.
Click(q) ==
  /\ q.upto <= nextRow /\ q.upto \in Nat
  /\ q.step # "done" => q.wished = FALSE
  /\ q.step = "delete" =>
       \E n \in Nat : q.part = {n} /\ \A w \in Rows(q.who, Head(q.ids)) : w.row = n \/ w.row >= q.upto

\* Rows are numbered in the order they are stored; a guest has one of a listing.
WishTable ==
  /\ nextRow \in Nat
  /\ \A w \in saved : w.row \in Nat /\ w.row < nextRow
  /\ \A v \in saved, w \in saved : v.guest = w.guest /\ v.listing = w.listing => v = w

WishInv ==
  /\ WishTable
  /\ DOMAIN req = Requests
  /\ \A r \in Requests : DOMAIN req[r] = AnswerFields /\ (req[r].kind = "toggle" => Click(req[r]))

LEMMA NoAnswer ==
  DOMAIN None = AnswerFields /\ None.kind = "none" /\ None.step = "" /\ None.upto = 0 /\ None.wished = FALSE
BY DEF None, AnswerFields

\* Steps of other requests than clicks, and those of clicks that store nothing.
LEMMA BecomeStep ==
  ASSUME WishInv, NEW r \in Requests, NEW q, DOMAIN q = AnswerFields, q.kind = "toggle" => Click(q),
         UNCHANGED <<saved, nextRow>>, req' = [req EXCEPT ![r] = q]
  PROVE  WishInv'
<1>1. WishTable'
  BY DEF WishInv, WishTable
<1>2. \A s \in Requests : req'[s] = IF s = r THEN q ELSE req[s]
  BY DEF WishInv
<1>3. ASSUME NEW s \in Requests
      PROVE  (DOMAIN req[s] = AnswerFields /\ (req[s].kind = "toggle" => Click(req[s])))'
  <2>1. PICK x : x = req'[s]
    OBVIOUS
  <2>2. DOMAIN x = AnswerFields /\ (x.kind = "toggle" => Click(x))
    BY <1>2, <2>1 DEF WishInv
  <2>3. Click(x) <=> Click(req[s])'
    BY <2>1 DEF Click, Rows, RowsOf
  <2> QED  BY <2>1, <2>2, <2>3
<1> QED  BY <1>1, <1>3 DEF WishInv

\* Requests that are no clicks, and those that begin.
PlainStep(r) ==
  /\ UNCHANGED <<saved, nextRow>>
  /\ \E q : /\ DOMAIN q = AnswerFields
            /\ q.kind = "toggle" => Click(q)
            /\ q.step = "done" => req[r].kind # "toggle"
            /\ req' = [req EXCEPT ![r] = q]

LEMMA ReadSteps ==
  ASSUME WishInv, NEW r \in Requests,
         \/ ReadPicks(r) \/ LoadPicks(r) \/ Fallback(r)
         \/ ReadBase(r) \/ ReadSameType(r) \/ ReadOtherType(r)
         \/ ReadSlug(r) \/ ReadSuffix(r) \/ ReadById(r) \/ ReadProject(r) \/ ReadRest(r)
         \/ ReadKeys(r) \/ ReadHits(r) \/ LoadHits(r) \/ ReadPage(r) \/ NextPage(r)
         \/ ReadRows(r) \/ ReadCards(r) \/ ShowCards(r)
         \/ CheckPicks(r) \/ WritePicks(r)
  PROVE  PlainStep(r)
<1>1. DOMAIN req[r] = AnswerFields
  BY DEF WishInv
<1>2. "toggle" \notin Sections
  BY DEF Sections
<1>3. ASSUME NEW q, DOMAIN q = AnswerFields, q.kind # "toggle", q.step # "done" \/ req[r].kind # "toggle", Become(r, q)
      PROVE  PlainStep(r)
  BY <1>3 DEF Become, PlainStep
<1>4. Become(r, None) => PlainStep(r)
  BY <1>3, NoAnswer
<1>5. CASE ReadPicks(r)
  BY <1>1, <1>2, <1>3, <1>5 DEF ReadPicks, At, AnswerFields
<1>6. CASE LoadPicks(r)
  BY <1>1, <1>2, <1>3, <1>6 DEF LoadPicks, At, AnswerFields
<1>7. CASE Fallback(r)
  BY <1>1, <1>2, <1>3, <1>7 DEF Fallback, At, AnswerFields
<1>8. CASE ReadBase(r)
  BY <1>1, <1>3, <1>8 DEF ReadBase, At, AnswerFields
<1>9. CASE ReadSameType(r)
  BY <1>1, <1>3, <1>9 DEF ReadSameType, At, AnswerFields
<1>10. CASE ReadOtherType(r)
  BY <1>1, <1>3, <1>10 DEF ReadOtherType, At, AnswerFields
<1>11. CASE ReadSlug(r)
  BY <1>1, <1>3, <1>11 DEF ReadSlug, At, AnswerFields
<1>12. CASE ReadSuffix(r)
  BY <1>1, <1>3, <1>4, <1>12 DEF ReadSuffix, At, AnswerFields
<1>13. CASE ReadById(r)
  BY <1>1, <1>3, <1>4, <1>13 DEF ReadById, At, AnswerFields
<1>14. CASE ReadProject(r)
  BY <1>1, <1>3, <1>4, <1>14 DEF ReadProject, At, AnswerFields
<1>15. CASE ReadRest(r)
  BY <1>1, <1>3, <1>15 DEF ReadRest, At, AnswerFields
<1>16. CASE ReadKeys(r)
  BY <1>1, <1>3, <1>16 DEF ReadKeys, At, AnswerFields
<1>24. CASE ReadHits(r)
  BY <1>1, <1>3, <1>24 DEF ReadHits, At, AnswerFields
<1>25. CASE LoadHits(r)
  <2>1. PICK S : Become(r, [req[r] EXCEPT !.part = S, !.step = "load"])
    BY <1>25 DEF LoadHits
  <2> QED  BY <1>1, <1>3, <1>25, <2>1 DEF LoadHits, At, AnswerFields
<1>17. CASE ReadPage(r)
  BY <1>1, <1>3, <1>17 DEF ReadPage, At, AnswerFields
<1>18. CASE NextPage(r)
  BY <1>1, <1>3, <1>18 DEF NextPage, At, AnswerFields
<1>19. CASE ReadRows(r)
  BY <1>1, <1>3, <1>19 DEF ReadRows, At, AnswerFields
<1>20. CASE ReadCards(r)
  BY <1>1, <1>3, <1>20 DEF ReadCards, At, AnswerFields
<1>21. CASE ShowCards(r)
  BY <1>1, <1>3, <1>21 DEF ShowCards, At, AnswerFields
<1>22. CASE CheckPicks(r)
  BY <1>1, <1>3, <1>4, <1>22 DEF CheckPicks, At, AnswerFields
<1>23. CASE WritePicks(r)
  BY <1>23, NoAnswer DEF WritePicks, PlainStep
<1> QED  BY <1>5, <1>6, <1>7, <1>8, <1>9, <1>10, <1>11, <1>12, <1>13, <1>14, <1>15, <1>16, <1>17, <1>18,
            <1>19, <1>20, <1>21, <1>22, <1>23, <1>24, <1>25

LEMMA BeginSteps ==
  ASSUME WishInv, NEW r \in Requests, Read(r) \/ Write(r) \/ Finish(r)
  PROVE  PlainStep(r)
<1>1. ASSUME NEW q, DOMAIN q = AnswerFields, q.kind # "toggle", q.step # "done" \/ req[r].kind # "toggle",
             req' = [req EXCEPT ![r] = q], UNCHANGED <<saved, nextRow>>
      PROVE  PlainStep(r)
  BY <1>1 DEF PlainStep
<1>2. CASE Read(r)
  <2>1. UNCHANGED <<saved, nextRow>>
    BY <1>2 DEF Read
  <2>2. "toggle" \notin Sections /\ req[r].kind # "toggle"
    BY <1>2, NoAnswer DEF Sections, Read
  <2>3. \A kind, step : DOMAIN Begins(kind, step) = AnswerFields /\ Begins(kind, step).kind = kind
    BY NoAnswer DEF Begins, AnswerFields
  <2>4. ASSUME NEW kind, NEW step, kind # "toggle"
        PROVE  /\ req' = [req EXCEPT ![r] = Begins(kind, step)] => PlainStep(r)
               /\ \A b : req' = [req EXCEPT ![r] = [Begins(kind, step) EXCEPT !.who = b]] => PlainStep(r)
               /\ \A p, n : req' = [req EXCEPT ![r] = [Begins(kind, step) EXCEPT !.q = p, !.page = n]] => PlainStep(r)
               /\ \A t : req' = [req EXCEPT ![r] = [Begins(kind, step) EXCEPT !.todo = t]] => PlainStep(r)
    <3>1. PICK q : q = Begins(kind, step)
      OBVIOUS
    <3>2. DOMAIN q = AnswerFields /\ q.kind # "toggle"
      BY <2>3, <2>4, <3>1
    <3>3. req' = [req EXCEPT ![r] = q] => PlainStep(r)
      BY <1>1, <2>1, <2>2, <3>2
    <3>4. ASSUME NEW b, req' = [req EXCEPT ![r] = [q EXCEPT !.who = b]]
          PROVE  PlainStep(r)
      BY <1>1, <2>1, <2>2, <3>2, <3>4 DEF AnswerFields
    <3>5. ASSUME NEW p, NEW n, req' = [req EXCEPT ![r] = [q EXCEPT !.q = p, !.page = n]]
          PROVE  PlainStep(r)
      BY <1>1, <2>1, <2>2, <3>2, <3>5 DEF AnswerFields
    <3>6. ASSUME NEW t, req' = [req EXCEPT ![r] = [q EXCEPT !.todo = t]]
          PROVE  PlainStep(r)
      BY <1>1, <2>1, <2>2, <3>2, <3>6 DEF AnswerFields
    <3> QED  BY <3>1, <3>3, <3>4, <3>5, <3>6
  <2>5. /\ \A s \in Sections : s # "toggle"
        /\ "similar" # "toggle" /\ "wishlist" # "toggle" /\ "page" # "toggle" /\ "detail" # "toggle"
    BY <2>2
  <2>6. ASSUME NEW s \in Sections, req' = [req EXCEPT ![r] = Begins(s, "ids")]
        PROVE  PlainStep(r)
    BY <2>4, <2>5, <2>6
  <2>7. ASSUME NEW b, req' = [req EXCEPT ![r] = [Begins("similar", "base") EXCEPT !.who = b]]
        PROVE  PlainStep(r)
    BY <2>4, <2>5, <2>7
  <2>8. ASSUME NEW g, req' = [req EXCEPT ![r] = [Begins("wishlist", "rows") EXCEPT !.who = g]]
        PROVE  PlainStep(r)
    BY <2>4, <2>5, <2>8
  <2>9. ASSUME NEW p, req' = [req EXCEPT ![r] = [Begins("page", "keys") EXCEPT !.q = p, !.page = 1]]
        PROVE  PlainStep(r)
    BY <2>4, <2>5, <2>9
  <2>10. ASSUME NEW step, NEW p, req' = [req EXCEPT ![r] = [Begins("detail", step) EXCEPT !.todo = {p}]]
         PROVE  PlainStep(r)
    BY <2>4, <2>5, <2>10
  <2> QED  BY <1>2, <2>6, <2>7, <2>8, <2>9, <2>10 DEF Read
<1>3. CASE Write(r)
  <2>1. UNCHANGED <<saved, nextRow>>
    BY <1>3 DEF Write
  <2>2. ASSUME NEW g, NEW l,
               req' = [req EXCEPT ![r] = [None EXCEPT !.kind = "toggle", !.step = "find", !.who = g, !.ids = <<l>>]]
        PROVE  PlainStep(r)
    <3> DEFINE q == [None EXCEPT !.kind = "toggle", !.step = "find", !.who = g, !.ids = <<l>>]
    <3>1. DOMAIN q = AnswerFields /\ q.step = "find" /\ q.upto = 0 /\ q.wished = FALSE
      BY NoAnswer DEF AnswerFields
    <3> HIDE DEF q
    <3>2. Click(q)
      BY <3>1 DEF Click, WishInv, WishTable
    <3> QED  BY <2>1, <2>2, <3>1, <3>2 DEF PlainStep, q
  <2>3. ASSUME NEW s, NEW ids,
               req' = [req EXCEPT ![r] = [None EXCEPT !.kind = "replace", !.step = "check", !.ids = ids, !.q.type = s]]
        PROVE  PlainStep(r)
    <3> DEFINE q == [None EXCEPT !.kind = "replace", !.step = "check", !.ids = ids, !.q.type = s]
    <3>1. DOMAIN q = AnswerFields /\ q.kind = "replace" /\ q.step = "check"
      BY NoAnswer DEF AnswerFields
    <3> HIDE DEF q
    <3> QED  BY <1>1, <2>1, <2>3, <3>1 DEF q
  <2> QED  BY <1>3, <2>2, <2>3 DEF Write
<1>4. CASE Finish(r)
  BY <1>1, <1>4, NoAnswer DEF Finish
<1> QED  BY <1>2, <1>3, <1>4

\* The steps of a click.
LEMMA ClickFinds ==
  ASSUME WishInv, NEW r \in Requests, FindRow(r) \/ CheckLive(r)
  PROVE  PlainStep(r)
<1> DEFINE o == req[r]
           rows == Rows(o.who, Head(o.ids))
           q == [o EXCEPT !.upto = nextRow, !.part = {w.row : w \in rows},
                          !.step = IF rows = {} THEN "check" ELSE "delete"]
           p == [o EXCEPT !.step = "insert"]
<1>1. DOMAIN o = AnswerFields /\ o.kind = "toggle" /\ o.step \in {"find", "check"} /\ Click(o)
  BY DEF WishInv, FindRow, CheckLive, At
<1>2. ASSUME FindRow(r)
      PROVE  PlainStep(r)
  <2>1. Become(r, q)
    BY <1>2 DEF FindRow
  <2>2. /\ DOMAIN q = AnswerFields /\ q.kind = "toggle" /\ q.step = (IF rows = {} THEN "check" ELSE "delete")
        /\ q.who = o.who /\ q.ids = o.ids /\ q.upto = nextRow /\ q.part = {w.row : w \in rows} /\ q.wished = o.wished
    BY <1>1 DEF AnswerFields
  <2>3. rows # {} => \E n \in Nat : q.part = {n} /\ \A w \in rows : w.row = n
    BY <2>2 DEF Rows, RowsOf, WishInv, WishTable
  <2> HIDE DEF q, rows
  <2>4. Click(q)
    BY <1>1, <2>2, <2>3 DEF Click, WishInv, WishTable, rows
  <2> QED  BY <2>1, <2>2, <2>4 DEF Become, PlainStep
<1>3. ASSUME CheckLive(r)
      PROVE  PlainStep(r)
  <2>1. Become(r, p) \/ Become(r, None)
    BY <1>3 DEF CheckLive
  <2>2. /\ DOMAIN p = AnswerFields /\ p.kind = "toggle" /\ p.step = "insert"
        /\ p.upto = o.upto /\ p.wished = o.wished
    BY <1>1 DEF AnswerFields
  <2> HIDE DEF p
  <2>3. Click(p)
    BY <1>1, <2>2 DEF Click
  <2> QED  BY <2>1, <2>2, <2>3, NoAnswer DEF Become, PlainStep
<1> QED  BY <1>2, <1>3

\* What a click stores or removes leaves the others as they are: a row that is
\* new is numbered after all they have seen.
LEMMA TableStep ==
  ASSUME WishInv, NEW r \in Requests, WishTable', nextRow' >= nextRow,
         DOMAIN req' = Requests, \A s \in Requests \ {r} : req'[s] = req[s],
         DOMAIN req'[r] = AnswerFields, req'[r].upto = req[r].upto, req'[r].step = "done",
         Click(req[r]),
         \A w \in saved' : w \in saved \/ w.row = nextRow
  PROVE  WishInv'
<1>1. ASSUME NEW s \in Requests
      PROVE  (DOMAIN req[s] = AnswerFields /\ (req[s].kind = "toggle" => Click(req[s])))'
  <2>1. PICK x : x = req'[s]
    OBVIOUS
  <2>2. CASE s = r
    BY <2>2 DEF Click, WishInv, WishTable
  <2>3. CASE s # r
    <3>1. DOMAIN x = AnswerFields /\ (x.kind = "toggle" => Click(x))
      BY <2>1, <2>3 DEF WishInv
    <3>2. Click(x) => Click(x)'
      BY DEF Click, Rows, RowsOf, WishInv, WishTable
    <3>3. Click(x)' <=> Click(req[s])'
      BY <2>1 DEF Click, Rows, RowsOf
    <3> QED  BY <2>1, <3>1, <3>2, <3>3
  <2> QED  BY <2>2, <2>3
<1> QED  BY <1>1 DEF WishInv

LEMMA DeleteRowStep ==
  ASSUME WishInv, NEW r \in Requests, DeleteRow(r)
  PROVE  /\ WishInv' /\ req'[r].wished = FALSE /\ \A s \in Requests \ {r} : req'[s] = req[s]
         /\ \A w \in saved' : w.guest = req[r].who /\ w.listing = Head(req[r].ids) => w.row >= req[r].upto
<1>1. DOMAIN req[r] = AnswerFields /\ Click(req[r]) /\ req[r].step = "delete" /\ DOMAIN req = Requests
  BY DEF DeleteRow, At, WishInv
<1>2. PICK n \in Nat : req[r].part = {n} /\ \A w \in Rows(req[r].who, Head(req[r].ids)) : w.row = n \/ w.row >= req[r].upto
  BY <1>1 DEF Click
<1>3. Min({n}) = n
  BY DEF Min
<1>4. saved' = {w \in saved : w.row # n} /\ nextRow' = nextRow
  BY <1>2, <1>3 DEF DeleteRow
<1>5. /\ DOMAIN req' = Requests /\ \A s \in Requests \ {r} : req'[s] = req[s]
      /\ DOMAIN req'[r] = AnswerFields /\ req'[r].upto = req[r].upto /\ req'[r].step = "done"
      /\ req'[r].wished = req[r].wished
  BY <1>1 DEF DeleteRow, AnswerFields
<1>6. WishTable' /\ nextRow' >= nextRow
  BY <1>4 DEF WishInv, WishTable
<1>7. \A w \in saved' : w.guest = req[r].who /\ w.listing = Head(req[r].ids) => w.row >= req[r].upto
  BY <1>2, <1>4 DEF Rows, RowsOf
<1>8. req[r].wished = FALSE
  BY <1>1 DEF Click
<1> QED  BY <1>1, <1>4, <1>5, <1>6, <1>7, <1>8, TableStep

LEMMA InsertStep ==
  ASSUME WishInv, NEW r \in Requests, Insert(r)
  PROVE  /\ WishInv' /\ \A s \in Requests \ {r} : req'[s] = req[s]
         /\ \E w \in saved' : w.guest = req[r].who /\ w.listing = Head(req[r].ids)
<1> DEFINE new == [row |-> nextRow, guest |-> req[r].who, listing |-> Head(req[r].ids)]
           rows == Rows(req[r].who, Head(req[r].ids))
<1>1. DOMAIN req[r] = AnswerFields /\ Click(req[r]) /\ DOMAIN req = Requests
  BY DEF Insert, At, WishInv
<1>2. /\ DOMAIN req' = Requests /\ \A s \in Requests \ {r} : req'[s] = req[s]
      /\ DOMAIN req'[r] = AnswerFields /\ req'[r].upto = req[r].upto /\ req'[r].step = "done"
  BY <1>1 DEF Insert, AnswerFields
<1>3. nextRow' = nextRow + 1 /\ saved' = IF rows # {} THEN saved ELSE saved \union {new}
  BY DEF Insert
<1>4. new.row = nextRow /\ new.guest = req[r].who /\ new.listing = Head(req[r].ids)
  OBVIOUS
<1> HIDE DEF new
<1>5. WishTable' /\ nextRow' >= nextRow /\ \A w \in saved' : w \in saved \/ w.row = nextRow
  BY <1>3, <1>4 DEF WishInv, WishTable, Rows, RowsOf
<1>6. \E w \in saved' : w.guest = req[r].who /\ w.listing = Head(req[r].ids)
  BY <1>3, <1>4 DEF Rows, RowsOf
<1> QED  BY <1>1, <1>2, <1>5, <1>6, TableStep

\* A click that is answered in this step found what it says.
AnsweredTruly ==
  \A r \in Requests :
    req[r].kind = "toggle" /\ req'[r].step = "done" /\ req[r].step # "done" =>
      LET rows == {w \in saved' : w.guest = req[r].who /\ w.listing = Head(req[r].ids)} IN
      IF req'[r].wished THEN rows # {} ELSE \A w \in rows : w.row >= req[r].upto

LEMMA ToggleStep ==
  ASSUME WishInv, [ListingsNext]_listingVars
  PROVE  WishInv' /\ AnsweredTruly
<1> DEFINE Truly(r) ==
      req[r].kind = "toggle" /\ req'[r].step = "done" /\ req[r].step # "done" =>
        LET rows == {w \in saved' : w.guest = req[r].who /\ w.listing = Head(req[r].ids)} IN
        IF req'[r].wished THEN rows # {} ELSE \A w \in rows : w.row >= req[r].upto
<1> SUFFICES WishInv' /\ \A r \in Requests : Truly(r)
  BY DEF AnsweredTruly
<1>0. \A r \in Requests : req'[r] = req[r] => Truly(r)
  OBVIOUS
<1>1. CASE UNCHANGED listingVars
  BY <1>0, <1>1 DEF listingVars, WishInv, WishTable, Click, Rows, RowsOf
<1>2. CASE Edit
  <2>1. UNCHANGED <<saved, nextRow>> /\ DOMAIN req' = Requests
    BY <1>2 DEF Edit
  <2>2. ASSUME NEW r \in Requests
        PROVE  /\ DOMAIN req'[r] = AnswerFields /\ req'[r].kind = req[r].kind
               /\ req'[r].kind = "toggle" => req'[r] = req[r]
               /\ req'[r].step = req[r].step
    <3>1. DOMAIN req[r] = AnswerFields
      BY DEF WishInv
    <3>2. req'[r] = req[r] \/ (req[r].kind # "toggle" /\ \E x : req'[r] = [req[r] EXCEPT !.seen = x])
      BY <1>2 DEF Edit, Reading
    <3> QED  BY <3>1, <3>2 DEF AnswerFields
  <2>3. WishTable'
    BY <2>1 DEF WishInv, WishTable
  <2>4. ASSUME NEW r \in Requests
        PROVE  (DOMAIN req[r] = AnswerFields /\ (req[r].kind = "toggle" => Click(req[r])))'
    <3>1. PICK x : x = req'[r]
      OBVIOUS
    <3>2. x.kind = "toggle" => Click(x)
      BY <2>2, <3>1 DEF WishInv
    <3>3. Click(x) <=> Click(req[r])'
      BY <2>1, <3>1 DEF Click, Rows, RowsOf
    <3> QED  BY <2>2, <3>1, <3>2, <3>3
  <2>5. \A r \in Requests : Truly(r)
    BY <2>2
  <2> QED  BY <2>1, <2>3, <2>4, <2>5 DEF WishInv
<1>3. ASSUME NEW r \in Requests, PlainStep(r)
      PROVE  WishInv' /\ \A s \in Requests : Truly(s)
  <2>1. PICK q : /\ DOMAIN q = AnswerFields
                 /\ q.kind = "toggle" => Click(q)
                 /\ q.step = "done" => req[r].kind # "toggle"
                 /\ req' = [req EXCEPT ![r] = q]
    BY <1>3 DEF PlainStep
  <2>2. WishInv'
    BY <1>3, <2>1, BecomeStep DEF PlainStep
  <2>3. DOMAIN req = Requests
    BY DEF WishInv
  <2>4. req'[r] = q /\ \A s \in Requests \ {r} : req'[s] = req[s]
    BY <2>1, <2>3
  <2>5. Truly(r)
    BY <2>1, <2>4
  <2> QED  BY <1>0, <2>2, <2>4, <2>5
<1>4. ASSUME NEW r \in Requests, DeleteRow(r)
      PROVE  WishInv' /\ \A s \in Requests : Truly(s)
  <2>1. Truly(r)
    BY <1>4, DeleteRowStep
  <2> QED  BY <1>0, <1>4, <2>1, DeleteRowStep
<1>5. ASSUME NEW r \in Requests, Insert(r)
      PROVE  WishInv' /\ \A s \in Requests : Truly(s)
  <2>1. req'[r].wished = TRUE
    BY <1>5 DEF Insert, WishInv, At, AnswerFields
  <2>2. Truly(r)
    BY <1>5, <2>1, InsertStep
  <2> QED  BY <1>0, <1>5, <2>2, InsertStep
<1> QED
  BY <1>1, <1>2, <1>3, <1>4, <1>5, ReadSteps, BeginSteps, ClickFinds DEF ListingsNext

LEMMA WishStart == ListingsInit => WishInv
<1> SUFFICES ASSUME ListingsInit PROVE WishInv
  OBVIOUS
<1>1. WishTable
  BY DEF ListingsInit, WishTable
<1>2. DOMAIN req = Requests /\ \A r \in Requests : req[r] = None
  BY DEF ListingsInit
<1> QED  BY <1>1, <1>2, NoAnswer DEF WishInv

\* TogglesTruly for any guests, listings, clicks and changes of the CRM: a
\* listing that was answered to be saved is, and of one that was answered to be
\* removed no row is left that was there when the click looked.
THEOREM TogglesAnswerTruly == ListingsSpec => TogglesTruly
<1>1. ListingsInit => WishInv
  BY WishStart
<1>2. WishInv /\ [ListingsNext]_listingVars => WishInv' /\ AnsweredTruly
  BY ToggleStep
<1>3. TogglesTruly <=> [][AnsweredTruly]_listingVars
  BY DEF TogglesTruly, AnsweredTruly
<1> QED  BY <1>1, <1>2, <1>3, PTL DEF ListingsSpec

-----------------------------------------------------------------------------
(* Orders and sequences *)

\* What comes before what, when all of S is ordered.
IsOrder(before, S) ==
  /\ before \in [S -> SUBSET S]
  /\ \A x \in S : x \notin before[x]
  /\ \A x, y \in S : x = y \/ x \in before[y] \/ y \in before[x]
  /\ \A x, y, z \in S : x \in before[y] /\ y \in before[z] => x \in before[z]

\* An element has its place: as many are before it as come earlier.
LEMMA Places ==
  ASSUME NEW S, IsFiniteSet(S), NEW before, IsOrder(before, S)
  PROVE  /\ Cardinality(S) \in Nat
         /\ \A x \in S : Cardinality(before[x]) \in 0..(Cardinality(S) - 1)
         /\ \A x, y \in S : x \in before[y] => Cardinality(before[x]) < Cardinality(before[y])
         /\ \A k \in 1..Cardinality(S) : \E x \in S : Cardinality(before[x]) = k - 1
<1> DEFINE n == Cardinality(S)
           place == [x \in S |-> Cardinality(before[x])]
           T == 0..(n - 1)
<1>1. n \in Nat
  BY FS_CardinalityType
<1>2. ASSUME NEW x \in S
      PROVE  IsFiniteSet(before[x]) /\ Cardinality(before[x]) \in T
  <2>1. before[x] \in SUBSET S /\ before[x] # S
    BY DEF IsOrder
  <2>2. IsFiniteSet(before[x]) /\ Cardinality(before[x]) <= n /\ Cardinality(before[x]) # n
    BY <2>1, FS_Subset
  <2>3. Cardinality(before[x]) \in Nat
    BY <2>2, FS_CardinalityType
  <2> QED  BY <1>1, <2>2, <2>3
<1>3. ASSUME NEW x \in S, NEW y \in S, x \in before[y]
      PROVE  Cardinality(before[x]) < Cardinality(before[y])
  <2>1. before[x] \in SUBSET before[y] /\ before[x] # before[y]
    BY <1>3 DEF IsOrder
  <2>2. IsFiniteSet(before[y]) /\ Cardinality(before[x]) \in Nat /\ Cardinality(before[y]) \in Nat
    BY <1>1, <1>2
  <2>3. Cardinality(before[x]) <= Cardinality(before[y]) /\ Cardinality(before[x]) # Cardinality(before[y])
    BY <2>1, <2>2, FS_Subset
  <2> QED  BY <2>2, <2>3
<1>4. place \in Injection(S, T)
  <2>1. place \in [S -> T]
    BY <1>2
  <2>2. ASSUME NEW x \in S, NEW y \in S, place[x] = place[y]
        PROVE  x = y
    <3>1. place[x] \in Int /\ place[y] \in Int
      BY <1>1, <2>1
    <3>2. ~(place[x] < place[y]) /\ ~(place[y] < place[x])
      BY <2>2, <3>1
    <3> QED  BY <1>3, <3>2 DEF IsOrder
  <2> HIDE DEF place
  <2> QED  BY <2>1, <2>2 DEF Injection, IsInjective
<1>5. IsFiniteSet(T) /\ Cardinality(T) = n
  BY <1>1, FS_Interval
<1>6. place \in Surjection(S, T)
  BY <1>4, <1>5, FS_Injection
<1>7. ASSUME NEW k \in 1..n
      PROVE  \E x \in S : Cardinality(before[x]) = k - 1
  <2>1. k - 1 \in T
    BY <1>1
  <2>2. PICK x \in S : place[x] = k - 1
    BY <1>6, <2>1 DEF Surjection
  <2> QED  BY <2>2
<1> QED  BY <1>1, <1>2, <1>3, <1>7

\* What InOrder makes of an order: the elements, each once and at its place.
LEMMA InOrderOf ==
  ASSUME NEW S, IsFiniteSet(S), NEW before, IsOrder(before, S)
  PROVE  /\ InOrder(before) \in [1..Cardinality(S) -> S]
         /\ InOrder(before) \in Seq(S)
         /\ Len(InOrder(before)) = Cardinality(S)
         /\ \A k \in 1..Cardinality(S) : Cardinality(before[InOrder(before)[k]]) = k - 1
         /\ \A i, j \in 1..Cardinality(S) : i < j => InOrder(before)[i] \in before[InOrder(before)[j]]
         /\ ToSet(InOrder(before)) = S
<1> DEFINE n == Cardinality(S)
           s == InOrder(before)
<1>1. DOMAIN before = S
  BY DEF IsOrder
<1>2. s = [k \in 1..n |-> CHOOSE x \in S : Cardinality(before[x]) = k - 1]
  BY <1>1 DEF InOrder
<1>3. ASSUME NEW k \in 1..n
      PROVE  s[k] \in S /\ Cardinality(before[s[k]]) = k - 1
  <2>1. \E x \in S : Cardinality(before[x]) = k - 1
    BY Places
  <2>2. s[k] = CHOOSE x \in S : Cardinality(before[x]) = k - 1
    BY <1>2
  <2> HIDE DEF s
  <2> QED  BY <2>1, <2>2
<1>4. n \in Nat
  BY Places
<1>5. s \in [1..n -> S]
  BY <1>2, <1>3
<1> HIDE DEF s
<1>6. s \in Seq(S) /\ Len(s) = n
  BY <1>4, <1>5, SeqDef, LenProperties
<1>7. ASSUME NEW i \in 1..n, NEW j \in 1..n, i < j
      PROVE  s[i] \in before[s[j]]
  <2>1. s[i] \in S /\ s[j] \in S /\ Cardinality(before[s[i]]) = i - 1 /\ Cardinality(before[s[j]]) = j - 1
    BY <1>3
  <2>2. s[i] # s[j]
    BY <1>7, <2>1
  <2>3. s[j] \in before[s[i]] => j - 1 < i - 1
    BY <2>1, Places
  <2> QED  BY <1>7, <2>1, <2>2, <2>3 DEF IsOrder
<1>8. ASSUME NEW x \in S
      PROVE  \E k \in 1..n : s[k] = x
  <2>1. Cardinality(before[x]) \in 0..(n - 1)
    BY Places
  <2> DEFINE k == Cardinality(before[x]) + 1
  <2>2. k \in 1..n /\ k - 1 = Cardinality(before[x])
    BY <1>4, <2>1
  <2> HIDE DEF k
  <2>3. s[k] \in S /\ Cardinality(before[s[k]]) = Cardinality(before[x])
    BY <1>3, <2>2
  <2>4. ~(x \in before[s[k]]) /\ ~(s[k] \in before[x])
    <3>1. Cardinality(before[x]) \in Int
      BY <1>4, <2>1
    <3> QED  BY <2>3, <3>1, Places
  <2> QED  BY <2>2, <2>3, <2>4 DEF IsOrder
<1>9. ToSet(s) = S
  BY <1>5, <1>8 DEF ToSet
<1> QED  BY <1>3, <1>5, <1>6, <1>7, <1>9 DEF s

\* There is one way to put a set in order.
LEMMA OneOrder ==
  ASSUME NEW S, IsFiniteSet(S), NEW before, IsOrder(before, S),
         NEW s \in [1..Cardinality(S) -> S], ToSet(s) = S,
         \A i, j \in 1..Cardinality(S) : i < j => s[i] \in before[s[j]]
  PROVE  s = InOrder(before)
<1> DEFINE n == Cardinality(S)
<1>1. n \in Nat
  BY Places
<1>2. ASSUME NEW k \in 1..n
      PROVE  Cardinality(before[s[k]]) = k - 1
  <2> DEFINE B == before[s[k]]
             f == [i \in 1..(k - 1) |-> s[i]]
  <2>1. \A i \in 1..(k - 1) : s[i] \in B
    BY <1>1
  <2>2. \A i, j \in 1..(k - 1) : s[i] = s[j] => i = j
    <3>1. ASSUME NEW i \in 1..(k - 1), NEW j \in 1..(k - 1), i < j
          PROVE  s[i] # s[j]
      <4>1. i \in 1..n /\ j \in 1..n
        BY <1>1
      <4> QED  BY <3>1, <4>1 DEF IsOrder
    <3> QED  BY <3>1
  <2>3. \A x \in B : \E i \in 1..(k - 1) : s[i] = x
    <3>1. ASSUME NEW x \in B
          PROVE  \E i \in 1..(k - 1) : s[i] = x
      <4>1. x \in S
        BY <3>1 DEF IsOrder
      <4>2. PICK i \in 1..n : s[i] = x
        BY <4>1 DEF ToSet
      <4>3. i # k
        BY <3>1, <4>2 DEF IsOrder
      <4>4. ~(k < i)
        <5>1. ASSUME k < i PROVE FALSE
          <6>1. s[k] \in before[s[i]]
            BY <5>1
          <6>2. s[k] \in before[s[k]]
            BY <3>1, <4>1, <4>2, <6>1 DEF IsOrder
          <6> QED  BY <6>2 DEF IsOrder
        <5> QED  BY <5>1
      <4> QED  BY <1>1, <4>2, <4>3, <4>4
    <3> QED  BY <3>1
  <2>4. f \in Injection(1..(k - 1), B) /\ f \in Surjection(1..(k - 1), B)
    <3>1. f \in [1..(k - 1) -> B] /\ DOMAIN f = 1..(k - 1) /\ \A i \in 1..(k - 1) : f[i] = s[i]
      BY <2>1
    <3> HIDE DEF f, B
    <3> QED  BY <2>2, <2>3, <3>1 DEF Injection, Surjection, IsInjective
  <2>5. IsFiniteSet(1..(k - 1)) /\ Cardinality(1..(k - 1)) = k - 1
    <3>1. k - 1 \in Nat /\ 1 \in Int /\ k - 1 \in Int
      BY <1>1
    <3>2. IsFiniteSet(1..(k - 1)) /\ Cardinality(1..(k - 1)) = IF 1 > k - 1 THEN 0 ELSE k - 1 - 1 + 1
      BY <3>1, FS_Interval
    <3> QED  BY <3>1, <3>2
  <2>6. Cardinality(B) = Cardinality(1..(k - 1))
    BY <2>4, <2>5, FS_Surjection
  <2> QED  BY <2>5, <2>6
<1>3. ASSUME NEW k \in 1..n
      PROVE  InOrder(before)[k] = s[k]
  <2>1. DOMAIN before = S
    BY DEF IsOrder
  <2>2. InOrder(before)[k] = CHOOSE x \in S : Cardinality(before[x]) = k - 1
    BY <2>1 DEF InOrder
  <2>3. s[k] \in S /\ Cardinality(before[s[k]]) = k - 1
    BY <1>2
  <2>4. ASSUME NEW x \in S, Cardinality(before[x]) = k - 1
        PROVE  x = s[k]
    <3>1. ~(x \in before[s[k]]) /\ ~(s[k] \in before[x])
      <4>1. ~(k - 1 < k - 1)
        BY <1>1
      <4> QED  BY <2>3, <2>4, <4>1, Places
    <3> QED  BY <2>3, <3>1 DEF IsOrder
  <2> QED  BY <2>2, <2>3, <2>4
<1>4. InOrder(before) \in [1..n -> S]
  BY InOrderOf
<1> HIDE DEF n
<1>5. s \in [1..n -> S]
  BY DEF n
<1>6. PICK t : t = InOrder(before)
  OBVIOUS
<1>7. t = [k \in 1..n |-> t[k]] /\ s = [k \in 1..n |-> s[k]]
  BY <1>4, <1>5, <1>6
<1>8. \A k \in 1..n : t[k] = s[k]
  BY <1>3, <1>6 DEF n
<1> QED  BY <1>6, <1>7, <1>8

LEMMA ElementsOf ==
  ASSUME NEW X, NEW s \in Seq(X)
  PROVE  ToSet(s) \subseteq X /\ s \in Seq(ToSet(s)) /\ (s = <<>> <=> ToSet(s) = {})
<1>1. Len(s) \in Nat /\ s \in [1..Len(s) -> X]
  BY LenProperties
<1>2. ToSet(s) = {s[i] : i \in 1..Len(s)}
  BY <1>1 DEF ToSet
<1>3. s \in [1..Len(s) -> ToSet(s)]
  BY <1>1, <1>2
<1>4. s \in Seq(ToSet(s))
  BY <1>1, <1>3, SeqDef
<1>5. s = <<>> <=> Len(s) = 0
  BY EmptySeq
<1>6. Len(s) = 0 <=> ToSet(s) = {}
  BY <1>1, <1>2
<1> QED  BY <1>1, <1>2, <1>4, <1>5, <1>6

LEMMA FirstOf ==
  ASSUME NEW X, NEW s \in Seq(X), NEW n \in Nat \ {0}
  PROVE  /\ First(s, n) \in Seq(X)
         /\ Len(First(s, n)) = IF Len(s) < n THEN Len(s) ELSE n
         /\ \A i \in 1..Len(First(s, n)) : First(s, n)[i] = s[i]
         /\ ToSet(First(s, n)) \subseteq ToSet(s)
         /\ First(s, n) = <<>> => s = <<>>
<1> DEFINE m == IF Len(s) < n THEN Len(s) ELSE n
           t == First(s, n)
<1>1. Len(s) \in Nat /\ s \in [1..Len(s) -> X]
  BY LenProperties
<1>2. m \in Nat /\ m <= Len(s) /\ 1 \in Int /\ m \in Int /\ (m = 0 => Len(s) = 0)
  BY <1>1
<1>3. t = SubSeq(s, 1, m)
  BY DEF First
<1> HIDE DEF m
<1>4. \A i \in 1..m : s[i] \in X
  BY <1>1, <1>2
<1>5. /\ SubSeq(s, 1, m) \in Seq(X)
      /\ Len(SubSeq(s, 1, m)) = IF 1 <= m THEN m - 1 + 1 ELSE 0
      /\ \A i \in 1..m - 1 + 1 : SubSeq(s, 1, m)[i] = s[1 + i - 1]
  BY <1>2, <1>4, SubSeqProperties
<1> HIDE DEF t
<1>6. t \in Seq(X) /\ Len(t) = m /\ \A i \in 1..m : t[i] = s[i]
  BY <1>2, <1>3, <1>5
<1>7. ToSet(t) \subseteq ToSet(s)
  <2>1. DOMAIN t = 1..m /\ DOMAIN s = 1..Len(s)
    BY <1>6, LenProperties
  <2> QED  BY <1>1, <1>2, <1>6, <2>1 DEF ToSet
<1>8. t = <<>> => s = <<>>
  BY <1>2, <1>6, EmptySeq
<1> QED  BY <1>6, <1>7, <1>8 DEF t, m

\* The places of a sequence that are chosen are in order.
LEMMA PlacesInOrder ==
  ASSUME NEW n \in Nat, NEW I \in SUBSET (1..n)
  PROVE  IsFiniteSet(I) /\ IsOrder([i \in I |-> {j \in I : j < i}], I)
<1>1. IsFiniteSet(1..n)
  BY FS_Interval
<1>2. IsFiniteSet(I)
  BY <1>1, FS_Subset
<1>3. \A i \in I : i \in Int
  OBVIOUS
<1>4. IsOrder([i \in I |-> {j \in I : j < i}], I)
  BY <1>3 DEF IsOrder
<1> QED  BY <1>2, <1>4

LEMMA OnlyOf ==
  ASSUME NEW X, NEW s \in Seq(X), NEW S
  PROVE  /\ Only(s, S) \in Seq(X)
         /\ ToSet(Only(s, S)) = ToSet(s) \cap S
         /\ ToSet(s) \subseteq S => Only(s, S) = s
<1> DEFINE n == Len(s)
           I == {i \in DOMAIN s : s[i] \in S}
           before == [i \in I |-> {j \in I : j < i}]
           order == InOrder(before)
           t == Only(s, S)
<1>1. n \in Nat /\ DOMAIN s = 1..n /\ \A i \in 1..n : s[i] \in X
  BY LenProperties, ElementOfSeq
<1>2. IsFiniteSet(I) /\ IsOrder(before, I) /\ I \subseteq 1..n
  BY <1>1, PlacesInOrder
<1>3. t = [k \in DOMAIN order |-> s[order[k]]]
  BY DEF Only
<1> HIDE DEF before, t
<1>4. order \in [1..Cardinality(I) -> I] /\ ToSet(order) = I /\ Cardinality(I) \in Nat
  BY <1>2, InOrderOf, Places
<1> HIDE DEF order, n
<1>5. t \in [1..Cardinality(I) -> X]
  BY <1>1, <1>3, <1>4
<1>6. t \in Seq(X)
  <2>1. PICK m \in Nat : m = Cardinality(I)
    BY <1>4
  <2>2. t \in [1..m -> X]
    BY <1>5, <2>1
  <2> HIDE DEF I
  <2> QED  BY <2>2, SeqDef
<1>7. ToSet(t) = ToSet(s) \cap S
  <2>1. ASSUME NEW k \in 1..Cardinality(I)
        PROVE  t[k] \in ToSet(s) \cap S
    BY <1>3, <1>4, <2>1 DEF ToSet
  <2>2. ASSUME NEW x \in ToSet(s) \cap S
        PROVE  \E k \in 1..Cardinality(I) : t[k] = x
    <3>1. PICK i \in I : s[i] = x
      BY DEF ToSet
    <3>2. PICK k \in DOMAIN order : order[k] = i
      BY <1>4 DEF ToSet
    <3> QED  BY <1>3, <1>4, <3>1, <3>2
  <2>3. ToSet(t) = {t[k] : k \in 1..Cardinality(I)}
    BY <1>5 DEF ToSet
  <2> HIDE DEF I
  <2> QED  BY <2>1, <2>2, <2>3
<1>8. ASSUME ToSet(s) \subseteq S
      PROVE  t = s
  <2>1. I = 1..n
    BY <1>1, <1>8 DEF ToSet
  <2>2. Cardinality(I) = n
    <3>1. 1 \in Int /\ n \in Int
      BY <1>1
    <3>2. Cardinality(1..n) = IF 1 > n THEN 0 ELSE n - 1 + 1
      BY <3>1, FS_Interval
    <3>3. Cardinality(1..n) = n
      BY <1>1, <3>2
    <3> QED  BY <2>1, <3>3
  <2> DEFINE same == [i \in 1..n |-> i]
  <2>3. same \in [1..Cardinality(I) -> I] /\ ToSet(same) = I /\ \A i \in 1..n : same[i] = i
    BY <2>1, <2>2 DEF ToSet
  <2>4. \A i, j \in 1..Cardinality(I) : i < j => same[i] \in before[same[j]]
    BY <2>1, <2>2, <2>3 DEF before
  <2> HIDE DEF same, I
  <2>5. same = order
    <3>1. IsFiniteSet(I) /\ IsOrder(before, I)
      BY <1>2
    <3>2. same = InOrder(before)
      BY <2>3, <2>4, <3>1, OneOrder
    <3> QED  BY <3>2 DEF order
  <2>6. \A k \in 1..n : t[k] = s[k]
    BY <1>1, <1>3, <1>4, <2>2, <2>3, <2>5
  <2>7. t = [k \in 1..n |-> t[k]] /\ s = [k \in 1..n |-> s[k]]
    BY <1>1, <1>5, <2>2, LenProperties DEF n
  <2> QED  BY <2>6, <2>7
<1> QED  BY <1>6, <1>7, <1>8 DEF t

LEMMA NewestOf ==
  ASSUME NEW S \in SUBSET Nat, IsFiniteSet(S), NEW n \in Nat \ {0}
  PROVE  /\ Newest(S, n) \in Seq(S)
         /\ ToSet(Newest(S, n)) \subseteq S
         /\ Newest(S, n) = <<>> => S = {}
<1> DEFINE before == [l \in S |-> {m \in S : m > l}]
           s == InOrder(before)
<1>1. IsOrder(before, S)
  BY DEF IsOrder
<1>2. s \in Seq(S) /\ ToSet(s) = S
  BY <1>1, InOrderOf
<1>3. Newest(S, n) = First(s, n)
  BY DEF Newest
<1> HIDE DEF s
<1> QED  BY <1>2, <1>3, FirstOf, ElementsOf

LEMMA ListingsAreFinite ==
  Listings \subseteq Nat /\ IsFiniteSet(Listings) /\ \A S \in SUBSET Listings : IsFiniteSet(S)
<1>1. IsFiniteSet(Listings)
  BY HomesAndSites, FS_Union DEF Listings
<1>2. \A S \in SUBSET Listings : IsFiniteSet(S)
  BY <1>1, FS_Subset
<1> QED  BY <1>1, <1>2, HomesAndSites DEF Listings

LEMMA ScoreType ==
  ASSUME NEW m
  PROVE  Score(m) \in Nat
BY DEF Score, Points

\* Who matches a higher criterion has the higher score.
LEMMA AboveScores ==
  ASSUME NEW b, NEW x, NEW y, Above(b, x, y)
  PROVE  Score(Criteria(b, x)) > Score(Criteria(b, y))
<1> DEFINE p == Criteria(b, x)
           q == Criteria(b, y)
<1>1. PICK i \in DOMAIN p : p[i] /\ ~q[i] /\ \A j \in 1..(i - 1) : p[j] = q[j]
  BY DEF Above
<1>2. (DOMAIN p = 1..8 /\ DOMAIN q = 1..8) \/ (DOMAIN p = 1..6 /\ DOMAIN q = 1..6)
  <2>1. CASE b \in Homes
    BY <2>1 DEF Criteria, HomeCriteria
  <2>2. CASE b \notin Homes
    BY <2>2 DEF Criteria, SiteCriteria
  <2> QED  BY <2>1, <2>2
<1> HIDE DEF p, q
<1> DEFINE P(k) == Points(p, k, 1) = 1
           Q(k) == Points(q, k, 1) = 1
<1>3. ASSUME NEW k \in Nat, NEW n \in Nat
      PROVE  /\ Points(p, k, n) = IF P(k) THEN n ELSE 0
             /\ Points(q, k, n) = IF Q(k) THEN n ELSE 0
  BY DEF Points
<1>4. i \in 1..8 /\ P(i) /\ ~Q(i) /\ \A j \in 1..(i - 1) : P(j) <=> Q(j)
  BY <1>1, <1>2 DEF Points
<1> HIDE DEF P, Q
<1>5. /\ Score(p) = (IF P(1) THEN 128 ELSE 0) + (IF P(2) THEN 64 ELSE 0) + (IF P(3) THEN 32 ELSE 0)
                    + (IF P(4) THEN 16 ELSE 0) + (IF P(5) THEN 8 ELSE 0) + (IF P(6) THEN 4 ELSE 0)
                    + (IF P(7) THEN 2 ELSE 0) + (IF P(8) THEN 1 ELSE 0)
      /\ Score(q) = (IF Q(1) THEN 128 ELSE 0) + (IF Q(2) THEN 64 ELSE 0) + (IF Q(3) THEN 32 ELSE 0)
                    + (IF Q(4) THEN 16 ELSE 0) + (IF Q(5) THEN 8 ELSE 0) + (IF Q(6) THEN 4 ELSE 0)
                    + (IF Q(7) THEN 2 ELSE 0) + (IF Q(8) THEN 1 ELSE 0)
  <2>1. /\ Score(p) = Points(p, 1, 128) + Points(p, 2, 64) + Points(p, 3, 32) + Points(p, 4, 16)
                        + Points(p, 5, 8) + Points(p, 6, 4) + Points(p, 7, 2) + Points(p, 8, 1)
        /\ Score(q) = Points(q, 1, 128) + Points(q, 2, 64) + Points(q, 3, 32) + Points(q, 4, 16)
                        + Points(q, 5, 8) + Points(q, 6, 4) + Points(q, 7, 2) + Points(q, 8, 1)
    BY DEF Score
  <2>2. /\ 1 \in Nat /\ 2 \in Nat /\ 3 \in Nat /\ 4 \in Nat /\ 5 \in Nat /\ 6 \in Nat /\ 7 \in Nat /\ 8 \in Nat
        /\ 16 \in Nat /\ 32 \in Nat /\ 64 \in Nat /\ 128 \in Nat
    OBVIOUS
  <2> QED  BY <1>3, <2>1, <2>2
<1>6. Score(p) > Score(q)
  <2>1. i \in {1, 2, 3, 4, 5, 6, 7, 8}
    BY <1>4
  <2>2. \A j \in 1..8 : j < i => (P(j) <=> Q(j))
    BY <1>4
  <2> QED  BY <1>4, <1>5, <2>1, <2>2
<1> QED  BY <1>6 DEF p, q

LEMMA CloserIsOrder ==
  ASSUME NEW base, NEW C \in SUBSET Listings
  PROVE  IsOrder([a \in C |-> {b \in C : Closer(base, b, a)}], C)
<1> DEFINE score(a) == Score(Criteria(base, a))
<1>1. \A a \in C : score(a) \in Nat /\ a \in Nat
  BY ScoreType, ListingsAreFinite
<1>2. \A a, b \in C : Closer(base, a, b) <=> score(a) > score(b) \/ (score(a) = score(b) /\ a > b)
  BY DEF Closer
<1> HIDE DEF score
<1>3. /\ \A a \in C : ~Closer(base, a, a)
      /\ \A a, b \in C : a = b \/ Closer(base, a, b) \/ Closer(base, b, a)
      /\ \A a, b, c \in C : Closer(base, a, b) /\ Closer(base, b, c) => Closer(base, a, c)
  BY <1>1, <1>2
<1> QED  BY <1>3 DEF IsOrder

\* The rail: the candidates but for the listing itself, higher matches first.
InRailOrder(base, s, pool) ==
  /\ \A i, j \in DOMAIN s : i < j => ~Above(base, s[j], s[i])
  /\ \A l \in pool \ ToSet(s), i \in DOMAIN s : ~Above(base, l, s[i])

LEMMA RankOf ==
  ASSUME NEW base, NEW pool \in SUBSET Listings, base \notin pool
  PROVE  /\ RankByPriority(base, pool) \in Seq(pool)
         /\ InRailOrder(base, RankByPriority(base, pool), pool)
<1> DEFINE before == [a \in pool |-> {b \in pool : Closer(base, b, a)}]
           s == InOrder(before)
           t == First(s, SimilarLimit)
           n == Cardinality(pool)
<1>1. RankByPriority(base, pool) = t
  <2>1. pool \ {base} = pool
    OBVIOUS
  <2> QED  BY <2>1 DEF RankByPriority
<1>2. IsFiniteSet(pool) /\ IsOrder(before, pool)
  BY ListingsAreFinite, CloserIsOrder
<1>3. /\ s \in [1..n -> pool] /\ s \in Seq(pool) /\ Len(s) = n /\ n \in Nat /\ ToSet(s) = pool
      /\ \A i, j \in 1..n : i < j => s[i] \in before[s[j]]
  BY <1>2, InOrderOf, Places
<1>4. \A i, j \in 1..n : i < j => ~Above(base, s[j], s[i])
  <2>1. ASSUME NEW i \in 1..n, NEW j \in 1..n, i < j
        PROVE  ~Above(base, s[j], s[i])
    <3>1. PICK x \in pool, y \in pool : x = s[i] /\ y = s[j]
      BY <1>3
    <3>2. Closer(base, x, y)
      BY <1>3, <2>1, <3>1
    <3>3. ~(Score(Criteria(base, y)) > Score(Criteria(base, x)))
      BY <3>2, ScoreType DEF Closer
    <3> QED  BY <3>1, <3>3, AboveScores
  <2> QED  BY <2>1
<1> HIDE DEF s
<1>5. SimilarLimit \in Nat \ {0}
  BY LimitsAreOfSome
<1>6. /\ t \in Seq(pool) /\ DOMAIN t = 1..Len(t) /\ Len(t) \in Nat /\ Len(t) <= n
      /\ \A i \in 1..Len(t) : t[i] = s[i]
  BY <1>3, <1>5, FirstOf, LenProperties
<1>7. \A i, j \in DOMAIN t : i < j => ~Above(base, t[j], t[i])
  BY <1>3, <1>4, <1>6
<1>8. ASSUME NEW l \in pool \ ToSet(t), NEW i \in DOMAIN t
      PROVE  ~Above(base, l, t[i])
  <2>1. PICK k \in 1..n : s[k] = l
    BY <1>3 DEF ToSet
  <2>2. ~(k <= Len(t))
    BY <1>6, <2>1 DEF ToSet
  <2>3. i \in 1..n /\ i < k /\ t[i] = s[i]
    BY <1>3, <1>6, <2>1, <2>2
  <2> QED  BY <1>4, <2>1, <2>3
<1> HIDE DEF t
<1> QED  BY <1>1, <1>6, <1>7, <1>8 DEF InRailOrder

LEMMA LeastOf ==
  ASSUME NEW S \in SUBSET Nat, S # {}
  PROVE  Min(S) \in S
<1> DEFINE R == OpToRel(<, Nat)
<1>1. IsWellFoundedOn(R, Nat)
  BY NatLessThanWellFounded
<1>2. \A m, n \in Nat : <<m, n>> \in R <=> m < n
  BY DEF OpToRel
<1> HIDE DEF R
<1>3. PICK x \in S : \A y \in S : ~(<<y, x>> \in R)
  BY <1>1, WFMin
<1>4. ASSUME NEW y \in S
      PROVE  x <= y
  <2>1. x \in Nat /\ y \in Nat /\ ~(y < x)
    BY <1>2, <1>3
  <2> QED  BY <2>1
<1> QED  BY <1>4 DEF Min

\* The order of a listing page, as the database is asked for it.
Sorted(q) == InOrder([l \in Found(q) |-> {m \in Found(q) : Before(q, m, l)}])

LEMMA SortValueType ==
  ASSUME NEW q, NEW l \in Found(q)
  PROVE  SortValue(q, l) \in Nat /\ Facts[l].created \in Nat /\ l \in Listings
<1>1. l \in Listings
  BY DEF Found, Listings
<1>2. Facts[l].price \in Nat /\ Facts[l].created \in Nat /\ \A u \in Facts[l].units : u.price \in Nat /\ u.rent \in Nat
  BY <1>1, FactsAreNumbers DEF Listings
<1>3. CASE l \in Homes
  BY <1>1, <1>2, <1>3 DEF SortValue
<1>4. CASE l \notin Homes
  <2> DEFINE U == OfferedUnits(q, l)
             A == {Ask(q, u) : u \in U}
  <2>1. U # {}
    BY <1>4 DEF Found, SiteFits
  <2>2. U \subseteq Facts[l].units
    BY DEF OfferedUnits
  <2> HIDE DEF U
  <2>3. A \in SUBSET Nat /\ A # {}
    BY <1>2, <2>1, <2>2 DEF Ask
  <2>4. Min(A) \in Nat
    BY <2>3, LeastOf
  <2>5. SortValue(q, l) = Min(A)
    BY <1>4 DEF SortValue, U
  <2> QED  BY <1>1, <1>2, <2>4, <2>5
<1> QED  BY <1>3, <1>4

LEMMA FoundIsOrdered ==
  ASSUME NEW q
  PROVE  /\ Found(q) \subseteq Listings /\ IsFiniteSet(Found(q))
         /\ IsOrder([l \in Found(q) |-> {m \in Found(q) : Before(q, m, l)}], Found(q))
<1> DEFINE F == Found(q)
           v(l) == SortValue(q, l)
           c(l) == Facts[l].created
           D == Delegated(q)
<1>1. F \subseteq Listings /\ IsFiniteSet(F)
  BY ListingsAreFinite DEF Found, Listings
<1>2. \A l \in F : v(l) \in Nat /\ c(l) \in Nat /\ l \in Nat
  BY <1>1, SortValueType, ListingsAreFinite
<1>3. \A a, b \in F : Before(q, a, b) <=>
        IF q.sort /\ v(a) # v(b) THEN v(a) < v(b)
        ELSE IF D /\ q.sort THEN a < b
        ELSE IF c(a) # c(b) THEN c(a) > c(b)
        ELSE IF D THEN a < b
        ELSE IF (a \in Sites) # (b \in Sites) THEN a \in Sites
        ELSE a > b
  BY DEF Before
<1> HIDE DEF F, v, c, D
<1>4. \A a \in F : ~Before(q, a, a)
  BY <1>2, <1>3
<1>5. \A a, b \in F : a = b \/ Before(q, a, b) \/ Before(q, b, a)
  BY <1>2, <1>3
<1>6. \A a, b, d \in F : Before(q, a, b) /\ Before(q, b, d) => Before(q, a, d)
  BY <1>2, <1>3
<1>7. IsOrder([l \in F |-> {m \in F : Before(q, m, l)}], F)
  BY <1>4, <1>5, <1>6 DEF IsOrder
<1> QED  BY <1>1, <1>7 DEF F

LEMMA SortedType ==
  ASSUME NEW q
  PROVE  /\ Sorted(q) \in Seq(Found(q)) /\ Sorted(q) \in Seq(Listings)
         /\ ToSet(Sorted(q)) = Found(q) /\ IsInjective(Sorted(q))
<1> DEFINE F == Found(q)
           before == [l \in F |-> {m \in F : Before(q, m, l)}]
           s == InOrder(before)
<1>1. F \subseteq Listings /\ IsFiniteSet(F) /\ IsOrder(before, F)
  BY FoundIsOrdered
<1> HIDE DEF before, F
<1>2. /\ s \in Seq(F) /\ s \in [1..Cardinality(F) -> F] /\ ToSet(s) = F
      /\ \A i, j \in 1..Cardinality(F) : i < j => s[i] \in before[s[j]]
      /\ Cardinality(F) \in Nat
  BY <1>1, InOrderOf, Places
<1> HIDE DEF s
<1>3. s \in Seq(Listings)
  BY <1>1, <1>2, SeqMonotonic
<1>4. \A i, j \in 1..Cardinality(F) : i < j => s[i] # s[j]
  BY <1>1, <1>2 DEF IsOrder
<1>5. IsInjective(s)
  BY <1>2, <1>4 DEF IsInjective
<1> QED  BY <1>2, <1>3, <1>5 DEF s, before, F, Sorted

\* The database has one answer to it.
LEMMA OrdersSorted ==
  ASSUME NEW q, NEW s \in Orders(q)
  PROVE  s = Sorted(q)
<1> DEFINE F == Found(q)
           before == [l \in F |-> {m \in F : Before(q, m, l)}]
           n == Cardinality(F)
<1>1. F \subseteq Listings /\ IsFiniteSet(F) /\ IsOrder(before, F) /\ n \in Nat
  BY FoundIsOrdered, Places
<1>2. /\ s \in [1..n -> F] /\ \A i, j \in 1..n : i # j => s[i] # s[j]
      /\ \A i, j \in 1..n : i < j => ~Before(q, s[j], s[i])
  BY DEF Orders, SetToSeqs
<1>3. \A i, j \in 1..n : i < j => s[i] \in before[s[j]]
  <2>1. ASSUME NEW i \in 1..n, NEW j \in 1..n, i < j
        PROVE  s[i] \in before[s[j]]
    <3>1. s[i] \in F /\ s[j] \in F /\ s[i] # s[j]
      BY <1>1, <1>2, <2>1
    <3>2. s[j] \notin before[s[i]]
      BY <1>2, <2>1, <3>1
    <3> HIDE DEF before
    <3> QED  BY <1>1, <3>1, <3>2 DEF IsOrder
  <2> QED  BY <2>1
<1> HIDE DEF before, F
<1>4. ToSet(s) = F
  <2>1. s \in Injection(1..n, F)
    BY <1>2 DEF Injection, IsInjective
  <2>2. Cardinality(1..n) = n /\ IsFiniteSet(1..n)
    <3>1. 1 \in Int /\ n \in Int
      BY <1>1
    <3>2. IsFiniteSet(1..n) /\ Cardinality(1..n) = IF 1 > n THEN 0 ELSE n - 1 + 1
      BY <3>1, FS_Interval
    <3> QED  BY <1>1, <3>2
  <2>3. s \in Surjection(1..n, F)
    BY <1>1, <2>1, <2>2, FS_Injection DEF n
  <2> QED  BY <1>2, <2>3 DEF Surjection, ToSet
<1>5. s = InOrder(before)
  BY <1>1, <1>2, <1>3, <1>4, OneOrder DEF n
<1> QED  BY <1>5 DEF Sorted, before, F

\* A page begins where the ones before it end.
LEMMA NextOfPages ==
  ASSUME NEW s \in Seq(Listings), NEW page \in Nat \ {0}, (page - 1) * PageSize <= Len(s)
  PROVE  LET k == (page - 1) * PageSize
             t == PageOf(s, page)
         IN  /\ t \in Seq(Listings) /\ ToSet(t) \subseteq ToSet(s)
             /\ Len(t) < PageSize => SubSeq(s, 1, k) \o t = s
             /\ Len(t) >= PageSize => page * PageSize <= Len(s) /\ SubSeq(s, 1, k) \o t = SubSeq(s, 1, page * PageSize)
<1> DEFINE k == (page - 1) * PageSize
           m == IF page * PageSize < Len(s) THEN page * PageSize ELSE Len(s)
           t == PageOf(s, page)
<1>1. PageSize \in Nat \ {0}
  BY LimitsAreOfSome
<1>2. k \in Nat /\ page * PageSize = k + PageSize
  BY <1>1
<1>3. Len(s) \in Nat /\ DOMAIN s = 1..Len(s) /\ \A i \in 1..Len(s) : s[i] \in Listings
  BY LenProperties, ElementOfSeq
<1>4. t = SubSeq(s, k + 1, m)
  BY DEF PageOf
<1>5. k <= Len(s) /\ m = IF k + PageSize < Len(s) THEN k + PageSize ELSE Len(s)
  BY <1>2
<1> HIDE DEF k, m, t
<1>20. k \in Nat /\ PageSize \in Nat /\ PageSize > 0 /\ Len(s) \in Nat
  BY <1>1, <1>2, <1>3
<1>6. m \in Nat /\ k <= m /\ m <= Len(s) /\ k + 1 \in Int /\ m \in Int
  BY <1>5, <1>20
<1>7. /\ SubSeq(s, k + 1, m) \in Seq(Listings)
      /\ Len(SubSeq(s, k + 1, m)) = IF k + 1 <= m THEN m - (k + 1) + 1 ELSE 0
      /\ \A i \in 1..m - (k + 1) + 1 : SubSeq(s, k + 1, m)[i] = s[k + 1 + i - 1]
  <2>1. \A i \in k + 1..m : s[i] \in Listings
    BY <1>2, <1>3, <1>6
  <2> QED  BY <1>6, <2>1, SubSeqProperties
<1>8. t \in Seq(Listings) /\ Len(t) = m - k /\ \A i \in 1..(m - k) : t[i] = s[k + i]
  BY <1>2, <1>4, <1>6, <1>7
<1>9. ToSet(t) \subseteq ToSet(s)
  <2>1. DOMAIN t = 1..(m - k)
    BY <1>8, LenProperties
  <2>2. \A i \in 1..(m - k) : k + i \in 1..Len(s)
    BY <1>2, <1>3, <1>6
  <2> QED  BY <1>3, <1>8, <2>1, <2>2 DEF ToSet
<1>10. SubSeq(s, 1, k) \o t = SubSeq(s, 1, m)
  <2>1. 1 \in 1..Len(s) + 1 /\ k \in (1 - 1)..Len(s) /\ m \in k..Len(s)
    BY <1>5, <1>6, <1>20
  <2> QED  BY <1>4, <2>1, ConcatAdjacentSubSeq
<1>11. Len(t) < PageSize => m = Len(s)
  BY <1>5, <1>6, <1>8, <1>20
<1>12. Len(t) >= PageSize => m = k + PageSize
  <2>1. m - k >= PageSize => m = k + PageSize
    BY <1>5, <1>6, <1>20
  <2> QED  BY <1>8, <2>1
<1>13. SubSeq(s, 1, Len(s)) = s
  BY SubSeqFull
<1> QED  BY <1>2, <1>6, <1>8, <1>9, <1>10, <1>11, <1>12, <1>13 DEF k, t

-----------------------------------------------------------------------------
(* What is shown *)

Statuses == {"live", "taken", "retired", "hidden", "gone"}
Reads(q) == q.kind \notin {"none", "toggle", "replace"}
AnswerKinds == Sections \union {"similar", "wishlist", "page", "detail", "none", "toggle", "replace"}

\* Listing l had one of the statuses S while q was answered.
Had(q, l, S) == \E s \in S : <<l, s>> \in q.seen

IsList(s) == s \in Seq(ToSet(s))

\* What is read was as it had to be when it was read.
Fits(q) ==
  /\ DOMAIN q = AnswerFields /\ q.kind \in AnswerKinds
  /\ IsList(q.ids) /\ q.got \in Seq(Listings)
  /\ q.step = "done" => q.kind \notin {"none", "replace"}
  /\ Reads(q) =>
       /\ \A l \in Listings : <<l, status[l]>> \in q.seen
       /\ q.part \subseteq Listings
       /\ \A l \in ToSet(q.got) \union q.part : Had(q, l, MayShow(q.kind))
  /\ q.kind = "similar" =>
       /\ q.who \in Listings
       /\ q.step = "other" => ToSet(q.ids) \subseteq Listings \ {q.who} /\ \A l \in ToSet(q.ids) : Had(q, l, {"live"})

\* A section that is empty had nothing to show at some time.
Kept(q) ==
  q.kind \in Sections /\ q.step = "done" /\ q.got = <<>> =>
    \A l \in KindOf(q.kind) :
      (l \in Homes => Facts[l].type = "apartment") => Had(q, l, Statuses \ {"live"})

Rail(q) ==
  q.kind = "similar" =>
    /\ q.step \in {"base", "same", "other"} => q.got = <<>>
    /\ q.step = "done" => InRailOrder(q.who, q.got, q.part)

\* Nothing was changed while q was answered.
Still(q) == \A l \in Listings : \A s, t \in Statuses : <<l, s>> \in q.seen /\ <<l, t>> \in q.seen => s = t

\* The pages so far are the beginning of the whole, if none is of the index.
Paged(q) ==
  q.kind = "page" =>
    /\ q.page \in Nat \ {0} /\ q.step \in {"keys", "hits", "load", "done"}
    /\ q.step = "hits" => q.indexed
    /\ Still(q) /\ ~q.indexed =>
         LET s == Sorted(q.q) k == (q.page - 1) * PageSize IN
         /\ q.step # "done" => k <= Len(s) /\ q.got = SubSeq(s, 1, k)
         /\ q.step = "load" => q.ids = PageOf(s, q.page) /\ ToSet(q.ids) \subseteq q.part \union UNION q.todo
         /\ q.step = "done" => q.got = s

Answer(q) == Fits(q) /\ Kept(q) /\ Rail(q) /\ Paged(q)

\* The tables: what a request reads of them can be put in order.
ReadTables ==
  /\ status \in [Listings -> Statuses]
  /\ \A s \in Sections : IsList(picks[s])
  /\ DOMAIN picks = Sections
  /\ IsFiniteSet(saved)
  /\ \A v, w \in saved : v.row = w.row => v = w

ReadInv == WishInv /\ ReadTables /\ \A r \in Requests : Answer(req[r])

LEMMA SortedStays ==
  ASSUME status' = status, NEW q
  PROVE  Found(q)' = Found(q) /\ Sorted(q)' = Sorted(q)
<1>1. \A l \in Listings : OfferedUnits(q, l)' = OfferedUnits(q, l)
  BY DEF OfferedUnits
<1>2. Found(q)' = Found(q)
  BY <1>1 DEF Found, Public, SiteFits, OfferedUnits
<1>3. \A a, b : Before(q, a, b)' = Before(q, a, b)
  BY DEF Before, SortValue, OfferedUnits
<1> QED  BY <1>2, <1>3 DEF Sorted

LEMMA AnswerStays ==
  ASSUME status' = status, NEW q
  PROVE  Answer(q)' <=> Answer(q)
<1>1. Fits(q)' <=> Fits(q)
  BY DEF Fits, Reads, Had
<1>2. Kept(q)' <=> Kept(q)
  BY DEF Kept, Had
<1>3. Rail(q)' <=> Rail(q)
  BY DEF Rail
<1>4. Paged(q)' <=> Paged(q)
  BY SortedStays DEF Paged, Still
<1> QED  BY <1>1, <1>2, <1>3, <1>4 DEF Answer

\* One request is answered further; nothing else of what is read changes.
LEMMA ReadInvStep ==
  ASSUME ReadInv, WishInv', NEW r \in Requests, NEW q, Answer(q),
         status' = status, ReadTables', req' = [req EXCEPT ![r] = q]
  PROVE  ReadInv'
<1>1. ASSUME NEW s \in Requests
      PROVE  Answer(req[s])'
  <2>1. PICK x : x = req'[s]
    OBVIOUS
  <2>2. Answer(x)
    BY <2>1 DEF ReadInv, WishInv
  <2>3. Answer(x)'
    BY <2>2, AnswerStays
  <2>4. Answer(x)' <=> Answer(req[s])'
    BY <2>1
  <2> QED  BY <2>3, <2>4
<1> QED  BY <1>1 DEF ReadInv

LEMMA TablesStay ==
  ASSUME ReadTables, UNCHANGED <<status, picks, saved>>
  PROVE  ReadTables'
BY DEF ReadTables

\* A step of a request that reads: the request becomes one that is answered well.
Moves(r) == \E q : Answer(q) /\ Become(r, q)

LEMMA NothingAsked == Answer(None)
<1>1. /\ DOMAIN None = AnswerFields /\ None.kind = "none" /\ None.step = "" /\ None.ids = <<>> /\ None.got = <<>>
      /\ "none" \notin Sections
  BY DEF None, AnswerFields, Sections
<1>2. IsList(<<>>) /\ <<>> \in Seq(Listings)
  BY DEF IsList
<1> QED  BY <1>1, <1>2 DEF Answer, Fits, Kept, Rail, Paged, Reads, AnswerKinds

LEMMA ListsOf ==
  ASSUME NEW X, NEW s \in Seq(X)
  PROVE  IsList(s) /\ ToSet(s) \subseteq X
BY ElementsOf DEF IsList

LEMMA OneListed ==
  ASSUME NEW l \in Listings
  PROVE  <<l>> \in Seq(Listings) /\ ToSet(<<l>>) = {l}
BY DEF ToSet

\* What is live now was live while the request was answered.
LEMMA HadNow ==
  ASSUME ReadInv, NEW r \in Requests, Reads(req[r]), NEW l \in Listings, NEW S, status[l] \in S
  PROVE  Had(req[r], l, S)
BY DEF ReadInv, Answer, Fits, Had

\* What an answer needs that goes on with the same request.
LEMMA GoesOn ==
  ASSUME ReadInv, NEW r \in Requests, Reads(req[r]), NEW q,
         DOMAIN q = AnswerFields, q.kind = req[r].kind, q.who = req[r].who, q.seen = req[r].seen,
         IsList(q.ids), q.got \in Seq(Listings), q.part \subseteq Listings,
         \A l \in ToSet(q.got) \union q.part : Had(q, l, MayShow(q.kind)),
         q.kind = "similar" /\ q.step = "other" =>
           ToSet(q.ids) \subseteq Listings \ {q.who} /\ \A l \in ToSet(q.ids) : Had(q, l, {"live"}),
         Kept(q), Rail(q), Paged(q)
  PROVE  Answer(q)
BY DEF ReadInv, Answer, Fits, Reads

\* The sections of the home page.
LEMMA PickSteps ==
  ASSUME ReadInv, NEW r \in Requests, ReadPicks(r) \/ LoadPicks(r) \/ Fallback(r)
  PROVE  Moves(r)
<1> DEFINE o == req[r]
<1>1. o.kind \in Sections /\ o.kind \notin {"none", "toggle", "replace", "similar", "page", "wishlist", "detail"}
  BY DEF ReadPicks, LoadPicks, Fallback, At, Sections
<1>2. Reads(o) /\ "live" \in MayShow(o.kind)
  BY <1>1 DEF Reads, MayShow
<1>3. Answer(o) /\ Fits(o) /\ DOMAIN o = AnswerFields
  BY DEF ReadInv, Answer, Fits
<1>4. ReadTables
  BY DEF ReadInv
<1>5. CASE ReadPicks(r)
  <2> DEFINE ids == picks[o.kind]
             q == [o EXCEPT !.ids = ids, !.step = IF ids = <<>> THEN "fallback" ELSE "load"]
  <2>1. /\ DOMAIN q = AnswerFields /\ q.kind = o.kind /\ q.who = o.who /\ q.seen = o.seen /\ q.got = o.got
        /\ q.part = o.part /\ q.ids = ids /\ q.step \in {"fallback", "load"}
    BY <1>3 DEF AnswerFields
  <2>2. IsList(ids)
    BY <1>1, <1>4 DEF ReadTables
  <2>3. Become(r, q)
    BY <1>5 DEF ReadPicks
  <2> HIDE DEF q
  <2>4. Answer(q)
    BY <1>1, <1>2, <1>3, <2>1, <2>2, GoesOn DEF Fits, Kept, Rail, Paged, Had
  <2> QED  BY <2>3, <2>4 DEF Moves
<1>6. CASE LoadPicks(r)
  <2> DEFINE got == Only(o.ids, Live)
             q == [o EXCEPT !.got = got, !.step = IF got = <<>> THEN "fallback" ELSE "done"]
  <2>1. /\ DOMAIN q = AnswerFields /\ q.kind = o.kind /\ q.who = o.who /\ q.seen = o.seen /\ q.got = got
        /\ q.part = o.part /\ q.ids = o.ids /\ q.step = IF got = <<>> THEN "fallback" ELSE "done"
    BY <1>3 DEF AnswerFields
  <2>2. Become(r, q)
    BY <1>6 DEF LoadPicks
  <2>3. ToSet(got) \subseteq Live /\ Live \subseteq Listings
    BY <1>3, OnlyOf DEF Fits, IsList, Live
  <2>4. got \in Seq(ToSet(o.ids))
    BY <1>3, OnlyOf DEF Fits, IsList
  <2>5. got \in Seq(Listings)
    BY <2>3, <2>4, ElementsOf, SeqMonotonic
  <2> HIDE DEF got
  <2>6. \A l \in ToSet(got) : Had(o, l, MayShow(o.kind))
    BY <1>2, <2>3, HadNow DEF Live
  <2> HIDE DEF q
  <2>7. Answer(q)
    BY <1>1, <1>2, <1>3, <2>1, <2>5, <2>6, GoesOn DEF Fits, Kept, Rail, Paged, Had
  <2> QED  BY <2>2, <2>7 DEF Moves
<1>7. CASE Fallback(r)
  <2> DEFINE S == IF o.kind = "featured_projects" THEN Sites \intersect Live
                  ELSE {l \in Homes \intersect Live : Facts[l].type = "apartment"}
             got == Newest(S, FallbackLimit)
             q == [o EXCEPT !.got = got, !.step = "done"]
  <2>1. /\ DOMAIN q = AnswerFields /\ q.kind = o.kind /\ q.who = o.who /\ q.seen = o.seen /\ q.got = got
        /\ q.part = o.part /\ q.ids = o.ids /\ q.step = "done"
    BY <1>3 DEF AnswerFields
  <2>2. Become(r, q)
    BY <1>7 DEF Fallback
  <2>3. S \subseteq Live /\ Live \subseteq Listings
    BY DEF Live
  <2>4. S \in SUBSET Nat /\ IsFiniteSet(S) /\ FallbackLimit \in Nat \ {0}
    BY <2>3, ListingsAreFinite, LimitsAreOfSome
  <2>5. \A l \in KindOf(o.kind) : (l \in Homes => Facts[l].type = "apartment") /\ status[l] = "live" => l \in S
    BY <1>1, HomesAndSites DEF KindOf, Sections, Live, Listings
  <2> HIDE DEF S
  <2>6. got \in Seq(S) /\ ToSet(got) \subseteq S /\ (got = <<>> => S = {})
    BY <2>4, NewestOf
  <2> HIDE DEF got
  <2>7. got \in Seq(Listings)
    BY <2>3, <2>6, SeqMonotonic
  <2>8. \A l \in ToSet(got) : Had(o, l, MayShow(o.kind))
    BY <1>2, <2>3, <2>6, HadNow DEF Live
  <2>9. got = <<>> => \A l \in KindOf(o.kind) :
          (l \in Homes => Facts[l].type = "apartment") => Had(o, l, Statuses \ {"live"})
    <3>1. KindOf(o.kind) \subseteq Listings
      BY DEF KindOf, Listings
    <3>2. \A l \in Listings : status[l] \in Statuses
      BY <1>4 DEF ReadTables
    <3> QED  BY <1>2, <2>5, <2>6, <3>1, <3>2, HadNow
  <2> HIDE DEF q
  <2>10. Answer(q)
    BY <1>1, <1>2, <1>3, <2>1, <2>7, <2>8, <2>9, GoesOn DEF Fits, Kept, Rail, Paged, Had
  <2> QED  BY <2>2, <2>10 DEF Moves
<1> QED  BY <1>5, <1>6, <1>7

\* The newest of what is live.
LEMMA NewestLive ==
  ASSUME ReadInv, NEW r \in Requests, Reads(req[r]), NEW S \in SUBSET Live, NEW n \in Nat \ {0}
  PROVE  /\ Newest(S, n) \in Seq(Listings) /\ ToSet(Newest(S, n)) \subseteq S
         /\ S \subseteq Listings /\ \A l \in S : Had(req[r], l, {"live"})
<1>1. S \subseteq Listings
  BY DEF Live
<1>2. S \in SUBSET Nat /\ IsFiniteSet(S)
  BY <1>1, ListingsAreFinite
<1>3. Newest(S, n) \in Seq(S) /\ ToSet(Newest(S, n)) \subseteq S
  BY <1>2, NewestOf
<1>4. Newest(S, n) \in Seq(Listings)
  BY <1>1, <1>3, SeqMonotonic
<1>5. \A l \in S : Had(req[r], l, {"live"})
  BY <1>1, HadNow DEF Live
<1> QED  BY <1>1, <1>3, <1>4, <1>5

\* The rails of similar listings.
LEMMA RailSteps ==
  ASSUME ReadInv, NEW r \in Requests, ReadBase(r) \/ ReadSameType(r) \/ ReadOtherType(r)
  PROVE  Moves(r)
<1> DEFINE o == req[r]
           b == o.who
<1>1. o.kind = "similar" /\ o.kind \notin Sections /\ o.kind # "page"
  BY DEF ReadBase, ReadSameType, ReadOtherType, At, Sections
<1>2. Reads(o) /\ MayShow(o.kind) = {"live"}
  BY <1>1 DEF Reads, MayShow
<1>3. Answer(o) /\ Fits(o) /\ Rail(o) /\ DOMAIN o = AnswerFields /\ b \in Listings
  BY <1>1 DEF ReadInv, Answer, Fits
<1>4. SameTypePool \in Nat \ {0} /\ OtherTypePool \in Nat \ {0}
  BY LimitsAreOfSome
<1>5. CASE ReadBase(r)
  <2> DEFINE q == [o EXCEPT !.step = IF status[o.who] = "gone" \/ Facts[o.who].city = "" THEN "done" ELSE "same"]
  <2>1. /\ DOMAIN q = AnswerFields /\ q.kind = o.kind /\ q.who = o.who /\ q.seen = o.seen /\ q.got = o.got
        /\ q.part = o.part /\ q.ids = o.ids /\ q.step \in {"same", "done"}
    BY <1>3 DEF AnswerFields
  <2>2. Become(r, q)
    BY <1>5 DEF ReadBase
  <2>3. o.got = <<>>
    BY <1>1, <1>3, <1>5 DEF Rail, ReadBase, At
  <2>4. InRailOrder(o.who, <<>>, o.part)
    BY DEF InRailOrder
  <2> HIDE DEF q
  <2>5. Answer(q)
    BY <1>1, <1>2, <1>3, <2>1, <2>3, <2>4, GoesOn DEF Fits, Kept, Rail, Paged, Had
  <2> QED  BY <2>2, <2>5 DEF Moves
<1>6. CASE ReadSameType(r)
  <2> DEFINE S == Comparable(b) \intersect SameType(b)
             ids == Newest(S, SameTypePool)
             q == [o EXCEPT !.step = "other", !.ids = ids]
  <2>1. /\ DOMAIN q = AnswerFields /\ q.kind = o.kind /\ q.who = o.who /\ q.seen = o.seen /\ q.got = o.got
        /\ q.part = o.part /\ q.ids = ids /\ q.step = "other"
    BY <1>3 DEF AnswerFields
  <2>2. Become(r, q)
    BY <1>6 DEF ReadSameType
  <2>3. S \in SUBSET Live /\ b \notin S
    BY DEF Comparable
  <2> HIDE DEF S
  <2>4. /\ ids \in Seq(Listings) /\ ToSet(ids) \subseteq S
        /\ S \subseteq Listings \ {b} /\ \A l \in S : Had(o, l, {"live"})
    BY <1>2, <1>4, <2>3, NewestLive
  <2> HIDE DEF ids
  <2>5. IsList(ids)
    BY <2>4, ListsOf
  <2>6. o.got = <<>>
    BY <1>1, <1>3, <1>6 DEF Rail, ReadSameType, At
  <2> HIDE DEF q
  <2>7. Answer(q)
    BY <1>1, <1>2, <1>3, <2>1, <2>4, <2>5, <2>6, GoesOn DEF Fits, Kept, Rail, Paged, Had
  <2> QED  BY <2>2, <2>7 DEF Moves
<1>7. CASE ReadOtherType(r)
  <2> DEFINE S == Comparable(b) \ SameType(b)
             others == Newest(S, OtherTypePool)
             pool == ToSet(o.ids) \union ToSet(others)
             got == RankByPriority(b, pool)
             q == [o EXCEPT !.part = pool, !.got = got, !.step = "done"]
  <2>1. /\ DOMAIN q = AnswerFields /\ q.kind = o.kind /\ q.who = o.who /\ q.seen = o.seen /\ q.got = got
        /\ q.part = pool /\ q.ids = o.ids /\ q.step = "done"
    BY <1>3 DEF AnswerFields
  <2>2. Become(r, q)
    BY <1>7 DEF ReadOtherType
  <2>3. S \in SUBSET Live /\ b \notin S
    BY DEF Comparable
  <2> HIDE DEF S
  <2>4. ToSet(others) \subseteq S /\ S \subseteq Listings \ {b} /\ \A l \in S : Had(o, l, {"live"})
    BY <1>2, <1>4, <2>3, NewestLive
  <2>5. ToSet(o.ids) \subseteq Listings \ {b} /\ \A l \in ToSet(o.ids) : Had(o, l, {"live"})
    BY <1>1, <1>3, <1>7 DEF Fits, ReadOtherType, At
  <2>6. pool \in SUBSET Listings /\ b \notin pool /\ \A l \in pool : Had(o, l, {"live"})
    BY <2>4, <2>5
  <2> HIDE DEF pool
  <2>7. got \in Seq(pool) /\ InRailOrder(b, got, pool)
    BY <2>6, RankOf
  <2> HIDE DEF got
  <2>8. got \in Seq(Listings) /\ ToSet(got) \subseteq pool
    BY <2>6, <2>7, SeqMonotonic, ListsOf
  <2> HIDE DEF q
  <2>9. Answer(q)
    BY <1>1, <1>2, <1>3, <2>1, <2>6, <2>7, <2>8, GoesOn DEF Fits, Kept, Rail, Paged, Had
  <2> QED  BY <2>2, <2>9 DEF Moves
<1> QED  BY <1>5, <1>6, <1>7

\* Detail pages.
LEMMA DetailSteps ==
  ASSUME ReadInv, NEW r \in Requests,
         ReadSlug(r) \/ ReadSuffix(r) \/ ReadById(r) \/ ReadProject(r) \/ ReadRest(r)
  PROVE  Moves(r)
<1> DEFINE o == req[r]
<1>1. o.kind = "detail" /\ o.kind \notin Sections /\ o.kind # "page" /\ o.kind # "similar"
  BY DEF ReadSlug, ReadSuffix, ReadById, ReadProject, ReadRest, At, Sections
<1>2. Reads(o) /\ MayShow(o.kind) = {"live", "taken", "retired"}
  BY <1>1 DEF Reads, MayShow
<1>3. Answer(o) /\ Fits(o) /\ DOMAIN o = AnswerFields
  BY DEF ReadInv, Answer, Fits
<1>4. ASSUME NEW l \in Open, Become(r, [o EXCEPT !.got = <<l>>, !.step = "rest"])
      PROVE  Moves(r)
  <2> DEFINE q == [o EXCEPT !.got = <<l>>, !.step = "rest"]
  <2>1. /\ DOMAIN q = AnswerFields /\ q.kind = o.kind /\ q.who = o.who /\ q.seen = o.seen /\ q.got = <<l>>
        /\ q.part = o.part /\ q.ids = o.ids /\ q.step = "rest"
    BY <1>3 DEF AnswerFields
  <2>2. l \in Listings /\ Had(o, l, MayShow(o.kind))
    <3>1. l \in Listings /\ status[l] \in MayShow(o.kind)
      BY <1>2, <1>4 DEF Open
    <3> QED  BY <1>2, <3>1, HadNow
  <2>3. <<l>> \in Seq(Listings) /\ ToSet(<<l>>) = {l}
    BY <2>2, OneListed
  <2> HIDE DEF q
  <2>4. Answer(q)
    BY <1>1, <1>2, <1>3, <2>1, <2>2, <2>3, GoesOn DEF Fits, Kept, Rail, Paged, Had
  <2> QED  BY <1>4, <2>4 DEF Moves, q
<1>5. ASSUME NEW step, step \in {"suffix", "done"}, Become(r, [o EXCEPT !.step = step])
      PROVE  Moves(r)
  <2> DEFINE q == [o EXCEPT !.step = step]
  <2>1. /\ DOMAIN q = AnswerFields /\ q.kind = o.kind /\ q.who = o.who /\ q.seen = o.seen /\ q.got = o.got
        /\ q.part = o.part /\ q.ids = o.ids /\ q.step = step
    BY <1>3 DEF AnswerFields
  <2> HIDE DEF q
  <2>2. Answer(q)
    BY <1>1, <1>2, <1>3, <1>5, <2>1, GoesOn DEF Fits, Kept, Rail, Paged, Had
  <2> QED  BY <1>5, <2>2 DEF Moves, q
<1>6. Become(r, None) => Moves(r)
  BY NothingAsked DEF Moves
<1>7. CASE ReadSlug(r)
  BY <1>4, <1>5, <1>7 DEF ReadSlug
<1>8. CASE ReadSuffix(r)
  BY <1>4, <1>6, <1>8 DEF ReadSuffix
<1>9. CASE ReadById(r)
  BY <1>4, <1>6, <1>9 DEF ReadById
<1>10. CASE ReadProject(r)
  BY <1>4, <1>6, <1>10 DEF ReadProject
<1>11. CASE ReadRest(r)
  BY <1>5, <1>11 DEF ReadRest
<1> QED  BY <1>7, <1>8, <1>9, <1>10, <1>11

LEMMA PageType ==
  ASSUME NEW s \in Seq(Listings), NEW page \in Nat \ {0}
  PROVE  PageOf(s, page) \in Seq(Listings) /\ ToSet(PageOf(s, page)) \subseteq Listings
<1> DEFINE k == (page - 1) * PageSize
           m == IF page * PageSize < Len(s) THEN page * PageSize ELSE Len(s)
<1>1. PageSize \in Nat
  BY LimitsAreOfSome
<1>2. Len(s) \in Nat /\ \A i \in 1..Len(s) : s[i] \in Listings
  BY LenProperties, ElementOfSeq
<1>3. k \in Nat /\ page * PageSize \in Nat
  BY <1>1
<1>4. PageOf(s, page) = SubSeq(s, k + 1, m)
  BY DEF PageOf
<1>5. m \in Nat /\ m <= Len(s)
  BY <1>2, <1>3
<1> HIDE DEF k, m
<1>6. k + 1 \in Int /\ m \in Int /\ \A i \in k + 1..m : s[i] \in Listings
  BY <1>2, <1>3, <1>5
<1>7. SubSeq(s, k + 1, m) \in Seq(Listings)
  BY <1>6, SubSeqProperties
<1> QED  BY <1>4, <1>7, ListsOf

LEMMA ConcatOf ==
  ASSUME NEW s \in Seq(Listings), NEW t \in Seq(Listings)
  PROVE  s \o t \in Seq(Listings) /\ ToSet(s \o t) \subseteq ToSet(s) \union ToSet(t)
<1>1. /\ s \o t \in Seq(Listings) /\ Len(s \o t) = Len(s) + Len(t)
      /\ \A i \in 1..Len(s) + Len(t) : (s \o t)[i] = IF i <= Len(s) THEN s[i] ELSE t[i - Len(s)]
  BY ConcatProperties
<1>2. /\ Len(s) \in Nat /\ DOMAIN s = 1..Len(s) /\ Len(t) \in Nat /\ DOMAIN t = 1..Len(t)
      /\ DOMAIN (s \o t) = 1..Len(s \o t)
  BY <1>1, LenProperties
<1>3. ASSUME NEW i \in 1..Len(s) + Len(t)
      PROVE  (s \o t)[i] \in ToSet(s) \union ToSet(t)
  <2>1. CASE i <= Len(s)
    BY <1>1, <1>2, <2>1 DEF ToSet
  <2>2. CASE ~(i <= Len(s))
    <3>1. i - Len(s) \in 1..Len(t)
      BY <1>2, <2>2
    <3> QED  BY <1>1, <1>2, <2>2, <3>1 DEF ToSet
  <2> QED  BY <2>1, <2>2
<1>4. \A x \in ToSet(s \o t) : \E i \in 1..Len(s) + Len(t) : x = (s \o t)[i]
  BY <1>1, <1>2 DEF ToSet
<1> QED  BY <1>1, <1>3, <1>4

\* Listing pages.
LEMMA PageSteps ==
  ASSUME ReadInv, NEW r \in Requests, ReadKeys(r) \/ ReadHits(r) \/ LoadHits(r) \/ ReadPage(r) \/ NextPage(r)
  PROVE  Moves(r)
<1> DEFINE o == req[r]
           s == Sorted(o.q)
           k == (o.page - 1) * PageSize
<1>1. o.kind = "page" /\ o.kind \notin Sections /\ o.kind # "similar"
  BY DEF ReadKeys, ReadHits, LoadHits, ReadPage, NextPage, At, Sections
<1>2. Reads(o) /\ MayShow(o.kind) = {"live", "taken"}
  BY <1>1 DEF Reads, MayShow
<1>3. Answer(o) /\ Fits(o) /\ Paged(o) /\ DOMAIN o = AnswerFields
  BY DEF ReadInv, Answer, Fits
<1>4. o.page \in Nat \ {0} /\ o.step # "done"
  BY <1>1, <1>3 DEF Paged, ReadKeys, ReadHits, LoadHits, ReadPage, NextPage, At
<1>5. s \in Seq(Listings) /\ ToSet(s) = Found(o.q)
  BY SortedType
<1> HIDE DEF s
<1>6. IsList(o.ids) /\ o.got \in Seq(Listings)
  BY <1>3 DEF Fits
<1>7. \A l \in Found(o.q) : l \in Listings /\ Had(o, l, MayShow(o.kind))
  <2>1. ASSUME NEW l \in Found(o.q)
        PROVE  l \in Listings /\ status[l] \in MayShow(o.kind)
    BY <1>2 DEF Found, Public, Listings
  <2> QED  BY <1>2, <2>1, HadNow
<1>8. Still(o) /\ ~o.indexed => k <= Len(s) /\ o.got = SubSeq(s, 1, k)
  BY <1>1, <1>3, <1>4 DEF Paged, s
<1>9. CASE ReadKeys(r)
  <2> DEFINE kinds == IF Delegated(o.q) THEN {Homes} ELSE {Homes, Sites}
             ids == PageOf(s, o.page)
             q == [o EXCEPT !.ids = ids, !.part = {}, !.todo = kinds, !.step = "load"]
  <2>2. Become(r, q)
    BY <1>9, OrdersSorted DEF ReadKeys, s
  <2> HIDE DEF kinds
  <2>3. /\ DOMAIN q = AnswerFields /\ q.kind = o.kind /\ q.who = o.who /\ q.seen = o.seen /\ q.got = o.got
        /\ q.part = {} /\ q.ids = ids /\ q.step = "load" /\ q.q = o.q /\ q.page = o.page /\ q.todo = kinds
        /\ q.indexed = o.indexed
    BY <1>3 DEF AnswerFields
  <2> HIDE DEF q
  <2>4. ids \in Seq(Listings) /\ ToSet(ids) \subseteq Listings
    BY <1>4, <1>5, PageType
  <2>5. IsList(ids)
    BY <2>4, ListsOf
  <2>6. Still(o) /\ ~o.indexed => ToSet(ids) \subseteq UNION kinds
    <3>1. ASSUME Still(o), ~o.indexed
          PROVE  ToSet(ids) \subseteq Found(o.q)
      BY <1>4, <1>5, <1>8, <3>1, NextOfPages
    <3>2. Found(o.q) \subseteq UNION kinds
      BY DEF Found, kinds
    <3> QED  BY <3>1, <3>2
  <2>7. Still(q) <=> Still(o)
    BY <2>3 DEF Still
  <2>8. Paged(q)
    BY <1>4, <1>8, <2>3, <2>6, <2>7 DEF Paged, s
  <2>9. Answer(q)
    BY <1>1, <1>2, <1>3, <2>3, <2>5, <2>8, GoesOn DEF Fits, Kept, Rail, Had
  <2> QED  BY <2>2, <2>9 DEF Moves, q
<1>10. CASE ReadPage(r)
  <2>1. PICK kind \in o.todo :
          Become(r, [o EXCEPT !.part = @ \union (ToSet(o.ids) \intersect kind \intersect Found(o.q)),
                              !.todo = @ \ {kind}])
    BY <1>10 DEF ReadPage
  <2> DEFINE part == o.part \union (ToSet(o.ids) \intersect kind \intersect Found(o.q))
             q == [o EXCEPT !.part = @ \union (ToSet(o.ids) \intersect kind \intersect Found(o.q)),
                            !.todo = @ \ {kind}]
  <2>2. /\ DOMAIN q = AnswerFields /\ q.kind = o.kind /\ q.who = o.who /\ q.seen = o.seen /\ q.got = o.got
        /\ q.part = part /\ q.ids = o.ids /\ q.step = o.step /\ q.q = o.q /\ q.page = o.page
        /\ q.todo = o.todo \ {kind} /\ q.indexed = o.indexed
    BY <1>3 DEF AnswerFields
  <2> HIDE DEF q
  <2>3. part \subseteq Listings /\ \A l \in part : Had(o, l, MayShow(o.kind))
    BY <1>2, <1>3, <1>7 DEF Fits
  <2>4. Still(q) <=> Still(o)
    BY <2>2 DEF Still
  <2>5. o.step = "load"
    BY <1>10 DEF ReadPage, At
  <2>6. Still(o) /\ ~o.indexed => o.ids = PageOf(s, o.page) /\ ToSet(o.ids) \subseteq part \union UNION (o.todo \ {kind})
    <3>1. ASSUME Still(o), ~o.indexed
          PROVE  o.ids = PageOf(s, o.page) /\ ToSet(o.ids) \subseteq o.part \union UNION o.todo
      BY <1>1, <1>3, <2>5, <3>1 DEF Paged, s
    <3>2. ASSUME Still(o), ~o.indexed
          PROVE  ToSet(o.ids) \subseteq Found(o.q)
      BY <1>4, <1>5, <1>8, <3>1, <3>2, NextOfPages
    <3> QED  BY <3>1, <3>2
  <2> HIDE DEF part
  <2>7. Paged(q)
    BY <1>4, <1>8, <2>2, <2>4, <2>5, <2>6 DEF Paged, s
  <2>8. Answer(q)
    BY <1>1, <1>2, <1>3, <2>2, <2>3, <2>7, GoesOn DEF Fits, Kept, Rail, Had
  <2> QED  BY <2>1, <2>8 DEF Moves, q
<1>11. CASE NextPage(r)
  <2> DEFINE items == Only(o.ids, o.part)
             got == o.got \o items
             q == [o EXCEPT !.got = @ \o items, !.page = @ + 1,
                            !.step = IF Len(o.ids) < PageSize THEN "done" ELSE "keys"]
  <2>1. /\ DOMAIN q = AnswerFields /\ q.kind = o.kind /\ q.who = o.who /\ q.seen = o.seen /\ q.got = got
        /\ q.part = o.part /\ q.ids = o.ids /\ q.q = o.q /\ q.page = o.page + 1
        /\ q.indexed = o.indexed
        /\ q.step = IF Len(o.ids) < PageSize THEN "done" ELSE "keys"
    BY <1>3 DEF AnswerFields
  <2>2. Become(r, q)
    BY <1>11 DEF NextPage
  <2> HIDE DEF q
  <2>3. items \in Seq(ToSet(o.ids)) /\ ToSet(items) = ToSet(o.ids) \cap o.part /\ (ToSet(o.ids) \subseteq o.part => items = o.ids)
    BY <1>6, OnlyOf DEF IsList
  <2>4. o.part \subseteq Listings /\ \A l \in ToSet(o.got) \union o.part : Had(o, l, MayShow(o.kind))
    BY <1>2, <1>3 DEF Fits
  <2> HIDE DEF items
  <2>5. items \in Seq(Listings)
    BY <2>3, <2>4, ElementsOf, SeqMonotonic
  <2>6. got \in Seq(Listings) /\ ToSet(got) \subseteq ToSet(o.got) \union ToSet(items)
    BY <1>6, <2>5, ConcatOf
  <2>7. \A l \in ToSet(got) : Had(o, l, MayShow(o.kind))
    BY <2>3, <2>4, <2>6
  <2>8. Still(q) <=> Still(o)
    BY <2>1 DEF Still
  <2>9. o.step = "load" /\ o.todo = {}
    BY <1>11 DEF NextPage, At
  <2>10. Still(o) /\ ~o.indexed => items = PageOf(s, o.page) /\ o.ids = PageOf(s, o.page)
    <3>1. ASSUME Still(o), ~o.indexed
          PROVE  o.ids = PageOf(s, o.page) /\ ToSet(o.ids) \subseteq o.part
      BY <1>1, <1>3, <2>9, <3>1 DEF Paged, s
    <3> QED  BY <2>3, <3>1
  <2>11. o.page + 1 \in Nat \ {0} /\ o.page + 1 - 1 = o.page /\ PageSize \in Nat
    BY <1>4, LimitsAreOfSome
  <2>12. Len(o.ids) \in Nat
    BY <1>6, LenProperties DEF IsList
  <2>13. Still(o) /\ ~o.indexed /\ Len(o.ids) < PageSize => got = s
    BY <1>4, <1>5, <1>8, <2>10, NextOfPages
  <2>14. Still(o) /\ ~o.indexed /\ ~(Len(o.ids) < PageSize) => o.page * PageSize <= Len(s) /\ got = SubSeq(s, 1, o.page * PageSize)
    <3>1. ~(Len(o.ids) < PageSize) => Len(o.ids) >= PageSize
      BY <2>11, <2>12
    <3> QED  BY <1>4, <1>5, <1>8, <2>10, <3>1, NextOfPages
  <2> HIDE DEF got
  <2>15. Paged(q)
    <3>1. Sorted(q.q) = s /\ q.page - 1 = o.page /\ q.page \in Nat \ {0} /\ q.step \in {"keys", "done"}
      <4>1. Sorted(q.q) = s
        BY <2>1 DEF s
      <4>2. q.page = o.page + 1
        BY <2>1
      <4>3. q.page - 1 = o.page /\ q.page \in Nat \ {0}
        BY <1>4, <2>11, <4>2
      <4>4. q.step \in {"keys", "done"}
        BY <2>1
      <4> QED  BY <4>1, <4>3, <4>4
    <3>2. Still(q) /\ ~q.indexed /\ q.step = "keys" => (q.page - 1) * PageSize <= Len(s) /\ q.got = SubSeq(s, 1, (q.page - 1) * PageSize)
      BY <2>1, <2>8, <2>14, <3>1
    <3>3. Still(q) /\ ~q.indexed /\ q.step = "done" => q.got = s
      BY <2>1, <2>8, <2>13
    <3> QED  BY <3>1, <3>2, <3>3 DEF Paged
  <2>16. Answer(q)
    BY <1>1, <1>2, <1>3, <2>1, <2>4, <2>6, <2>7, <2>15, GoesOn DEF Fits, Kept, Rail, Had
  <2> QED  BY <2>2, <2>16 DEF Moves
<1>12. CASE ReadHits(r)
  <2>1. PICK n \in 1..PageSize : \E hits \in [1..n -> Homes] :
          Become(r, [o EXCEPT !.ids = hits, !.part = {}, !.todo = {}, !.indexed = TRUE, !.step = "hits"])
    BY <1>12 DEF ReadHits
  <2>2. PICK hits \in [1..n -> Homes] :
          Become(r, [o EXCEPT !.ids = hits, !.part = {}, !.todo = {}, !.indexed = TRUE, !.step = "hits"])
    BY <2>1
  <2> DEFINE q == [o EXCEPT !.ids = hits, !.part = {}, !.todo = {}, !.indexed = TRUE, !.step = "hits"]
  <2>3. /\ DOMAIN q = AnswerFields /\ q.kind = o.kind /\ q.who = o.who /\ q.seen = o.seen /\ q.got = o.got
        /\ q.part = {} /\ q.ids = hits /\ q.step = "hits" /\ q.page = o.page /\ q.indexed = TRUE
    BY <1>3 DEF AnswerFields
  <2> HIDE DEF q
  <2>4. hits \in Seq(Homes)
    BY SeqDef, LimitsAreOfSome
  <2>5. IsList(hits)
    BY <2>4, ListsOf
  <2>6. Paged(q)
    BY <1>4, <2>3 DEF Paged
  <2>7. Answer(q)
    BY <1>1, <1>2, <1>3, <2>3, <2>5, <2>6, GoesOn DEF Fits, Kept, Rail, Had
  <2> QED  BY <2>2, <2>7 DEF Moves, q
<1>13. CASE LoadHits(r)
  <2>1. PICK S \in SUBSET (Homes \intersect Public) : Become(r, [o EXCEPT !.part = S, !.step = "load"])
    <3> DEFINE p == [o.q EXCEPT !.text = "", !.type = "", !.deal = ""]
               T == {l \in ToSet(o.ids) \intersect Homes \intersect Public : HomeFits(p, l)}
    <3>1. Become(r, [o EXCEPT !.part = T, !.step = "load"])
      BY <1>13 DEF LoadHits
    <3>2. T \in SUBSET (Homes \intersect Public)
      OBVIOUS
    <3> HIDE DEF T
    <3> QED  BY <3>1, <3>2
  <2> DEFINE q == [o EXCEPT !.part = S, !.step = "load"]
  <2>2. /\ DOMAIN q = AnswerFields /\ q.kind = o.kind /\ q.who = o.who /\ q.seen = o.seen /\ q.got = o.got
        /\ q.part = S /\ q.ids = o.ids /\ q.step = "load" /\ q.page = o.page /\ q.indexed = o.indexed
    BY <1>3 DEF AnswerFields
  <2> HIDE DEF q
  <2>3. S \subseteq Listings /\ \A l \in S : Had(o, l, MayShow(o.kind))
    <3>1. ASSUME NEW l \in S
          PROVE  l \in Listings /\ status[l] \in MayShow(o.kind)
      BY <1>2, <3>1 DEF Public, Listings
    <3> QED  BY <1>2, <3>1, HadNow
  <2>4. o.indexed
    BY <1>1, <1>3, <1>13 DEF Paged, LoadHits, At
  <2>5. Paged(q)
    BY <1>4, <2>2, <2>4 DEF Paged
  <2>6. Answer(q)
    BY <1>1, <1>2, <1>3, <2>2, <2>3, <2>5, GoesOn DEF Fits, Kept, Rail, Had
  <2> QED  BY <2>1, <2>6 DEF Moves, q
<1> QED  BY <1>9, <1>10, <1>11, <1>12, <1>13

\* Wishlists.
LEMMA RowsInOrder ==
  ASSUME ReadInv, NEW g
  PROVE  \E n \in Nat : DOMAIN InOrder([w \in RowsOf(g) |-> {v \in RowsOf(g) : v.row > w.row}]) = 1..n
<1> DEFINE R == RowsOf(g)
           before == [w \in R |-> {v \in R : v.row > w.row}]
<1>1. R \subseteq saved /\ ReadTables /\ WishTable
  BY DEF RowsOf, ReadInv, WishInv
<1>2. IsFiniteSet(R)
  BY <1>1, FS_Subset DEF ReadTables
<1>3. \A w \in R : w.row \in Nat
  BY <1>1 DEF WishTable
<1>4. \A v, w \in R : v.row = w.row => v = w
  BY <1>1 DEF ReadTables
<1> HIDE DEF R
<1>5. IsOrder(before, R)
  BY <1>3, <1>4 DEF IsOrder
<1>6. InOrder(before) \in [1..Cardinality(R) -> R] /\ Cardinality(R) \in Nat
  BY <1>2, <1>5, InOrderOf, Places
<1> QED  BY <1>6 DEF R

LEMMA WishlistSteps ==
  ASSUME ReadInv, NEW r \in Requests, ReadRows(r) \/ ReadCards(r) \/ ShowCards(r)
  PROVE  Moves(r)
<1> DEFINE o == req[r]
<1>1. o.kind = "wishlist" /\ o.kind \notin Sections /\ o.kind # "page" /\ o.kind # "similar"
  BY DEF ReadRows, ReadCards, ShowCards, At, Sections
<1>2. Reads(o) /\ MayShow(o.kind) = {"live"}
  BY <1>1 DEF Reads, MayShow
<1>3. Answer(o) /\ Fits(o) /\ DOMAIN o = AnswerFields /\ IsList(o.ids)
  BY DEF ReadInv, Answer, Fits
<1>4. CASE ReadRows(r)
  <2> DEFINE R == RowsOf(o.who)
             rows == InOrder([w \in R |-> {v \in R : v.row > w.row}])
             ids == [i \in DOMAIN rows |-> rows[i].listing]
             q == [o EXCEPT !.ids = ids, !.todo = {Homes, Sites}, !.step = "cards"]
  <2>1. /\ DOMAIN q = AnswerFields /\ q.kind = o.kind /\ q.who = o.who /\ q.seen = o.seen /\ q.got = o.got
        /\ q.part = o.part /\ q.ids = ids /\ q.step = "cards"
    BY <1>3 DEF AnswerFields
  <2>2. Become(r, q)
    BY <1>4 DEF ReadRows
  <2>3. PICK n \in Nat : DOMAIN rows = 1..n
    BY RowsInOrder
  <2> HIDE DEF rows
  <2>4. IsList(ids)
    <3>1. ids \in [1..n -> ToSet(ids)]
      BY <2>3 DEF ToSet
    <3> HIDE DEF ids
    <3> QED  BY <3>1, SeqDef DEF IsList
  <2> HIDE DEF q, ids
  <2>5. Answer(q)
    BY <1>1, <1>2, <1>3, <2>1, <2>4, GoesOn DEF Fits, Kept, Rail, Paged, Had
  <2> QED  BY <2>2, <2>5 DEF Moves
<1>5. CASE ReadCards(r)
  <2>1. PICK kind \in o.todo :
          Become(r, [o EXCEPT !.part = @ \union (ToSet(o.ids) \intersect kind \intersect Live),
                              !.todo = @ \ {kind}])
    BY <1>5 DEF ReadCards
  <2> DEFINE part == o.part \union (ToSet(o.ids) \intersect kind \intersect Live)
             q == [o EXCEPT !.part = @ \union (ToSet(o.ids) \intersect kind \intersect Live),
                            !.todo = @ \ {kind}]
  <2>2. /\ DOMAIN q = AnswerFields /\ q.kind = o.kind /\ q.who = o.who /\ q.seen = o.seen /\ q.got = o.got
        /\ q.part = part /\ q.ids = o.ids /\ q.step = o.step
    BY <1>3 DEF AnswerFields
  <2>3. \A l \in Live : l \in Listings /\ Had(o, l, MayShow(o.kind))
    BY <1>2, HadNow DEF Live
  <2>4. part \subseteq Listings /\ \A l \in part : Had(o, l, MayShow(o.kind))
    BY <1>2, <1>3, <2>3 DEF Fits
  <2> HIDE DEF q, part
  <2>5. Answer(q)
    BY <1>1, <1>2, <1>3, <2>2, <2>4, GoesOn DEF Fits, Kept, Rail, Paged, Had
  <2> QED  BY <2>1, <2>5 DEF Moves, q
<1>6. CASE ShowCards(r)
  <2> DEFINE got == Only(o.ids, o.part)
             q == [o EXCEPT !.got = got, !.step = "done"]
  <2>1. /\ DOMAIN q = AnswerFields /\ q.kind = o.kind /\ q.who = o.who /\ q.seen = o.seen /\ q.got = got
        /\ q.part = o.part /\ q.ids = o.ids /\ q.step = "done"
    BY <1>3 DEF AnswerFields
  <2>2. Become(r, q)
    BY <1>6 DEF ShowCards
  <2>3. got \in Seq(ToSet(o.ids)) /\ ToSet(got) = ToSet(o.ids) \cap o.part
    BY <1>3, OnlyOf DEF IsList
  <2> HIDE DEF got
  <2>4. o.part \subseteq Listings /\ \A l \in o.part : Had(o, l, MayShow(o.kind))
    BY <1>2, <1>3 DEF Fits
  <2>5. got \in Seq(Listings)
    BY <2>3, <2>4, ElementsOf, SeqMonotonic
  <2> HIDE DEF q
  <2>6. Answer(q)
    BY <1>1, <1>2, <1>3, <2>1, <2>3, <2>4, <2>5, GoesOn DEF Fits, Kept, Rail, Paged, Had
  <2> QED  BY <2>2, <2>6 DEF Moves
<1> QED  BY <1>4, <1>5, <1>6

\* Clicks, and sections that are replaced, read nothing that is shown.
LEMMA WritesAnswer ==
  ASSUME NEW q, DOMAIN q = AnswerFields, q.kind \in {"toggle", "replace"}, IsList(q.ids), q.got \in Seq(Listings),
         q.step = "done" => q.kind = "toggle"
  PROVE  Answer(q)
<1>1. q.kind \notin Sections /\ q.kind \in AnswerKinds /\ q.kind \notin {"page", "similar"}
  BY DEF Sections, AnswerKinds
<1> QED  BY <1>1 DEF Answer, Fits, Kept, Rail, Paged, Reads

LEMMA ClickSteps ==
  ASSUME ReadInv, WishInv', NEW r \in Requests,
         FindRow(r) \/ CheckLive(r) \/ DeleteRow(r) \/ Insert(r) \/ CheckPicks(r) \/ WritePicks(r)
  PROVE  ReadInv'
<1> DEFINE o == req[r]
<1>1. o.kind \in {"toggle", "replace"} /\ (o.kind = "toggle" <=> ~(CheckPicks(r) \/ WritePicks(r)))
  BY DEF FindRow, CheckLive, DeleteRow, Insert, CheckPicks, WritePicks, At
<1>2. DOMAIN o = AnswerFields /\ IsList(o.ids) /\ o.got \in Seq(Listings) /\ ReadTables /\ WishInv /\ DOMAIN req = Requests
  BY DEF ReadInv, Answer, Fits, WishInv
<1>3. ASSUME NEW q, DOMAIN q = AnswerFields, q.kind = o.kind, q.ids = o.ids, q.got = o.got, q.step = "done" => o.kind = "toggle"
      PROVE  Answer(q)
  BY <1>1, <1>2, <1>3, WritesAnswer
<1>4. ASSUME NEW q, Answer(q), Become(r, q)
      PROVE  ReadInv'
  BY <1>2, <1>4, TablesStay, ReadInvStep DEF Become
<1>5. CASE FindRow(r)
  <2> DEFINE rows == Rows(o.who, Head(o.ids))
             q == [o EXCEPT !.upto = nextRow, !.part = {w.row : w \in rows},
                            !.step = IF rows = {} THEN "check" ELSE "delete"]
  <2>1. DOMAIN q = AnswerFields /\ q.kind = o.kind /\ q.ids = o.ids /\ q.got = o.got /\ q.step # "done"
    BY <1>2 DEF AnswerFields
  <2>2. Become(r, q)
    BY <1>5 DEF FindRow
  <2> HIDE DEF q
  <2> QED  BY <1>3, <1>4, <2>1, <2>2
<1>6. CASE CheckLive(r)
  <2> DEFINE q == [o EXCEPT !.step = "insert"]
  <2>1. DOMAIN q = AnswerFields /\ q.kind = o.kind /\ q.ids = o.ids /\ q.got = o.got /\ q.step # "done"
    BY <1>2 DEF AnswerFields
  <2>2. Become(r, q) \/ Become(r, None)
    BY <1>6 DEF CheckLive
  <2> HIDE DEF q
  <2> QED  BY <1>3, <1>4, <2>1, <2>2, NothingAsked
<1>7. CASE CheckPicks(r)
  <2> DEFINE q == [o EXCEPT !.step = "write"]
  <2>1. DOMAIN q = AnswerFields /\ q.kind = o.kind /\ q.ids = o.ids /\ q.got = o.got /\ q.step # "done"
    BY <1>2 DEF AnswerFields
  <2>2. Become(r, q) \/ Become(r, None)
    BY <1>7 DEF CheckPicks
  <2> HIDE DEF q
  <2> QED  BY <1>3, <1>4, <2>1, <2>2, NothingAsked
<1>8. CASE WritePicks(r)
  <2>1. picks' = [picks EXCEPT ![o.q.type] = o.ids] /\ UNCHANGED <<status, saved>> /\ req' = [req EXCEPT ![r] = None]
    BY <1>8 DEF WritePicks
  <2>2. ReadTables'
    BY <1>2, <2>1 DEF ReadTables
  <2> QED  BY <2>1, <2>2, NothingAsked, ReadInvStep
<1>9. CASE DeleteRow(r)
  <2> DEFINE q == [o EXCEPT !.step = "done"]
  <2>1. DOMAIN q = AnswerFields /\ q.kind = o.kind /\ q.ids = o.ids /\ q.got = o.got
    BY <1>2 DEF AnswerFields
  <2>2. req' = [req EXCEPT ![r] = q] /\ saved' \subseteq saved /\ UNCHANGED <<status, picks>>
    BY <1>2, <1>9 DEF DeleteRow
  <2> HIDE DEF q
  <2>3. Answer(q)
    BY <1>1, <1>3, <1>9, <2>1 DEF DeleteRow, At
  <2>4. IsFiniteSet(saved')
    BY <1>2, <2>2, FS_Subset DEF ReadTables
  <2>5. ReadTables'
    BY <1>2, <2>2, <2>4 DEF ReadTables
  <2> QED  BY <2>2, <2>3, <2>5, ReadInvStep
<1>10. CASE Insert(r)
  <2> DEFINE q == [o EXCEPT !.step = "done", !.wished = TRUE]
             new == [row |-> nextRow, guest |-> o.who, listing |-> Head(o.ids)]
  <2>1. DOMAIN q = AnswerFields /\ q.kind = o.kind /\ q.ids = o.ids /\ q.got = o.got
    BY <1>2 DEF AnswerFields
  <2>2. req' = [req EXCEPT ![r] = q] /\ UNCHANGED <<status, picks>> /\ saved' \in {saved, saved \union {new}}
    BY <1>2, <1>10 DEF Insert
  <2>3. new.row = nextRow
    OBVIOUS
  <2> HIDE DEF q, new
  <2>4. Answer(q)
    BY <1>1, <1>3, <1>10, <2>1 DEF Insert, At
  <2>5. IsFiniteSet(saved')
    BY <1>2, <2>2, FS_AddElement DEF ReadTables
  <2>6. \A v, w \in saved' : v.row = w.row => v = w
    BY <1>2, <2>2, <2>3 DEF ReadTables, WishInv, WishTable
  <2>7. ReadTables'
    BY <1>2, <2>2, <2>5, <2>6 DEF ReadTables
  <2> QED  BY <2>2, <2>4, <2>7, ReadInvStep
<1> QED  BY <1>5, <1>6, <1>7, <1>8, <1>9, <1>10

\* A request that begins has seen what there is.
LEMMA BeginAnswers ==
  ASSUME ReadInv, NEW q, DOMAIN q = AnswerFields, q.kind \in AnswerKinds \ {"none", "toggle", "replace"},
         q.ids = <<>>, q.got = <<>>, q.part = {}, q.seen = SeenNow, q.step \notin {"done", "other", "load"},
         q.kind = "similar" => q.who \in Listings,
         q.kind = "page" => q.page = 1 /\ q.step = "keys"
  PROVE  Answer(q)
<1>1. IsList(<<>>) /\ <<>> \in Seq(Listings) /\ ToSet(<<>>) = {}
  BY ListsOf DEF IsList, ToSet
<1>2. \A l \in Listings : <<l, status[l]>> \in q.seen
  BY DEF SeenNow
<1>3. Fits(q) /\ Kept(q) /\ Rail(q)
  BY <1>1, <1>2 DEF Fits, Kept, Rail
<1>4. Paged(q)
  <2>1. ASSUME q.kind = "page"
        PROVE  Paged(q)
    <3>1. (q.page - 1) * PageSize = 0
      BY <2>1, LimitsAreOfSome
    <3>2. Len(Sorted(q.q)) \in Nat
      BY SortedType, LenProperties
    <3>3. SubSeq(Sorted(q.q), 1, 0) = <<>>
      BY SubSeqEmpty
    <3> QED  BY <2>1, <3>1, <3>2, <3>3 DEF Paged
  <2> QED  BY <2>1 DEF Paged
<1> QED  BY <1>3, <1>4 DEF Answer

LEMMA StartSteps ==
  ASSUME ReadInv, NEW r \in Requests, Read(r) \/ Write(r) \/ Finish(r)
  PROVE  Moves(r)
<1>1. /\ DOMAIN None = AnswerFields /\ None.kind = "none" /\ None.step = "" /\ None.ids = <<>> /\ None.got = <<>>
      /\ None.part = {} /\ None.page = 0
  BY DEF None, AnswerFields
<1>2. CASE Read(r)
  <2>1. ASSUME NEW q, Answer(q), req' = [req EXCEPT ![r] = q]
        PROVE  Moves(r)
    BY <1>2, <2>1 DEF Read, Become, Moves
  <2>2. ASSUME NEW kind, NEW step, NEW q, q = Begins(kind, step)
        PROVE  /\ DOMAIN q = AnswerFields /\ q.kind = kind /\ q.step = step /\ q.ids = <<>> /\ q.got = <<>>
               /\ q.part = {} /\ q.seen = SeenNow
    BY <1>1, <2>2 DEF Begins, AnswerFields
  <2>3. ASSUME NEW s \in Sections, req' = [req EXCEPT ![r] = Begins(s, "ids")]
        PROVE  Moves(r)
    <3>1. PICK q : q = Begins(s, "ids")
      OBVIOUS
    <3>2. s \in AnswerKinds \ {"none", "toggle", "replace"} /\ s # "similar" /\ s # "page"
      BY DEF AnswerKinds, Sections
    <3>3. Answer(q)
      BY <2>2, <3>1, <3>2, BeginAnswers
    <3> QED  BY <2>1, <2>3, <3>1, <3>3
  <2>4. ASSUME NEW b \in Listings, req' = [req EXCEPT ![r] = [Begins("similar", "base") EXCEPT !.who = b]]
        PROVE  Moves(r)
    <3>1. PICK p : p = Begins("similar", "base")
      OBVIOUS
    <3> DEFINE q == [p EXCEPT !.who = b]
    <3>2. /\ DOMAIN q = AnswerFields /\ q.kind = "similar" /\ q.step = "base" /\ q.ids = <<>> /\ q.got = <<>>
          /\ q.part = {} /\ q.seen = SeenNow /\ q.who = b
      BY <2>2, <3>1 DEF AnswerFields
    <3> HIDE DEF q
    <3>3. Answer(q)
      BY <3>2, BeginAnswers DEF AnswerKinds, Sections
    <3> QED  BY <2>1, <2>4, <3>1, <3>3 DEF q
  <2>5. ASSUME NEW g, req' = [req EXCEPT ![r] = [Begins("wishlist", "rows") EXCEPT !.who = g]]
        PROVE  Moves(r)
    <3>1. PICK p : p = Begins("wishlist", "rows")
      OBVIOUS
    <3> DEFINE q == [p EXCEPT !.who = g]
    <3>2. /\ DOMAIN q = AnswerFields /\ q.kind = "wishlist" /\ q.step = "rows" /\ q.ids = <<>> /\ q.got = <<>>
          /\ q.part = {} /\ q.seen = SeenNow
      BY <2>2, <3>1 DEF AnswerFields
    <3> HIDE DEF q
    <3>3. Answer(q)
      BY <3>2, BeginAnswers DEF AnswerKinds, Sections
    <3> QED  BY <2>1, <2>5, <3>1, <3>3 DEF q
  <2>6. ASSUME NEW f, req' = [req EXCEPT ![r] = [Begins("page", "keys") EXCEPT !.q = f, !.page = 1]]
        PROVE  Moves(r)
    <3>1. PICK p : p = Begins("page", "keys")
      OBVIOUS
    <3> DEFINE q == [p EXCEPT !.q = f, !.page = 1]
    <3>2. /\ DOMAIN q = AnswerFields /\ q.kind = "page" /\ q.step = "keys" /\ q.ids = <<>> /\ q.got = <<>>
          /\ q.part = {} /\ q.seen = SeenNow /\ q.page = 1
      BY <2>2, <3>1 DEF AnswerFields
    <3> HIDE DEF q
    <3>3. Answer(q)
      BY <3>2, BeginAnswers DEF AnswerKinds, Sections
    <3> QED  BY <2>1, <2>6, <3>1, <3>3 DEF q
  <2>7. ASSUME NEW step \in {"slug", "id", "project"}, NEW t,
               req' = [req EXCEPT ![r] = [Begins("detail", step) EXCEPT !.todo = {t}]]
        PROVE  Moves(r)
    <3>1. PICK p : p = Begins("detail", step)
      OBVIOUS
    <3> DEFINE q == [p EXCEPT !.todo = {t}]
    <3>2. /\ DOMAIN q = AnswerFields /\ q.kind = "detail" /\ q.step = step /\ q.ids = <<>> /\ q.got = <<>>
          /\ q.part = {} /\ q.seen = SeenNow
      BY <2>2, <3>1 DEF AnswerFields
    <3> HIDE DEF q
    <3>3. Answer(q)
      BY <3>2, BeginAnswers DEF AnswerKinds, Sections
    <3> QED  BY <2>1, <2>7, <3>1, <3>3 DEF q
  <2> QED  BY <1>2, <2>3, <2>4, <2>5, <2>6, <2>7 DEF Read
<1>3. CASE Write(r)
  <2>0. <<>> \in Seq(Listings)
    OBVIOUS
  <2>1. ASSUME NEW q, Answer(q), req' = [req EXCEPT ![r] = q]
        PROVE  Moves(r)
    BY <1>3, <2>1 DEF Write, Become, Moves
  <2>2. ASSUME NEW g, NEW l,
               req' = [req EXCEPT ![r] = [None EXCEPT !.kind = "toggle", !.step = "find", !.who = g, !.ids = <<l>>]]
        PROVE  Moves(r)
    <3> DEFINE q == [None EXCEPT !.kind = "toggle", !.step = "find", !.who = g, !.ids = <<l>>]
    <3>1. DOMAIN q = AnswerFields /\ q.kind = "toggle" /\ q.step = "find" /\ q.ids = <<l>> /\ q.got = <<>>
      BY <1>1 DEF AnswerFields
    <3>2. IsList(<<l>>)
      BY DEF IsList, ToSet
    <3> HIDE DEF q
    <3>3. Answer(q)
      BY <2>0, <3>1, <3>2, WritesAnswer
    <3> QED  BY <2>1, <2>2, <3>3 DEF q
  <2>3. ASSUME NEW s, NEW ids \in PickLists,
               req' = [req EXCEPT ![r] = [None EXCEPT !.kind = "replace", !.step = "check", !.ids = ids, !.q.type = s]]
        PROVE  Moves(r)
    <3> DEFINE q == [None EXCEPT !.kind = "replace", !.step = "check", !.ids = ids, !.q.type = s]
    <3>1. DOMAIN q = AnswerFields /\ q.kind = "replace" /\ q.step = "check" /\ q.ids = ids /\ q.got = <<>>
      BY <1>1 DEF AnswerFields
    <3>2. IsList(ids)
      BY PicksAreLists, ListsOf
    <3> HIDE DEF q
    <3>3. Answer(q)
      BY <2>0, <3>1, <3>2, WritesAnswer
    <3> QED  BY <2>1, <2>3, <3>3 DEF q
  <2> QED  BY <1>3, <2>2, <2>3 DEF Write
<1>4. CASE Finish(r)
  BY <1>4, NothingAsked DEF Finish, Become, Moves
<1> QED  BY <1>2, <1>3, <1>4

\* A change of the CRM: those that read have seen it too.
LEMMA EditAnswers ==
  ASSUME ReadInv, WishInv', Edit
  PROVE  ReadInv'
<1>1. PICK l \in Listings, s \in Statuses :
        /\ s # status[l]
        /\ status' = [status EXCEPT ![l] = s]
        /\ req' = [r \in Requests |->
                     IF r \notin Reading THEN req[r] ELSE [req[r] EXCEPT !.seen = @ \union {<<l, s>>}]]
        /\ UNCHANGED <<picks, saved>>
  BY DEF Edit, Statuses
<1>2. ReadTables /\ status \in [Listings -> Statuses]
  BY DEF ReadInv, ReadTables
<1>3. ReadTables'
  BY <1>1, <1>2 DEF ReadTables
<1>4. ASSUME NEW r \in Requests
      PROVE  Answer(req[r])'
  <2> DEFINE o == req[r]
  <2>1. PICK q : q = req'[r]
    OBVIOUS
  <2>2. Answer(o) /\ Fits(o) /\ Kept(o) /\ Rail(o) /\ DOMAIN o = AnswerFields
    BY DEF ReadInv, Answer, Fits
  <2>3. CASE ~Reads(o)
    <3>1. q = o
      BY <1>1, <2>1, <2>3 DEF Reading, Reads
    <3>2. q.kind # "page" /\ q.kind # "similar" /\ q.kind \notin Sections
      BY <2>3, <3>1 DEF Reads, Sections
    <3>3. Answer(q)'
      BY <2>2, <2>3, <3>1, <3>2 DEF Answer, Fits, Kept, Rail, Paged, Reads
    <3> QED  BY <2>1, <3>3
  <2>4. CASE Reads(o)
    <3>1. q = [o EXCEPT !.seen = @ \union {<<l, s>>}]
      BY <1>1, <2>1, <2>4 DEF Reading, Reads
    <3>2. /\ DOMAIN q = AnswerFields /\ q.kind = o.kind /\ q.who = o.who /\ q.got = o.got /\ q.part = o.part
          /\ q.ids = o.ids /\ q.step = o.step /\ q.page = o.page /\ q.indexed = o.indexed
          /\ q.seen = o.seen \union {<<l, s>>}
      BY <2>2, <3>1 DEF AnswerFields
    <3>3. \A m \in Listings : <<m, status'[m]>> \in q.seen
      BY <1>1, <1>2, <2>2, <2>4, <3>2 DEF Fits
    <3>4. \A m, S : Had(o, m, S) => Had(q, m, S)
      BY <3>2 DEF Had
    <3>5. Fits(q)'
      BY <2>2, <2>4, <3>2, <3>3, <3>4 DEF Fits, Reads, Had
    <3>6. Kept(q)'
      BY <2>2, <3>2, <3>4 DEF Kept, Had
    <3>7. Rail(q)'
      BY <2>2, <3>2 DEF Rail
    <3>8. ~Still(q)
      <4>1. <<l, s>> \in q.seen /\ <<l, status[l]>> \in q.seen /\ s # status[l] /\ s \in Statuses /\ status[l] \in Statuses
        BY <1>1, <1>2, <2>2, <2>4, <3>2 DEF Fits
      <4> QED  BY <4>1 DEF Still
    <3>9. Paged(q)'
      <4>1. q.kind = "page" => q.page \in Nat \ {0} /\ q.step \in {"keys", "hits", "load", "done"} /\ (q.step = "hits" => q.indexed)
        BY <2>2, <3>2 DEF Answer, Paged
      <4>2. ~Still(q)'
        BY <3>8 DEF Still
      <4> QED  BY <4>1, <4>2 DEF Paged
    <3>10. Answer(q)'
      BY <3>5, <3>6, <3>7, <3>9 DEF Answer
    <3> QED  BY <2>1, <3>10
  <2> QED  BY <2>3, <2>4
<1> QED  BY <1>3, <1>4 DEF ReadInv

LEMMA ReadStart == ListingsInit => ReadInv
<1> SUFFICES ASSUME ListingsInit PROVE ReadInv
  OBVIOUS
<1>1. WishInv
  BY WishStart
<1>2. ReadTables
  <2>1. IsList(<<>>)
    BY DEF IsList
  <2>2. status \in [Listings -> Statuses]
    BY DEF ListingsInit, Statuses
  <2>3. IsFiniteSet(saved) /\ saved = {}
    BY FS_EmptySet DEF ListingsInit
  <2> QED  BY <2>1, <2>2, <2>3 DEF ListingsInit, ReadTables
<1>3. \A r \in Requests : Answer(req[r])
  BY NothingAsked DEF ListingsInit
<1> QED  BY <1>1, <1>2, <1>3 DEF ReadInv

LEMMA ReadNext == ReadInv /\ [ListingsNext]_listingVars => ReadInv'
<1> SUFFICES ASSUME ReadInv, [ListingsNext]_listingVars PROVE ReadInv'
  OBVIOUS
<1>1. WishInv' /\ WishInv /\ ReadTables
  BY ToggleStep DEF ReadInv
<1>2. CASE UNCHANGED listingVars
  <2>1. status' = status /\ req' = req /\ UNCHANGED <<status, picks, saved>>
    BY <1>2 DEF listingVars
  <2>2. ASSUME NEW r \in Requests
        PROVE  Answer(req[r])'
    <3>1. PICK x : x = req[r]
      OBVIOUS
    <3>2. Answer(x)'
      BY <2>1, <3>1, AnswerStays DEF ReadInv
    <3>3. Answer(x)' <=> Answer(req[r])'
      BY <2>1, <3>1
    <3> QED  BY <3>2, <3>3
  <2> QED  BY <1>1, <2>1, <2>2, TablesStay DEF ReadInv
<1>3. ASSUME NEW r \in Requests, Moves(r)
      PROVE  ReadInv'
  <2>1. PICK q : Answer(q) /\ Become(r, q)
    BY <1>3 DEF Moves
  <2>2. status' = status /\ req' = [req EXCEPT ![r] = q] /\ UNCHANGED <<status, picks, saved>>
    BY <2>1 DEF Become
  <2> QED  BY <1>1, <2>1, <2>2, TablesStay, ReadInvStep
<1>4. CASE Edit
  BY <1>1, <1>4, EditAnswers
<1>5. ASSUME NEW r \in Requests,
             \/ Read(r) \/ Write(r) \/ Finish(r)
             \/ ReadPicks(r) \/ LoadPicks(r) \/ Fallback(r)
             \/ ReadBase(r) \/ ReadSameType(r) \/ ReadOtherType(r)
             \/ ReadSlug(r) \/ ReadSuffix(r) \/ ReadById(r) \/ ReadProject(r) \/ ReadRest(r)
             \/ ReadKeys(r) \/ ReadHits(r) \/ LoadHits(r) \/ ReadPage(r) \/ NextPage(r)
             \/ ReadRows(r) \/ ReadCards(r) \/ ShowCards(r)
      PROVE  ReadInv'
  BY <1>3, <1>5, StartSteps, PickSteps, RailSteps, DetailSteps, PageSteps, WishlistSteps
<1>6. ASSUME NEW r \in Requests,
             FindRow(r) \/ DeleteRow(r) \/ CheckLive(r) \/ Insert(r) \/ CheckPicks(r) \/ WritePicks(r)
      PROVE  ReadInv'
  BY <1>1, <1>6, ClickSteps
<1> QED  BY <1>2, <1>4, <1>5, <1>6 DEF ListingsNext

\* What is read of the listings in every request, and the tables it is read from.
THEOREM ReadInvariant == ListingsSpec => []ReadInv
  BY ReadStart, ReadNext, PTL DEF ListingsSpec

\* OnlyLiveShown for any listings, requests and changes of the CRM: whatever a
\* section, a rail, a listing page, a detail page or a wishlist shows could be
\* shown at some time while its request was answered.
THEOREM ShownWereLive == ListingsSpec => []OnlyLiveShown
<1>1. ReadInv => OnlyLiveShown
  <2> SUFFICES ASSUME ReadInv, NEW r \in Answered, NEW l \in Listings, l \in ToSet(req[r].got)
               PROVE  During(r, l) \intersect MayShow(req[r].kind) # {}
    BY DEF OnlyLiveShown
  <2>1. r \in Requests /\ Fits(req[r]) /\ Reads(req[r])
    BY DEF Answered, ReadInv, Answer, Fits, Reads
  <2>2. PICK s \in MayShow(req[r].kind) : <<l, s>> \in req[r].seen
    BY <2>1 DEF Fits, Had
  <2>3. s \in {"live", "taken", "retired", "hidden", "gone"}
    BY DEF MayShow
  <2> QED  BY <2>2, <2>3 DEF During
<1> QED  BY <1>1, ReadInvariant, PTL

\* SectionKept for any listings, picks and limits: a section of the home page is
\* empty only if everything it could show was not live at some time of the request.
THEOREM SectionsStay == ListingsSpec => []SectionKept
<1>1. ReadInv => SectionKept
  <2> SUFFICES ASSUME ReadInv, NEW r \in Answered, req[r].kind \in Sections, req[r].got = <<>>,
                      NEW l \in KindOf(req[r].kind), During(r, l) = {"live"}, l \in Homes => Facts[l].type = "apartment"
               PROVE  FALSE
    BY DEF SectionKept
  <2>1. r \in Requests /\ Kept(req[r]) /\ req[r].step = "done"
    BY DEF Answered, ReadInv, Answer
  <2>2. PICK s \in Statuses \ {"live"} : <<l, s>> \in req[r].seen
    BY <2>1 DEF Kept, Had
  <2>3. s \in During(r, l)
    BY <2>2 DEF During, Statuses
  <2> QED  BY <2>2, <2>3
<1> QED  BY <1>1, ReadInvariant, PTL

\* RailInOrder for any listings and facts of theirs: a rail is in the order of the
\* criteria, and what it leaves out matches no higher criterion than what it shows.
THEOREM RailsInOrder == ListingsSpec => []RailInOrder
<1>1. ReadInv => RailInOrder
  <2> SUFFICES ASSUME ReadInv, NEW r \in Answered, req[r].kind = "similar"
               PROVE  InRailOrder(req[r].who, req[r].got, req[r].part)
    BY DEF RailInOrder, InRailOrder
  <2>1. r \in Requests /\ Rail(req[r]) /\ req[r].step = "done"
    BY DEF Answered, ReadInv, Answer
  <2> QED  BY <2>1 DEF Rail
<1> QED  BY <1>1, ReadInvariant, PTL

\* PagesComplete for any listings, queries and page sizes: who pages through a
\* listing that nobody changes meets each match once, whether the search is one
\* over properties and projects or one of properties alone that the database
\* answers; nothing is said of a search with a page of the index.
THEOREM PagesAreComplete == ListingsSpec => []PagesComplete
<1>1. ReadInv => PagesComplete
  <2> SUFFICES ASSUME ReadInv, NEW r \in Answered, req[r].kind = "page", ~req[r].indexed,
                      \A l \in Listings : Cardinality(During(r, l)) = 1
               PROVE  IsInjective(req[r].got) /\ ToSet(req[r].got) = Found(req[r].q)
    BY DEF PagesComplete
  <2>1. r \in Requests /\ Paged(req[r]) /\ req[r].step = "done"
    BY DEF Answered, ReadInv, Answer
  <2>2. ASSUME NEW l \in Listings, NEW s \in Statuses, NEW t \in Statuses,
               <<l, s>> \in req[r].seen, <<l, t>> \in req[r].seen
        PROVE  s = t
    <3>1. IsFiniteSet(Statuses)
      <4>1. IsFiniteSet({"live"}) /\ IsFiniteSet({"taken"}) /\ IsFiniteSet({"retired"}) /\ IsFiniteSet({"hidden"})
        BY FS_Singleton
      <4>2. IsFiniteSet({"live"} \union {"taken"}) /\ IsFiniteSet({"retired"} \union {"hidden"})
        BY <4>1, FS_Union
      <4>3. IsFiniteSet(({"live"} \union {"taken"}) \union ({"retired"} \union {"hidden"}))
        BY <4>2, FS_Union
      <4>4. Statuses = (({"live"} \union {"taken"}) \union ({"retired"} \union {"hidden"})) \union {"gone"}
        BY DEF Statuses
      <4> QED  BY <4>3, <4>4, FS_AddElement
    <3>2. During(r, l) \in SUBSET Statuses /\ s \in During(r, l) /\ t \in During(r, l)
      BY <2>2 DEF During, Statuses
    <3>3. IsFiniteSet(During(r, l))
      BY <3>1, <3>2, FS_Subset
    <3>4. PICK x : During(r, l) = {x}
      BY <3>3, FS_Singleton
    <3> QED  BY <3>2, <3>4
  <2>3. Still(req[r])
    BY <2>2 DEF Still
  <2>4. req[r].got = Sorted(req[r].q)
    BY <2>1, <2>3 DEF Paged
  <2> QED  BY <2>4, SortedType
<1> QED  BY <1>1, ReadInvariant, PTL

================================================================================
