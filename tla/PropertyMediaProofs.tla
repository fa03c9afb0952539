------------------------- MODULE PropertyMediaProofs -------------------------
(***************************************************************************)
(* What PropertyMedia guarantees for any number of files, properties and   *)
(* staff members, whoever fails: its type invariant, that no save removes  *)
(* a file its author has not seen, and that an owner whose submission has  *)
(* failed can send it again; and that a listed file is in the bucket as    *)
(* long as the transactions of the staff commit.                           *)
(***************************************************************************)
EXTENDS PropertyMedia, TLAPS

-----------------------------------------------------------------------------
(* Types *)

LEMMA KeyTypes ==
  /\ \A u \in Uploads : Staged(u) \in Keys
  /\ \A k \in Keys : Permanent(k) \in Keys
BY DEF Keys, Staged, Permanent

LEMMA OpenForm ==
  ASSUME TypeOK, NEW a \in Actors, forms[a].open
  PROVE  forms[a] \in Form
BY DEF TypeOK, Closed

LEMMA BusySave ==
  ASSUME TypeOK, NEW a \in Actors, saves[a].busy
  PROVE  saves[a] \in Save /\ forms[a].open /\ forms[a] \in Form
BY OpenForm DEF TypeOK, Idle

LEMMA SlotsOfSlots == \A a : SlotsOf(a) \subseteq Slots
BY DEF SlotsOf

LEMMA WithType ==
  ASSUME NEW f \in Form, NEW s \in Slots, NEW ks \in SUBSET Keys
  PROVE  With(f, s, ks) \in Form
<1>1. [f.media EXCEPT ![s] = ks] \in Media
  BY DEF Form, Media
<1> QED  BY <1>1 DEF With, Form

LEMMA DoneType ==
  ASSUME NEW v \in Save, NEW x \in v.todo, NEW k \in Keys, NEW also \in SUBSET Keys
  PROVE  Done(v, x, k, also) \in Save
<1>1. x[1] \in Slots
  BY DEF Save
<1>2. [v.result EXCEPT ![x[1]] = v.result[x[1]] \cup {k}] \in Media
  BY <1>1 DEF Save, Media
<1>3. v.todo \ {x} \in SUBSET (Slots \X Keys) /\ v.deferred \cup also \in SUBSET Keys
  BY DEF Save
<1> QED  BY <1>2, <1>3 DEF Done, Save

LEMMA DoneResult ==
  ASSUME NEW v \in Save, NEW x \in v.todo, NEW k, NEW also, NEW s \in Slots
  PROVE  Done(v, x, k, also).result[s]
           = IF s = x[1] THEN v.result[s] \cup {k} ELSE v.result[s]
<1>1. v.result = [t \in Slots |-> v.result[t]]
  BY DEF Save, Media
<1>2. Done(v, x, k, also).result = [v.result EXCEPT ![x[1]] = v.result[x[1]] \cup {k}]
  BY DEF Done
<1> QED  BY <1>1, <1>2

\* The state stays well typed, and only an open form is being saved.
LEMMA TypesStay == TypeOK /\ [Next]_vars => TypeOK'
<1> SUFFICES ASSUME TypeOK, [Next]_vars
             PROVE  TypeOK'
  OBVIOUS
<1> USE MediaAssumption DEF TypeOK
<1>1. ASSUME NEW a \in Actors, Load(a)
      PROVE  TypeOK'
  <2>1. PICK p \in Properties :
          forms' = [forms EXCEPT ![a] =
            [open |-> TRUE, property |-> p, version |-> rows[p].version,
             seen |-> rows[p].media, media |-> rows[p].media]]
    BY <1>1 DEF Load
  <2>2. forms' \in [Actors -> Form \cup {Closed}]
    BY <2>1 DEF Form
  <2> QED  BY <1>1, <2>1, <2>2 DEF Load
<1>2. ASSUME NEW a \in Actors, Start(a)
      PROVE  TypeOK'
  <2>1. PICK p \in Properties :
          forms' = [forms EXCEPT ![a] =
            [open |-> TRUE, property |-> p, version |-> 0,
             seen |-> NoMedia, media |-> NoMedia]]
    BY <1>2 DEF Start
  <2>2. NoMedia \in Media
    BY DEF NoMedia, Media
  <2>3. forms' \in [Actors -> Form \cup {Closed}]
    BY <2>1, <2>2 DEF Form
  <2> QED  BY <1>2, <2>1, <2>3 DEF Start
<1>3. ASSUME NEW a \in Actors, Upload(a)
      PROVE  TypeOK'
  <2>1. PICK u \in fresh, s \in SlotsOf(a) :
          /\ forms' = [forms EXCEPT ![a] = With(forms[a], s, forms[a].media[s] \cup {Staged(u)})]
          /\ stored' = stored \cup {Staged(u)}
          /\ fresh' = fresh \ {u}
    BY <1>3 DEF Upload
  <2>2. s \in Slots /\ forms[a] \in Form
    BY <1>3, OpenForm, SlotsOfSlots DEF Upload
  <2>3. forms[a].media[s] \cup {Staged(u)} \subseteq Keys
    BY <2>2, KeyTypes DEF Form, Media
  <2>4. With(forms[a], s, forms[a].media[s] \cup {Staged(u)}) \in Form
    BY <2>2, <2>3, WithType
  <2>5. forms' \in [Actors -> Form \cup {Closed}]
    BY <2>1, <2>4
  <2>6. \A b \in Actors : saves[b].busy => forms'[b].open
    BY <2>1 DEF With
  <2> QED  BY <1>3, <2>1, <2>3, <2>5, <2>6 DEF Upload
<1>4. ASSUME NEW a \in Actors, Discard(a)
      PROVE  TypeOK'
  <2>1. PICK s \in Slots, k \in UNION {forms[a].media[t] : t \in Slots} :
          forms' = [forms EXCEPT ![a] = With(forms[a], s, forms[a].media[s] \ {k})]
    BY <1>4 DEF Discard
  <2>2. forms[a] \in Form
    BY <1>4, OpenForm DEF Discard
  <2>3. forms[a].media[s] \ {k} \subseteq Keys
    BY <2>2 DEF Form, Media
  <2>4. With(forms[a], s, forms[a].media[s] \ {k}) \in Form
    BY <2>2, <2>3, WithType
  <2>5. forms' \in [Actors -> Form \cup {Closed}]
    BY <2>1, <2>4
  <2>6. \A b \in Actors : saves[b].busy => forms'[b].open
    BY <2>1 DEF With
  <2> QED  BY <1>4, <2>5, <2>6 DEF Discard
<1>5. ASSUME NEW a \in Actors, BeginSave(a)
      PROVE  TypeOK'
  <2>1. PICK sent \in SUBSET Slots :
          saves' = [saves EXCEPT ![a] =
            [busy |-> TRUE, sent |-> sent, todo |-> ToCopy(forms[a], sent), deferred |-> {},
             result |-> [s \in Slots |->
               {k \in forms[a].media[s] : <<s, k>> \notin ToCopy(forms[a], sent)}]]]
    BY <1>5 DEF BeginSave
  <2>2. ToCopy(forms[a], sent) \subseteq Slots \X Keys
    BY DEF ToCopy
  <2>3. forms[a].media \in Media
    BY <1>5, OpenForm DEF BeginSave, Form
  <2>4. [s \in Slots |-> {k \in forms[a].media[s] : <<s, k>> \notin ToCopy(forms[a], sent)}] \in Media
    BY <2>3 DEF Media
  <2>5. saves'[a] \in Save
    BY <2>1, <2>2, <2>4 DEF Save
  <2>6. saves' \in [Actors -> Save \cup {Idle}]
    BY <2>1, <2>5
  <2> QED  BY <1>5, <2>1, <2>6 DEF BeginSave
<1>6. ASSUME NEW a \in Actors, Refused(a)
      PROVE  TypeOK'
  BY <1>6 DEF Refused
<1>7. ASSUME NEW a \in Actors, Copy(a)
      PROVE  TypeOK'
  <2>1. saves[a] \in Save
    BY <1>7, BusySave DEF Copy
  <2>2. PICK x \in saves[a].todo :
          /\ saves' = [saves EXCEPT ![a] =
               Done(saves[a], x, Permanent(x[2]), IF Retains(a, x[1]) THEN {x[2]} ELSE {})]
          /\ stored' \subseteq stored \cup {Permanent(x[2])}
          /\ doomed' \subseteq doomed \cup {x[2]}
    BY <1>7 DEF Copy
  <2>3. x[2] \in Keys
    BY <2>1, <2>2 DEF Save
  <2>4. Done(saves[a], x, Permanent(x[2]), IF Retains(a, x[1]) THEN {x[2]} ELSE {}) \in Save
    BY <2>1, <2>3, DoneType, KeyTypes
  <2>5. saves' \in [Actors -> Save \cup {Idle}]
    BY <2>2, <2>4
  <2>6. stored' \subseteq Keys /\ doomed' \subseteq Keys
    BY <2>2, <2>3, KeyTypes
  <2> QED  BY <1>7, <2>2, <2>5, <2>6 DEF Copy
<1>8. ASSUME NEW a \in Actors, FallBack(a)
      PROVE  TypeOK'
  <2>1. saves[a] \in Save
    BY <1>8, BusySave DEF FallBack
  <2>2. PICK x \in saves[a].todo : saves' = [saves EXCEPT ![a] = Done(saves[a], x, x[2], {})]
    BY <1>8 DEF FallBack
  <2>3. x[2] \in Keys
    BY <2>1, <2>2 DEF Save
  <2>4. Done(saves[a], x, x[2], {}) \in Save
    BY <2>1, <2>3, DoneType
  <2>5. saves' \in [Actors -> Save \cup {Idle}]
    BY <2>2, <2>4
  <2> QED  BY <1>8, <2>2, <2>5 DEF FallBack
<1>9. ASSUME NEW a \in Actors, Rollback(a)
      PROVE  TypeOK'
  <2>1. \A b \in Actors : saves'[b].busy => saves[b].busy
    BY <1>9 DEF Rollback, Idle
  <2> QED  BY <1>9, <2>1 DEF Rollback
<1>10. ASSUME NEW a \in Actors, Commit(a)
       PROVE  TypeOK'
  <2>1. saves[a] \in Save /\ forms[a] \in Form
    BY <1>10, BusySave DEF Commit
  <2>2. forms[a].property \in Properties /\ saves[a].result \in Media
    BY <2>1 DEF Form, Save
  <2>3. rows' = [rows EXCEPT ![forms[a].property] =
          [version |-> rows[forms[a].property].version + 1, live |-> TRUE,
           media |-> saves[a].result]]
    BY <1>10 DEF Commit
  <2>4. rows' \in [Properties -> [version : Nat, live : BOOLEAN, media : Media]]
    BY <2>2, <2>3
  <2>5. \A s \in Slots : Orphans(a, s) \subseteq Keys
    BY <2>2 DEF Orphans, Media
  <2>6. saves[a].sent \subseteq Slots /\ saves[a].deferred \subseteq Keys
    BY <2>1 DEF Save
  <2>7. doomed' \subseteq Keys
    BY <1>10, <2>5, <2>6 DEF Commit
  <2>8. \A b \in Actors : saves'[b].busy => saves[b].busy /\ b # a
    BY <1>10 DEF Commit, Idle
  <2> QED  BY <1>10, <2>4, <2>7, <2>8 DEF Commit
<1>11. ASSUME BeginRemoval
       PROVE  TypeOK'
  <2>1. PICK p \in Properties :
          removal' = [of |-> p, keys |-> UNION {rows[p].media[s] : s \in Slots \ {"plans"}}]
    BY <1>11 DEF BeginRemoval
  <2>2. \A s \in Slots : rows[p].media[s] \subseteq Keys
    BY DEF Media
  <2>3. UNION {rows[p].media[s] : s \in Slots \ {"plans"}} \subseteq Keys
    BY <2>2
  <2>4. removal' \in [of : Properties, keys : SUBSET Keys]
    BY <2>1, <2>3
  <2> QED  BY <1>11, <2>4 DEF BeginRemoval
<1>12. ASSUME Remove
       PROVE  TypeOK'
  <2>1. removal \in [of : Properties, keys : SUBSET Keys]
    BY <1>12 DEF Remove
  <2>2. [rows[removal.of] EXCEPT !.live = FALSE]
          \in [version : Nat, live : BOOLEAN, media : Media]
    BY <2>1
  <2>3. rows' = [rows EXCEPT ![removal.of] = [rows[removal.of] EXCEPT !.live = FALSE]]
    BY <1>12 DEF Remove
  <2>4. rows' \in [Properties -> [version : Nat, live : BOOLEAN, media : Media]]
    BY <2>1, <2>2, <2>3
  <2> QED  BY <1>12, <2>1, <2>4 DEF Remove
<1>13. CASE Delete
  BY <1>13 DEF Delete
<1>14. CASE DeletionLost
  BY <1>14 DEF DeletionLost
<1>15. CASE UNCHANGED vars
  BY <1>15 DEF vars
<1> QED
  BY <1>1, <1>2, <1>3, <1>4, <1>5, <1>6, <1>7, <1>8, <1>9, <1>10, <1>11, <1>12, <1>13, <1>14, <1>15
  DEF Next

\* Every state is well typed, and only an open form is being saved.
THEOREM MediaTypes == Spec => []TypeOK
<1>1. Init => TypeOK
  BY DEF Init, TypeOK, NotYet, NoMedia, Media, Idle
<1> QED  BY <1>1, TypesStay, PTL DEF Spec

-----------------------------------------------------------------------------
(* Nothing unseen is removed *)

\* A form of the row's version shows the row's media; a save that is under way
\* is of the row's version, and is the only one of its property.
Seen ==
  /\ \A p \in Properties : rows[p].live => rows[p].version > 0
  /\ \A a \in Actors : forms[a].open =>
       /\ forms[a].version <= rows[forms[a].property].version
       /\ forms[a].version = rows[forms[a].property].version /\ forms[a].version > 0
            => forms[a].seen = rows[forms[a].property].media
  /\ \A a \in Actors : saves[a].busy => Current(forms[a])
  /\ \A a, b \in Actors :
       saves[a].busy /\ saves[b].busy /\ forms[a].property = forms[b].property => a = b

\* Editing a form changes neither its property nor its version, nor what it
\* was loaded with.
SameForms ==
  /\ rows' = rows
  /\ \A a \in Actors : forms'[a].open =>
       /\ forms[a].open
       /\ forms'[a].property = forms[a].property
       /\ forms'[a].version = forms[a].version
       /\ forms'[a].seen = forms[a].seen

LEMMA SeenIfSame ==
  ASSUME Seen, TypeOK', SameForms, \A a \in Actors : saves'[a].busy => saves[a].busy
  PROVE  Seen'
<1>1. \A a \in Actors : saves'[a].busy => forms'[a].open
  BY DEF TypeOK
<1> QED  BY <1>1 DEF Seen, SameForms, Current

LEMMA SeenStays == TypeOK /\ Seen /\ [Next]_vars => Seen'
<1> SUFFICES ASSUME TypeOK, Seen, [Next]_vars
             PROVE  Seen'
  OBVIOUS
<1>0. TypeOK'
  BY TypesStay
<1>1. ASSUME NEW a \in Actors, Load(a)
      PROVE  Seen'
  <2>1. PICK p \in Properties :
          /\ rows[p].live
          /\ forms' = [forms EXCEPT ![a] =
               [open |-> TRUE, property |-> p, version |-> rows[p].version,
                seen |-> rows[p].media, media |-> rows[p].media]]
    BY <1>1 DEF Load
  <2>2. ~saves[a].busy
    BY <1>1 DEF Load, TypeOK
  <2>3. rows' = rows /\ saves' = saves /\ rows[p].version \in Nat
    BY <1>1 DEF Load, TypeOK
  <2> QED  BY <2>1, <2>2, <2>3 DEF Seen, TypeOK, Current
<1>2. ASSUME NEW a \in Actors, Start(a)
      PROVE  Seen'
  <2>1. PICK p \in Properties :
          forms' = [forms EXCEPT ![a] =
            [open |-> TRUE, property |-> p, version |-> 0,
             seen |-> NoMedia, media |-> NoMedia]]
    BY <1>2 DEF Start
  <2>2. ~saves[a].busy
    BY <1>2 DEF Start, TypeOK
  <2>3. rows' = rows /\ saves' = saves /\ rows[p].version \in Nat
    BY <1>2 DEF Start, TypeOK
  <2> QED  BY <2>1, <2>2, <2>3 DEF Seen, TypeOK, Current
<1>3. ASSUME NEW a \in Actors, Upload(a)
      PROVE  Seen'
  <2>1. SameForms /\ saves' = saves
    BY <1>3 DEF Upload, SameForms, With, TypeOK
  <2> QED  BY <1>0, <2>1, SeenIfSame
<1>4. ASSUME NEW a \in Actors, Discard(a)
      PROVE  Seen'
  <2>1. SameForms /\ saves' = saves
    BY <1>4 DEF Discard, SameForms, With, TypeOK
  <2> QED  BY <1>0, <2>1, SeenIfSame
<1>5. ASSUME NEW a \in Actors, BeginSave(a)
      PROVE  Seen'
  <2>1. \A b \in Actors \ {a} : saves'[b] = saves[b]
    BY <1>5 DEF BeginSave, TypeOK
  <2>2. Current(forms[a]) /\ \A b \in Actors : saves[b].busy => forms[b].property # forms[a].property
    BY <1>5 DEF BeginSave, Saving
  <2> QED  BY <1>5, <2>1, <2>2 DEF BeginSave, Seen, Current
<1>6. ASSUME NEW a \in Actors, Refused(a)
      PROVE  Seen'
  <2>1. SameForms /\ saves' = saves
    BY <1>6 DEF Refused, SameForms, Closed, TypeOK
  <2> QED  BY <1>0, <2>1, SeenIfSame
<1>7. ASSUME NEW a \in Actors, Copy(a)
      PROVE  Seen'
  <2>1. SameForms /\ \A b \in Actors : saves'[b].busy => saves[b].busy
    BY <1>7 DEF Copy, SameForms, TypeOK
  <2> QED  BY <1>0, <2>1, SeenIfSame
<1>8. ASSUME NEW a \in Actors, FallBack(a)
      PROVE  Seen'
  <2>1. SameForms /\ \A b \in Actors : saves'[b].busy => saves[b].busy
    BY <1>8 DEF FallBack, SameForms, TypeOK
  <2> QED  BY <1>0, <2>1, SeenIfSame
<1>9. ASSUME NEW a \in Actors, Rollback(a)
      PROVE  Seen'
  <2>1. SameForms /\ \A b \in Actors : saves'[b].busy => saves[b].busy
    BY <1>9 DEF Rollback, SameForms, Idle, TypeOK
  <2> QED  BY <1>0, <2>1, SeenIfSame
<1>10. ASSUME NEW a \in Actors, Commit(a)
       PROVE  Seen'
  <2> DEFINE p == forms[a].property
  <2>1. p \in Properties /\ rows[p].version \in Nat
    BY <1>10, BusySave DEF Commit, Form, TypeOK
  <2>2. /\ rows' = [rows EXCEPT ![p] =
             [version |-> rows[p].version + 1, live |-> TRUE, media |-> saves[a].result]]
        /\ forms' = [forms EXCEPT ![a] = Closed]
        /\ saves' = [saves EXCEPT ![a] = Idle]
    BY <1>10 DEF Commit
  <2>3. \A b \in Actors : forms'[b].open => b # a /\ forms'[b] = forms[b]
    BY <2>2 DEF Closed, TypeOK
  <2>4. \A b \in Actors : saves'[b].busy =>
          b # a /\ saves[b].busy /\ forms[b].property # p
    BY <1>10, <2>2 DEF Commit, Idle, TypeOK, Seen
  <2>5. \A q \in Properties : rows'[q].live => rows'[q].version > 0
    BY <2>1, <2>2 DEF Seen, TypeOK
  <2>6. \A b \in Actors : forms'[b].open =>
          /\ forms'[b].version <= rows'[forms'[b].property].version
          /\ forms'[b].version = rows'[forms'[b].property].version /\ forms'[b].version > 0
               => forms'[b].seen = rows'[forms'[b].property].media
    <3> SUFFICES ASSUME NEW b \in Actors, forms'[b].open
                 PROVE  /\ forms[b].version <= rows'[forms[b].property].version
                        /\ forms[b].version = rows'[forms[b].property].version /\ forms[b].version > 0
                             => forms[b].seen = rows'[forms[b].property].media
      BY <2>3
    <3>1. forms[b].open /\ forms[b].version \in Nat /\ forms[b].property \in Properties
      BY <2>3, OpenForm DEF Form
    <3>2. forms[b].version <= rows[forms[b].property].version
      BY <3>1 DEF Seen
    <3>3. CASE forms[b].property = p
      BY <2>1, <2>2, <3>1, <3>2, <3>3 DEF TypeOK
    <3>4. CASE forms[b].property # p
      BY <2>2, <3>1, <3>2, <3>4 DEF Seen, TypeOK
    <3> QED  BY <3>3, <3>4
  <2>7. \A b \in Actors : saves'[b].busy => Current(forms[b])'
    <3> SUFFICES ASSUME NEW b \in Actors, saves'[b].busy
                 PROVE  Current(forms[b])'
      OBVIOUS
    <3>1. forms'[b] = forms[b] /\ Current(forms[b])
      BY <2>2, <2>4 DEF Seen, TypeOK
    <3>2. rows'[forms[b].property] = rows[forms[b].property]
      BY <2>2, <2>4, BusySave DEF Form, TypeOK
    <3> QED  BY <3>1, <3>2 DEF Current
  <2>8. \A b, c \in Actors :
          saves'[b].busy /\ saves'[c].busy /\ forms'[b].property = forms'[c].property => b = c
    BY <2>2, <2>4 DEF Seen, TypeOK
  <2> QED  BY <2>5, <2>6, <2>7, <2>8 DEF Seen
<1>11. ASSUME BeginRemoval
       PROVE  Seen'
  <2>1. SameForms /\ saves' = saves
    BY <1>11 DEF BeginRemoval, SameForms
  <2> QED  BY <1>0, <2>1, SeenIfSame
<1>12. ASSUME Remove
       PROVE  Seen'
  <2> DEFINE p == removal.of
  <2>1. p \in Properties
    BY <1>12 DEF Remove, TypeOK
  <2>2. /\ rows' = [rows EXCEPT ![p] = [rows[p] EXCEPT !.live = FALSE]]
        /\ forms' = forms
        /\ saves' = saves
    BY <1>12 DEF Remove
  <2>3. /\ \A q \in Properties : rows'[q].live => rows[q].live
        /\ \A q \in Properties : rows'[q].version = rows[q].version /\ rows'[q].media = rows[q].media
    BY <2>1, <2>2 DEF TypeOK
  <2>4. \A a \in Actors : forms[a].open => forms[a].property \in Properties
    BY OpenForm DEF Form
  <2>5. \A a \in Actors : saves[a].busy => rows'[forms[a].property] = rows[forms[a].property]
    BY <1>12, <2>2, BusySave DEF Remove, Saving, Form, TypeOK
  <2>6. forms' = forms /\ saves' = saves
    BY <2>2
  <2>7. \A q \in Properties : rows'[q].live => rows'[q].version > 0
    BY <2>3 DEF Seen
  <2>8. \A a \in Actors : forms'[a].open =>
          /\ forms'[a].version <= rows'[forms'[a].property].version
          /\ forms'[a].version = rows'[forms'[a].property].version /\ forms'[a].version > 0
               => forms'[a].seen = rows'[forms'[a].property].media
    BY <2>3, <2>4, <2>6 DEF Seen
  <2>9. \A a \in Actors : saves'[a].busy => Current(forms[a])'
    BY <2>5, <2>6 DEF Seen, Current
  <2> QED  BY <2>6, <2>7, <2>8, <2>9 DEF Seen
<1>13. CASE Delete
  BY <1>0, <1>13, SeenIfSame DEF Delete, SameForms
<1>14. CASE DeletionLost
  BY <1>0, <1>14, SeenIfSame DEF DeletionLost, SameForms
<1>15. CASE UNCHANGED vars
  BY <1>0, <1>15, SeenIfSame DEF vars, SameForms
<1> QED
  BY <1>1, <1>2, <1>3, <1>4, <1>5, <1>6, <1>7, <1>8, <1>9, <1>10, <1>11, <1>12, <1>13, <1>14, <1>15
  DEF Next

\* What a commit takes from its row was in the form it saves.
LEMMA RemovedWasSeen ==
  ASSUME TypeOK, Seen, NEW a \in Actors, Commit(a), NEW p \in Properties,
         rows[p].live, rows'[p].live, NEW s \in Slots,
         NEW k \in rows[p].media[s] \ rows'[p].media[s]
  PROVE  saves[a].busy /\ ~saves'[a].busy /\ forms[a].property = p /\ k \in forms[a].seen[s]
<1>1. saves[a].busy /\ ~saves'[a].busy
  BY DEF Commit, Idle, TypeOK
<1>2. forms[a].property = p
  BY DEF Commit, TypeOK
<1>3. forms[a].open /\ forms[a].version = rows[p].version /\ rows[p].version > 0
  BY <1>1, <1>2, BusySave DEF Seen, Current
<1>4. forms[a].seen = rows[p].media
  BY <1>2, <1>3 DEF Seen
<1> QED  BY <1>1, <1>2, <1>4

\* No save takes a file from a property unless its author had that file in
\* the form.
THEOREM UnseenStays == Spec => NothingUnseenRemoved
<1>1. Init => TypeOK /\ Seen
  BY DEF Init, TypeOK, Seen, NotYet, NoMedia, Media, Idle, Closed
<1>2. TypeOK /\ Seen /\ [Next]_vars => (TypeOK /\ Seen)'
  BY TypesStay, SeenStays
<1>3. TypeOK /\ Seen /\ [Next]_vars =>
        [\A p \in Properties : rows[p].live /\ rows'[p].live =>
           \A s \in Slots : rows[p].media[s] \ rows'[p].media[s] \subseteq
             UNION {forms[a].seen[s] : a \in {b \in Actors :
                      saves[b].busy /\ ~saves'[b].busy /\ forms[b].property = p}}]_vars
  <2> SUFFICES ASSUME TypeOK, Seen, Next,
                      NEW p \in Properties, rows[p].live, rows'[p].live, NEW s \in Slots,
                      NEW k \in rows[p].media[s] \ rows'[p].media[s]
               PROVE  \E a \in Actors :
                        saves[a].busy /\ ~saves'[a].busy /\ forms[a].property = p
                          /\ k \in forms[a].seen[s]
    OBVIOUS
  <2>1. CASE \E a \in Actors : Commit(a)
    BY <2>1, RemovedWasSeen
  <2>2. CASE Remove
    BY <2>2 DEF Remove, TypeOK
  <2>3. CASE rows' = rows
    BY <2>3
  <2> QED
    BY <2>1, <2>2, <2>3
    DEF Next, Load, Start, Upload, Discard, BeginSave, Refused, Copy, FallBack, Rollback,
        BeginRemoval, Delete, DeletionLost
<1> QED  BY <1>1, <1>2, <1>3, PTL DEF Spec, NothingUnseenRemoved

-----------------------------------------------------------------------------
(* The owner can send it again *)

\* A save works on the files of its form.
SaveKeys ==
  \A a \in Actors : saves[a].busy =>
    /\ \A x \in saves[a].todo : x[2] \in forms[a].media[x[1]]
    /\ saves[a].deferred \subseteq KeysOf(forms[a].media)
    /\ \A s \in Slots : \A k \in saves[a].result[s] : Temporary(k) => k \in forms[a].media[s]

\* Somebody else may use key k, or delete it.
Elsewhere(k) ==
  \/ k \in doomed
  \/ \E p \in Properties, s \in Slots : k \in rows[p].media[s]
  \/ removal # Closed /\ k \in removal.keys
  \/ \E e \in Editors, s \in Slots : forms[e].open /\ k \in forms[e].media[s]

\* The names of fresh uploads are unused, and what the owner has uploaded is
\* in the bucket and in her form alone.
Drafts ==
  /\ \A u \in fresh :
       /\ ~Elsewhere(Staged(u))
       /\ forms[Owner].open => \A s \in Slots : Staged(u) \notin forms[Owner].media[s]
  /\ forms[Owner].open => \A s \in Slots : \A k \in forms[Owner].media[s] :
       k = Staged(k.file) /\ k \in stored /\ ~Elsewhere(k)

LEMMA SaveKeysStay == TypeOK /\ SaveKeys /\ [Next]_vars => SaveKeys'
<1> SUFFICES ASSUME TypeOK, SaveKeys, [Next]_vars,
                    NEW b \in Actors, saves'[b].busy
             PROVE  /\ \A x \in saves'[b].todo : x[2] \in forms'[b].media[x[1]]
                    /\ saves'[b].deferred \subseteq KeysOf(forms'[b].media)
                    /\ \A s \in Slots : \A k \in saves'[b].result[s] :
                         Temporary(k) => k \in forms'[b].media[s]
  BY DEF SaveKeys
<1>1. CASE saves'[b] = saves[b] /\ forms'[b] = forms[b]
  BY <1>1 DEF SaveKeys
<1>2. CASE BeginSave(b)
  <2>1. PICK sent \in SUBSET Slots :
          saves'[b] =
            [busy |-> TRUE, sent |-> sent, todo |-> ToCopy(forms[b], sent), deferred |-> {},
             result |-> [s \in Slots |->
               {k \in forms[b].media[s] : <<s, k>> \notin ToCopy(forms[b], sent)}]]
    BY <1>2 DEF BeginSave, TypeOK
  <2>2. forms'[b] = forms[b]
    BY <1>2 DEF BeginSave
  <2> QED  BY <2>1, <2>2 DEF ToCopy
<1>3. ASSUME NEW x \in saves[b].todo, NEW k, NEW also,
             saves[b].busy,
             saves'[b] = Done(saves[b], x, k, also), forms'[b] = forms[b],
             k = x[2] \/ k = Permanent(x[2]), also \subseteq {x[2]}
      PROVE  /\ \A y \in saves'[b].todo : y[2] \in forms'[b].media[y[1]]
             /\ saves'[b].deferred \subseteq KeysOf(forms'[b].media)
             /\ \A s \in Slots : \A l \in saves'[b].result[s] :
                  Temporary(l) => l \in forms'[b].media[s]
  <2>1. saves[b] \in Save
    BY <1>3, BusySave
  <2>2. x[1] \in Slots /\ x[2] \in forms[b].media[x[1]]
    BY <1>3, <2>1 DEF SaveKeys, Save
  <2>3. saves'[b].todo = saves[b].todo \ {x} /\ saves'[b].deferred = saves[b].deferred \cup also
    BY <1>3 DEF Done
  <2>4. \A s \in Slots : saves'[b].result[s] =
          IF s = x[1] THEN saves[b].result[s] \cup {k} ELSE saves[b].result[s]
    BY <1>3, <2>1, DoneResult
  <2>5. Temporary(k) => k = x[2]
    BY <1>3 DEF Temporary, Permanent
  <2>6. saves'[b].deferred \subseteq KeysOf(forms'[b].media)
    BY <1>3, <2>2, <2>3 DEF SaveKeys, KeysOf
  <2>7. \A s \in Slots : \A l \in saves'[b].result[s] : Temporary(l) => l \in forms'[b].media[s]
    <3> SUFFICES ASSUME NEW s \in Slots, NEW l \in saves'[b].result[s], Temporary(l)
                 PROVE  l \in forms'[b].media[s]
      OBVIOUS
    <3>1. CASE l \in saves[b].result[s]
      BY <1>3, <3>1 DEF SaveKeys
    <3>2. CASE s = x[1] /\ l = k
      BY <1>3, <2>2, <2>5, <3>2
    <3> QED  BY <2>4, <3>1, <3>2
  <2> QED  BY <1>3, <2>3, <2>6, <2>7 DEF SaveKeys
<1>4. CASE Copy(b)
  <2>1. PICK x \in saves[b].todo :
          \E also \in SUBSET {x[2]} : saves'[b] = Done(saves[b], x, Permanent(x[2]), also)
    BY <1>4 DEF Copy, TypeOK
  <2>2. PICK also \in SUBSET {x[2]} : saves'[b] = Done(saves[b], x, Permanent(x[2]), also)
    BY <2>1
  <2>3. saves[b].busy /\ forms'[b] = forms[b]
    BY <1>4 DEF Copy
  <2> QED  BY <1>3, <2>2, <2>3
<1>5. CASE FallBack(b)
  <2>1. PICK x \in saves[b].todo : saves'[b] = Done(saves[b], x, x[2], {})
    BY <1>5 DEF FallBack, TypeOK
  <2>2. saves[b].busy /\ forms'[b] = forms[b]
    BY <1>5 DEF FallBack
  <2> QED  BY <1>3, <2>1, <2>2
<1>6. ~Commit(b) /\ ~Rollback(b)
  BY DEF Commit, Rollback, Idle, TypeOK
<1>7. ~Load(b) /\ ~Start(b) /\ ~Upload(b) /\ ~Discard(b) /\ ~Refused(b)
  BY DEF Load, Start, Upload, Discard, Refused, TypeOK
<1>8. ASSUME NEW a \in Actors, a # b,
             \/ Load(a) \/ Start(a) \/ Upload(a) \/ Discard(a) \/ BeginSave(a)
             \/ Refused(a) \/ Copy(a) \/ FallBack(a) \/ Rollback(a) \/ Commit(a)
      PROVE  saves'[b] = saves[b] /\ forms'[b] = forms[b]
  BY <1>8 DEF Load, Start, Upload, Discard, BeginSave, Refused, Copy, FallBack, Rollback, Commit, TypeOK
<1>9. CASE BeginRemoval \/ Remove \/ Delete \/ DeletionLost \/ UNCHANGED vars
  BY <1>1, <1>9 DEF BeginRemoval, Remove, Delete, DeletionLost, vars
<1> QED  BY <1>1, <1>2, <1>4, <1>5, <1>6, <1>7, <1>8, <1>9 DEF Next

\* No step makes a temporary key of use to others but its upload, and the
\* submission of the form it is in.
LEMMA Confined ==
  ASSUME TypeOK, SaveKeys, Next, NEW k \in Keys, Temporary(k), ~Elsewhere(k),
         k.file \in fresh => k.file \in fresh',
         Commit(Owner) => \A s \in Slots : k \notin forms[Owner].media[s]
  PROVE  ~Elsewhere(k)'
<1>1. ASSUME NEW a \in Actors, Load(a)
      PROVE  ~Elsewhere(k)'
  BY <1>1 DEF Load, Elsewhere, TypeOK
<1>2. ASSUME NEW a \in Actors, Start(a)
      PROVE  ~Elsewhere(k)'
  BY <1>2 DEF Start, Elsewhere, NoMedia, TypeOK
<1>3. ASSUME NEW a \in Actors, Upload(a)
      PROVE  ~Elsewhere(k)'
  <2>1. PICK u \in fresh, s \in SlotsOf(a) :
          /\ forms' = [forms EXCEPT ![a] = With(forms[a], s, forms[a].media[s] \cup {Staged(u)})]
          /\ fresh' = fresh \ {u}
    BY <1>3 DEF Upload
  <2>2. k # Staged(u)
    BY <2>1 DEF Staged
  <2>3. s \in Slots /\ forms[a].media \in Media
    BY <1>3, OpenForm, SlotsOfSlots DEF Upload, Form
  <2>4. \A t \in Slots : k \in forms'[a].media[t] => k \in forms[a].media[t]
    BY <2>1, <2>2, <2>3 DEF With, Media, TypeOK
  <2>5. \A e \in Editors, t \in Slots : forms'[e].open /\ k \in forms'[e].media[t]
          => forms[e].open /\ k \in forms[e].media[t]
    BY <1>3, <2>1, <2>4 DEF Upload, TypeOK, Actors
  <2> QED  BY <1>3, <2>5 DEF Upload, Elsewhere
<1>4. ASSUME NEW a \in Actors, Discard(a)
      PROVE  ~Elsewhere(k)'
  <2>1. PICK s \in Slots, l \in UNION {forms[a].media[t] : t \in Slots} :
          forms' = [forms EXCEPT ![a] = With(forms[a], s, forms[a].media[s] \ {l})]
    BY <1>4 DEF Discard
  <2>2. forms[a].media \in Media
    BY <1>4, OpenForm DEF Discard, Form
  <2>3. \A t \in Slots : k \in forms'[a].media[t] => k \in forms[a].media[t]
    BY <2>1, <2>2 DEF With, Media, TypeOK
  <2>4. \A e \in Editors, t \in Slots : forms'[e].open /\ k \in forms'[e].media[t]
          => forms[e].open /\ k \in forms[e].media[t]
    BY <1>4, <2>1, <2>3 DEF Discard, TypeOK, Actors
  <2> QED  BY <1>4, <2>4 DEF Discard, Elsewhere
<1>5. ASSUME NEW a \in Actors, BeginSave(a) \/ FallBack(a) \/ Rollback(a)
      PROVE  ~Elsewhere(k)'
  BY <1>5 DEF BeginSave, FallBack, Rollback, Elsewhere
<1>6. ASSUME NEW a \in Actors, Refused(a)
      PROVE  ~Elsewhere(k)'
  BY <1>6 DEF Refused, Elsewhere, Closed, TypeOK
<1>7. ASSUME NEW a \in Actors, Copy(a)
      PROVE  ~Elsewhere(k)'
  <2>1. PICK x \in saves[a].todo :
          doomed' = doomed \/ (~Retains(a, x[1]) /\ doomed' = doomed \cup {x[2]})
    BY <1>7 DEF Copy
  <2>2. rows' = rows /\ forms' = forms /\ removal' = removal
    BY <1>7 DEF Copy
  <2>3. x[1] \in Slots /\ x[2] \in forms[a].media[x[1]] /\ forms[a].open
    <3>1. saves[a].busy /\ saves[a] \in Save /\ forms[a].open
      BY <1>7, BusySave DEF Copy
    <3> QED  BY <2>1, <3>1 DEF SaveKeys, Save
  <2>4. ~Retains(a, x[1]) => a \in Editors
    BY DEF Retains, Actors
  <2>5. ~Retains(a, x[1]) => k # x[2]
    BY <2>3, <2>4 DEF Elsewhere
  <2> QED  BY <2>1, <2>2, <2>5 DEF Elsewhere
<1>8. ASSUME NEW a \in Actors, Commit(a)
      PROVE  ~Elsewhere(k)'
  <2>1. saves[a].busy /\ saves[a] \in Save /\ forms[a].open
    BY <1>8, BusySave DEF Commit
  <2>2. \A s \in Slots : k \notin forms[a].media[s]
    BY <1>8, <2>1 DEF Elsewhere, Actors
  <2>3. \A s \in Slots : k \notin saves[a].result[s]
    BY <2>1, <2>2 DEF SaveKeys
  <2>4. forms[a].property \in Properties
    BY <2>1, BusySave DEF Form
  <2>5. \A p \in Properties, s \in Slots : k \notin rows'[p].media[s]
    BY <1>8, <2>3, <2>4 DEF Commit, Elsewhere, TypeOK
  <2>6. k \notin saves[a].deferred
    BY <2>1, <2>2 DEF SaveKeys, KeysOf
  <2>7. \A s \in saves[a].sent : k \notin Orphans(a, s)
    BY <2>1, <2>4 DEF Orphans, Save, Elsewhere
  <2>8. k \notin doomed'
    BY <1>8, <2>6, <2>7 DEF Commit, Elsewhere
  <2>9. \A e \in Editors : forms'[e].open => forms'[e] = forms[e]
    BY <1>8 DEF Commit, Closed, TypeOK, Actors
  <2> QED  BY <1>8, <2>5, <2>8, <2>9 DEF Commit, Elsewhere
<1>9. CASE BeginRemoval
  <2>1. PICK p \in Properties :
          removal' = [of |-> p, keys |-> UNION {rows[p].media[s] : s \in Slots \ {"plans"}}]
    BY <1>9 DEF BeginRemoval
  <2>2. k \notin removal'.keys
    BY <2>1 DEF Elsewhere
  <2> QED  BY <1>9, <2>2 DEF BeginRemoval, Elsewhere
<1>10. CASE Remove
  <2>1. removal.of \in Properties
    BY <1>10 DEF Remove, TypeOK
  <2>2. \A p \in Properties : rows'[p].media = rows[p].media
    BY <1>10, <2>1 DEF Remove, TypeOK
  <2> QED  BY <1>10, <2>2 DEF Remove, Elsewhere
<1>11. CASE Delete
  BY <1>11 DEF Delete, Elsewhere
<1>12. CASE DeletionLost
  BY <1>12 DEF DeletionLost, Elsewhere
<1> QED
  BY <1>1, <1>2, <1>3, <1>4, <1>5, <1>6, <1>7, <1>8, <1>9, <1>10, <1>11, <1>12 DEF Next

LEMMA DraftsStay == TypeOK /\ SaveKeys /\ Drafts /\ [Next]_vars => Drafts'
<1> SUFFICES ASSUME TypeOK, SaveKeys, Drafts, Next
             PROVE  Drafts'
  BY DEF vars, Drafts, Elsewhere
<1>0. Owner \in Actors
  BY DEF Actors
<1>1. \A u \in Uploads : Staged(u) \in Keys /\ Temporary(Staged(u)) /\ Staged(u).file = u
  BY DEF Staged, Keys, Temporary
<1>2. fresh' \subseteq fresh
  BY DEF Next, Load, Start, Upload, Discard, BeginSave, Refused, Copy, FallBack, Rollback, Commit,
         BeginRemoval, Remove, Delete, DeletionLost
\* How the owner's form can look after a step.
<1>3. \/ forms'[Owner] = forms[Owner] /\ ~Commit(Owner)
      \/ ~forms'[Owner].open
      \/ /\ \A s \in Slots : forms'[Owner].media[s] = {}
         /\ ~Commit(Owner)
      \/ Upload(Owner)
  <2>1. CASE Start(Owner)
    BY <2>1 DEF Start, NoMedia, TypeOK, Commit
  <2>2. CASE Refused(Owner) \/ Commit(Owner)
    BY <2>2, <1>0 DEF Refused, Commit, Closed, TypeOK
  <2>3. ~Load(Owner) /\ ~Discard(Owner)
    BY MediaAssumption DEF Load, Discard
  <2>4. CASE BeginSave(Owner) \/ Copy(Owner) \/ FallBack(Owner) \/ Rollback(Owner)
    BY <2>4, <2>2 DEF BeginSave, Copy, FallBack, Rollback
  <2>5. ASSUME NEW a \in Actors, a # Owner,
               \/ Load(a) \/ Start(a) \/ Upload(a) \/ Discard(a) \/ BeginSave(a)
               \/ Refused(a) \/ Copy(a) \/ FallBack(a) \/ Rollback(a) \/ Commit(a)
        PROVE  forms'[Owner] = forms[Owner]
    BY <1>0, <2>5
    DEF Load, Start, Upload, Discard, BeginSave, Refused, Copy, FallBack, Rollback, Commit, TypeOK
  <2>6. CASE BeginRemoval \/ Remove \/ Delete \/ DeletionLost
    BY <2>2, <2>6 DEF BeginRemoval, Remove, Delete, DeletionLost
  <2> QED  BY <2>1, <2>2, <2>3, <2>4, <2>5, <2>6 DEF Next
<1>4. ASSUME NEW u \in fresh'
      PROVE  ~Elsewhere(Staged(u))'
  <2>1. u \in fresh /\ u \in Uploads
    BY <1>2 DEF TypeOK
  <2>2. ~Elsewhere(Staged(u))
    BY <2>1 DEF Drafts
  <2>3. Commit(Owner) => \A s \in Slots : Staged(u) \notin forms[Owner].media[s]
    BY <2>1, BusySave, <1>0 DEF Commit, Drafts
  <2>4. ~Elsewhere(Staged(u))'
    BY <1>1, <2>1, <2>2, <2>3, Confined
  <2> QED  BY <2>4
<1>5. ASSUME NEW s \in Slots, NEW k \in forms[Owner].media[s], forms[Owner].open, ~Commit(Owner)
      PROVE  k = Staged(k.file) /\ k \in stored' /\ ~Elsewhere(k)' /\ k.file \notin fresh
  <2>1. k = Staged(k.file) /\ k \in stored /\ ~Elsewhere(k)
    BY <1>5 DEF Drafts
  <2>2. k.file \notin fresh
    BY <1>5, <2>1 DEF Drafts
  <2>3. k \in Keys /\ Temporary(k)
    BY <2>1 DEF TypeOK, Staged, Temporary
  <2>4. ~Elsewhere(k)'
    BY <1>5, <2>1, <2>2, <2>3, Confined
  <2>5. k \in stored'
    <3>1. ASSUME NEW a \in Actors, Copy(a)
          PROVE  k \in stored'
      <4>1. PICK x \in saves[a].todo :
              stored' = (IF x[1] = "documents" /\ ~Retains(a, x[1]) THEN stored \ {x[2]} ELSE stored)
                          \cup {Permanent(x[2])}
        BY <3>1 DEF Copy
      <4>2. saves[a].busy /\ saves[a] \in Save /\ forms[a].open
        BY <3>1, BusySave DEF Copy
      <4>3. x[1] \in Slots /\ x[2] \in forms[a].media[x[1]]
        BY <4>1, <4>2 DEF SaveKeys, Save
      <4>4. ~Retains(a, x[1]) => a \in Editors
        BY DEF Retains, Actors
      <4>5. ~Retains(a, x[1]) => k # x[2]
        BY <2>1, <4>2, <4>3, <4>4 DEF Elsewhere
      <4> QED  BY <2>1, <4>1, <4>5
    <3>2. CASE Delete
      BY <2>1, <3>2 DEF Delete, Elsewhere
    <3>3. ASSUME NEW a \in Actors, Upload(a)
          PROVE  k \in stored'
      BY <2>1, <3>3 DEF Upload
    <3> QED
      BY <2>1, <3>1, <3>2, <3>3
      DEF Next, Load, Start, Discard, BeginSave, Refused, FallBack, Rollback, Commit,
          BeginRemoval, Remove, DeletionLost
  <2> QED  BY <2>1, <2>2, <2>4, <2>5
<1>6. CASE ~forms'[Owner].open
  BY <1>4, <1>6 DEF Drafts
<1>7. CASE (\A s \in Slots : forms'[Owner].media[s] = {}) /\ ~Commit(Owner)
  BY <1>4, <1>7 DEF Drafts
<1>8. CASE forms'[Owner] = forms[Owner] /\ ~Commit(Owner)
  <2>1. \A u \in fresh' : forms'[Owner].open => \A s \in Slots : Staged(u) \notin forms'[Owner].media[s]
    BY <1>2, <1>8 DEF Drafts
  <2>2. forms'[Owner].open => \A s \in Slots : \A k \in forms'[Owner].media[s] :
          k = Staged(k.file) /\ k \in stored' /\ ~Elsewhere(k)'
    BY <1>5, <1>8
  <2> QED  BY <1>4, <2>1, <2>2 DEF Drafts
<1>9. CASE Upload(Owner)
  <2>1. PICK u \in fresh, s \in SlotsOf(Owner) :
          /\ forms' = [forms EXCEPT ![Owner] =
               With(forms[Owner], s, forms[Owner].media[s] \cup {Staged(u)})]
          /\ stored' = stored \cup {Staged(u)}
          /\ fresh' = fresh \ {u}
    BY <1>9 DEF Upload
  <2>2. forms[Owner].open /\ ~Commit(Owner) /\ forms[Owner].media \in Media
    BY <1>0, <1>9, OpenForm DEF Upload, Commit, Form
  <2>3. s \in Slots
    BY <2>1, SlotsOfSlots
  <2>4. \A t \in Slots : forms'[Owner].media[t] \subseteq forms[Owner].media[t] \cup {Staged(u)}
    BY <1>0, <2>1, <2>2, <2>3 DEF With, Media, TypeOK
  <2>5. u \in Uploads /\ ~Elsewhere(Staged(u))
    BY DEF Drafts, TypeOK
  <2>6. ~Elsewhere(Staged(u))'
    <3>1. \A e \in Editors : forms'[e] = forms[e]
      BY <2>1, MediaAssumption DEF TypeOK, Actors
    <3> QED  BY <1>9, <2>5, <3>1 DEF Upload, Elsewhere
  <2>7. \A t \in Slots : \A k \in forms'[Owner].media[t] :
          k = Staged(k.file) /\ k \in stored' /\ ~Elsewhere(k)'
    <3> SUFFICES ASSUME NEW t \in Slots, NEW k \in forms'[Owner].media[t]
                 PROVE  k = Staged(k.file) /\ k \in stored' /\ ~Elsewhere(k)'
      OBVIOUS
    <3>1. CASE k = Staged(u)
      BY <1>1, <2>1, <2>5, <2>6, <3>1
    <3>2. CASE k \in forms[Owner].media[t]
      BY <1>5, <2>2, <3>2
    <3> QED  BY <2>4, <3>1, <3>2
  <2>8. \A v \in fresh', t \in Slots : Staged(v) \notin forms'[Owner].media[t]
    <3> SUFFICES ASSUME NEW v \in fresh', NEW t \in Slots
                 PROVE  Staged(v) \notin forms'[Owner].media[t]
      OBVIOUS
    <3>1. v \in fresh /\ v # u
      BY <2>1
    <3>2. Staged(v) # Staged(u)
      BY <3>1 DEF Staged
    <3>3. Staged(v) \notin forms[Owner].media[t]
      BY <2>2, <3>1 DEF Drafts
    <3> QED  BY <2>4, <3>2, <3>3
  <2> QED  BY <1>4, <2>7, <2>8 DEF Drafts
<1> QED  BY <1>3, <1>6, <1>7, <1>8, <1>9

\* As long as the owner's form is open, everything uploaded for it is in the
\* bucket and about to be deleted by nobody.
THEOREM OwnerRetries == Spec => []OwnerCanRetry
<1>1. Init => TypeOK /\ SaveKeys /\ Drafts
  BY DEF Init, TypeOK, SaveKeys, Drafts, Elsewhere, NotYet, NoMedia, Media, Idle, Closed, Actors
<1>2. TypeOK /\ SaveKeys /\ Drafts /\ [Next]_vars => (TypeOK /\ SaveKeys /\ Drafts)'
  BY TypesStay, SaveKeysStay, DraftsStay
<1>3. Drafts => OwnerCanRetry
  BY DEF Drafts, OwnerCanRetry, KeysOf, Elsewhere
<1> QED  BY <1>1, <1>2, <1>3, PTL DEF Spec

-----------------------------------------------------------------------------
(* What is shown is in the bucket *)

\* File u is among those of a section of a row, of a form, of the removal.
InRow(p, s, u) == \E k \in rows[p].media[s] : k.file = u
InForm(a, s, u) == forms[a].open /\ \E k \in forms[a].media[s] : k.file = u
InRemoval(u) == removal # Closed /\ \E k \in removal.keys : k.file = u
Holds(p, s, u) ==
  InRow(p, s, u) \/ \E a \in Actors : InForm(a, s, u) /\ forms[a].property = p

\* Somebody but a has file u.
Shared(a, u) ==
  \/ \E p \in Properties, s \in Slots : InRow(p, s, u)
  \/ \E b \in Actors \ {a}, s \in Slots : InForm(b, s, u)
  \/ InRemoval(u)

\* A file is in one section of one property, a fresh one in none, and one that
\* a removal will delete in no property but the removed one.
OnePlace ==
  /\ \A u \in Uploads, p, q \in Properties, s, t \in Slots :
       Holds(p, s, u) /\ Holds(q, t, u) => p = q /\ s = t
  /\ \A u \in Uploads, p \in Properties, s \in Slots :
       Holds(p, s, u) /\ InRemoval(u) => p = removal.of
  /\ \A u \in fresh :
       /\ \A p \in Properties, s \in Slots : ~Holds(p, s, u)
       /\ ~InRemoval(u)
       /\ \A k \in doomed : k.file # u

\* A section has a file under one key.
OneKey(ks) == \A k, l \in ks : k.file = l.file => k = l
OneKeys ==
  /\ \A p \in Properties, s \in Slots : OneKey(rows[p].media[s])
  /\ \A a \in Actors, s \in Slots : forms[a].open => OneKey(forms[a].media[s])

\* What a form has and was not loaded with has been uploaded for it, and
\* nobody else has it.
Draft(a, k) ==
  /\ Temporary(k)
  /\ ~Shared(a, k.file)
  /\ Permanent(k) \notin doomed
  /\ ~saves[a].busy => k \in stored \ doomed
FormFiles ==
  \A a \in Actors : forms[a].open =>
    /\ forms[a].version = 0 => \A s \in Slots : forms[a].seen[s] = {}
    /\ a = Owner => forms[a].version = 0
    /\ \A s \in Slots : \A k \in forms[a].media[s] : k \in forms[a].seen[s] \/ Draft(a, k)

\* What a save has done and has to do: every file under one key, all in the
\* bucket, and what the commit will delete is not among it.
Sound(a) ==
  /\ \A s \in Slots : OneKey(saves[a].result[s])
  /\ \A s \in Slots : \A k \in saves[a].result[s] : InForm(a, s, k.file) /\ k \in stored \ doomed
  /\ \A x \in saves[a].todo :
       /\ x[2] \in stored \ doomed
       /\ Temporary(x[2])
       /\ \A k \in saves[a].result[x[1]] : k.file # x[2].file
  /\ \A k \in saves[a].deferred :
       /\ Temporary(k)
       /\ \A s \in Slots : k \notin saves[a].result[s]
       /\ \A x \in saves[a].todo : x[2] # k
SaveFiles == \A a \in Actors : saves[a].busy => Sound(a)

\* The permanent key of what a property shows is not about to be deleted.
Spared ==
  \A p \in Properties, s \in Slots :
    rows[p].live => \A k \in rows[p].media[s] : Permanent(k) \notin doomed

Files == OnePlace /\ OneKeys /\ FormFiles /\ SaveFiles /\ Spared /\ MediaShown
Reachable == TypeOK /\ Seen /\ SaveKeys /\ Drafts

\* What a step takes away.
Gone(k) == (k \in doomed' /\ k \notin doomed) \/ (k \in stored \ doomed /\ k \notin stored')

LEMMA FileTypes ==
  /\ \A k \in Keys : k.file \in Uploads /\ Permanent(k).file = k.file /\ ~Temporary(Permanent(k))
  /\ \A k \in Keys : ~Temporary(k) => Permanent(k) = k
BY DEF Keys, Permanent, Temporary

LEMMA MediaKeys ==
  ASSUME TypeOK
  PROVE  /\ \A p \in Properties, s \in Slots : rows[p].media[s] \subseteq Keys
         /\ \A a \in Actors, s \in Slots : forms[a].open => forms[a].media[s] \subseteq Keys
         /\ \A a \in Actors : forms[a].open => forms[a].property \in Properties /\ forms[a].version \in Nat
         /\ \A a \in Actors, s \in Slots : saves[a].busy => saves[a].result[s] \subseteq Keys
<1>1. \A p \in Properties, s \in Slots : rows[p].media[s] \subseteq Keys
  BY DEF TypeOK, Media
<1>2. \A a \in Actors, s \in Slots : forms[a].open => forms[a].media[s] \subseteq Keys
  BY OpenForm DEF Form, Media
<1>3. \A a \in Actors : forms[a].open => forms[a].property \in Properties /\ forms[a].version \in Nat
  BY OpenForm DEF Form
<1>4. \A a \in Actors, s \in Slots : saves[a].busy => saves[a].result[s] \subseteq Keys
  BY BusySave DEF Save, Media
<1> QED  BY <1>1, <1>2, <1>3, <1>4

\* Nobody gets a file that was not in its place already.
LEMMA PlaceKept ==
  ASSUME TypeOK, OnePlace, fresh' \subseteq fresh,
         \A p \in Properties, s \in Slots, u \in Uploads : Holds(p, s, u)' => Holds(p, s, u),
         \A u \in Uploads : InRemoval(u)' =>
           \/ InRemoval(u) /\ removal'.of = removal.of
           \/ removal'.of \in Properties /\ \E s \in Slots : InRow(removal'.of, s, u),
         \A k \in doomed' :
           k \in doomed \/ InRemoval(k.file) \/ \E p \in Properties, s \in Slots : Holds(p, s, k.file)
  PROVE  OnePlace'
<1>0. fresh \subseteq Uploads
  BY DEF TypeOK
<1>1. \A u \in Uploads, p, q \in Properties, s, t \in Slots :
        Holds(p, s, u)' /\ Holds(q, t, u)' => p = q /\ s = t
  BY DEF OnePlace
<1>2. ASSUME NEW u \in Uploads, NEW p \in Properties, NEW s \in Slots, Holds(p, s, u)', InRemoval(u)'
      PROVE  p = removal'.of
  <2>1. Holds(p, s, u)
    BY <1>2
  <2>2. CASE InRemoval(u) /\ removal'.of = removal.of
    BY <2>1, <2>2 DEF OnePlace
  <2>3. ASSUME removal'.of \in Properties, NEW t \in Slots, InRow(removal'.of, t, u)
        PROVE  p = removal'.of
    <3>1. PICK q \in Properties : q = removal'.of
      BY <2>3
    <3>2. Holds(q, t, u)
      BY <2>3, <3>1 DEF Holds
    <3> QED  BY <2>1, <3>1, <3>2 DEF OnePlace
  <2> QED  BY <1>2, <2>2, <2>3
<1>3. ASSUME NEW u \in fresh'
      PROVE  /\ \A p \in Properties, s \in Slots : ~Holds(p, s, u)'
             /\ ~InRemoval(u)'
             /\ \A k \in doomed' : k.file # u
  <2>1. /\ u \in fresh /\ u \in Uploads
        /\ \A p \in Properties, s \in Slots : ~Holds(p, s, u)
        /\ ~InRemoval(u)
        /\ \A k \in doomed : k.file # u
    BY <1>0 DEF OnePlace
  <2>2. ~InRemoval(u)'
    BY <2>1 DEF Holds
  <2> QED  BY <2>1, <2>2
<1> QED  BY <1>1, <1>2, <1>3 DEF OnePlace

\* A draft stays one while nobody else gets its file.
LEMMA DraftKept ==
  ASSUME NEW b \in Actors, NEW k \in Keys, Draft(b, k),
         ~saves'[b].busy => ~saves[b].busy,
         Shared(b, k.file)' => Shared(b, k.file),
         \A l \in Keys : Gone(l) => l.file # k.file
  PROVE  Draft(b, k)'
<1>1. Permanent(k) \in Keys /\ Permanent(k).file = k.file
  BY FileTypes, KeyTypes
<1>2. ~Gone(k) /\ ~Gone(Permanent(k))
  BY <1>1
<1> QED  BY <1>2 DEF Draft, Gone

\* So does a save while nothing of its form is taken away.
LEMMA SoundKept ==
  ASSUME TypeOK, SaveKeys, NEW b \in Actors, saves[b].busy, Sound(b),
         saves'[b] = saves[b], forms'[b] = forms[b],
         \A l \in Keys, s \in Slots : InForm(b, s, l.file) => ~Gone(l)
  PROVE  Sound(b)'
<1>1. saves[b] \in Save /\ forms[b].open
  BY BusySave
<1>2. \A s \in Slots : \A u : InForm(b, s, u)' <=> InForm(b, s, u)
  BY DEF InForm
<1>3. ASSUME NEW s \in Slots, NEW k \in saves[b].result[s]
      PROVE  InForm(b, s, k.file)' /\ k \in stored' \ doomed'
  <2>1. k \in Keys /\ InForm(b, s, k.file) /\ k \in stored \ doomed
    BY MediaKeys DEF Sound
  <2> QED  BY <1>2, <2>1 DEF Gone
<1>4. ASSUME NEW x \in saves[b].todo
      PROVE  x[2] \in stored' \ doomed'
  <2>1. x[1] \in Slots /\ x[2] \in Keys /\ x[2] \in stored \ doomed
    BY <1>1 DEF Sound, Save
  <2>2. InForm(b, x[1], x[2].file)
    BY <1>1 DEF SaveKeys, InForm
  <2> QED  BY <2>1, <2>2 DEF Gone
<1>5. \A s \in Slots : \A k \in saves'[b].result[s] : InForm(b, s, k.file)' /\ k \in stored' \ doomed'
  BY <1>3
<1> QED  BY <1>4, <1>5 DEF Sound

\* A form of the row's version has what the row has and its own drafts.
LEMMA CurrentFiles ==
  ASSUME TypeOK, Seen, FormFiles, NEW a \in Actors, forms[a].open, Current(forms[a]),
         NEW s \in Slots, NEW k \in forms[a].media[s]
  PROVE  \/ rows[forms[a].property].live /\ k \in rows[forms[a].property].media[s]
         \/ Draft(a, k)
<1>1. forms[a].version \in Nat
  BY MediaKeys
<1>2. CASE forms[a].version = 0
  BY <1>2 DEF FormFiles
<1>3. CASE forms[a].version > 0
  BY <1>3 DEF FormFiles, Seen, Current
<1> QED  BY <1>1, <1>2, <1>3

-----------------------------------------------------------------------------
\* Forms are opened, closed or shortened, a removal reads what it will delete,
\* and objects that were about to be deleted are or are not.
Reads ==
  /\ rows' = rows /\ saves' = saves /\ fresh' = fresh
  /\ doomed' \subseteq doomed /\ stored \ doomed \subseteq stored'
  /\ \A a \in Actors : saves[a].busy => forms'[a] = forms[a]
  /\ \A a \in Actors : forms'[a].open =>
       \/ /\ forms[a].open /\ forms'[a].property = forms[a].property
          /\ forms'[a].version = forms[a].version /\ forms'[a].seen = forms[a].seen
          /\ \A s \in Slots : forms'[a].media[s] \subseteq forms[a].media[s]
       \/ /\ forms'[a].property \in Properties
          /\ \A s \in Slots : /\ forms'[a].media[s] = rows[forms'[a].property].media[s]
                              /\ forms'[a].seen[s] = forms'[a].media[s]
                              /\ forms'[a].version = 0 => forms'[a].seen[s] = {}
          /\ a = Owner => forms'[a].version = 0
  /\ \/ removal' = removal
     \/ /\ removal'.of \in Properties
        /\ \A k \in removal'.keys : \E s \in Slots : k \in rows[removal'.of].media[s]

LEMMA ReadsFiles ==
  ASSUME Reachable, Files, Reads
  PROVE  Files'
<1> USE DEF Reachable, Files
<1>1. \A p, s, u : InRow(p, s, u)' <=> InRow(p, s, u)
  BY DEF Reads, InRow
<1>2. ASSUME NEW a \in Actors, NEW s \in Slots, NEW u, InForm(a, s, u)'
      PROVE  \/ InForm(a, s, u) /\ forms'[a].property = forms[a].property
             \/ forms'[a].property \in Properties /\ InRow(forms'[a].property, s, u)
  BY <1>2 DEF Reads, InForm, InRow
<1>3. ASSUME NEW u, InRemoval(u)'
      PROVE  \/ InRemoval(u) /\ removal'.of = removal.of
             \/ removal'.of \in Properties /\ \E s \in Slots : InRow(removal'.of, s, u)
  BY <1>3 DEF Reads, InRemoval, InRow
<1>4. \A p \in Properties, s \in Slots, u \in Uploads : Holds(p, s, u)' => Holds(p, s, u)
  BY <1>1, <1>2 DEF Holds
<1>5. \A l : ~Gone(l)
  BY DEF Reads, Gone
<1>6. OnePlace'
  BY <1>3, <1>4, PlaceKept DEF Reads
<1>7. OneKeys'
  BY DEF Reads, OneKeys, OneKey
<1>8. ASSUME NEW a \in Actors, NEW u, Shared(a, u)'
      PROVE  Shared(a, u)
  BY <1>1, <1>2, <1>3, <1>8 DEF Shared
<1>9. FormFiles'
  <2> SUFFICES ASSUME NEW a \in Actors, forms'[a].open
               PROVE  /\ forms'[a].version = 0 => \A s \in Slots : forms'[a].seen[s] = {}
                      /\ a = Owner => forms'[a].version = 0
                      /\ \A s \in Slots : \A k \in forms'[a].media[s] : k \in forms'[a].seen[s] \/ Draft(a, k)'
    BY DEF FormFiles
  <2>1. CASE /\ forms[a].open /\ forms'[a].property = forms[a].property
             /\ forms'[a].version = forms[a].version /\ forms'[a].seen = forms[a].seen
             /\ \A s \in Slots : forms'[a].media[s] \subseteq forms[a].media[s]
    <3>1. ASSUME NEW s \in Slots, NEW k \in forms[a].media[s], Draft(a, k)
          PROVE  Draft(a, k)'
      <4>1. k \in Keys /\ saves' = saves
        BY <2>1, MediaKeys DEF Reads
      <4> QED  BY <1>5, <1>8, <3>1, <4>1, DraftKept
    <3> QED  BY <2>1, <3>1 DEF FormFiles
  <2>2. CASE ~ (/\ forms[a].open /\ forms'[a].property = forms[a].property
                /\ forms'[a].version = forms[a].version /\ forms'[a].seen = forms[a].seen
                /\ \A s \in Slots : forms'[a].media[s] \subseteq forms[a].media[s])
    BY <2>2 DEF Reads
  <2> QED  BY <2>1, <2>2
<1>10. SaveFiles'
  <2> SUFFICES ASSUME NEW b \in Actors, saves[b].busy
               PROVE  Sound(b)'
    BY DEF SaveFiles, Reads
  <2> QED  BY <1>5, SoundKept DEF Reads, SaveFiles
<1>11. Spared'
  BY DEF Reads, Spared
<1>12. MediaShown'
  <2>1. \A a \in Actors : saves[a].busy => forms'[a] = forms[a]
    BY DEF Reads
  <2>2. \A p \in Properties : Saving(p) => Saving(p)'
    BY <2>1 DEF Reads, Saving
  <2>3. \A l : l \in stored \ doomed => l \in stored' \ doomed'
    BY DEF Reads
  <2> QED  BY <2>2, <2>3 DEF Reads, MediaShown, KeysOf
<1> QED  BY <1>6, <1>7, <1>9, <1>10, <1>11, <1>12

LEMMA FormSteps ==
  ASSUME Reachable, NEW a \in Actors, Load(a) \/ Start(a) \/ Discard(a) \/ Refused(a)
  PROVE  Reads
<1>1. UNCHANGED <<stored, doomed, rows, saves, removal, fresh>>
  BY DEF Load, Start, Discard, Refused
<1>2. ~saves[a].busy
  BY DEF Load, Start, Discard, Refused, Reachable, TypeOK
<1>3. \A b \in Actors \ {a} : forms'[b] = forms[b]
  BY DEF Load, Start, Discard, Refused, Reachable, TypeOK
<1>4. forms'[a].open =>
       \/ /\ forms[a].open /\ forms'[a].property = forms[a].property
          /\ forms'[a].version = forms[a].version /\ forms'[a].seen = forms[a].seen
          /\ \A s \in Slots : forms'[a].media[s] \subseteq forms[a].media[s]
       \/ /\ forms'[a].property \in Properties
          /\ \A s \in Slots : /\ forms'[a].media[s] = rows[forms'[a].property].media[s]
                              /\ forms'[a].seen[s] = forms'[a].media[s]
                              /\ forms'[a].version = 0 => forms'[a].seen[s] = {}
          /\ a = Owner => forms'[a].version = 0
  <2>1. CASE Load(a)
    <3>1. PICK p \in Properties :
            /\ rows[p].live
            /\ forms'[a] = [open |-> TRUE, property |-> p, version |-> rows[p].version,
                            seen |-> rows[p].media, media |-> rows[p].media]
      BY <2>1 DEF Load, Reachable, TypeOK
    <3>2. a # Owner /\ rows[p].version # 0
      BY <2>1, <3>1, MediaAssumption DEF Load, Reachable, Seen
    <3> QED  BY <3>1, <3>2
  <2>2. CASE Start(a)
    <3>1. PICK p \in Properties :
            /\ rows[p] = NotYet
            /\ forms'[a] = [open |-> TRUE, property |-> p, version |-> 0,
                            seen |-> NoMedia, media |-> NoMedia]
      BY <2>2 DEF Start, Reachable, TypeOK
    <3> QED  BY <3>1 DEF NotYet, NoMedia
  <2>3. CASE Discard(a)
    <3>1. PICK s \in Slots, k \in UNION {forms[a].media[t] : t \in Slots} :
            forms' = [forms EXCEPT ![a] = With(forms[a], s, forms[a].media[s] \ {k})]
      BY <2>3 DEF Discard
    <3>2. forms'[a] = With(forms[a], s, forms[a].media[s] \ {k})
      BY <3>1 DEF Reachable, TypeOK
    <3>3. forms[a].media \in Media /\ forms[a].open
      BY <2>3, OpenForm DEF Discard, Form, Reachable
    <3> QED  BY <3>2, <3>3 DEF With, Media
  <2>4. CASE Refused(a)
    BY <2>4 DEF Refused, Closed, Reachable, TypeOK
  <2> QED  BY <2>1, <2>2, <2>3, <2>4
<1> QED  BY <1>1, <1>2, <1>3, <1>4 DEF Reads

LEMMA OtherReads ==
  ASSUME Reachable, BeginRemoval \/ Delete \/ DeletionLost \/ UNCHANGED vars
  PROVE  Reads
<1>1. CASE BeginRemoval
  <2>1. PICK p \in Properties :
          removal' = [of |-> p, keys |-> UNION {rows[p].media[s] : s \in Slots \ {"plans"}}]
    BY <1>1 DEF BeginRemoval
  <2>2. removal'.of = p /\ \A k \in removal'.keys : \E s \in Slots : k \in rows[p].media[s]
    BY <2>1
  <2> QED  BY <1>1, <2>2 DEF BeginRemoval, Reads
<1>2. CASE Delete
  BY <1>2 DEF Delete, Reads
<1>3. CASE DeletionLost
  BY <1>3 DEF DeletionLost, Reads
<1>4. CASE UNCHANGED vars
  BY <1>4 DEF vars, Reads
<1> QED  BY <1>1, <1>2, <1>3, <1>4

\* An upload gives a fresh file to one form.
LEMMA UploadFiles ==
  ASSUME Reachable, Files, NEW a \in Actors, Upload(a)
  PROVE  Files'
<1> USE DEF Reachable, Files
<1>1. PICK u \in fresh, s \in SlotsOf(a) :
        /\ forms' = [forms EXCEPT ![a] = With(forms[a], s, forms[a].media[s] \cup {Staged(u)})]
        /\ stored' = stored \cup {Staged(u)}
        /\ fresh' = fresh \ {u}
  BY DEF Upload
<1>2. UNCHANGED <<doomed, rows, saves, removal>> /\ forms[a].open /\ ~saves[a].busy
  BY DEF Upload
<1> DEFINE new == Staged(u)
           p == forms[a].property
<1>3. /\ s \in Slots /\ u \in Uploads /\ new \in Keys /\ new.file = u /\ Temporary(new)
      /\ p \in Properties /\ forms[a].media \in Media
  BY <1>2, SlotsOfSlots, OpenForm, MediaKeys, KeyTypes DEF TypeOK, Staged, Temporary, Form
<1>4. /\ forms'[a].open /\ forms'[a].property = p /\ forms'[a].version = forms[a].version
      /\ forms'[a].seen = forms[a].seen
      /\ \A t \in Slots : forms'[a].media[t] = IF t = s THEN forms[a].media[t] \cup {new} ELSE forms[a].media[t]
      /\ \A b \in Actors \ {a} : forms'[b] = forms[b]
  BY <1>1, <1>3 DEF With, Media, TypeOK
<1> HIDE DEF new
<1>5. /\ \A q \in Properties, t \in Slots : ~Holds(q, t, u)
      /\ ~InRemoval(u) /\ \A k \in doomed : k.file # u
  BY DEF OnePlace
<1>6. /\ \A q, t, v : InRow(q, t, v)' <=> InRow(q, t, v)
      /\ \A v : InRemoval(v)' <=> InRemoval(v)
      /\ \A b \in Actors, t \in Slots : \A v : InForm(b, t, v)' <=> InForm(b, t, v) \/ (b = a /\ t = s /\ v = u)
  BY <1>2, <1>3, <1>4 DEF InRow, InRemoval, InForm
<1>7. \A q \in Properties, t \in Slots : \A v : Holds(q, t, v)' <=> Holds(q, t, v) \/ (q = p /\ t = s /\ v = u)
  BY <1>2, <1>4, <1>6 DEF Holds
<1>8. OnePlace'
  BY <1>1, <1>2, <1>5, <1>6, <1>7 DEF OnePlace
<1>9. OneKeys'
  <2>1. ASSUME NEW t \in Slots
        PROVE  OneKey(forms'[a].media[t])
    <3>1. OneKey(forms[a].media[t])
      BY <1>2 DEF OneKeys
    <3>2. \A k \in forms[a].media[t] : k.file # u
      BY <1>2, <1>3, <1>5 DEF Holds, InForm
    <3>3. CASE t = s
      <4>1. \A k \in forms'[a].media[t] : k \in forms[a].media[t] \/ k = new
        BY <1>4, <3>3
      <4> QED  BY <1>3, <3>1, <3>2, <4>1 DEF OneKey
    <3>4. CASE t # s
      BY <1>4, <3>1, <3>4
    <3> QED  BY <3>3, <3>4
  <2> QED  BY <1>2, <1>4, <2>1 DEF OneKeys
<1>10. \A b \in Actors : \A v : Shared(b, v)' => Shared(b, v) \/ (b # a /\ v = u)
  BY <1>6 DEF Shared
<1>11. ~Shared(a, u)
  BY <1>5, MediaKeys DEF Shared, Holds, InForm
<1>12. \A l : ~Gone(l)
  BY <1>1, <1>2 DEF Gone
<1>13. ASSUME NEW b \in Actors, NEW t \in Slots, NEW k \in forms[b].media[t], forms[b].open, Draft(b, k)
       PROVE  Draft(b, k)'
  <2>1. k \in Keys /\ k.file # u
    <3>1. InForm(b, t, k.file) /\ k \in Keys
      BY <1>13, MediaKeys DEF InForm
    <3> QED  BY <1>5, <1>13, <3>1, MediaKeys DEF Holds
  <2> QED  BY <1>2, <1>10, <1>12, <1>13, <2>1, DraftKept
<1>14. Draft(a, new)'
  <2>1. Permanent(new) \notin doomed /\ new \notin doomed
    BY <1>3, <1>5, FileTypes
  <2>2. new \in stored'
    BY <1>1 DEF new
  <2> QED  BY <1>2, <1>3, <1>10, <1>11, <2>1, <2>2 DEF Draft
<1>15. FormFiles'
  <2> SUFFICES ASSUME NEW b \in Actors, forms'[b].open
               PROVE  /\ forms'[b].version = 0 => \A t \in Slots : forms'[b].seen[t] = {}
                      /\ b = Owner => forms'[b].version = 0
                      /\ \A t \in Slots : \A k \in forms'[b].media[t] : k \in forms'[b].seen[t] \/ Draft(b, k)'
    BY DEF FormFiles
  <2>1. CASE b = a
    <3>1. /\ forms[a].version = 0 => \A t \in Slots : forms[a].seen[t] = {}
          /\ a = Owner => forms[a].version = 0
          /\ \A t \in Slots : \A k \in forms[a].media[t] : k \in forms[a].seen[t] \/ Draft(a, k)
      BY <1>2 DEF FormFiles
    <3>2. ASSUME NEW t \in Slots, NEW k \in forms'[a].media[t]
          PROVE  k \in forms'[a].seen[t] \/ Draft(a, k)'
      <4>1. CASE k = new
        BY <1>14, <4>1
      <4>2. CASE k \in forms[a].media[t]
        BY <1>2, <1>4, <1>13, <3>1, <4>2
      <4> QED  BY <1>4, <4>1, <4>2
    <3> QED  BY <1>4, <2>1, <3>1, <3>2
  <2>2. CASE b # a
    BY <1>4, <1>13, <2>2 DEF FormFiles
  <2> QED  BY <2>1, <2>2
<1>16. SaveFiles'
  <2> SUFFICES ASSUME NEW b \in Actors, saves[b].busy
               PROVE  Sound(b)'
    BY <1>2 DEF SaveFiles
  <2>1. forms'[b] = forms[b] /\ saves'[b] = saves[b]
    BY <1>2, <1>4
  <2> QED  BY <1>12, <2>1, SoundKept DEF SaveFiles
<1>17. Spared'
  BY <1>2 DEF Spared
<1>18. MediaShown'
  <2>1. \A q \in Properties : Saving(q) => Saving(q)'
    BY <1>2, <1>4 DEF Saving
  <2> QED  BY <1>1, <1>2, <2>1 DEF MediaShown
<1> QED  BY <1>8, <1>9, <1>15, <1>16, <1>17, <1>18

-----------------------------------------------------------------------------
\* Steps of a's save that leave the rows and all forms as they were, and take
\* away at most one file of the form, which its rows then do without.
SaveStep(a) ==
  /\ rows' = rows /\ forms' = forms /\ removal' = removal /\ fresh' = fresh
  /\ forms[a].open
  /\ \A b \in Actors \ {a} : saves'[b] = saves[b]
  /\ \A k \in doomed' : k \in doomed \/ \E s \in Slots : InForm(a, s, k.file)
  /\ \A k \in Keys : Gone(k) => Temporary(k) /\ \E s \in Slots : InForm(a, s, k.file)

LEMMA SaveStepFiles ==
  ASSUME Reachable, Files, NEW a \in Actors, SaveStep(a),
         saves[a].busy \/ saves'[a].busy,
         \A k : Gone(k) => saves[a].busy /\ saves'[a].busy,
         saves'[a].busy => Sound(a)',
         ~saves'[a].busy => /\ \A s \in Slots : forms[a].media[s] \subseteq stored' \ doomed'
                            /\ ~rows[forms[a].property].live
  PROVE  Files'
<1> USE DEF Reachable, Files
<1> DEFINE p == forms[a].property
<1>1. /\ \A q, t, v : InRow(q, t, v)' <=> InRow(q, t, v)
      /\ \A v : InRemoval(v)' <=> InRemoval(v)
      /\ \A b, t, v : InForm(b, t, v)' <=> InForm(b, t, v)
  BY DEF SaveStep, InRow, InRemoval, InForm
<1>2. /\ \A q, t, v : Holds(q, t, v)' <=> Holds(q, t, v)
      /\ \A b, v : Shared(b, v)' <=> Shared(b, v)
  BY <1>1 DEF Holds, Shared, SaveStep
<1>3. p \in Properties
  BY MediaKeys DEF SaveStep
<1>4. \A v, s : InForm(a, s, v) => Holds(p, s, v)
  BY DEF Holds
<1>5. OnePlace'
  <2>1. \A k \in doomed' : k \in doomed \/ \E q \in Properties, s \in Slots : Holds(q, s, k.file)
    BY <1>3, <1>4 DEF SaveStep
  <2> QED  BY <1>1, <1>2, <2>1, PlaceKept DEF SaveStep
<1>6. OneKeys'
  BY DEF SaveStep, OneKeys
<1>7. \A l \in Keys, q \in Properties, t \in Slots : Gone(l) /\ Holds(q, t, l.file) => q = p
  BY <1>3, <1>4, FileTypes DEF SaveStep, OnePlace
<1>8. ASSUME NEW b \in Actors, forms[b].open, NEW s \in Slots, NEW k \in forms[b].media[s], Draft(b, k)
      PROVE  Draft(b, k)'
  <2>0. k \in Keys
    BY <1>8, MediaKeys
  <2>1. CASE b = a
    <3>1. Permanent(k) \notin doomed'
      <4>1. Permanent(k) \in Keys /\ ~Temporary(Permanent(k))
        BY <2>0, FileTypes, KeyTypes
      <4> QED  BY <1>8, <4>1 DEF SaveStep, Gone, Draft
    <3> QED  BY <1>2, <1>8, <2>1, <3>1 DEF Draft
  <2>2. CASE b # a
    <3>1. \A l \in Keys : Gone(l) => l.file # k.file
      BY <1>8, <2>2 DEF SaveStep, Draft, Shared
    <3> QED  BY <1>2, <1>8, <2>0, <2>2, <3>1, DraftKept DEF SaveStep
  <2> QED  BY <2>1, <2>2
<1>9. FormFiles'
  BY <1>8 DEF SaveStep, FormFiles
<1>10. SaveFiles'
  <2> SUFFICES ASSUME NEW b \in Actors, saves'[b].busy
               PROVE  Sound(b)'
    BY DEF SaveFiles
  <2>1. CASE b # a
    <3>1. saves'[b] = saves[b] /\ forms'[b] = forms[b] /\ saves[b].busy /\ Sound(b)
      BY <2>1 DEF SaveStep, SaveFiles
    <3>2. forms[b].open /\ forms[b].property \in Properties
      BY <3>1, BusySave, MediaKeys
    <3>3. \A l \in Keys, s \in Slots : InForm(b, s, l.file) => ~Gone(l)
      <4> SUFFICES ASSUME NEW l \in Keys, NEW s \in Slots, InForm(b, s, l.file), Gone(l)
                   PROVE  FALSE
        OBVIOUS
      <4>1. forms[b].property = p
        BY <1>7, <3>2 DEF Holds
      <4>2. saves[a].busy
        OBVIOUS
      <4> QED  BY <2>1, <3>1, <4>1, <4>2 DEF Seen
    <3> QED  BY <3>1, <3>3, SoundKept
  <2> QED  BY <2>1
<1>11. Spared'
  <2> SUFFICES ASSUME NEW q \in Properties, NEW s \in Slots, rows[q].live, NEW k \in rows[q].media[s]
               PROVE  Permanent(k) \notin doomed'
    BY DEF Spared, SaveStep
  <2>1. Permanent(k) \in Keys /\ ~Temporary(Permanent(k)) /\ Permanent(k) \notin doomed
    BY MediaKeys, FileTypes, KeyTypes DEF Spared
  <2> QED  BY <2>1 DEF SaveStep, Gone
<1>12. MediaShown'
  <2> SUFFICES ASSUME NEW q \in Properties, rows[q].live, ~Saving(q)', NEW s \in Slots,
                      NEW k \in rows[q].media[s]
               PROVE  k \in stored' \ doomed'
    BY DEF SaveStep, MediaShown, KeysOf
  <2>1. ASSUME Saving(q)
        PROVE  FALSE
    <3>1. q = p /\ ~saves'[a].busy
      BY <2>1 DEF Saving, SaveStep
    <3> QED  BY <3>1
  <2>2. k \in stored \ doomed /\ k \in Keys
    BY <2>1, MediaKeys DEF MediaShown, KeysOf
  <2>3. ~Gone(k)
    <3>1. Holds(q, s, k.file)
      BY DEF Holds, InRow
    <3>2. Gone(k) => saves[a].busy /\ q = p
      BY <1>7, <2>2, <3>1
    <3> QED  BY <2>1, <3>2 DEF Saving
  <2> QED  BY <2>2, <2>3 DEF Gone
<1> QED  BY <1>5, <1>6, <1>9, <1>10, <1>11, <1>12

\* Everything in a form that may be saved is in the bucket when the save begins.
LEMMA BeginSaveFiles ==
  ASSUME Reachable, Files, NEW a \in Actors, BeginSave(a)
  PROVE  Files'
<1> USE DEF Reachable, Files
<1>1. PICK sent \in SUBSET Slots :
        saves' = [saves EXCEPT ![a] =
          [busy |-> TRUE, sent |-> sent, todo |-> ToCopy(forms[a], sent), deferred |-> {},
           result |-> [s \in Slots |->
             {k \in forms[a].media[s] : <<s, k>> \notin ToCopy(forms[a], sent)}]]]
  BY DEF BeginSave
<1> DEFINE todo == ToCopy(forms[a], sent)
<1>2. /\ saves'[a].busy /\ saves'[a].todo = todo /\ saves'[a].deferred = {}
      /\ \A s \in Slots : saves'[a].result[s] = {k \in forms[a].media[s] : <<s, k>> \notin todo}
      /\ \A b \in Actors \ {a} : saves'[b] = saves[b]
  BY <1>1 DEF TypeOK
<1>3. /\ UNCHANGED <<stored, doomed, rows, forms, removal, fresh>>
      /\ forms[a].open /\ ~saves[a].busy /\ Current(forms[a]) /\ ~Saving(forms[a].property)
  BY DEF BeginSave
<1>4. SaveStep(a) /\ \A k : ~Gone(k)
  BY <1>2, <1>3 DEF SaveStep, Gone
<1>5. ASSUME NEW s \in Slots, NEW k \in forms[a].media[s]
      PROVE  k \in stored \ doomed
  <2>1. CASE rows[forms[a].property].live /\ k \in rows[forms[a].property].media[s]
    BY <1>3, <2>1, MediaKeys DEF MediaShown, KeysOf
  <2>2. CASE Draft(a, k)
    BY <1>3, <2>2 DEF Draft
  <2> QED  BY <1>3, <2>1, <2>2, CurrentFiles
<1>6. \A x \in todo : x = <<x[1], x[2]>> /\ x[1] \in Slots /\ x[2] \in forms[a].media[x[1]] /\ Temporary(x[2])
  BY DEF ToCopy
<1>7. \A s \in Slots : OneKey(forms[a].media[s])
  BY <1>3 DEF OneKeys
<1> HIDE DEF todo
<1>8. Sound(a)'
  <2>1. \A s \in Slots : OneKey(saves'[a].result[s])
    BY <1>2, <1>7 DEF OneKey
  <2>2. \A s \in Slots : \A k \in saves'[a].result[s] : InForm(a, s, k.file)' /\ k \in stored' \ doomed'
    BY <1>2, <1>3, <1>5 DEF InForm
  <2>3. ASSUME NEW x \in todo
        PROVE  /\ x[2] \in stored' \ doomed'
               /\ Temporary(x[2])
               /\ \A k \in saves'[a].result[x[1]] : k.file # x[2].file
    <3>0. x = <<x[1], x[2]>> /\ x[1] \in Slots /\ x[2] \in forms[a].media[x[1]] /\ x[2] \in Keys
      BY <1>3, <1>6, MediaKeys
    <3>1. PICK s \in Slots, l \in Keys : s = x[1] /\ l = x[2] /\ <<s, l>> \in todo /\ l \in forms[a].media[s]
      BY <3>0
    <3>2. \A k \in saves'[a].result[s] : k \in forms[a].media[s] /\ <<s, k>> \notin todo
      BY <1>2
    <3>3. \A k \in saves'[a].result[s] : k # l
      BY <3>1, <3>2
    <3>4. \A k \in saves'[a].result[s] : k.file # l.file
      BY <1>7, <3>1, <3>2, <3>3 DEF OneKey
    <3> QED  BY <1>3, <1>5, <1>6, <3>1, <3>4
  <2> QED  BY <1>2, <2>1, <2>2, <2>3 DEF Sound
<1> QED  BY <1>2, <1>4, <1>8, SaveStepFiles

\* A file is done: the rows will have it under key k, which is in the bucket.
LEMMA DoneSound ==
  ASSUME Reachable, Files, NEW a \in Actors, saves[a].busy, NEW x \in saves[a].todo, NEW k, NEW also,
         saves' = [saves EXCEPT ![a] = Done(saves[a], x, k, also)], forms' = forms,
         \/ k = Permanent(x[2]) /\ also \subseteq {x[2]}
         \/ k = x[2] /\ also = {},
         k \in stored' \ doomed', \A l : Gone(l) => l = x[2]
  PROVE  Sound(a)' /\ saves'[a].busy
<1> USE DEF Reachable, Files
<1> DEFINE s == x[1]
           f == x[2].file
<1>0. /\ saves[a] \in Save /\ forms[a].open /\ Sound(a)
      /\ \A y \in saves[a].todo :
           /\ y[1] \in Slots /\ y[2] \in Keys /\ y = <<y[1], y[2]>>
           /\ y[2] \in forms[a].media[y[1]]
  <2>1. saves[a] \in Save /\ forms[a].open /\ Sound(a)
    BY BusySave DEF SaveFiles
  <2>2. saves[a].todo \subseteq Slots \X Keys
    BY <2>1 DEF Save
  <2>3. \A y \in saves[a].todo : y[2] \in forms[a].media[y[1]]
    BY DEF SaveKeys
  <2> QED  BY <2>1, <2>2, <2>3
<1>1. /\ saves[a] \in Save /\ forms[a].open /\ Sound(a)
      /\ s \in Slots /\ x[2] \in Keys /\ x = <<s, x[2]>> /\ x[2] \in forms[a].media[s]
  BY <1>0
<1>2. k \in Keys /\ k.file = f
  BY <1>1, FileTypes, KeyTypes
<1>3. InForm(a, s, f) /\ forms[a].property \in Properties /\ f \in Uploads
  BY <1>1, MediaKeys, FileTypes DEF InForm
<1>4. \A t \in Slots : InForm(a, t, f) => t = s
  <2>1. PICK q \in Properties : q = forms[a].property
    BY <1>3
  <2>2. \A t \in Slots : InForm(a, t, f) => Holds(q, t, f)
    BY <2>1 DEF Holds
  <2> QED  BY <1>1, <1>3, <2>2 DEF OnePlace
<1>5. /\ saves'[a] = Done(saves[a], x, k, also)
      /\ saves'[a].busy /\ saves'[a].todo = saves[a].todo \ {x}
      /\ saves'[a].deferred = saves[a].deferred \cup also
  BY DEF TypeOK, Done
<1>6. \A t \in Slots : \A l \in saves'[a].result[t] : l \in saves[a].result[t] \/ (t = s /\ l = k)
  <2>1. PICK v \in Save : v = saves[a]
    BY <1>1
  <2>2. \A t \in Slots : Done(v, x, k, also).result[t]
                         = IF t = x[1] THEN v.result[t] \cup {k} ELSE v.result[t]
    BY <2>1, DoneResult
  <2>3. saves'[a] = Done(v, x, k, also)
    BY <1>5, <2>1
  <2>4. \A t \in Slots : saves'[a].result[t] = IF t = s THEN saves[a].result[t] \cup {k} ELSE saves[a].result[t]
    BY <2>1, <2>2, <2>3
  <2> SUFFICES ASSUME NEW t \in Slots, NEW l \in saves'[a].result[t]
               PROVE  l \in saves[a].result[t] \/ (t = s /\ l = k)
    OBVIOUS
  <2>5. CASE t = s
    <3>1. l \in saves[a].result[t] \cup {k}
      BY <2>4, <2>5
    <3> QED  BY <2>5, <3>1
  <2>6. CASE t # s
    BY <2>4, <2>6
  <2> QED  BY <2>5, <2>6
<1>7. \A t \in Slots : \A u : InForm(a, t, u)' <=> InForm(a, t, u)
  BY DEF InForm
<1>8. ASSUME NEW t \in Slots, NEW l \in saves[a].result[t]
      PROVE  l.file # f /\ InForm(a, t, l.file) /\ l \in stored' \ doomed'
  <2>1. InForm(a, t, l.file) /\ l \in stored \ doomed
    BY <1>1 DEF Sound
  <2>2. t = s => l.file # f
    BY <1>1 DEF Sound
  <2>3. l.file # f
    BY <1>4, <2>1, <2>2
  <2> QED  BY <2>1, <2>3 DEF Gone
<1>9. ASSUME NEW y \in saves'[a].todo
      PROVE  /\ y \in saves[a].todo /\ y[1] \in Slots /\ y[2].file # f
             /\ y[2] \in stored' \ doomed' /\ Temporary(y[2])
  <2>1. /\ y \in saves[a].todo /\ y # x /\ y = <<y[1], y[2]>> /\ y[1] \in Slots
        /\ y[2] \in forms[a].media[y[1]] /\ y[2] \in stored \ doomed /\ Temporary(y[2])
    BY <1>0, <1>5 DEF Sound
  <2>2. y[2].file # f
    <3> SUFFICES ASSUME y[2].file = f
                 PROVE  FALSE
      OBVIOUS
    <3>1. y[1] = s
      BY <1>1, <1>4, <2>1 DEF InForm
    <3>2. OneKey(forms[a].media[s])
      BY <1>1 DEF OneKeys
    <3>3. y[2] = x[2]
      BY <1>1, <2>1, <3>1, <3>2 DEF OneKey
    <3> QED  BY <1>1, <2>1, <3>1, <3>3
  <2> QED  BY <2>1, <2>2 DEF Gone
<1> HIDE DEF s, f
<1>10. \A t \in Slots : OneKey(saves'[a].result[t])
  <2> SUFFICES ASSUME NEW t \in Slots, NEW l \in saves'[a].result[t], NEW m \in saves'[a].result[t],
                      l.file = m.file
               PROVE  l = m
    BY DEF OneKey
  <2>1. CASE l \in saves[a].result[t] /\ m \in saves[a].result[t]
    BY <1>1, <2>1 DEF OneKey, Sound
  <2>2. CASE l = k \/ m = k
    BY <1>2, <1>6, <1>8, <2>2
  <2> QED  BY <1>6, <2>1, <2>2
<1>11. \A t \in Slots : \A l \in saves'[a].result[t] : InForm(a, t, l.file)' /\ l \in stored' \ doomed'
  <2> SUFFICES ASSUME NEW t \in Slots, NEW l \in saves'[a].result[t]
               PROVE  InForm(a, t, l.file)' /\ l \in stored' \ doomed'
    OBVIOUS
  <2>1. CASE l \in saves[a].result[t]
    BY <1>7, <1>8, <2>1
  <2>2. CASE t = s /\ l = k
    BY <1>2, <1>3, <1>7, <2>2
  <2> QED  BY <1>6, <2>1, <2>2
<1>12. \A y \in saves'[a].todo : \A l \in saves'[a].result[y[1]] : l.file # y[2].file
  <2> SUFFICES ASSUME NEW y \in saves'[a].todo, NEW l \in saves'[a].result[y[1]]
               PROVE  l.file # y[2].file
    OBVIOUS
  <2>1. CASE l = k
    BY <1>2, <1>9, <2>1
  <2>2. CASE l \in saves[a].result[y[1]]
    BY <1>1, <1>9, <2>2 DEF Sound
  <2> QED  BY <1>6, <1>9, <2>1, <2>2
<1>13. ASSUME NEW l \in saves'[a].deferred
       PROVE  /\ Temporary(l)
              /\ \A t \in Slots : l \notin saves'[a].result[t]
              /\ \A y \in saves'[a].todo : y[2] # l
  <2>1. CASE l \in saves[a].deferred
    <3>1. /\ Temporary(l) /\ \A t \in Slots : l \notin saves[a].result[t]
          /\ \A y \in saves[a].todo : y[2] # l
      BY <1>1, <2>1 DEF Sound
    <3>2. l # k
      BY <1>1, <3>1, FileTypes
    <3>3. \A t \in Slots : l \notin saves'[a].result[t]
      BY <1>6, <3>1, <3>2
    <3> QED  BY <1>5, <3>1, <3>3
  <2>2. CASE l = x[2] /\ k = Permanent(x[2])
    <3>1. Temporary(l) /\ l # k /\ l.file = f
      BY <1>1, <2>2, FileTypes DEF Sound, f
    <3>2. \A t \in Slots : l \notin saves'[a].result[t]
      BY <1>6, <1>8, <3>1
    <3>3. \A y \in saves'[a].todo : y[2] # l
      BY <1>9, <3>1
    <3> QED  BY <3>1, <3>2, <3>3
  <2> QED  BY <1>5, <2>1, <2>2
<1> QED  BY <1>5, <1>9, <1>10, <1>11, <1>12, <1>13 DEF Sound

LEMMA CopyFiles ==
  ASSUME Reachable, Files, NEW a \in Actors, Copy(a)
  PROVE  Files'
<1> USE DEF Reachable, Files
<1>0. PICK x \in saves[a].todo : \E also \in SUBSET {x[2]} :
        /\ saves' = [saves EXCEPT ![a] = Done(saves[a], x, Permanent(x[2]), also)]
        /\ stored \ {x[2]} \subseteq stored' /\ Permanent(x[2]) \in stored'
        /\ doomed' = doomed \/ doomed' = doomed \cup {x[2]}
  <2>1. PICK x \in saves[a].todo :
          /\ saves' = [saves EXCEPT ![a] =
               Done(saves[a], x, Permanent(x[2]), IF Retains(a, x[1]) THEN {x[2]} ELSE {})]
          /\ stored' = (IF x[1] = "documents" /\ ~Retains(a, x[1]) THEN stored \ {x[2]} ELSE stored)
                         \cup {Permanent(x[2])}
          /\ doomed' = doomed \/ doomed' = doomed \cup {x[2]}
    BY DEF Copy
  <2>2. stored \ {x[2]} \subseteq stored' /\ Permanent(x[2]) \in stored'
    BY <2>1
  <2>3. (IF Retains(a, x[1]) THEN {x[2]} ELSE {}) \in SUBSET {x[2]}
    OBVIOUS
  <2> QED  BY <2>1, <2>2, <2>3
<1>1. PICK also \in SUBSET {x[2]} :
        /\ saves' = [saves EXCEPT ![a] = Done(saves[a], x, Permanent(x[2]), also)]
        /\ stored \ {x[2]} \subseteq stored' /\ Permanent(x[2]) \in stored'
        /\ doomed' = doomed \/ doomed' = doomed \cup {x[2]}
  BY <1>0
<1>2. UNCHANGED <<rows, forms, removal, fresh>> /\ saves[a].busy
  BY DEF Copy
<1>3. /\ saves[a] \in Save /\ forms[a].open /\ Sound(a) /\ Current(forms[a])
      /\ x[1] \in Slots /\ x[2] \in Keys /\ x[2] \in forms[a].media[x[1]] /\ Temporary(x[2])
  <2>1. saves[a] \in Save /\ forms[a].open /\ Sound(a) /\ Current(forms[a])
    BY <1>2, BusySave DEF SaveFiles, Seen
  <2>2. saves[a].todo \subseteq Slots \X Keys
    BY <2>1 DEF Save
  <2>3. x[2] \in forms[a].media[x[1]]
    BY <1>2 DEF SaveKeys
  <2>4. Temporary(x[2])
    BY <2>1 DEF Sound
  <2> QED  BY <2>1, <2>2, <2>3, <2>4
<1>4. \A l : Gone(l) => l = x[2]
  BY <1>1 DEF Gone
<1>5. Permanent(x[2]) \in stored' \ doomed'
  <2>1. forms[a].property \in Properties
    BY <1>3, MediaKeys
  <2>2. Permanent(x[2]) \notin doomed
    BY <1>3, <2>1, CurrentFiles DEF Spared, Draft
  <2>3. Permanent(x[2]) # x[2]
    BY <1>3, FileTypes
  <2> QED  BY <1>1, <2>2, <2>3
<1>6. Sound(a)' /\ saves'[a].busy
  BY <1>1, <1>2, <1>4, <1>5, DoneSound
<1>7. SaveStep(a)
  <2>1. InForm(a, x[1], x[2].file)
    BY <1>3 DEF InForm
  <2>2. \A b \in Actors \ {a} : saves'[b] = saves[b]
    BY <1>1 DEF TypeOK
  <2> QED  BY <1>1, <1>2, <1>3, <1>4, <2>1, <2>2 DEF SaveStep
<1> QED  BY <1>2, <1>6, <1>7, SaveStepFiles

LEMMA FallBackFiles ==
  ASSUME Reachable, Files, NEW a \in Actors, FallBack(a)
  PROVE  Files'
<1> USE DEF Reachable, Files
<1>1. PICK x \in saves[a].todo : saves' = [saves EXCEPT ![a] = Done(saves[a], x, x[2], {})]
  BY DEF FallBack
<1>2. UNCHANGED <<stored, doomed, rows, forms, removal, fresh>> /\ saves[a].busy
  BY DEF FallBack
<1>3. \A l : ~Gone(l)
  BY <1>2 DEF Gone
<1>4. x[2] \in stored' \ doomed'
  BY <1>2 DEF SaveFiles, Sound
<1>5. Sound(a)' /\ saves'[a].busy
  BY <1>1, <1>2, <1>3, <1>4, DoneSound
<1>6. SaveStep(a)
  <2>1. \A b \in Actors \ {a} : saves'[b] = saves[b]
    BY <1>1 DEF TypeOK
  <2> QED  BY <1>2, <1>3, <2>1, BusySave DEF SaveStep
<1> QED  BY <1>2, <1>3, <1>5, <1>6, SaveStepFiles

\* Only the owner's transaction is rolled back, and her property is not there yet.
LEMMA RollbackFiles ==
  ASSUME Reachable, Files, Editors \cap Failing = {}, NEW a \in Actors, Rollback(a)
  PROVE  Files'
<1> USE DEF Reachable, Files
<1>1. /\ UNCHANGED <<stored, doomed, rows, forms, removal, fresh>> /\ saves[a].busy /\ forms[a].open
      /\ saves' = [saves EXCEPT ![a] = Idle]
  BY BusySave DEF Rollback
<1>2. a = Owner
  <2>1. \A x \in saves[a].todo : x[2] \in stored
    BY <1>1 DEF SaveFiles, Sound
  <2> QED  BY <2>1 DEF Rollback, Actors
<1>3. ~rows[forms[a].property].live
  <2>1. forms[a].version = 0 /\ Current(forms[a]) /\ forms[a].property \in Properties
    BY <1>1, <1>2, MediaKeys DEF FormFiles, Seen
  <2> QED  BY <2>1 DEF Current, Seen
<1>4. \A s \in Slots : forms[a].media[s] \subseteq stored' \ doomed'
  BY <1>1, <1>2 DEF Drafts, Elsewhere
<1>5. ~saves'[a].busy /\ \A b \in Actors \ {a} : saves'[b] = saves[b]
  BY <1>1 DEF TypeOK, Idle
<1>6. \A l : ~Gone(l)
  BY <1>1 DEF Gone
<1>7. SaveStep(a)
  BY <1>1, <1>5, <1>6 DEF SaveStep
<1> QED  BY <1>1, <1>3, <1>4, <1>5, <1>6, <1>7, SaveStepFiles

-----------------------------------------------------------------------------
\* A save deletes only what its form or its row has, and of a file the rows
\* will have it deletes no key they will need.
LEMMA CommitFiles ==
  ASSUME Reachable, Files, NEW a \in Actors, Commit(a)
  PROVE  Files'
<1> USE DEF Reachable, Files
<1>0. PICK p \in Properties : p = forms[a].property
  BY BusySave, MediaKeys DEF Commit
<1>1. /\ saves[a].busy /\ saves[a] \in Save /\ forms[a].open /\ Sound(a) /\ Current(forms[a])
      /\ forms[a].property = p
  BY <1>0, BusySave DEF Commit, SaveFiles, Seen
<1>2. /\ stored' = stored /\ removal' = removal /\ fresh' = fresh
      /\ saves' = [saves EXCEPT ![a] = Idle]
      /\ forms' = [forms EXCEPT ![a] = Closed]
      /\ rows' = [rows EXCEPT ![p] =
           [version |-> rows[p].version + 1, live |-> TRUE, media |-> saves[a].result]]
  BY <1>0 DEF Commit
<1>3. /\ ~saves'[a].busy /\ ~forms'[a].open
      /\ \A b \in Actors \ {a} : saves'[b] = saves[b] /\ forms'[b] = forms[b]
      /\ rows'[p].media = saves[a].result
      /\ \A q \in Properties \ {p} : rows'[q] = rows[q]
  BY <1>1, <1>2 DEF TypeOK, Idle, Closed
<1>4. ASSUME NEW k \in doomed', k \notin doomed
      PROVE  \/ k \in saves[a].deferred
             \/ \E s \in Slots : k \in Orphans(a, s)
  BY <1>1, <1>4 DEF Commit, Save
<1>5. \A k \in saves[a].deferred : k \in Keys /\ \E s \in Slots : InForm(a, s, k.file)
  <2>1. saves[a].deferred \subseteq Keys /\ saves[a].deferred \subseteq KeysOf(forms[a].media)
    BY <1>1 DEF SaveKeys, Save
  <2>2. \A k \in KeysOf(forms[a].media) : \E s \in Slots : k \in forms[a].media[s]
    BY DEF KeysOf
  <2> QED  BY <1>1, <2>1, <2>2 DEF InForm
<1>6. \A s \in Slots : \A k \in Orphans(a, s) : k \in rows[p].media[s] /\ k \in Keys /\ InRow(p, s, k.file)
  BY <1>1, MediaKeys DEF Orphans, InRow
<1>7. \A k : Gone(k) => k \in doomed' /\ k \notin doomed
  BY <1>2 DEF Gone
<1>8. \A k : Gone(k) => \E s \in Slots : InForm(a, s, k.file) \/ InRow(p, s, k.file)
  BY <1>4, <1>5, <1>6, <1>7
<1>9. \A s, u : InForm(a, s, u) => Holds(p, s, u)
  BY <1>1 DEF Holds
<1>10. \A s, u : InRow(p, s, u) => Holds(p, s, u)
  BY DEF Holds
<1>11. /\ \A q \in Properties \ {p} : \A s, u : InRow(q, s, u)' <=> InRow(q, s, u)
       /\ \A u : InRemoval(u)' <=> InRemoval(u)
       /\ \A b \in Actors \ {a} : \A s, u : InForm(b, s, u)' <=> InForm(b, s, u)
       /\ \A s, u : ~InForm(a, s, u)'
  BY <1>2, <1>3 DEF InRow, InRemoval, InForm
<1>12. \A s \in Slots : \A u : InRow(p, s, u)' => InForm(a, s, u)
  BY <1>1, <1>3 DEF InRow, Sound
<1>13. \A q \in Properties, s \in Slots : \A u : Holds(q, s, u)' => Holds(q, s, u)
  <2> SUFFICES ASSUME NEW q \in Properties, NEW s \in Slots, NEW u, Holds(q, s, u)'
               PROVE  Holds(q, s, u)
    OBVIOUS
  <2>1. CASE InRow(q, s, u)' /\ q = p
    BY <1>9, <1>12, <2>1
  <2>2. CASE InRow(q, s, u)' /\ q # p
    BY <1>11, <2>2 DEF Holds
  <2>3. ASSUME NEW b \in Actors, InForm(b, s, u)', forms'[b].property = q
        PROVE  Holds(q, s, u)
    BY <1>3, <1>11, <2>3 DEF Holds
  <2> QED  BY <2>1, <2>2, <2>3 DEF Holds
<1>14. OnePlace'
  <2>1. \A k \in doomed' : k \in doomed \/ \E q \in Properties, s \in Slots : Holds(q, s, k.file)
    BY <1>1, <1>4, <1>5, <1>6, <1>9, <1>10
  <2> QED  BY <1>2, <1>11, <1>13, <2>1, PlaceKept
<1>15. OneKeys'
  <2>1. \A q \in Properties, s \in Slots : OneKey(rows'[q].media[s])
    BY <1>1, <1>3 DEF OneKeys, Sound
  <2>2. \A b \in Actors, s \in Slots : forms'[b].open => OneKey(forms'[b].media[s])
    BY <1>3 DEF OneKeys
  <2> QED  BY <2>1, <2>2 DEF OneKeys
\* The file of a key the rows will have, in the form.
<1>16. ASSUME NEW s \in Slots, NEW k \in saves[a].result[s]
       PROVE  \E j \in forms[a].media[s] :
                /\ j.file = k.file /\ Permanent(j) = Permanent(k) /\ Permanent(j) \notin doomed
                /\ InRow(p, s, k.file) => j \in rows[p].media[s]
  <2>1. PICK j \in forms[a].media[s] : j.file = k.file
    BY <1>1 DEF Sound, InForm
  <2>2. CASE rows[p].live /\ j \in rows[p].media[s]
    BY <1>1, <2>1, <2>2 DEF Spared, Permanent
  <2>3. CASE Draft(a, j)
    <3>1. ~InRow(p, s, k.file)
      BY <1>1, <2>1, <2>3 DEF Draft, Shared
    <3> QED  BY <2>1, <2>3, <3>1 DEF Draft, Permanent
  <2> QED  BY <1>1, <2>2, <2>3, CurrentFiles
<1>17. ASSUME NEW s \in Slots, NEW k \in saves[a].result[s], NEW t \in Slots, NEW l \in Orphans(a, t),
              l.file = k.file
       PROVE  s = t /\ l \notin saves[a].result[s] /\ (l \notin forms[a].media[s] \/ s = "plans")
              /\ \E j \in forms[a].media[s] : j = l
  <2>1. k \in Keys /\ InForm(a, s, k.file) /\ InRow(p, t, k.file) /\ k.file \in Uploads
    <3>1. k \in Keys
      BY <1>1, MediaKeys
    <3> QED  BY <1>1, <1>6, <1>17, <3>1, FileTypes DEF Sound
  <2>2. s = t
    <3>1. PICK q \in Properties : q = p
      BY <1>1
    <3>2. Holds(q, s, k.file) /\ Holds(q, t, k.file)
      BY <1>9, <1>10, <2>1, <3>1
    <3> QED  BY <2>1, <3>2 DEF OnePlace
  <2>3. PICK j \in forms[a].media[s] : j.file = k.file /\ j \in rows[p].media[s]
    BY <1>16, <2>1, <2>2
  <2>4. j = l
    <3>1. l \in rows[p].media[s] /\ OneKey(rows[p].media[s])
      BY <1>1, <1>6, <2>2 DEF OneKeys
    <3> QED  BY <1>17, <2>3, <3>1 DEF OneKey
  <2>5. s = "plans" /\ l \notin saves[a].result[s]
    BY <2>2, <2>3, <2>4 DEF Orphans
  <2> QED  BY <2>2, <2>3, <2>4, <2>5
<1>18. ASSUME NEW s \in Slots, NEW k \in saves[a].result[s]
       PROVE  k \in stored /\ k \notin doomed'
  <2>1. k \in stored /\ k \notin doomed /\ k \notin saves[a].deferred
    BY <1>1 DEF Sound
  <2>2. \A t \in Slots : k \notin Orphans(a, t)
    BY <1>17
  <2> QED  BY <1>4, <2>1, <2>2
<1>19. ASSUME NEW s \in Slots, NEW k \in saves[a].result[s]
       PROVE  Permanent(k) \notin doomed'
  <2>1. Permanent(k) \notin doomed
    BY <1>16
  <2>2. k \in Keys /\ Permanent(k).file = k.file /\ ~Temporary(Permanent(k))
    BY <1>1, MediaKeys, FileTypes
  <2>3. Permanent(k) \notin saves[a].deferred
    BY <1>1, <2>2 DEF Sound
  <2>4. ASSUME NEW t \in Slots, Permanent(k) \in Orphans(a, t)
        PROVE  FALSE
    <3>1. Permanent(k) \notin saves[a].result[s] /\ Permanent(k) \in forms[a].media[s]
      BY <1>17, <2>2, <2>4
    <3>2. Temporary(k)
      BY <2>2, <3>1, FileTypes
    <3>3. k \in forms[a].media[s]
      BY <1>1, <3>2 DEF SaveKeys
    <3>4. k = Permanent(k)
      BY <1>1, <2>2, <3>1, <3>3 DEF OneKeys, OneKey
    <3> QED  BY <2>2, <3>2, <3>4
  <2> QED  BY <1>4, <2>1, <2>3, <2>4
\* Other properties, forms and saves keep their files.
<1>20. \A l \in Keys, q \in Properties, s \in Slots : Gone(l) /\ Holds(q, s, l.file) => q = p
  BY <1>1, <1>8, <1>9, <1>10, FileTypes DEF OnePlace
<1>21. FormFiles'
  <2>1. ASSUME NEW b \in Actors, b # a, forms[b].open, NEW s \in Slots, NEW k \in forms[b].media[s], Draft(b, k)
        PROVE  Draft(b, k)'
    <3>1. k \in Keys /\ saves'[b] = saves[b]
      BY <1>3, <2>1, MediaKeys
    <3>2. Shared(b, k.file)' => Shared(b, k.file)
      <4>1. \A q \in Properties, t \in Slots : InRow(q, t, k.file)' => Shared(b, k.file)
        BY <1>11, <1>12, <2>1 DEF Shared
      <4>2. \A c \in Actors \ {b}, t \in Slots : InForm(c, t, k.file)' => Shared(b, k.file)
        BY <1>11 DEF Shared
      <4> QED  BY <1>11, <4>1, <4>2 DEF Shared
    <3>3. \A l \in Keys : Gone(l) => l.file # k.file
      BY <1>1, <1>8, <2>1 DEF Draft, Shared
    <3> QED  BY <2>1, <3>1, <3>2, <3>3, DraftKept
  <2> QED  BY <1>3, <2>1 DEF FormFiles
<1>22. SaveFiles'
  <2> SUFFICES ASSUME NEW b \in Actors, saves'[b].busy
               PROVE  Sound(b)'
    BY DEF SaveFiles
  <2>1. b # a /\ saves'[b] = saves[b] /\ forms'[b] = forms[b] /\ saves[b].busy /\ Sound(b)
    BY <1>3 DEF SaveFiles
  <2>2. forms[b].open /\ forms[b].property \in Properties /\ forms[b].property # p
    BY <1>1, <2>1, BusySave, MediaKeys DEF Seen
  <2>3. \A l \in Keys, s \in Slots : InForm(b, s, l.file) => ~Gone(l)
    BY <1>20, <2>2 DEF Holds
  <2> QED  BY <2>1, <2>3, SoundKept
<1>23. Spared'
  <2> SUFFICES ASSUME NEW q \in Properties, NEW s \in Slots, rows'[q].live, NEW k \in rows'[q].media[s]
               PROVE  Permanent(k) \notin doomed'
    BY DEF Spared
  <2>1. CASE q = p
    BY <1>3, <1>19, <2>1
  <2>2. CASE q # p
    <3>1. rows[q].live /\ k \in rows[q].media[s] /\ k \in Keys
      BY <1>3, <2>2, MediaKeys
    <3>2. Permanent(k) \in Keys /\ Permanent(k).file = k.file /\ Permanent(k) \notin doomed
      BY <3>1, FileTypes, KeyTypes DEF Spared
    <3>3. Holds(q, s, k.file)
      BY <3>1 DEF Holds, InRow
    <3> QED  BY <1>20, <2>2, <3>2, <3>3 DEF Gone
  <2> QED  BY <2>1, <2>2
<1>24. MediaShown'
  <2> SUFFICES ASSUME NEW q \in Properties, rows'[q].live, ~Saving(q)', NEW s \in Slots,
                      NEW k \in rows'[q].media[s]
               PROVE  k \in stored' \ doomed'
    BY DEF MediaShown, KeysOf
  <2>1. CASE q = p
    BY <1>2, <1>3, <1>18, <2>1
  <2>2. CASE q # p
    <3>1. ~Saving(q)
      BY <1>1, <1>3, <2>2 DEF Saving
    <3>2. rows[q].live /\ k \in rows[q].media[s] /\ k \in Keys
      BY <1>3, <2>2, MediaKeys
    <3>3. k \in stored \ doomed /\ Holds(q, s, k.file)
      BY <3>1, <3>2 DEF MediaShown, KeysOf, Holds, InRow
    <3> QED  BY <1>20, <2>2, <3>2, <3>3 DEF Gone
  <2> QED  BY <2>1, <2>2
<1> QED  BY <1>14, <1>15, <1>21, <1>22, <1>23, <1>24

\* A removal deletes what only the removed property has.
LEMMA RemoveFiles ==
  ASSUME Reachable, Files, Remove
  PROVE  Files'
<1> USE DEF Reachable, Files
<1> DEFINE p == removal.of
<1>1. /\ removal # Closed /\ p \in Properties /\ removal.keys \subseteq Keys /\ ~Saving(p)
      /\ removal' = Closed
      /\ doomed' = doomed \cup removal.keys
      /\ UNCHANGED <<stored, forms, saves, fresh>>
  BY DEF Remove, TypeOK
<1>2. /\ \A q \in Properties : rows'[q].media = rows[q].media
      /\ \A q \in Properties : rows'[q].live => rows[q].live /\ q # p
  BY <1>1 DEF Remove, TypeOK
<1>3. /\ \A q \in Properties : \A s, u : InRow(q, s, u)' <=> InRow(q, s, u)
      /\ \A b, s, u : InForm(b, s, u)' <=> InForm(b, s, u)
      /\ \A u : ~InRemoval(u)'
  BY <1>1, <1>2 DEF InRow, InForm, InRemoval
<1>4. \A q \in Properties : \A s, u : Holds(q, s, u)' <=> Holds(q, s, u)
  BY <1>1, <1>3 DEF Holds
<1>5. \A k : Gone(k) => InRemoval(k.file)
  BY <1>1 DEF Gone, InRemoval
<1>6. OnePlace'
  <2>1. \A k \in doomed' : k \in doomed \/ InRemoval(k.file)
    BY <1>1 DEF InRemoval
  <2> QED  BY <1>1, <1>3, <1>4, <2>1, PlaceKept
<1>7. OneKeys'
  BY <1>1, <1>2 DEF OneKeys
<1>8. \A l \in Keys, q \in Properties, s \in Slots : Gone(l) /\ Holds(q, s, l.file) => q = p
  BY <1>5, FileTypes DEF OnePlace
<1>9. FormFiles'
  <2>1. ASSUME NEW b \in Actors, forms[b].open, NEW s \in Slots, NEW k \in forms[b].media[s], Draft(b, k)
        PROVE  Draft(b, k)'
    <3>1. k \in Keys
      BY <2>1, MediaKeys
    <3>2. Shared(b, k.file)' => Shared(b, k.file)
      BY <1>3 DEF Shared
    <3>3. \A l \in Keys : Gone(l) => l.file # k.file
      BY <1>5, <2>1 DEF Draft, Shared
    <3> QED  BY <1>1, <2>1, <3>1, <3>2, <3>3, DraftKept
  <2> QED  BY <1>1, <2>1 DEF FormFiles
<1>10. SaveFiles'
  <2> SUFFICES ASSUME NEW b \in Actors, saves[b].busy
               PROVE  Sound(b)'
    BY <1>1 DEF SaveFiles
  <2>1. forms[b].open /\ forms[b].property \in Properties /\ forms[b].property # p
    BY <1>1, BusySave, MediaKeys DEF Saving
  <2>2. \A l \in Keys, s \in Slots : InForm(b, s, l.file) => ~Gone(l)
    BY <1>8, <2>1 DEF Holds
  <2> QED  BY <1>1, <2>2, SoundKept DEF SaveFiles
<1>11. ASSUME NEW q \in Properties, rows'[q].live, NEW s \in Slots, NEW k \in rows'[q].media[s]
       PROVE  k \in rows[q].media[s] /\ k \in Keys /\ ~Gone(k) /\ ~Gone(Permanent(k))
  <2>1. k \in rows[q].media[s] /\ k \in Keys /\ q # p
    BY <1>2, <1>11, MediaKeys
  <2>2. Holds(q, s, k.file)
    BY <2>1 DEF Holds, InRow
  <2>3. Permanent(k) \in Keys /\ Permanent(k).file = k.file
    BY <2>1, FileTypes, KeyTypes
  <2> QED  BY <1>8, <2>1, <2>2, <2>3
<1>12. Spared'
  BY <1>2, <1>11 DEF Spared, Gone
<1>13. MediaShown'
  <2> SUFFICES ASSUME NEW q \in Properties, rows'[q].live, ~Saving(q)', NEW s \in Slots,
                      NEW k \in rows'[q].media[s]
               PROVE  k \in stored' \ doomed'
    BY DEF MediaShown, KeysOf
  <2>1. ~Saving(q) /\ rows[q].live
    BY <1>1, <1>2 DEF Saving
  <2>2. k \in rows[q].media[s] /\ ~Gone(k)
    BY <1>11
  <2> QED  BY <2>1, <2>2 DEF MediaShown, KeysOf, Gone
<1> QED  BY <1>6, <1>7, <1>9, <1>10, <1>12, <1>13

LEMMA NextFiles ==
  ASSUME Editors \cap Failing = {}, Reachable, Files, [Next]_vars
  PROVE  Files'
<1>1. ASSUME NEW a \in Actors,
             \/ Load(a) \/ Start(a) \/ Upload(a) \/ Discard(a) \/ BeginSave(a)
             \/ Refused(a) \/ Copy(a) \/ FallBack(a) \/ Rollback(a) \/ Commit(a)
      PROVE  Files'
  BY <1>1, FormSteps, ReadsFiles, UploadFiles, BeginSaveFiles, CopyFiles, FallBackFiles, RollbackFiles,
     CommitFiles
<1>2. CASE BeginRemoval \/ Delete \/ DeletionLost \/ UNCHANGED vars
  BY <1>2, OtherReads, ReadsFiles
<1>3. CASE Remove
  BY <1>3, RemoveFiles
<1> QED  BY <1>1, <1>2, <1>3 DEF Next

\* Whatever a property shows is in the bucket and nobody is about to delete
\* it, when no save of it is under way and the transactions of the staff
\* commit.  (One that is rolled back may have deleted what it had copied.)
THEOREM PhotosShown ==
  ASSUME Editors \cap Failing = {}
  PROVE  Spec => []MediaShown
<1>1. Init => Reachable /\ Files
  <2> SUFFICES ASSUME Init
               PROVE  Reachable /\ Files
    OBVIOUS
  <2>1. TypeOK
    BY DEF Init, TypeOK, NotYet, NoMedia, Media, Idle
  <2>2. Seen /\ SaveKeys /\ Drafts
    BY DEF Init, Seen, SaveKeys, Drafts, Elsewhere, NotYet, NoMedia, Idle, Closed, Actors
  <2>3. /\ \A p \in Properties : ~rows[p].live
        /\ \A p \in Properties, s \in Slots : rows[p].media[s] = {}
        /\ \A a \in Actors : ~forms[a].open /\ ~saves[a].busy
        /\ removal = Closed /\ doomed = {}
    BY DEF Init, NotYet, NoMedia, Closed, Idle
  <2>4. OnePlace
    BY <2>3 DEF OnePlace, Holds, InRow, InForm, InRemoval
  <2>5. OneKeys /\ FormFiles /\ SaveFiles /\ Spared /\ MediaShown
    <3>1. OneKeys
      BY <2>3 DEF OneKeys, OneKey
    <3>2. FormFiles /\ SaveFiles
      BY <2>3 DEF FormFiles, SaveFiles
    <3>3. Spared
      BY <2>3 DEF Spared
    <3>4. MediaShown
      BY <2>3 DEF MediaShown
    <3> QED  BY <3>1, <3>2, <3>3, <3>4
  <2> QED  BY <2>1, <2>2, <2>4, <2>5 DEF Reachable, Files
<1>2. Reachable /\ Files /\ [Next]_vars => (Reachable /\ Files)'
  BY TypesStay, SeenStays, SaveKeysStay, DraftsStay, NextFiles DEF Reachable
<1>3. Files => MediaShown
  BY DEF Files
<1> QED  BY <1>1, <1>2, <1>3, PTL DEF Spec

=============================================================================
