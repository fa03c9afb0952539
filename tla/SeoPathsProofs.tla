---------------------------- MODULE SeoPathsProofs ----------------------------
(***************************************************************************)
(* Proof that no path belongs to two pages, that no version is lost and    *)
(* that no save replaces what its author was not shown, for any number of  *)
(* pages, paths and saves in progress; and that redirects never loop and   *)
(* every former path of a page leads to where the page is, when one person *)
(* edits.                                                                  *)
(***************************************************************************)
EXTENDS SeoPaths, TLAPS, WellFoundedInduction, FiniteSetTheorems

\* A row that is there has been saved at least once.
Counted == \A k \in Keys : configs[k] = NoConfig \/ (configs[k] \in Config /\ configs[k].revision > 0)

\* What a row holds was written last of it, and later rows have later ids.
LastWritten ==
  /\ DOMAIN written = Keys
  /\ \A k \in Keys :
       /\ Exists(k) => [id |-> created[k], revision |-> configs[k].revision,
                        content |-> configs[k].content] \in written[k]
       /\ \A w \in written[k] :
            /\ w.id <= created[k]
            /\ Exists(k) /\ w.id = created[k] =>
                 /\ w.revision <= configs[k].revision
                 /\ w.revision = configs[k].revision => w.content = configs[k].content

Saving(c) == request[c].kind = "config"

\* A save about to commit makes its row, or has the revision of the row there is.
Held ==
  \A c \in Clients : Saving(c) =>
    \/ request[c].insert
    \/ Exists(request[c].key) /\ request[c].revision = configs[request[c].key].revision

\* Only saves that make a row are under way together.
OneWriter ==
  \A c, d \in Clients :
    c # d /\ Saving(c) /\ Saving(d) /\ request[c].key = request[d].key => request[c].insert

IInv == TypeOK /\ Counted /\ PathsUnique /\ LastWritten /\ HistoryKept /\ Held /\ OneWriter

-----------------------------------------------------------------------------
\* A client is in one kind of transaction, which tells what the request holds.
LEMMA Kinds ==
  ASSUME TypeOK, NEW c \in Clients
  PROVE  /\ Saving(c) => request[c] \in SaveRequest
         /\ request[c].kind = "form" => request[c] \in OpenForm
         /\ request[c].kind = "restore" => request[c] \in RestoreForm
         /\ request[c].kind = "redirect" => request[c] \in RedirectRequest
BY DEF TypeOK, Saving, SaveRequest, OpenForm, RestoreForm, RedirectRequest, Idle

\* Where a page is found is a path.
LEMMA PathTyped ==
  ASSUME TypeOK, NEW k \in Keys
  PROVE  PathOf(k) \in Paths \cup {NoPath}
<1>1. CASE Exists(k)
  BY <1>1, SeoPathsAssumption DEF TypeOK, PathOf, Exists, Config, Inventory
<1>2. CASE ~Exists(k)
  BY <1>2, SeoPathsAssumption DEF PathOf, Inventory
<1> QED
  BY <1>1, <1>2

LEMMA TargetTyped ==
  ASSUME TypeOK, NEW k \in Keys, NEW p
  PROVE  Target(k, p) \in Paths \cup {NoPath}
<1>1. CASE Exists(k)
  BY <1>1, SeoPathsAssumption DEF TypeOK, Target, Exists, Config, Inventory
<1>2. CASE ~Exists(k)
  BY <1>2, SeoPathsAssumption DEF Target, Inventory
<1> QED
  BY <1>1, <1>2

\* What a form or a version may name.
Named == UNION {[F -> Values \cup {NoValue}] : F \in SUBSET (Columns \cup Entries)}

LEMMA ContentNamed == Content \subseteq Named
BY DEF Content, Named

\* A body merged into what a config holds is what a config may hold.
LEMMA MergedTyped ==
  ASSUME TypeOK, NEW k \in Keys, NEW body \in Named
  PROVE  Merged(k, body) \in Content
<1> DEFINE old == IF Exists(k) THEN configs[k].content ELSE [f \in Columns |-> NoValue]
<1>1. PICK F \in SUBSET (Columns \cup Entries) : body \in [F -> Values \cup {NoValue}]
  BY DEF Named
<1>2. old \in Content
  <2>1. CASE Exists(k)
    BY <2>1 DEF TypeOK, Exists, Config
  <2>2. [f \in Columns |-> NoValue] \in [Columns \cup {} -> Values \cup {NoValue}]
    OBVIOUS
  <2>3. [f \in Columns |-> NoValue] \in Content
    BY <2>2 DEF Content
  <2> QED
    BY <2>1, <2>3
<1>3. PICK E \in SUBSET Entries : old \in [Columns \cup E -> Values \cup {NoValue}]
  BY <1>2 DEF Content
<1>4. Merged(k, body) = [f \in DOMAIN body \cup DOMAIN old |-> IF f \in DOMAIN body THEN body[f] ELSE old[f]]
  BY DEF Merged
<1> HIDE DEF old
<1>5. Merged(k, body) \in [F \cup (Columns \cup E) -> Values \cup {NoValue}]
  BY <1>1, <1>3, <1>4
<1> DEFINE G == (F \cup E) \cap Entries
<1>6. F \cup (Columns \cup E) = Columns \cup G /\ G \in SUBSET Entries
  OBVIOUS
<1> HIDE DEF G
<1> QED
  BY <1>5, <1>6 DEF Content

LEMMA MovesBoolean ==
  ASSUME NEW k, NEW p, NEW redirect \in BOOLEAN
  PROVE  Moves(k, p, redirect) \in BOOLEAN
BY Zenon DEF Moves

LEMMA InitInv ==
  ASSUME Init
  PROVE  IInv
<1>1. TypeOK
  BY DEF Init, TypeOK, NoConfig, NoRedirect, Idle
<1>2. Counted /\ PathsUnique /\ LastWritten /\ HistoryKept
  BY DEF Init, Counted, PathsUnique, Exists, LastWritten, HistoryKept
<1>3. Held /\ OneWriter
  BY DEF Init, Held, OneWriter, Saving, Idle
<1> QED
  BY <1>1, <1>2, <1>3 DEF IInv

-----------------------------------------------------------------------------
\* Only a request changes: what is said of rows stays.
LEMMA RowsStay ==
  ASSUME Counted, PathsUnique, LastWritten, HistoryKept, UNCHANGED <<configs, versions, created, written>>
  PROVE  Counted' /\ PathsUnique' /\ LastWritten' /\ HistoryKept'
<1>1. Counted'
  BY DEF Counted
<1>2. PathsUnique'
  BY DEF PathsUnique, Exists
<1>3. LastWritten'
  BY DEF LastWritten, Exists
<1>4. HistoryKept'
  BY DEF HistoryKept
<1> QED
  BY <1>1, <1>2, <1>3, <1>4

\* Steps that change the request of one client alone, and not to a save.
LEMMA RequestInv ==
  ASSUME IInv, NEW c \in Clients, NEW r \in OpenForm \cup RestoreForm \cup RedirectRequest \cup {Idle},
         request' = [request EXCEPT ![c] = r],
         UNCHANGED <<configs, versions, redirects, created, written, former>>
  PROVE  IInv'
<1> USE DEF IInv
<1>1. TypeOK'
  BY DEF TypeOK
<1>2. Counted' /\ PathsUnique' /\ LastWritten' /\ HistoryKept'
  BY RowsStay
<1>3. r.kind # "config"
  BY DEF OpenForm, RestoreForm, RedirectRequest, Idle
<1>4. \A d \in Clients : Saving(d)' => Saving(d) /\ request'[d] = request[d]
  BY <1>3 DEF Saving, TypeOK
<1>5. Held'
  BY <1>4 DEF Held, Exists
<1>6. OneWriter'
  BY <1>4 DEF OneWriter
<1> QED
  BY <1>1, <1>2, <1>5, <1>6

\* The transaction of a save begins only when no other holds the row.
LEMMA BeginInv ==
  ASSUME IInv, NEW c \in Clients, request[c] \in OpenForm \cup RestoreForm,
         NEW p, NEW body \in Named, NEW redirect \in BOOLEAN, NEW newRule \in BOOLEAN, NEW allowed,
         Begin(c, p, body, redirect, newRule, allowed)
  PROVE  IInv'
<1> DEFINE k == request[c].key
           t == Target(k, p)
           r == [kind |-> "config", key |-> k, revision |-> request[c].revision,
                 insert |-> ~Exists(k), newRule |-> newRule, path |-> t,
                 content |-> Merged(k, body), redirect |-> Moves(k, t, redirect)]
<1>0. /\ TypeOK /\ Counted /\ PathsUnique /\ LastWritten /\ HistoryKept /\ Held /\ OneWriter
      /\ ~Locked(k) /\ UNCHANGED <<configs, versions, redirects, created, written, former>>
  BY DEF IInv, Begin
<1>1. k \in Keys /\ request[c].revision \in Nat
  BY DEF OpenForm, RestoreForm
<1>2. CASE request' = [request EXCEPT ![c] = Idle]
  BY <1>0, <1>2, RequestInv
<1>3. CASE request' = [request EXCEPT ![c] = r] /\ Acceptable(k, request[c].revision, p, redirect)
  <2>1. t \in Paths \cup {NoPath} /\ Merged(k, body) \in Content
    BY <1>0, <1>1, TargetTyped, MergedTyped
  <2>2. Moves(k, t, redirect) \in BOOLEAN
    BY MovesBoolean
  <2>3. r \in SaveRequest
    BY <1>1, <2>1, <2>2 DEF SaveRequest
  <2>4. TypeOK'
    BY <1>0, <1>3, <2>3 DEF TypeOK
  <2>5. Counted' /\ PathsUnique' /\ LastWritten' /\ HistoryKept'
    BY <1>0, RowsStay
  <2>6. \A d \in Clients \ {c} : request'[d] = request[d]
    BY <1>0, <1>3 DEF TypeOK
  <2>7. request'[c] = r
    BY <1>0, <1>3 DEF TypeOK
  <2>8. r.key = k /\ r.insert = ~Exists(k) /\ r.revision = request[c].revision
    OBVIOUS
  <2>9. Exists(k) => request[c].revision = configs[k].revision
    BY <1>3 DEF Acceptable
  <2>10. ASSUME NEW d \in Clients \ {c}, Saving(d), request[d].key = k
         PROVE  request[d].insert /\ ~Exists(k)
    <3>1. ~Exists(k)
      BY <1>0, <2>10 DEF Locked, Saving
    <3> QED
      BY <1>0, <2>10, <3>1 DEF Held
  <2> HIDE DEF r, k
  <2>11. Held'
    BY <1>0, <2>6, <2>7, <2>8, <2>9 DEF Held, Saving, Exists
  <2>12. OneWriter'
    <3> SUFFICES ASSUME NEW a \in Clients, NEW b \in Clients, a # b, Saving(a)', Saving(b)',
                        request'[a].key = request'[b].key
                 PROVE  request'[a].insert
      BY DEF OneWriter
    <3>1. CASE a = c
      <4>1. b \in Clients \ {c} /\ Saving(b) /\ request[b].key = k
        BY <2>6, <2>7, <2>8, <3>1 DEF Saving
      <4> QED
        BY <2>7, <2>8, <2>10, <3>1, <4>1
    <3>2. CASE b = c
      <4>1. a \in Clients \ {c} /\ Saving(a) /\ request[a].key = k
        BY <2>6, <2>7, <2>8, <3>2 DEF Saving
      <4> QED
        BY <2>6, <2>10, <4>1
    <3>3. CASE a # c /\ b # c
      BY <1>0, <2>6, <3>3 DEF OneWriter, Saving
    <3> QED
      BY <3>1, <3>2, <3>3
  <2> QED
    BY <2>4, <2>5, <2>11, <2>12 DEF IInv
<1> QED
  BY <1>2, <1>3 DEF Begin

LEMMA BeginSaveInv ==
  ASSUME IInv, NEW c \in Clients, NEW p, NEW body \in Bodies, NEW redirect \in BOOLEAN,
         NEW listing \in BOOLEAN, BeginSave(c, p, body, redirect, listing)
  PROVE  IInv'
<1>1. request[c] \in OpenForm
  BY Kinds DEF IInv, BeginSave
<1>2. body \in Named
  BY SeoPathsAssumption DEF Named
<1>3. (listing /\ request[c].rule = 0) \in BOOLEAN
  OBVIOUS
<1>4. Begin(c, p, body, redirect, listing /\ request[c].rule = 0, listing => p \in Paths)
  BY DEF BeginSave
<1> QED
  BY <1>1, <1>2, <1>3, <1>4, BeginInv

LEMMA BeginRestoreInv ==
  ASSUME IInv, NEW c \in Clients, NEW redirect \in BOOLEAN, BeginRestore(c, redirect)
  PROVE  IInv'
<1>1. request[c] \in RestoreForm
  BY Kinds DEF IInv, BeginRestore
<1>2. request[c].content \in Named
  BY <1>1, ContentNamed DEF RestoreForm
<1>3. Begin(c, request[c].path, request[c].content, redirect, FALSE, TRUE)
  BY DEF BeginRestore
<1> QED
  BY <1>1, <1>2, <1>3, BeginInv

-----------------------------------------------------------------------------
\* A save that replaces a row finds it as its form did.
LEMMA CommitFinds ==
  ASSUME IInv, NEW c \in Clients, CommitSave(c)
  PROVE  /\ request[c] \in SaveRequest
         /\ Exists(request[c].key) => request[c].revision = configs[request[c].key].revision
BY Kinds DEF IInv, CommitSave, Unique, Held, Saving

LEMMA CommitSaveInv ==
  ASSUME IInv, NEW c \in Clients, CommitSave(c)
  PROVE  IInv'
<1> DEFINE r == request[c]
           k == r.key
           rev == configs[k].revision + 1
           id == IF Exists(k) THEN created[k] ELSE created[k] + 1
           row == [path |-> r.path, content |-> r.content, revision |-> rev, rule |-> HasRule(k) \/ r.newRule]
           new == [id |-> id, revision |-> rev, content |-> r.content]
<1>0. /\ TypeOK /\ Counted /\ PathsUnique /\ LastWritten /\ HistoryKept /\ Held /\ OneWriter
      /\ r \in SaveRequest /\ Unique(r) /\ Saving(c)
  BY CommitFinds DEF IInv, CommitSave, Saving
<1>1. /\ configs' = [configs EXCEPT ![k] = row]
      /\ created' = [created EXCEPT ![k] = id]
      /\ versions' = versions \cup (IF Exists(k) THEN {VersionOf(k)} ELSE {})
      /\ redirects' = RedirectsAfter(r)
      /\ written' = [written EXCEPT ![k] = @ \cup {new}]
      /\ former' = FormerAfter(r)
      /\ request' = [request EXCEPT ![c] = Idle]
  BY DEF CommitSave
<1>2. k \in Keys /\ r.path \in Paths \cup {NoPath} /\ r.content \in Content
  BY <1>0 DEF SaveRequest
<1>3. configs[k].revision \in Nat /\ created[k] \in Nat
  BY <1>0, <1>2 DEF TypeOK, Counted, Config, NoConfig
<1>4. row \in Config /\ rev > 0 /\ row # NoConfig
  <2>1. (HasRule(k) \/ r.newRule) \in BOOLEAN
    OBVIOUS
  <2>2. row \in Config
    BY <1>2, <1>3, <2>1 DEF Config
  <2>3. row.revision # NoConfig.revision
    BY <1>3 DEF NoConfig
  <2> QED
    BY <1>3, <2>2, <2>3
<1>5. configs'[k] = row /\ \A j \in Keys \ {k} : configs'[j] = configs[j]
  BY <1>0, <1>1, <1>2 DEF TypeOK
<1>6. created'[k] = id /\ \A j \in Keys \ {k} : created'[j] = created[j]
  BY <1>0, <1>1, <1>2 DEF TypeOK
<1>7. written'[k] = written[k] \cup {new} /\ \A j \in Keys \ {k} : written'[j] = written[j]
  BY <1>0, <1>1, <1>2 DEF LastWritten
<1>8. id \in Nat /\ rev \in Nat /\ new \in [id : Nat, revision : Nat, content : Content]
  BY <1>2, <1>3
<1>9. TypeOK'
  <2>1. configs' \in [Keys -> Config \cup {NoConfig}] /\ created' \in [Keys -> Nat]
    BY <1>0, <1>1, <1>4, <1>8 DEF TypeOK
  <2>2. versions' \subseteq Version
    <3>1. ASSUME Exists(k)
          PROVE  VersionOf(k) \in Version
      BY <1>0, <1>2, <1>3, <3>1 DEF Exists, Counted, Config, VersionOf, Version
    <3> QED
      BY <1>0, <1>1, <3>1 DEF TypeOK
  <2>3. redirects' \in [Paths -> Redirect \cup {NoRedirect}]
    <3>1. CASE Moves(k, r.path, r.redirect)
      <4>1. [dest |-> r.path, active |-> TRUE] \in Redirect
        BY <1>2, <3>1 DEF Redirect, Moves
      <4> QED
        BY <1>0, <1>1, <4>1 DEF TypeOK, RedirectsAfter
    <3>2. CASE ~Moves(k, r.path, r.redirect)
      BY <1>0, <1>1, <3>2 DEF TypeOK, RedirectsAfter
    <3> QED
      BY <3>1, <3>2
  <2>4. request' \in [Clients -> OpenForm \cup RestoreForm \cup SaveRequest \cup RedirectRequest \cup {Idle}]
    BY <1>0, <1>1 DEF TypeOK
  <2>5. \A j \in Keys : written'[j] \subseteq [id : Nat, revision : Nat, content : Content]
    <3> HIDE DEF new, k
    <3> QED
      BY <1>0, <1>7, <1>8 DEF TypeOK
  <2>6. former' \in [Keys -> SUBSET Paths]
    <3>1. PathOf(k) \in Paths \cup {NoPath}
      BY <1>0, <1>2, PathTyped
    <3>2. Moves(k, r.path, r.redirect) => PathOf(k) \in Paths
      BY <3>1 DEF Moves
    <3> QED
      BY <1>0, <1>1, <1>2, <3>2 DEF TypeOK, FormerAfter
  <2> QED
    BY <2>1, <2>2, <2>3, <2>4, <2>5, <2>6 DEF TypeOK
<1>10. Counted'
  BY <1>0, <1>4, <1>5 DEF Counted
<1>11. PathsUnique'
  BY <1>0, <1>2, <1>4, <1>5 DEF PathsUnique, Unique, Exists
<1>12. configs'[k] # NoConfig /\ \A j \in Keys \ {k} : Exists(j)' <=> Exists(j)
  BY <1>4, <1>5 DEF Exists
<1>13. row.revision = rev /\ row.content = r.content /\ new.id = id /\ new.revision = rev /\ new.content = r.content
  OBVIOUS
\* What was written of the page before.
<1>14. ASSUME NEW w \in written[k]
       PROVE  /\ w.id \in Nat /\ w.revision \in Nat /\ w.id <= id
              /\ w.id = id => Exists(k) /\ w.id = created[k] /\ w.revision < rev
  <2>1. w \in [id : Nat, revision : Nat, content : Content]
    BY <1>0, <1>2 DEF TypeOK
  <2>2. w.id \in Nat /\ w.revision \in Nat
    BY <2>1
  <2>3. /\ w.id <= created[k]
        /\ Exists(k) /\ w.id = created[k] => w.revision <= configs[k].revision
    BY <1>0, <1>2 DEF LastWritten
  <2> QED
    BY <1>3, <2>2, <2>3
<1>15. LastWritten'
  <2>1. DOMAIN written' = Keys
    BY <1>0, <1>1 DEF LastWritten
  <2>2. new \in written'[k]
    BY <1>7
  <2>3. ASSUME NEW w \in written'[k]
        PROVE  w.id <= id /\ (w.id = id => w.revision <= rev /\ (w.revision = rev => w.content = r.content))
    <3>1. CASE w = new
      BY <1>3, <1>8, <3>1
    <3>2. CASE w \in written[k]
      <4> HIDE DEF rev, id
      <4> QED
        BY <1>8, <1>14, <3>2
    <3> QED
      BY <1>7, <3>1, <3>2
  <2>4. ASSUME NEW j \in Keys
        PROVE  /\ Exists(j)' => [id |-> created'[j], revision |-> configs'[j].revision,
                                 content |-> configs'[j].content] \in written'[j]
               /\ \A w \in written'[j] :
                    /\ w.id <= created'[j]
                    /\ Exists(j)' /\ w.id = created'[j] =>
                         /\ w.revision <= configs'[j].revision
                         /\ w.revision = configs'[j].revision => w.content = configs'[j].content
    <3>1. CASE j = k
      <4>1. new = [id |-> created'[k], revision |-> configs'[k].revision, content |-> configs'[k].content]
        BY <1>5, <1>6
      <4> HIDE DEF new, row, rev, id
      <4> QED
        BY <1>5, <1>6, <1>13, <2>2, <2>3, <3>1, <4>1
    <3>2. CASE j # k
      BY <1>0, <1>5, <1>6, <1>7, <1>12, <3>2 DEF LastWritten
    <3> QED
      BY <3>1, <3>2
  <2> QED
    BY <2>1, <2>4 DEF LastWritten
<1>16. HistoryKept'
  <2> SUFFICES ASSUME NEW j \in Keys, NEW w \in written'[j], NEW later \in written'[j],
                      w.id = later.id, w.revision < later.revision
               PROVE  \E v \in versions' : v.key = j /\ v.id = w.id /\ v.revision = w.revision
                                           /\ v.content = w.content
    BY DEF HistoryKept
  <2>0. versions \subseteq versions'
    BY <1>1
  <2>1. CASE w \in written[j] /\ later \in written[j]
    BY <1>0, <2>0, <2>1 DEF HistoryKept
  <2>2. CASE j = k /\ w = new
    <3>1. later.id = id /\ rev < later.revision
      BY <1>13, <2>2
    <3>2. CASE later = new
      BY <1>3, <1>13, <3>1, <3>2
    <3>3. CASE later \in written[k]
      <4>1. later.revision \in Nat /\ later.revision < rev
        BY <1>14, <3>1, <3>3
      <4> QED
        BY <1>3, <3>1, <4>1
    <3> QED
      BY <1>7, <2>2, <3>2, <3>3
  <2>3. CASE j = k /\ w \in written[k] /\ later = new
    <3>1. Exists(k) /\ w.id = created[k] /\ w.revision \in Nat /\ w.revision < rev
      BY <1>13, <1>14, <2>3
    <3>2. CASE w.revision = configs[k].revision
      <4>1. w.content = configs[k].content
        BY <1>0, <1>2, <2>3, <3>1, <3>2 DEF LastWritten
      <4>2. VersionOf(k) \in versions'
        BY <1>1, <3>1
      <4> QED
        BY <2>3, <3>1, <3>2, <4>1, <4>2 DEF VersionOf
    <3>3. CASE w.revision < configs[k].revision
      <4>1. PICK x \in written[k] : x.id = created[k] /\ x.revision = configs[k].revision
        BY <1>0, <1>2, <3>1 DEF LastWritten
      <4> QED
        BY <1>0, <1>2, <2>0, <2>3, <3>1, <3>3, <4>1 DEF HistoryKept
    <3> QED
      BY <1>3, <3>1, <3>2, <3>3
  <2> QED
    BY <1>7, <2>1, <2>2, <2>3
<1>17. \A d \in Clients : Saving(d)' => d # c /\ Saving(d) /\ request'[d] = request[d]
  BY <1>0, <1>1 DEF Saving, TypeOK, Idle
<1>18. Held'
  <2> SUFFICES ASSUME NEW d \in Clients, Saving(d)'
               PROVE  \/ request[d].insert
                      \/ /\ configs'[request[d].key] # NoConfig
                         /\ request[d].revision = configs'[request[d].key].revision
    BY <1>17 DEF Held, Exists
  <2>0. Saving(d) /\ d # c /\ request[d].key \in Keys
    BY <1>0, <1>17, Kinds DEF SaveRequest
  <2>1. CASE request[d].key = k
    BY <1>0, <2>0, <2>1 DEF OneWriter
  <2>2. CASE request[d].key # k
    <3> HIDE DEF row, k
    <3>1. configs'[request[d].key] = configs[request[d].key]
      BY <1>5, <2>0, <2>2
    <3> QED
      BY <1>0, <2>0, <3>1 DEF Held, Exists
  <2> QED
    BY <2>1, <2>2
<1>19. OneWriter'
  BY <1>0, <1>17 DEF OneWriter
<1> QED
  BY <1>9, <1>10, <1>11, <1>15, <1>16, <1>18, <1>19 DEF IInv

-----------------------------------------------------------------------------
LEMMA RemoveListingInv ==
  ASSUME IInv, NEW k \in Listings, RemoveListing(k)
  PROVE  IInv'
<1> USE DEF IInv
<1>0. k \in Keys /\ Exists(k) /\ ~Locked(k) /\ UNCHANGED <<versions, redirects, created, request, written>>
  BY SeoPathsAssumption DEF RemoveListing, HasRule
<1>1. /\ configs' = [configs EXCEPT ![k] = NoConfig]
      /\ former' = [former EXCEPT ![k] = {}]
  BY DEF RemoveListing
<1>2. configs'[k] = NoConfig /\ \A j \in Keys \ {k} : configs'[j] = configs[j]
  BY <1>0, <1>1 DEF TypeOK
<1>3. ~Exists(k)' /\ \A j \in Keys \ {k} : Exists(j)' <=> Exists(j)
  BY <1>2 DEF Exists
<1>4. TypeOK'
  BY <1>0, <1>1 DEF TypeOK
<1>5. Counted' /\ PathsUnique'
  BY <1>2 DEF Counted, PathsUnique, Exists
<1>6. LastWritten'
  BY <1>0, <1>2, <1>3 DEF LastWritten
<1>7. HistoryKept'
  BY <1>0 DEF HistoryKept
<1>8. \A d \in Clients : Saving(d) => request[d].key \in Keys \ {k}
  BY <1>0, Kinds DEF Locked, Saving, SaveRequest
<1>9. Held' /\ OneWriter'
  BY <1>0, <1>2, <1>8 DEF Held, OneWriter, Exists, Saving
<1> QED
  BY <1>4, <1>5, <1>6, <1>7, <1>9

\* A redirect is written and promises are taken back.
LEMMA RedirectsInv ==
  ASSUME IInv, redirects' \in [Paths -> Redirect \cup {NoRedirect}],
         former' \in [Keys -> SUBSET Paths], UNCHANGED <<configs, versions, created, request, written>>
  PROVE  IInv'
<1> USE DEF IInv
<1>1. TypeOK'
  BY DEF TypeOK
<1>2. Counted' /\ PathsUnique' /\ LastWritten' /\ HistoryKept'
  BY RowsStay
<1>3. Held' /\ OneWriter'
  BY DEF Held, OneWriter, Saving, Exists
<1> QED
  BY <1>1, <1>2, <1>3

\* Whatever is released, former paths stay paths.
LEMMA ReleasedTyped ==
  ASSUME TypeOK, NEW p, Released(p)
  PROVE  former' \in [Keys -> SUBSET Paths]
<1>1. \A k \in Keys : {q \in former[k] : ~Through(q, p) \/ p = PathOf(k)} \subseteq Paths
  BY DEF TypeOK
<1> QED
  BY <1>1 DEF Released

LEMMA CommitRedirectInv ==
  ASSUME IInv, NEW c \in Clients, CommitRedirect(c)
  PROVE  IInv'
<1> DEFINE r == request[c]
           row == [dest |-> r.dest, active |-> r.active]
<1>0. /\ TypeOK /\ r \in RedirectRequest /\ Released(r.source)
      /\ redirects' = [redirects EXCEPT ![r.source] = row]
      /\ request' = [request EXCEPT ![c] = Idle]
      /\ UNCHANGED <<configs, versions, created, written>>
  BY Kinds DEF IInv, CommitRedirect
<1>1. row \in Redirect
  BY <1>0 DEF RedirectRequest, Redirect
<1>2. redirects' \in [Paths -> Redirect \cup {NoRedirect}]
  BY <1>0, <1>1 DEF TypeOK
<1>3. former' \in [Keys -> SUBSET Paths]
  BY <1>0, ReleasedTyped
<1>4. TypeOK'
  BY <1>0, <1>2, <1>3 DEF TypeOK
<1>5. Counted' /\ PathsUnique' /\ LastWritten' /\ HistoryKept'
  BY <1>0, RowsStay DEF IInv
<1>6. \A d \in Clients : Saving(d)' => Saving(d) /\ request'[d] = request[d]
  BY <1>0 DEF Saving, TypeOK, Idle
<1>7. Held' /\ OneWriter'
  BY <1>0, <1>6 DEF IInv, Held, OneWriter, Exists
<1> QED
  BY <1>4, <1>5, <1>7 DEF IInv

LEMMA RemoveRedirectInv ==
  ASSUME IInv, NEW p \in Paths, RemoveRedirect(p)
  PROVE  IInv'
<1>1. redirects' \in [Paths -> Redirect \cup {NoRedirect}]
  BY DEF RemoveRedirect, IInv, TypeOK
<1>2. former' \in [Keys -> SUBSET Paths]
  BY ReleasedTyped DEF RemoveRedirect, IInv
<1> QED
  BY <1>1, <1>2, RedirectsInv DEF RemoveRedirect

-----------------------------------------------------------------------------
\* What an open form holds.
LEMMA OpenFormTyped ==
  ASSUME TypeOK, NEW k \in Keys
  PROVE  [kind |-> "form", key |-> k, revision |-> configs[k].revision,
          rule |-> IF HasRule(k) THEN created[k] ELSE 0] \in OpenForm
<1>1. configs[k].revision \in Nat
  BY DEF TypeOK, Config, NoConfig
<1>2. (IF HasRule(k) THEN created[k] ELSE 0) \in Nat
  BY DEF TypeOK
<1> QED
  BY <1>1, <1>2 DEF OpenForm

\* What restore has read before its transaction.
LEMMA RestoreFormTyped ==
  ASSUME TypeOK, NEW c \in Clients, NEW v \in versions, ReadVersion(c, v)
  PROVE  \E r \in RestoreForm \cup {Idle} : request' = [request EXCEPT ![c] = r]
<1> DEFINE r == [kind |-> "restore", key |-> v.key, revision |-> request[c].revision,
                 rule |-> IF v.rule THEN v.id ELSE 0,
                 path |-> configs[v.key].path, content |-> v.content]
<1>1. v \in Version /\ request[c] \in OpenForm
  BY Kinds DEF ReadVersion, TypeOK
<1>2. v.key \in Keys /\ v.id \in Nat /\ v.content \in Content /\ request[c].revision \in Nat
  BY <1>1 DEF Version, OpenForm
<1>3. (IF v.rule THEN v.id ELSE 0) \in Nat
  BY <1>2
<1>4. Exists(v.key) => r \in RestoreForm
  <2>1. Exists(v.key) => configs[v.key].path \in Paths \cup {NoPath}
    BY <1>2 DEF TypeOK, Exists, Config
  <2> QED
    BY <1>2, <1>3, <2>1 DEF RestoreForm
<1> QED
  BY <1>4 DEF ReadVersion

LEMMA NextInv ==
  ASSUME IInv, [Next]_vars
  PROVE  IInv'
<1>0. TypeOK
  BY DEF IInv
<1>1. ASSUME NEW c \in Clients, NEW k \in Keys, OpenSaveForm(c, k)
      PROVE  IInv'
  BY <1>0, <1>1, OpenFormTyped, RequestInv DEF OpenSaveForm
<1>2. ASSUME NEW c \in Clients, NEW v \in versions, ReadVersion(c, v)
      PROVE  IInv'
  <2>1. PICK r \in RestoreForm \cup {Idle} : request' = [request EXCEPT ![c] = r]
    BY <1>0, <1>2, RestoreFormTyped
  <2>2. UNCHANGED <<configs, versions, redirects, created, written, former>>
    BY <1>2 DEF ReadVersion
  <2> QED
    BY <2>1, <2>2, RequestInv
<1>3. ASSUME NEW c \in Clients, Duplicate(c) \/ ListingGone(c)
      PROVE  IInv'
  BY <1>3, RequestInv DEF Duplicate, ListingGone
<1>4. ASSUME NEW c \in Clients, NEW s \in Sources, NEW d \in Paths, NEW active \in BOOLEAN,
             BeginRedirect(c, s, d, active)
      PROVE  IInv'
  <2>1. [kind |-> "redirect", source |-> s, dest |-> d, active |-> active] \in RedirectRequest
    BY SeoPathsAssumption DEF RedirectRequest
  <2> QED
    BY <1>4, <2>1, RequestInv DEF BeginRedirect
<1>5. CASE UNCHANGED vars
  <2>1. UNCHANGED <<configs, versions, redirects, created, request, written, former>>
    BY <1>5 DEF vars
  <2> QED
    BY <2>1, RedirectsInv DEF IInv, TypeOK
<1>6. Sources \subseteq Paths
  BY SeoPathsAssumption
<1> QED
  BY <1>1, <1>2, <1>3, <1>4, <1>5, <1>6, BeginSaveInv, BeginRestoreInv, CommitSaveInv, CommitRedirectInv,
     RemoveListingInv, RemoveRedirectInv DEF Next

\* The inductive invariant: no two pages share a path, what a save has replaced is
\* a version, and a save about to commit makes its row or has the one it checked.
THEOREM SeoInvariant == Spec => []IInv
<1>1. Init => IInv
  BY InitInv
<1>2. IInv /\ [Next]_vars => IInv'
  BY NextInv
<1> QED
  BY <1>1, <1>2, PTL DEF Spec

\* Every reachable state is well typed.
THEOREM SeoTypes == Spec => []TypeOK
BY SeoInvariant, PTL DEF IInv

\* persistConfig and the unique key of seo_configs: no path belongs to two pages,
\* however many saves check and commit at the same time.
THEOREM OnePagePerPath == Spec => []PathsUnique
BY SeoInvariant, PTL DEF IInv

\* seo_config_versions: every revision that a later save replaced is in the history
\* with its number and content, also after its page was removed and created again.
THEOREM VersionsKept == Spec => []HistoryKept
BY SeoInvariant, PTL DEF IInv

\* persistConfig: a save replaces only the revision its form was loaded at, although
\* the check and the write are separate steps.
THEOREM SavesSeen == Spec => NothingUnseenReplaced
<1> DEFINE Replaced ==
      \A c \in Clients :
        request[c].kind = "config" /\ Exists(request[c].key)
          /\ configs'[request[c].key] # configs[request[c].key]
          /\ request'[c] = Idle
        => configs'[request[c].key].revision = request[c].revision + 1
<1>1. IInv /\ [Next]_vars => [Replaced]_vars
  <2> SUFFICES ASSUME IInv, Next, NEW c \in Clients, Saving(c), Exists(request[c].key),
                      configs'[request[c].key] # configs[request[c].key], request'[c] = Idle
               PROVE  configs'[request[c].key].revision = request[c].revision + 1
    BY DEF Saving
  <2>1. request[c] \in SaveRequest
    BY Kinds DEF IInv
  <2>2. CASE CommitSave(c)
    <3>1. request[c].revision = configs[request[c].key].revision
      BY <2>2, CommitFinds
    <3>2. configs' = [configs EXCEPT ![request[c].key] =
            [path |-> request[c].path, content |-> request[c].content,
             revision |-> configs[request[c].key].revision + 1,
             rule |-> HasRule(request[c].key) \/ request[c].newRule]]
      BY <2>2 DEF CommitSave
    <3> QED
      BY <2>1, <3>1, <3>2 DEF IInv, TypeOK, SaveRequest
  <2>3. ASSUME NEW d \in Clients \ {c}, CommitSave(d)
        PROVE  FALSE
    <3>1. request' = [request EXCEPT ![d] = Idle]
      BY <2>3 DEF CommitSave
    <3>2. request'[c] = request[c]
      BY <3>1 DEF IInv, TypeOK
    <3> QED
      BY <2>1, <3>2 DEF SaveRequest, Idle
  <2>4. ASSUME NEW k \in Listings, RemoveListing(k)
        PROVE  FALSE
    BY <2>1, <2>4 DEF RemoveListing, SaveRequest, Idle
  <2>5. UNCHANGED configs \/ (\E d \in Clients : CommitSave(d)) \/ \E k \in Listings : RemoveListing(k)
    <3>1. \A d, p, body, redirect, newRule, allowed :
            Begin(d, p, body, redirect, newRule, allowed) => UNCHANGED configs
      BY DEF Begin
    <3>2. \A d, p, body, redirect, listing : BeginSave(d, p, body, redirect, listing) => UNCHANGED configs
      BY <3>1 DEF BeginSave
    <3>3. \A d, redirect : BeginRestore(d, redirect) => UNCHANGED configs
      BY <3>1 DEF BeginRestore
    <3>4. \A d, k, v : OpenSaveForm(d, k) \/ ReadVersion(d, v) => UNCHANGED configs
      BY DEF OpenSaveForm, ReadVersion
    <3>5. \A d : ListingGone(d) \/ Duplicate(d) \/ CommitRedirect(d) => UNCHANGED configs
      BY DEF ListingGone, Duplicate, CommitRedirect
    <3>6. \A d, a, b, active, p : BeginRedirect(d, a, b, active) \/ RemoveRedirect(p) => UNCHANGED configs
      BY DEF BeginRedirect, RemoveRedirect
    <3> QED
      BY <3>2, <3>3, <3>4, <3>5, <3>6 DEF Next
  <2> QED
    BY <2>2, <2>3, <2>4, <2>5
<1>2. Spec => []IInv
  BY SeoInvariant
<1> QED
  BY <1>1, <1>2, PTL DEF Spec, NothingUnseenReplaced

-----------------------------------------------------------------------------
(* Induction, and where a walk along redirects leads *)

LEMMA Least ==
  ASSUME NEW S, S \subseteq Nat, S # {}
  PROVE  \E m \in S : \A n \in S : m <= n
<1> DEFINE R == OpToRel(<, Nat)
<1>1. IsWellFoundedOn(R, Nat)
  BY NatLessThanWellFounded
<1>2. \A m, n \in Nat : <<m, n>> \in R <=> m < n
  BY DEF OpToRel
<1> HIDE DEF R
<1>3. \E m \in S : \A n \in S : ~(<<n, m>> \in R)
  BY <1>1, WFMin
<1>4. PICK m \in S : \A n \in S : ~(<<n, m>> \in R)
  BY <1>3
<1>5. ASSUME NEW n \in S PROVE m <= n
  <2>1. m \in Nat /\ n \in Nat /\ ~(n < m)
    BY <1>2, <1>4
  <2> QED BY <2>1
<1> QED
  BY <1>5

LEMMA Induct ==
  ASSUME NEW S, 0 \in S, \A n \in Nat : n \in S => n + 1 \in S
  PROVE  Nat \subseteq S
<1> SUFFICES ASSUME Nat \ S # {} PROVE FALSE
  OBVIOUS
<1>1. PICK m \in Nat \ S : \A n \in Nat \ S : m <= n
  BY Least
<1>2. m # 0 /\ m - 1 \in Nat /\ m - 1 \notin Nat \ S
  BY <1>1
<1>3. (m - 1) + 1 \in S
  BY <1>2
<1> QED BY <1>1, <1>2, <1>3

Follow(r, p) == IF r[p].active THEN r[p].dest ELSE p
Walk(r, p, n) == LET f[i \in 0..n] == IF i = 0 THEN p ELSE Follow(r, f[i - 1]) IN f[n]

LEMMA WalkIs ==
  \A p, n : After(p, n) = Walk(redirects, p, n)
BY DEF After, Walk, Hop, Follow

LEMMA WalkIsNext ==
  \A p, n : After(p, n)' = Walk(redirects', p, n)
BY DEF After, Walk, Hop, Follow

\* The places a walk comes by, up to the n-th.
Trace(r, p, n, f) == f = [i \in 0..n |-> IF i = 0 THEN p ELSE Follow(r, f[i - 1])]

LEMMA Traces ==
  ASSUME NEW r, NEW p
  PROVE  \A n \in Nat : \E f : Trace(r, p, n, f)
<1> DEFINE S == {n \in Nat : \E f : Trace(r, p, n, f)}
<1>1. 0 \in S
  <2> DEFINE f == [i \in 0..0 |-> p]
  <2>1. f = [i \in 0..0 |-> IF i = 0 THEN p ELSE Follow(r, f[i - 1])]
    OBVIOUS
  <2> QED  BY <2>1 DEF Trace
<1>2. ASSUME NEW n \in Nat, n \in S
      PROVE  n + 1 \in S
  <2>1. PICK f : Trace(r, p, n, f)
    BY <1>2
  <2> DEFINE g == [i \in 0..(n + 1) |-> IF i = n + 1 THEN Follow(r, f[n]) ELSE f[i]]
  <2>2. ASSUME NEW i \in 0..(n + 1)
        PROVE  g[i] = IF i = 0 THEN p ELSE Follow(r, g[i - 1])
    <3>0. i \in Nat /\ n + 1 # 0 /\ \A j \in 0..n : f[j] = IF j = 0 THEN p ELSE Follow(r, f[j - 1])
      BY <2>1 DEF Trace
    <3>1. CASE i = n + 1
      <4>1. g[i] = Follow(r, f[n]) /\ i - 1 = n /\ n \in 0..(n + 1) /\ n # n + 1
        BY <3>1
      <4>2. g[n] = f[n]
        BY <4>1
      <4> QED  BY <3>0, <3>1, <4>1, <4>2
    <3>2. CASE i = 0
      <4>1. g[i] = f[0]
        BY <3>0, <3>2
      <4> QED  BY <3>0, <3>2, <4>1
    <3>3. CASE i \in 1..n
      <4>1. g[i] = f[i] /\ g[i - 1] = f[i - 1]
        BY <3>3
      <4> QED  BY <3>0, <3>3, <4>1
    <3> QED  BY <3>1, <3>2, <3>3
  <2> HIDE DEF g
  <2>3. g = [i \in 0..(n + 1) |-> IF i = 0 THEN p ELSE Follow(r, g[i - 1])]
    <3>1. g = [i \in 0..(n + 1) |-> g[i]]
      BY DEF g
    <3> QED  BY <2>2, <3>1
  <2> QED  BY <2>3 DEF Trace
<1> QED  BY <1>1, <1>2, Induct

\* A walk ends where its trace does.
LEMMA WalkTraced ==
  ASSUME NEW r, NEW p, NEW n \in Nat
  PROVE  \E f : Trace(r, p, n, f) /\ Walk(r, p, n) = f[n]
<1>1. PICK g : g = CHOOSE f : Trace(r, p, n, f)
  OBVIOUS
<1>2. \E f : Trace(r, p, n, f)
  BY Traces
<1>3. Trace(r, p, n, g)
  BY <1>1, <1>2
<1>4. Walk(r, p, n) = g[n]
  BY <1>1 DEF Walk, Trace
<1> QED  BY <1>3, <1>4

LEMMA SameTrace ==
  ASSUME NEW r, NEW p, NEW m \in Nat, NEW n \in Nat, NEW f, NEW g, Trace(r, p, m, f), Trace(r, p, n, g),
         m <= n
  PROVE  \A i \in 0..m : f[i] = g[i]
<1> DEFINE S == {i \in Nat : i <= m => f[i] = g[i]}
<1>0. /\ \A i \in 0..m : f[i] = IF i = 0 THEN p ELSE Follow(r, f[i - 1])
      /\ \A i \in 0..n : g[i] = IF i = 0 THEN p ELSE Follow(r, g[i - 1])
  BY DEF Trace
<1>1. 0 \in S
  BY <1>0
<1>2. ASSUME NEW i \in Nat, i \in S
      PROVE  i + 1 \in S
  <2> SUFFICES ASSUME i + 1 <= m
               PROVE  f[i + 1] = g[i + 1]
    OBVIOUS
  <2>1. i + 1 \in 0..m /\ i + 1 \in 0..n /\ i + 1 # 0 /\ (i + 1) - 1 = i /\ f[i] = g[i]
    BY <1>2
  <2> QED  BY <1>0, <2>1
<1>3. Nat \subseteq S
  BY <1>1, <1>2, Induct
<1> QED  BY <1>3

LEMMA WalkSteps ==
  ASSUME NEW r, NEW p
  PROVE  /\ Walk(r, p, 0) = p
         /\ \A n \in Nat : Walk(r, p, n + 1) = Follow(r, Walk(r, p, n))
<1>1. Walk(r, p, 0) = p
  BY WalkTraced DEF Trace
<1>2. ASSUME NEW n \in Nat
      PROVE  Walk(r, p, n + 1) = Follow(r, Walk(r, p, n))
  <2>1. PICK f : Trace(r, p, n, f) /\ Walk(r, p, n) = f[n]
    BY WalkTraced
  <2>2. PICK g : Trace(r, p, n + 1, g) /\ Walk(r, p, n + 1) = g[n + 1]
    BY WalkTraced
  <2>3. f[n] = g[n]
    BY <2>1, <2>2, SameTrace
  <2>4. n + 1 \in 0..(n + 1) /\ n + 1 # 0 /\ (n + 1) - 1 = n
    OBVIOUS
  <2>5. g[n + 1] = Follow(r, g[n])
    BY <2>2, <2>4 DEF Trace
  <2> QED  BY <2>1, <2>2, <2>3, <2>5
<1> QED  BY <1>1, <1>2

-----------------------------------------------------------------------------
Routes == [Paths -> Redirect \cup {NoRedirect}]

LEMMA FollowTyped ==
  ASSUME NEW r \in Routes, NEW p \in Paths
  PROVE  Follow(r, p) \in Paths
BY DEF Routes, Redirect, NoRedirect, Follow

LEMMA WalkTyped ==
  ASSUME NEW r \in Routes, NEW p \in Paths
  PROVE  \A n \in Nat : Walk(r, p, n) \in Paths
<1> DEFINE S == {n \in Nat : Walk(r, p, n) \in Paths}
<1>1. 0 \in S
  BY WalkSteps
<1>2. ASSUME NEW n \in Nat, n \in S
      PROVE  n + 1 \in S
  <2>1. Walk(r, p, n) \in Paths /\ Walk(r, p, n + 1) = Follow(r, Walk(r, p, n))
    BY <1>2, WalkSteps
  <2> QED  BY <2>1, FollowTyped
<1> QED  BY <1>1, <1>2, Induct

\* A walk goes on from where it is.
LEMMA WalkOn ==
  ASSUME NEW r, NEW p, NEW m \in Nat
  PROVE  \A n \in Nat : Walk(r, p, m + n) = Walk(r, Walk(r, p, m), n)
<1> DEFINE q == Walk(r, p, m)
           S == {n \in Nat : Walk(r, p, m + n) = Walk(r, q, n)}
<1>1. 0 \in S
  BY WalkSteps
<1>2. ASSUME NEW n \in Nat, n \in S
      PROVE  n + 1 \in S
  <2>1. m + (n + 1) = (m + n) + 1 /\ m + n \in Nat
    OBVIOUS
  <2>2. Walk(r, p, (m + n) + 1) = Follow(r, Walk(r, p, m + n))
    BY <2>1, WalkSteps
  <2>3. Walk(r, q, n + 1) = Follow(r, Walk(r, q, n))
    BY WalkSteps
  <2> QED  BY <1>2, <2>1, <2>2, <2>3
<1> QED  BY <1>1, <1>2, Induct

\* It stays where no redirect leads on.
LEMMA WalkRests ==
  ASSUME NEW r, NEW q, ~r[q].active
  PROVE  \A n \in Nat : Walk(r, q, n) = q
<1> DEFINE S == {n \in Nat : Walk(r, q, n) = q}
<1>1. 0 \in S
  BY WalkSteps
<1>2. ASSUME NEW n \in Nat, n \in S
      PROVE  n + 1 \in S
  <2>1. Walk(r, q, n) = q /\ Walk(r, q, n + 1) = Follow(r, Walk(r, q, n))
    BY <1>2, WalkSteps
  <2> QED  BY <2>1 DEF Follow
<1> QED  BY <1>1, <1>2, Induct

LEMMA WalkStops ==
  ASSUME NEW r, NEW p, NEW m \in Nat, ~r[Walk(r, p, m)].active
  PROVE  \A n \in Nat : n >= m => Walk(r, p, n) = Walk(r, p, m)
<1> SUFFICES ASSUME NEW n \in Nat, n >= m
             PROVE  Walk(r, p, n) = Walk(r, p, m)
  OBVIOUS
<1>1. n - m \in Nat /\ n = m + (n - m)
  OBVIOUS
<1>2. Walk(r, p, m + (n - m)) = Walk(r, Walk(r, p, m), n - m)
  BY <1>1, WalkOn
<1> QED  BY <1>1, <1>2, WalkRests

\* Whatever a walk meets, it meets within as many steps as there are paths.
LEMMA WalkShort ==
  ASSUME NEW r \in Routes, NEW p \in Paths, NEW n \in Nat
  PROVE  /\ Cardinality(Paths) \in Nat
         /\ \E m \in Nat : m < Cardinality(Paths) /\ Walk(r, p, m) = Walk(r, p, n)
<1> DEFINE N == Cardinality(Paths)
           S == {m \in Nat : Walk(r, p, m) = Walk(r, p, n)}
<1>0. IsFiniteSet(Paths) /\ N \in Nat
  BY SeoPathsAssumption, FS_CardinalityType
<1>1. n \in S /\ S \subseteq Nat
  OBVIOUS
<1>2. PICK m \in S : \A k \in S : m <= k
  BY <1>1, Least
<1> HIDE DEF N
<1>3. ASSUME m >= N
      PROVE  FALSE
  <2> DEFINE f == [i \in 0..N |-> Walk(r, p, i)]
  <2>1. f \in [0..N -> Paths]
    BY WalkTyped
  <2>2. IsFiniteSet(0..N) /\ Cardinality(0..N) = N + 1
    BY <1>0, FS_Interval
  <2>3. PICK i, j \in 0..N : i # j /\ f[i] = f[j]
    <3>1. Cardinality(Paths) < Cardinality(0..N)
      BY <1>0, <2>2 DEF N
    <3> HIDE DEF f
    <3> QED  BY <1>0, <2>1, <2>2, <3>1, FS_PigeonHole
  <2>4. PICK a, b \in 0..N : a < b /\ Walk(r, p, a) = Walk(r, p, b)
    <3>1. CASE i < j
      BY <2>3, <3>1
    <3>2. CASE j < i
      BY <2>3, <3>2
    <3> QED  BY <1>0, <2>3, <3>1, <3>2
  <2>5. /\ a \in Nat /\ b \in Nat /\ m \in Nat /\ m - b \in Nat /\ m = b + (m - b)
        /\ a + (m - b) \in Nat /\ a + (m - b) < m
    BY <1>0, <1>3, <2>4
  <2>6. Walk(r, p, m) = Walk(r, Walk(r, p, b), m - b)
    BY <2>5, WalkOn
  <2>7. Walk(r, p, a + (m - b)) = Walk(r, Walk(r, p, a), m - b)
    BY <2>5, WalkOn
  <2>8. a + (m - b) \in S
    BY <1>2, <2>4, <2>5, <2>6, <2>7
  <2> QED  BY <1>2, <2>5, <2>8
<1>4. m \in Nat /\ m < N /\ Walk(r, p, m) = Walk(r, p, n)
  BY <1>0, <1>2, <1>3
<1> QED  BY <1>0, <1>4 DEF N

Arrives(r, p) == \E n \in Nat : ~r[Walk(r, p, n)].active

Avoids(r, p, s) == \E n \in Nat : ~r[Walk(r, p, n)].active /\ \A m \in 0..n : Walk(r, p, m) # s

LEMMA ArrivesEnd ==
  ASSUME NEW r \in Routes, NEW p \in Paths, Arrives(r, p)
  PROVE  ~r[Walk(r, p, Cardinality(Paths))].active
<1>1. PICK n \in Nat : ~r[Walk(r, p, n)].active
  BY DEF Arrives
<1>2. PICK m \in Nat : m < Cardinality(Paths) /\ Walk(r, p, m) = Walk(r, p, n)
  BY WalkShort
<1>3. Cardinality(Paths) \in Nat
  BY WalkShort
<1> QED  BY <1>1, <1>2, <1>3, WalkStops

\* q is r with another redirect at s.
Differ(r, q, s) == \A x \in Paths \ {s} : q[x] = r[x]

\* Walks are the same up to the place where redirects differ.
LEMMA WalkSame ==
  ASSUME NEW r \in Routes, NEW q, NEW s, NEW p \in Paths, NEW n \in Nat,
         Differ(r, q, s), \A m \in 0..(n - 1) : Walk(r, p, m) # s
  PROVE  \A m \in 0..n : Walk(q, p, m) = Walk(r, p, m)
<1> DEFINE S == {m \in Nat : m <= n => Walk(q, p, m) = Walk(r, p, m)}
<1>1. 0 \in S
  BY WalkSteps
<1>2. ASSUME NEW m \in Nat, m \in S
      PROVE  m + 1 \in S
  <2> SUFFICES ASSUME m + 1 <= n
               PROVE  Walk(q, p, m + 1) = Walk(r, p, m + 1)
    OBVIOUS
  <2>1. Walk(q, p, m) = Walk(r, p, m) /\ Walk(r, p, m) \in Paths \ {s}
    BY <1>2, WalkTyped
  <2>2. Follow(q, Walk(q, p, m)) = Follow(r, Walk(r, p, m))
    BY <2>1 DEF Follow, Differ
  <2>3. /\ Walk(q, p, m + 1) = Follow(q, Walk(q, p, m))
        /\ Walk(r, p, m + 1) = Follow(r, Walk(r, p, m))
    BY WalkSteps
  <2> QED  BY <2>2, <2>3
<1>3. Nat \subseteq S
  BY <1>1, <1>2, Induct
<1> QED  BY <1>3

\* A walk meets s for the first time, or not at all, before its n-th step.
LEMMA FirstMeeting ==
  ASSUME NEW r, NEW p, NEW s, NEW n \in Nat
  PROVE  \/ \A m \in 0..n : Walk(r, p, m) # s
         \/ \E k \in 0..n : Walk(r, p, k) = s /\ \A m \in 0..(k - 1) : Walk(r, p, m) # s
<1> DEFINE S == {k \in 0..n : Walk(r, p, k) = s}
<1>1. CASE S = {}
  BY <1>1
<1>2. CASE S # {}
  <2>0. S \subseteq Nat
    OBVIOUS
  <2>1. PICK k \in S : \A m \in S : k <= m
    BY <1>2, <2>0, Least
  <2> QED  BY <2>1
<1> QED  BY <1>1, <1>2

-----------------------------------------------------------------------------
\* Either a walk of n steps misses s, and is the same with the other redirect,
\* or it is the same until it meets s.
LEMMA MeetsOrNot ==
  ASSUME NEW r \in Routes, NEW q, NEW s, Differ(r, q, s), NEW p \in Paths, NEW n \in Nat
  PROVE  \/ \A m \in 0..n : Walk(q, p, m) = Walk(r, p, m) /\ Walk(r, p, m) \in Paths \ {s}
         \/ \E k \in Nat : /\ k <= n /\ Walk(r, p, k) = s /\ Walk(q, p, k) = s
                           /\ \A m \in 0..k : Walk(q, p, m) = Walk(r, p, m)
<1>1. CASE \A m \in 0..n : Walk(r, p, m) # s
  <2>1. \A m \in 0..(n - 1) : Walk(r, p, m) # s
    BY <1>1
  <2>2. \A m \in 0..n : Walk(q, p, m) = Walk(r, p, m)
    BY <2>1, WalkSame
  <2>3. \A m \in 0..n : Walk(r, p, m) \in Paths \ {s}
    BY <1>1, WalkTyped
  <2> QED  BY <2>2, <2>3
<1>2. CASE \E k \in 0..n : Walk(r, p, k) = s /\ \A m \in 0..(k - 1) : Walk(r, p, m) # s
  <2>1. PICK k \in 0..n : Walk(r, p, k) = s /\ \A m \in 0..(k - 1) : Walk(r, p, m) # s
    BY <1>2
  <2>2. k \in Nat /\ k <= n /\ k \in 0..k
    OBVIOUS
  <2>3. \A m \in 0..k : Walk(q, p, m) = Walk(r, p, m)
    BY <2>1, <2>2, WalkSame
  <2>4. Walk(q, p, k) = s
    BY <2>1, <2>2, <2>3
  <2> QED  BY <2>1, <2>2, <2>3, <2>4
<1>3. \/ \A m \in 0..n : Walk(r, p, m) # s
      \/ \E k \in 0..n : Walk(r, p, k) = s /\ \A m \in 0..(k - 1) : Walk(r, p, m) # s
  BY FirstMeeting
<1> QED  BY <1>1, <1>2, <1>3

\* Where s leads nowhere, walks end there at the latest.
LEMMA ArrivesStill ==
  ASSUME NEW r \in Routes, NEW q, NEW s, Differ(r, q, s), ~q[s].active, NEW p \in Paths, Arrives(r, p)
  PROVE  Arrives(q, p)
<1>1. PICK n \in Nat : ~r[Walk(r, p, n)].active
  BY DEF Arrives
<1>2. CASE \A m \in 0..n : Walk(q, p, m) = Walk(r, p, m) /\ Walk(r, p, m) \in Paths \ {s}
  <2>1. Walk(q, p, n) = Walk(r, p, n) /\ Walk(r, p, n) \in Paths \ {s}
    BY <1>2
  <2> QED  BY <1>1, <2>1 DEF Arrives, Differ
<1>3. ASSUME NEW k \in Nat, Walk(q, p, k) = s
      PROVE  Arrives(q, p)
  BY <1>3 DEF Arrives
<1> QED  BY <1>2, <1>3, MeetsOrNot

LEMMA AvoidsStill ==
  ASSUME NEW r \in Routes, NEW q, NEW s, Differ(r, q, s), ~q[s].active, NEW p \in Paths, NEW x, Avoids(r, p, x)
  PROVE  Avoids(q, p, x)
<1>1. PICK n \in Nat : ~r[Walk(r, p, n)].active /\ \A m \in 0..n : Walk(r, p, m) # x
  BY DEF Avoids
<1>2. CASE \A m \in 0..n : Walk(q, p, m) = Walk(r, p, m) /\ Walk(r, p, m) \in Paths \ {s}
  <2>1. Walk(q, p, n) = Walk(r, p, n) /\ Walk(r, p, n) \in Paths \ {s}
    BY <1>2
  <2>2. ~q[Walk(q, p, n)].active
    BY <1>1, <2>1 DEF Differ
  <2>3. \A m \in 0..n : Walk(q, p, m) # x
    BY <1>1, <1>2
  <2> QED  BY <2>2, <2>3 DEF Avoids
<1>3. ASSUME NEW k \in Nat, k <= n, Walk(q, p, k) = s, \A m \in 0..k : Walk(q, p, m) = Walk(r, p, m)
      PROVE  Avoids(q, p, x)
  <2>1. \A m \in 0..k : Walk(q, p, m) # x
    BY <1>1, <1>3
  <2> QED  BY <1>3, <2>1 DEF Avoids
<1> QED  BY <1>2, <1>3, MeetsOrNot

\* A walk that avoids s is the same with the other redirect.
LEMMA AvoidsSame ==
  ASSUME NEW r \in Routes, NEW q, NEW s, Differ(r, q, s), NEW p \in Paths, Avoids(r, p, s)
  PROVE  Arrives(q, p)
<1>1. PICK n \in Nat : ~r[Walk(r, p, n)].active /\ \A m \in 0..n : Walk(r, p, m) # s
  BY DEF Avoids
<1>2. Walk(q, p, n) = Walk(r, p, n) /\ Walk(r, p, n) \in Paths \ {s}
  <2>1. CASE \A m \in 0..n : Walk(q, p, m) = Walk(r, p, m) /\ Walk(r, p, m) \in Paths \ {s}
    BY <2>1
  <2>2. ASSUME NEW k \in Nat, k <= n, Walk(r, p, k) = s
        PROVE  FALSE
    BY <1>1, <2>2
  <2> QED  BY <2>1, <2>2, MeetsOrNot
<1> QED  BY <1>1, <1>2 DEF Arrives, Differ

\* A new redirect closes no loop if the walk from its destination avoids it.
LEMMA ArrivesNew ==
  ASSUME NEW r \in Routes, NEW q, NEW s, NEW t \in Paths, Differ(r, q, s),
         q[s].active, q[s].dest = t, Avoids(r, t, s), NEW p \in Paths, Arrives(r, p)
  PROVE  Arrives(q, p)
<1>1. PICK n \in Nat : ~r[Walk(r, p, n)].active
  BY DEF Arrives
<1>2. CASE \A m \in 0..n : Walk(q, p, m) = Walk(r, p, m) /\ Walk(r, p, m) \in Paths \ {s}
  <2>1. Walk(q, p, n) = Walk(r, p, n) /\ Walk(r, p, n) \in Paths \ {s}
    BY <1>2
  <2> QED  BY <1>1, <2>1 DEF Arrives, Differ
<1>3. ASSUME NEW k \in Nat, Walk(q, p, k) = s
      PROVE  Arrives(q, p)
  <2>1. Walk(q, p, k + 1) = t
    BY <1>3, WalkSteps DEF Follow
  <2>2. PICK j \in Nat : ~q[Walk(q, t, j)].active
    BY AvoidsSame DEF Arrives
  <2>3. k + 1 \in Nat /\ (k + 1) + j \in Nat
    OBVIOUS
  <2>4. Walk(q, p, (k + 1) + j) = Walk(q, t, j)
    BY <2>1, <2>3, WalkOn
  <2> QED  BY <2>2, <2>3, <2>4 DEF Arrives
<1> QED  BY <1>2, <1>3, MeetsOrNot

\* Redirects along former paths lead to the path the page has.
LEMMA ChainLeads ==
  ASSUME NEW r \in Routes, NEW F, F \subseteq Paths, NEW h,
         \A x \in F : r[x].active /\ (r[x].dest \in F \/ r[x].dest = h),
         NEW p \in F, Arrives(r, p)
  PROVE  /\ h \in Paths
         /\ Walk(r, p, Cardinality(Paths)) = Walk(r, h, Cardinality(Paths))
<1>1. PICK n \in Nat : ~r[Walk(r, p, n)].active
  BY DEF Arrives
<1>2. Walk(r, p, 0) = p /\ \A m \in Nat : Walk(r, p, m + 1) = Follow(r, Walk(r, p, m))
  BY WalkSteps
<1>3. \E m \in Nat : Walk(r, p, m) = h
  <2> SUFFICES ASSUME \A m \in Nat : Walk(r, p, m) # h
               PROVE  FALSE
    OBVIOUS
  <2> DEFINE S == {m \in Nat : Walk(r, p, m) \in F}
  <2>1. 0 \in S
    BY <1>2
  <2>2. ASSUME NEW m \in Nat, m \in S
        PROVE  m + 1 \in S
    <3>1. Walk(r, p, m) \in F /\ Walk(r, p, m + 1) # h
      BY <2>2
    <3>2. Walk(r, p, m + 1) = r[Walk(r, p, m)].dest
      BY <1>2, <3>1 DEF Follow
    <3> QED  BY <3>1, <3>2
  <2>3. n \in S
    BY <2>1, <2>2, Induct
  <2> QED  BY <1>1, <2>3
<1>4. PICK m \in Nat : Walk(r, p, m) = h
  BY <1>3
<1>5. h \in Paths
  BY <1>4, WalkTyped
<1> DEFINE N == Cardinality(Paths)
<1>6. N \in Nat
  BY WalkShort
<1>7. \E k \in Nat : ~r[Walk(r, h, k)].active
  <2>1. m + n \in Nat /\ m + n >= n
    OBVIOUS
  <2>2. Walk(r, p, m + n) = Walk(r, p, n)
    BY <1>1, <2>1, WalkStops
  <2>3. Walk(r, p, m + n) = Walk(r, h, n)
    BY <1>4, WalkOn
  <2> QED  BY <1>1, <2>2, <2>3
<1>8. ~r[Walk(r, p, N)].active /\ ~r[Walk(r, h, N)].active
  BY <1>5, <1>7, ArrivesEnd DEF Arrives
<1>9. Walk(r, p, m + N) = Walk(r, h, N)
  BY <1>4, <1>6, WalkOn
<1>10. Walk(r, p, m + N) = Walk(r, p, N)
  BY <1>6, <1>8, WalkStops
<1> QED  BY <1>5, <1>9, <1>10

-----------------------------------------------------------------------------
(* Redirects never form a loop, as long as one person edits *)

Sole == \A c, d \in Clients : c = d

\* The move that a save is about to make, and the redirect about to be stored,
\* lead to a path from which nothing leads back.
Roads ==
  /\ \A p \in Paths : Arrives(redirects, p)
  /\ \A c \in Clients :
       /\ Saving(c) /\ Moves(request[c].key, request[c].path, request[c].redirect)
            => Avoids(redirects, request[c].path, PathOf(request[c].key))
       /\ request[c].kind = "redirect" => Avoids(redirects, request[c].dest, request[c].source)

LEMMA RoutesTyped == TypeOK => redirects \in Routes
BY DEF TypeOK, Routes

\* The check of a redirect finds that nothing leads back.
LEMMA RefusedFinds ==
  ASSUME NEW s, NEW t, ~Refused(s, t)
  PROVE  Avoids(redirects, t, s)
<1>1. MaxHops \in Nat
  BY SeoPathsAssumption
<1>2. /\ \A n \in 0..(MaxHops - 1) : Walk(redirects, t, n) # s
      /\ \E n \in 0..(MaxHops - 1) : ~redirects[Walk(redirects, t, n)].active
  BY WalkIs DEF Refused
<1>3. PICK n \in 0..(MaxHops - 1) : ~redirects[Walk(redirects, t, n)].active
  BY <1>2
<1>4. n \in Nat /\ 0..n \subseteq 0..(MaxHops - 1)
  BY <1>1
<1> QED  BY <1>2, <1>3, <1>4 DEF Avoids

LEMMA SamePath ==
  ASSUME UNCHANGED configs
  PROVE  \A k : PathOf(k)' = PathOf(k) /\ \A p, redirect : Moves(k, p, redirect)' <=> Moves(k, p, redirect)
BY DEF PathOf, Exists, Moves

\* Redirects stay as they are, and so does what leads where.
LEMMA RoadsIf ==
  ASSUME Sole, Roads, NEW c \in Clients, UNCHANGED <<configs, redirects>>,
         request'[c].kind = "config" =>
           (Moves(request'[c].key, request'[c].path, request'[c].redirect)
              => Avoids(redirects, request'[c].path, PathOf(request'[c].key))),
         request'[c].kind = "redirect" => Avoids(redirects, request'[c].dest, request'[c].source)
  PROVE  Roads'
<1>1. PICK n : n = request'[c]
  OBVIOUS
<1>2. \A d \in Clients : request'[d] = n
  BY <1>1 DEF Sole
<1>3. PathOf(n.key)' = PathOf(n.key) /\ (Moves(n.key, n.path, n.redirect)' <=> Moves(n.key, n.path, n.redirect))
  BY SamePath
<1> QED  BY <1>1, <1>2, <1>3 DEF Roads, Saving

LEMMA BeginRoads ==
  ASSUME TypeOK, Sole, Roads, NEW c \in Clients, NEW p, NEW body, NEW redirect, NEW newRule, NEW allowed,
         Begin(c, p, body, redirect, newRule, allowed)
  PROVE  Roads'
<1>1. PICK k, t : k = request[c].key /\ t = Target(request[c].key, p)
  OBVIOUS
<1> DEFINE r == [kind |-> "config", key |-> k, revision |-> request[c].revision,
                 insert |-> ~Exists(k), newRule |-> newRule, path |-> t,
                 content |-> Merged(k, body), redirect |-> Moves(k, t, redirect)]
<1>2. UNCHANGED <<configs, redirects>>
  BY DEF Begin
<1>3. CASE request' = [request EXCEPT ![c] = Idle]
  <2>1. request'[c] = Idle
    BY <1>3 DEF TypeOK
  <2> QED  BY <1>2, <2>1, RoadsIf DEF Idle
<1>4. CASE request' = [request EXCEPT ![c] = r] /\ Acceptable(k, request[c].revision, p, redirect)
  <2>1. request'[c] = r
    BY <1>4 DEF TypeOK
  <2>2. Moves(k, t, redirect) => Avoids(redirects, t, PathOf(k))
    BY <1>1, <1>4, RefusedFinds DEF Acceptable
  <2>3. /\ request'[c].kind = "config" /\ request'[c].key = k /\ request'[c].path = t
        /\ request'[c].redirect = Moves(k, t, redirect)
    BY <2>1
  <2>4. Moves(k, t, Moves(k, t, redirect)) => Moves(k, t, redirect)
    BY DEF Moves
  <2> QED  BY <1>2, <2>2, <2>3, <2>4, RoadsIf
<1> QED  BY <1>1, <1>3, <1>4 DEF Begin

LEMMA RequestRoads ==
  ASSUME TypeOK, Sole, Roads, NEW c \in Clients, NEW r \in OpenForm \cup RestoreForm \cup {Idle},
         request' = [request EXCEPT ![c] = r], UNCHANGED <<configs, redirects>>
  PROVE  Roads'
<1>1. request'[c] = r
  BY DEF TypeOK
<1>2. r.kind \notin {"config", "redirect"}
  BY DEF OpenForm, RestoreForm, Idle
<1> QED  BY <1>1, <1>2, RoadsIf

LEMMA BeginRedirectRoads ==
  ASSUME TypeOK, Sole, Roads, NEW c \in Clients, NEW s, NEW d, NEW active, BeginRedirect(c, s, d, active)
  PROVE  Roads'
<1> DEFINE r == [kind |-> "redirect", source |-> s, dest |-> d, active |-> active]
<1>1. request'[c] = r /\ UNCHANGED <<configs, redirects>>
  BY DEF BeginRedirect, TypeOK
<1>2. Avoids(redirects, d, s)
  BY RefusedFinds DEF BeginRedirect
<1>3. request'[c].kind = "redirect" /\ request'[c].dest = d /\ request'[c].source = s
  BY <1>1
<1> QED  BY <1>1, <1>2, <1>3, RoadsIf

\* Nothing is under way after the only request there was has ended.
LEMMA EndRoads ==
  ASSUME TypeOK, Sole, NEW c \in Clients, request' = [request EXCEPT ![c] = Idle],
         \A p \in Paths : Arrives(redirects', p)
  PROVE  Roads'
<1>1. \A d \in Clients : request'[d] = Idle
  BY DEF TypeOK, Sole
<1> QED  BY <1>1 DEF Roads, Saving, Idle

LEMMA CommitSaveRoads ==
  ASSUME TypeOK, Sole, Roads, NEW c \in Clients, CommitSave(c)
  PROVE  Roads'
<1>1. PICK r, s, R, S : r = request[c] /\ s = PathOf(request[c].key) /\ R = redirects /\ S = redirects'
  OBVIOUS
<1>2. /\ r \in SaveRequest /\ R \in Routes /\ Saving(c)
      /\ request' = [request EXCEPT ![c] = Idle] /\ redirects' = RedirectsAfter(r)
  BY <1>1, Kinds, RoutesTyped DEF CommitSave, Saving
<1>3. \A p \in Paths : Arrives(R, p)
  BY <1>1 DEF Roads
<1>4. CASE Moves(r.key, r.path, r.redirect)
  <2>1. /\ S = [R EXCEPT ![s] = [dest |-> r.path, active |-> TRUE]]
        /\ s # NoPath /\ r.path \in Paths /\ r.key \in Keys
    BY <1>1, <1>2, <1>4 DEF RedirectsAfter, Moves, SaveRequest
  <2>2. s \in Paths
    BY <1>1, <2>1, PathTyped
  <2>3. S[s].active /\ S[s].dest = r.path /\ Differ(R, S, s)
    BY <1>2, <2>1, <2>2 DEF Routes, Differ
  <2>4. Avoids(R, r.path, s)
    BY <1>1, <1>2, <1>4 DEF Roads
  <2>5. \A p \in Paths : Arrives(S, p)
    BY <1>2, <1>3, <2>1, <2>3, <2>4, ArrivesNew
  <2> QED  BY <1>1, <1>2, <2>5, EndRoads
<1>5. CASE ~Moves(r.key, r.path, r.redirect)
  <2>1. S = R
    BY <1>1, <1>2, <1>5 DEF RedirectsAfter
  <2> QED  BY <1>1, <1>2, <1>3, <2>1, EndRoads
<1> QED  BY <1>4, <1>5

LEMMA CommitRedirectRoads ==
  ASSUME TypeOK, Sole, Roads, NEW c \in Clients, CommitRedirect(c)
  PROVE  Roads'
<1>1. PICK r, R, S : r = request[c] /\ R = redirects /\ S = redirects'
  OBVIOUS
<1>2. /\ r \in RedirectRequest /\ R \in Routes /\ r.kind = "redirect"
      /\ request' = [request EXCEPT ![c] = Idle]
      /\ S = [R EXCEPT ![r.source] = [dest |-> r.dest, active |-> r.active]]
  BY <1>1, Kinds, RoutesTyped DEF CommitRedirect
<1>3. \A p \in Paths : Arrives(R, p)
  BY <1>1 DEF Roads
<1>4. r.source \in Paths /\ r.dest \in Paths /\ r.active \in BOOLEAN
  BY <1>2 DEF RedirectRequest
<1>5. S[r.source].dest = r.dest /\ S[r.source].active = r.active /\ Differ(R, S, r.source)
  BY <1>2, <1>4 DEF Routes, Differ
<1>6. Avoids(R, r.dest, r.source)
  BY <1>1, <1>2 DEF Roads
<1>7. \A p \in Paths : Arrives(S, p)
  <2>1. CASE r.active
    BY <1>2, <1>3, <1>4, <1>5, <1>6, <2>1, ArrivesNew
  <2>2. CASE ~r.active
    BY <1>2, <1>3, <1>5, <2>2, ArrivesStill
  <2> QED  BY <2>1, <2>2
<1>8. \A p \in Paths : Arrives(redirects', p)
  BY <1>1, <1>7
<1> QED  BY <1>2, <1>8, EndRoads

LEMMA RemoveRedirectRoads ==
  ASSUME TypeOK, Roads, NEW s \in Paths, RemoveRedirect(s)
  PROVE  Roads'
<1>1. PICK R, S : R = redirects /\ S = redirects'
  OBVIOUS
<1>2. R \in Routes /\ S = [R EXCEPT ![s] = NoRedirect] /\ UNCHANGED <<configs, request>>
  BY <1>1, RoutesTyped DEF RemoveRedirect
<1>3. ~S[s].active /\ Differ(R, S, s)
  BY <1>2 DEF Routes, NoRedirect, Differ
<1>4. \A p \in Paths : Arrives(S, p)
  BY <1>1, <1>2, <1>3, ArrivesStill DEF Roads
<1>5. ASSUME NEW c \in Clients
      PROVE  /\ Saving(c)' /\ Moves(request[c].key, request[c].path, request[c].redirect)'
                  => Avoids(S, request[c].path, PathOf(request[c].key)')
             /\ request[c].kind = "redirect" => Avoids(S, request[c].dest, request[c].source)
  <2>1. CASE Saving(c) /\ Moves(request[c].key, request[c].path, request[c].redirect)
    <3>1. request[c].path \in Paths
      BY <2>1, Kinds DEF SaveRequest, Moves
    <3>2. Avoids(R, request[c].path, PathOf(request[c].key))
      BY <1>1, <2>1 DEF Roads
    <3>3. Avoids(S, request[c].path, PathOf(request[c].key))
      BY <1>2, <1>3, <3>1, <3>2, AvoidsStill
    <3> QED  BY <1>2, <2>1, <3>3, SamePath DEF Saving, SaveRequest
  <2>2. CASE request[c].kind = "redirect"
    <3>1. request[c].dest \in Paths
      BY <2>2, Kinds DEF RedirectRequest
    <3>2. Avoids(R, request[c].dest, request[c].source)
      BY <1>1, <2>2 DEF Roads
    <3>3. Avoids(S, request[c].dest, request[c].source)
      BY <1>2, <1>3, <3>1, <3>2, AvoidsStill
    <3> QED  BY <1>2, <2>2, <3>3 DEF Saving
  <2> QED  BY <1>2, <2>1, <2>2, SamePath DEF Saving
<1> QED  BY <1>1, <1>2, <1>4, <1>5 DEF Roads, Saving

\* A page that is removed is in no transaction.
LEMMA RemoveListingRoads ==
  ASSUME TypeOK, Roads, NEW k \in Listings, RemoveListing(k)
  PROVE  Roads'
<1>1. UNCHANGED <<redirects, request>> /\ k \in Keys
  BY SeoPathsAssumption DEF RemoveListing, HasRule
<1>2. ASSUME NEW c \in Clients, Saving(c)
      PROVE  PathOf(request[c].key)' = PathOf(request[c].key)
  <2>1. request[c].key # k /\ request[c].key \in Keys
    BY <1>2, Kinds DEF RemoveListing, HasRule, Locked, Saving, SaveRequest
  <2>2. configs'[request[c].key] = configs[request[c].key]
    BY <2>1 DEF RemoveListing, TypeOK
  <2> QED  BY <1>1, <2>2 DEF PathOf, Exists
<1> QED  BY <1>1, <1>2 DEF Roads, Saving, Moves

LEMMA RoadsStay ==
  ASSUME Sole
  PROVE  TypeOK /\ Roads /\ [Next]_vars => Roads'
<1> SUFFICES ASSUME TypeOK, Roads, [Next]_vars
             PROVE  Roads'
  OBVIOUS
<1>1. ASSUME NEW c \in Clients, NEW k \in Keys, OpenSaveForm(c, k)
      PROVE  Roads'
  BY <1>1, OpenFormTyped, RequestRoads DEF OpenSaveForm
<1>2. ASSUME NEW c \in Clients, NEW v \in versions, ReadVersion(c, v)
      PROVE  Roads'
  <2>1. PICK r \in RestoreForm \cup {Idle} : request' = [request EXCEPT ![c] = r]
    BY <1>2, RestoreFormTyped
  <2>2. UNCHANGED <<configs, redirects>>
    BY <1>2 DEF ReadVersion
  <2> QED  BY <2>1, <2>2, RequestRoads
<1>3. ASSUME NEW c \in Clients, Duplicate(c) \/ ListingGone(c)
      PROVE  Roads'
  BY <1>3, RequestRoads DEF Duplicate, ListingGone
<1>4. CASE UNCHANGED vars
  BY <1>4 DEF vars, Roads, Saving, Moves, PathOf, Exists
<1>5. ASSUME NEW c \in Clients, NEW p, NEW body, NEW redirect, NEW listing, BeginSave(c, p, body, redirect, listing)
      PROVE  Roads'
  BY <1>5, BeginRoads DEF BeginSave
<1>6. ASSUME NEW c \in Clients, NEW redirect, BeginRestore(c, redirect)
      PROVE  Roads'
  BY <1>6, BeginRoads DEF BeginRestore
<1>7. Sources \subseteq Paths
  BY SeoPathsAssumption
<1> QED
  BY <1>1, <1>2, <1>3, <1>4, <1>5, <1>6, <1>7, BeginRedirectRoads, CommitSaveRoads, CommitRedirectRoads,
     RemoveListingRoads, RemoveRedirectRoads DEF Next

LEMMA InitRoads == Init => Roads
<1> SUFFICES ASSUME Init
             PROVE  Roads
  OBVIOUS
<1>1. ASSUME NEW p \in Paths
      PROVE  Arrives(redirects, p)
  <2>1. Walk(redirects, p, 0) = p
    BY WalkSteps
  <2>2. ~redirects[p].active
    BY DEF Init, NoRedirect
  <2> QED  BY <2>1, <2>2 DEF Arrives
<1>2. \A c \in Clients : request[c].kind = "idle"
  BY DEF Init, Idle
<1> QED  BY <1>1, <1>2 DEF Roads, Saving

\* saveRedirect's walk from the destination: redirects never form a loop, for any
\* number of paths and any limit of hops, as long as one person edits at a time.
THEOREM NoRedirectLoops ==
  ASSUME \A c, d \in Clients : c = d
  PROVE  Spec => []NoLoops
<1>1. Sole
  BY DEF Sole
<1>3. TypeOK /\ Roads /\ [Next]_vars => Roads'
  BY <1>1, RoadsStay
<1>4. TypeOK /\ Roads => NoLoops
  <2> SUFFICES ASSUME TypeOK, Roads, NEW p \in Paths
               PROVE  ~redirects[End(p)].active
    BY DEF NoLoops
  <2>1. End(p) = Walk(redirects, p, Cardinality(Paths))
    BY WalkIs DEF End
  <2> QED  BY <2>1, RoutesTyped, ArrivesEnd DEF Roads
<1> QED
  BY <1>3, <1>4, InitRoads, SeoTypes, PTL DEF Spec

-----------------------------------------------------------------------------
(* Former paths lead to their page, as long as one person edits *)

\* No page has the CRM slug of another.
SlugsFree ==
  \A k \in Keys : Exists(k) => \A j \in Inventory \ {k} : Slug[j] # configs[k].path

\* A save is about to put page k at p: at no address, where k has none else; where
\* it is; or at an address that leads nowhere and is nobody's slug.
FreeTarget(k, p) ==
  \/ p = NoPath /\ k \notin Inventory
  \/ Exists(k) /\ p = configs[k].path
  \/ p \in Paths /\ ~redirects[p].active /\ \A j \in Inventory \ {k} : Slug[j] # p

TargetFree == \A c \in Clients : Saving(c) => FreeTarget(request[c].key, request[c].path)

\* Each redirect along the former paths of a page leads to another of them or to
\* the page, and none of them is the path of a page again.
Chained ==
  \A k \in Keys : \A q \in former[k] :
    /\ redirects[q].active
    /\ redirects[q].dest \in former[k] \cup {PathOf(k)}
    /\ \A j \in Keys : PathOf(j) # q

Leads == SlugsFree /\ TargetFree /\ Chained

LEMMA PathsApart ==
  ASSUME PathsUnique, SlugsFree, NEW j \in Keys, NEW k \in Keys, PathOf(j) = PathOf(k), PathOf(k) \in Paths
  PROVE  j = k
<1> DEFINE Own(i) == Exists(i) /\ configs[i].path # NoPath
<1>0. PathOf(k) # NoPath
  BY SeoPathsAssumption
<1>1. ASSUME NEW i \in Keys, PathOf(i) # NoPath
      PROVE  IF Own(i) THEN PathOf(i) = configs[i].path ELSE i \in Inventory /\ PathOf(i) = Slug[i]
  BY <1>1 DEF PathOf
<1>2. CASE Own(j) /\ Own(k)
  BY <1>0, <1>1, <1>2 DEF PathsUnique
<1>3. CASE Own(j) /\ ~Own(k)
  BY <1>0, <1>1, <1>3 DEF SlugsFree
<1>4. CASE ~Own(j) /\ Own(k)
  BY <1>0, <1>1, <1>4 DEF SlugsFree
<1>5. CASE ~Own(j) /\ ~Own(k)
  BY <1>0, <1>1, <1>5, SeoPathsAssumption
<1> QED  BY <1>2, <1>3, <1>4, <1>5

\* Nothing changes but the request.
LEMMA LeadsIf ==
  ASSUME Sole, Leads, NEW c \in Clients, UNCHANGED <<configs, redirects, former>>,
         request'[c].kind = "config" => FreeTarget(request'[c].key, request'[c].path)
  PROVE  Leads'
<1>1. PICK n : n = request'[c]
  OBVIOUS
<1>2. \A d \in Clients : request'[d] = n
  BY <1>1 DEF Sole
<1>3. TargetFree'
  <2>1. FreeTarget(n.key, n.path)' <=> FreeTarget(n.key, n.path)
    BY DEF FreeTarget, Exists
  <2> QED  BY <1>1, <1>2, <2>1 DEF TargetFree, Saving
<1>4. SlugsFree'
  BY DEF Leads, SlugsFree, Exists
<1>5. Chained'
  BY SamePath DEF Leads, Chained
<1> QED  BY <1>3, <1>4, <1>5 DEF Leads

LEMMA RequestLeads ==
  ASSUME TypeOK, Sole, Leads, NEW c \in Clients,
         NEW r \in OpenForm \cup RestoreForm \cup RedirectRequest \cup {Idle},
         request' = [request EXCEPT ![c] = r], UNCHANGED <<configs, redirects, former>>
  PROVE  Leads'
<1>1. request'[c] = r
  BY DEF TypeOK
<1>2. r.kind # "config"
  BY DEF OpenForm, RestoreForm, RedirectRequest, Idle
<1> QED  BY <1>1, <1>2, LeadsIf

LEMMA TargetFits ==
  ASSUME TypeOK, NEW k \in Keys, NEW p, Addresses(k, p) => Free(Target(k, p), k)
  PROVE  FreeTarget(k, Target(k, p))
<1>1. CASE Target(k, p) = NoPath /\ k \notin Inventory
  BY <1>1 DEF FreeTarget
<1>2. CASE p = Keep /\ Exists(k)
  BY <1>2, SeoPathsAssumption DEF FreeTarget, Target
<1>3. CASE ~(p = Keep /\ Exists(k)) /\ ~(Target(k, p) = NoPath /\ k \notin Inventory)
  <2>1. Target(k, p) \in Paths
    BY <1>3, SeoPathsAssumption DEF Target
  <2>2. Addresses(k, p)
    BY <1>3, <2>1, SeoPathsAssumption DEF Addresses
  <2> QED  BY <2>1, <2>2 DEF FreeTarget, Free
<1> QED  BY <1>1, <1>2, <1>3

LEMMA BeginLeads ==
  ASSUME TypeOK, Sole, Leads, NEW c \in Clients, request[c].kind \in {"form", "restore"},
         NEW p, NEW body, NEW redirect, NEW newRule, NEW allowed,
         Begin(c, p, body, redirect, newRule, allowed)
  PROVE  Leads'
<1>1. PICK k, t : k = request[c].key /\ t = Target(request[c].key, p)
  OBVIOUS
<1> DEFINE r == [kind |-> "config", key |-> k, revision |-> request[c].revision,
                 insert |-> ~Exists(k), newRule |-> newRule, path |-> t,
                 content |-> Merged(k, body), redirect |-> Moves(k, t, redirect)]
<1>2. UNCHANGED <<configs, redirects, former>>
  BY DEF Begin
<1>3. CASE request' = [request EXCEPT ![c] = Idle]
  BY <1>2, <1>3, RequestLeads
<1>4. CASE request' = [request EXCEPT ![c] = r] /\ Acceptable(k, request[c].revision, p, redirect)
  <2>1. request'[c] = r
    BY <1>4 DEF TypeOK
  <2>2. k \in Keys
    BY <1>1, Kinds DEF OpenForm, RestoreForm
  <2>3. FreeTarget(k, t)
    BY <1>1, <1>4, <2>2, TargetFits DEF Acceptable
  <2>4. request'[c].key = k /\ request'[c].path = t
    BY <2>1
  <2> QED  BY <1>2, <2>3, <2>4, LeadsIf
<1> QED  BY <1>1, <1>3, <1>4 DEF Begin

LEMMA EndTargets ==
  ASSUME TypeOK, Sole, NEW c \in Clients, request' = [request EXCEPT ![c] = Idle]
  PROVE  TargetFree'
<1>1. \A d \in Clients : request'[d] = Idle
  BY DEF TypeOK, Sole
<1> QED  BY <1>1 DEF TargetFree, Saving, Idle

\* A page takes a path that leads nowhere; a move makes its old path a former one.
LEMMA CommitSaveLeads ==
  ASSUME IInv, Sole, Leads, NEW c \in Clients, CommitSave(c)
  PROVE  Leads'
<1>1. PICK r, k, s, R, S : /\ r = request[c] /\ k = request[c].key /\ s = PathOf(request[c].key)
                           /\ R = redirects /\ S = redirects'
  OBVIOUS
<1>2. PICK row : row = [path |-> r.path, content |-> r.content, revision |-> configs[k].revision + 1,
                        rule |-> HasRule(k) \/ r.newRule]
  OBVIOUS
<1>3. /\ r \in SaveRequest /\ R \in Routes /\ Saving(c) /\ k = r.key
      /\ configs' = [configs EXCEPT ![k] = row]
      /\ request' = [request EXCEPT ![c] = Idle]
      /\ redirects' = RedirectsAfter(r) /\ former' = FormerAfter(r)
  BY <1>1, <1>2, Kinds, RoutesTyped DEF CommitSave, Saving, IInv
<1>4. k \in Keys /\ r.path \in Paths \cup {NoPath} /\ row.path = r.path /\ row # NoConfig
  <2>1. row \in Config /\ row.revision > 0
    BY <1>1, <1>2, <1>3 DEF IInv, TypeOK, Counted, SaveRequest, Config, NoConfig
  <2>2. row # NoConfig
    BY <2>1 DEF NoConfig
  <2> QED  BY <1>2, <1>3, <2>2 DEF SaveRequest
<1>5. /\ configs'[k] = row /\ \A j \in Keys \ {k} : configs'[j] = configs[j]
      /\ Exists(k)' /\ \A j \in Keys \ {k} : Exists(j)' = Exists(j)
  BY <1>3, <1>4 DEF IInv, TypeOK, Exists
<1>6. \A j \in Keys \ {k} : PathOf(j)' = PathOf(j)
  BY <1>5 DEF PathOf
<1>7. PICK h : /\ h = PathOf(k)'
               /\ h = IF r.path # NoPath THEN r.path ELSE IF k \in Inventory THEN Slug[k] ELSE NoPath
  BY <1>4, <1>5 DEF PathOf
<1>8. FreeTarget(k, r.path)
  BY <1>1, <1>3 DEF Leads, TargetFree
<1>15. SlugsFree'
  <2>1. \A j \in Inventory \ {k} : Slug[j] # r.path
    <3>1. \A j \in Inventory : Slug[j] # NoPath
      BY SeoPathsAssumption
    <3>2. Exists(k) => \A j \in Inventory \ {k} : Slug[j] # configs[k].path
      BY <1>4 DEF Leads, SlugsFree
    <3> QED  BY <1>8, <3>1, <3>2 DEF FreeTarget
  <2> QED  BY <1>4, <1>5, <2>1 DEF Leads, SlugsFree
\* The page is where it was, nowhere, or where no redirect starts.
<1>16. h = PathOf(k) \/ h \notin Paths \/ ~R[h].active
  <2>1. CASE r.path = NoPath /\ k \notin Inventory
    BY <1>7, <2>1, SeoPathsAssumption
  <2>2. CASE Exists(k) /\ r.path = configs[k].path
    BY <1>7, <2>2 DEF PathOf
  <2>3. CASE r.path \in Paths /\ ~redirects[r.path].active
    BY <1>1, <1>7, <2>3, SeoPathsAssumption
  <2> QED  BY <1>8, <2>1, <2>2, <2>3 DEF FreeTarget
<1>9. TargetFree'
  BY <1>3, EndTargets DEF IInv
<1>10. ASSUME NEW j \in Keys, NEW q \in former[j], S[q] = R[q]
       PROVE  /\ S[q].active
              /\ S[q].dest \in former[j] \cup {PathOf(j)}
              /\ \A i \in Keys : PathOf(i)' # q
  <2>1. R[q].active /\ R[q].dest \in former[j] \cup {PathOf(j)} /\ \A i \in Keys : PathOf(i) # q
    BY <1>1 DEF Leads, Chained
  <2>2. q \in Paths
    BY DEF IInv, TypeOK
  <2>3. q # h
    BY <1>4, <1>16, <2>1, <2>2
  <2> QED  BY <1>6, <1>7, <1>10, <2>1, <2>3
<1>11. \A j \in Keys \ {k} : former'[j] = former[j]
  BY <1>3, <1>4 DEF FormerAfter, IInv, TypeOK
<1>12. CASE Moves(r.key, r.path, r.redirect)
  <2>1. s # r.path /\ s # NoPath /\ s \in Paths /\ r.path # NoPath /\ h = r.path
    BY <1>1, <1>3, <1>4, <1>7, <1>12, PathTyped DEF Moves, IInv
  <2>2. S = [R EXCEPT ![s] = [dest |-> r.path, active |-> TRUE]] /\ former'[k] = former[k] \cup {s}
    BY <1>1, <1>3, <1>4, <1>12, <2>1 DEF RedirectsAfter, FormerAfter, IInv, TypeOK
  <2>3. S[s].active /\ S[s].dest = r.path
    BY <1>3, <2>1, <2>2 DEF Routes
  <2>4. \A j \in Keys : \A q \in former[j] : S[q] = R[q]
    <3> SUFFICES ASSUME NEW j \in Keys, NEW q \in former[j]
                 PROVE  S[q] = R[q]
      OBVIOUS
    <3>1. q # s /\ q \in Paths
      BY <1>1, <1>4 DEF Leads, Chained, IInv, TypeOK
    <3> QED  BY <1>3, <2>2, <3>1 DEF Routes
  <2>5. \A i \in Keys : PathOf(i)' # s
    BY <1>1, <1>4, <1>6, <1>7, <2>1, PathsApart DEF Leads, IInv
  <2>6. ASSUME NEW j \in Keys, NEW q \in former'[j]
        PROVE  /\ S[q].active /\ S[q].dest \in former'[j] \cup {PathOf(j)'}
               /\ \A i \in Keys : PathOf(i)' # q
    <3>1. CASE j # k
      BY <1>6, <1>10, <1>11, <2>4, <2>6, <3>1
    <3>2. CASE j = k /\ q = s
      BY <1>7, <2>1, <2>3, <2>5, <3>2
    <3>3. CASE j = k /\ q \in former[k]
      <4>1. PathOf(k) = s
        BY <1>1
      <4>2. S[q].active /\ S[q].dest \in former[k] \cup {s} /\ \A i \in Keys : PathOf(i)' # q
        BY <1>4, <1>10, <2>4, <3>3, <4>1
      <4> QED  BY <2>2, <3>3, <4>2
    <3> QED  BY <2>2, <2>6, <3>1, <3>2, <3>3
  <2> QED  BY <1>1, <1>9, <1>15, <2>6 DEF Leads, Chained
<1>13. CASE ~Moves(r.key, r.path, r.redirect)
  <2>1. S = R
    BY <1>1, <1>3, <1>13 DEF RedirectsAfter
  <2>2. former'[k] = IF s = r.path THEN former[k] ELSE {}
    BY <1>1, <1>3, <1>4, <1>13 DEF FormerAfter, IInv, TypeOK
  <2>3. ASSUME NEW j \in Keys, NEW q \in former'[j]
        PROVE  /\ S[q].active /\ S[q].dest \in former'[j] \cup {PathOf(j)'}
               /\ \A i \in Keys : PathOf(i)' # q
    <3>1. CASE j # k
      BY <1>6, <1>10, <1>11, <2>1, <2>3, <3>1
    <3>2. CASE j = k
      <4>1. s = r.path /\ former'[k] = former[k]
        BY <2>2, <2>3, <3>2
      <4>3. PathOf(k)' = PathOf(k)
        <5>1. CASE r.path # NoPath
          BY <1>1, <1>7, <4>1, <5>1
        <5>2. CASE r.path = NoPath
          <6>1. k \notin Inventory
            BY <1>1, <4>1, <5>2, SeoPathsAssumption DEF PathOf
          <6> QED  BY <1>1, <1>7, <4>1, <5>2, <6>1
        <5> QED  BY <5>1, <5>2
      <4>2. S[q].active /\ S[q].dest \in former[k] \cup {PathOf(k)} /\ \A i \in Keys : PathOf(i)' # q
        BY <1>4, <1>10, <2>1, <2>3, <3>2, <4>1
      <4> QED  BY <3>2, <4>1, <4>2, <4>3
    <3> QED  BY <3>1, <3>2
  <2> QED  BY <1>1, <1>9, <1>15, <2>3 DEF Leads, Chained
<1> QED  BY <1>12, <1>13

\* A walk through d comes by whatever leads on from d.
LEMMA ThroughFirst ==
  ASSUME TypeOK, NEW q \in Paths, NEW x, NEW d, Hop(q) = d, Through(d, x)
  PROVE  Through(q, x)
<1>1. PICK R : R = redirects /\ R \in Routes
  BY RoutesTyped
<1>2. Cardinality(Paths) \in Nat
  BY <1>1, WalkShort
<1>3. PICK n \in 0..Cardinality(Paths) : Walk(R, d, n) = x
  BY <1>1, WalkIs DEF Through
<1>4. Walk(R, q, 1) = d
  <2>1. Walk(R, q, 0) = q /\ Walk(R, q, 0 + 1) = Follow(R, Walk(R, q, 0)) /\ 0 + 1 = 1
    BY WalkSteps
  <2>2. Follow(R, q) = d
    BY <1>1 DEF Hop, Follow
  <2> QED  BY <2>1, <2>2
<1>5. Walk(R, q, 1 + n) = x
  BY <1>2, <1>3, <1>4, WalkOn
<1>6. PICK m \in Nat : m < Cardinality(Paths) /\ Walk(R, q, m) = Walk(R, q, 1 + n)
  BY <1>1, <1>2, WalkShort
<1>7. m \in 0..Cardinality(Paths)
  BY <1>2, <1>6
<1> QED  BY <1>1, <1>5, <1>6, <1>7, WalkIs DEF Through

\* Whoever changes the redirect of a path takes back all former paths behind it.
LEMMA ReleasedChained ==
  ASSUME TypeOK, Chained, NEW x \in Paths, Differ(redirects, redirects', x), Released(x), UNCHANGED configs
  PROVE  Chained'
<1>1. PICK R, S, F : R = redirects /\ S = redirects' /\ F = former'
  OBVIOUS
<1>2. \A k \in Keys : F[k] = {q \in former[k] : ~Through(q, x) \/ x = PathOf(k)}
  BY <1>1 DEF Released
<1>3. \A k : PathOf(k)' = PathOf(k)
  BY SamePath
<1>4. ASSUME NEW k \in Keys, NEW q \in F[k]
      PROVE  S[q].active /\ S[q].dest \in F[k] \cup {PathOf(k)} /\ \A j \in Keys : PathOf(j) # q
  <2>1. q \in former[k] /\ q \in Paths /\ (~Through(q, x) \/ x = PathOf(k))
    BY <1>2, <1>4 DEF TypeOK
  <2>2. R[q].active /\ R[q].dest \in former[k] \cup {PathOf(k)} /\ \A j \in Keys : PathOf(j) # q
    BY <1>1, <2>1 DEF Chained
  <2>3. q # x
    <3>1. CASE x = PathOf(k)
      BY <2>2, <3>1
    <3>2. CASE ~Through(q, x)
      <4>1. Walk(redirects, q, 0) = q /\ Cardinality(Paths) \in Nat
        BY <2>1, RoutesTyped, WalkShort, WalkSteps
      <4>2. Walk(redirects, q, 0) # x
        BY <3>2, <4>1, WalkIs DEF Through
      <4> QED  BY <4>1, <4>2
    <3> QED  BY <2>1, <3>1, <3>2
  <2>4. S[q] = R[q]
    BY <1>1, <2>1, <2>3 DEF Differ
  <2>5. ASSUME R[q].dest \in former[k]
        PROVE  R[q].dest \in F[k]
    <3>1. CASE x = PathOf(k)
      BY <1>2, <2>5, <3>1
    <3>2. CASE ~Through(q, x)
      <4>1. Hop(q) = R[q].dest
        BY <1>1, <2>2 DEF Hop
      <4>2. ~Through(R[q].dest, x)
        BY <2>1, <3>2, <4>1, ThroughFirst
      <4> QED  BY <1>2, <2>5, <4>2
    <3> QED  BY <2>1, <3>1, <3>2
  <2> QED  BY <2>2, <2>4, <2>5
<1> QED  BY <1>1, <1>3, <1>4 DEF Chained

LEMMA SameSlugs ==
  ASSUME SlugsFree, UNCHANGED configs
  PROVE  SlugsFree'
BY DEF SlugsFree, Exists

LEMMA CommitRedirectLeads ==
  ASSUME TypeOK, Sole, Leads, NEW c \in Clients, CommitRedirect(c)
  PROVE  Leads'
<1>1. PICK x : x = request[c].source
  OBVIOUS
<1>2. x \in Paths
  BY <1>1, Kinds DEF CommitRedirect, RedirectRequest
<1>3. Differ(redirects, redirects', x) /\ Released(x) /\ UNCHANGED configs
  BY <1>1, <1>2 DEF CommitRedirect, Differ, TypeOK
<1>4. TargetFree'
  BY EndTargets DEF CommitRedirect
<1> QED  BY <1>2, <1>3, <1>4, ReleasedChained, SameSlugs DEF Leads

LEMMA RemoveRedirectLeads ==
  ASSUME TypeOK, Leads, NEW x \in Paths, RemoveRedirect(x)
  PROVE  Leads'
<1>1. Differ(redirects, redirects', x) /\ Released(x) /\ UNCHANGED <<configs, request>>
  BY DEF RemoveRedirect, Differ, TypeOK
<1>2. \A p \in Paths : ~redirects[p].active => ~redirects'[p].active
  BY DEF RemoveRedirect, TypeOK, NoRedirect
<1>3. TargetFree'
  <2>1. \A k, p : FreeTarget(k, p) => FreeTarget(k, p)'
    BY <1>1, <1>2 DEF FreeTarget, Exists
  <2> QED  BY <1>1, <2>1 DEF Leads, TargetFree, Saving
<1> QED  BY <1>1, <1>3, ReleasedChained, SameSlugs DEF Leads

LEMMA RemoveListingLeads ==
  ASSUME TypeOK, Leads, NEW k \in Listings, RemoveListing(k)
  PROVE  Leads'
<1>1. /\ k \in Keys /\ k \notin Inventory
      /\ configs' = [configs EXCEPT ![k] = NoConfig] /\ former' = [former EXCEPT ![k] = {}]
      /\ UNCHANGED <<redirects, request>>
  BY SeoPathsAssumption DEF RemoveListing, HasRule, Inventory
<1>2. /\ ~Exists(k)' /\ PathOf(k)' = NoPath
      /\ \A j \in Keys \ {k} : configs'[j] = configs[j]
      /\ \A j \in Keys \ {k} : (Exists(j)' <=> Exists(j)) /\ PathOf(j)' = PathOf(j)
  BY <1>1 DEF TypeOK, Exists, PathOf
<1>3. SlugsFree'
  BY <1>1, <1>2 DEF Leads, SlugsFree
<1>4. TargetFree'
  <2>1. ASSUME NEW c \in Clients, Saving(c)
        PROVE  FreeTarget(request[c].key, request[c].path)'
    <3>1. request[c].key # k /\ request[c].key \in Keys
      BY <2>1, Kinds DEF RemoveListing, HasRule, Locked, Saving, SaveRequest
    <3>2. FreeTarget(request[c].key, request[c].path)
      BY <2>1 DEF Leads, TargetFree
    <3> QED  BY <1>1, <1>2, <3>1, <3>2 DEF FreeTarget
  <2> QED  BY <1>1, <2>1 DEF TargetFree, Saving
<1>5. ASSUME NEW j \in Keys, NEW q \in former'[j]
      PROVE  /\ redirects[q].active /\ redirects[q].dest \in former'[j] \cup {PathOf(j)'}
             /\ \A i \in Keys : PathOf(i)' # q
  <2>1. j # k /\ former'[j] = former[j] /\ q \in Paths
    BY <1>1, <1>5 DEF TypeOK
  <2>2. /\ redirects[q].active /\ redirects[q].dest \in former[j] \cup {PathOf(j)}
        /\ \A i \in Keys : PathOf(i) # q
    BY <1>5, <2>1 DEF Leads, Chained
  <2>3. q # NoPath
    BY <2>1, SeoPathsAssumption
  <2> QED  BY <1>2, <2>1, <2>2, <2>3
<1>6. Chained'
  BY <1>1, <1>5 DEF Chained
<1> QED  BY <1>3, <1>4, <1>6 DEF Leads

LEMMA LeadsStay ==
  ASSUME Sole
  PROVE  IInv /\ Leads /\ [Next]_vars => Leads'
<1> SUFFICES ASSUME IInv, Leads, [Next]_vars
             PROVE  Leads'
  OBVIOUS
<1>0. TypeOK
  BY DEF IInv
<1>1. ASSUME NEW c \in Clients, NEW k \in Keys, OpenSaveForm(c, k)
      PROVE  Leads'
  BY <1>0, <1>1, OpenFormTyped, RequestLeads DEF OpenSaveForm
<1>2. ASSUME NEW c \in Clients, NEW s \in Sources, NEW d \in Paths, NEW active \in BOOLEAN,
             BeginRedirect(c, s, d, active)
      PROVE  Leads'
  <2> DEFINE r == [kind |-> "redirect", source |-> s, dest |-> d, active |-> active]
  <2>1. r \in RedirectRequest
    BY SeoPathsAssumption DEF RedirectRequest
  <2>2. request' = [request EXCEPT ![c] = r] /\ UNCHANGED <<configs, redirects, former>>
    BY <1>2 DEF BeginRedirect
  <2> QED  BY <1>0, <2>1, <2>2, RequestLeads
<1>3. ASSUME NEW c \in Clients, Duplicate(c) \/ ListingGone(c)
      PROVE  Leads'
  BY <1>0, <1>3, RequestLeads DEF Duplicate, ListingGone
<1>4. ASSUME NEW c \in Clients, NEW v \in versions, ReadVersion(c, v)
      PROVE  Leads'
  <2>1. PICK r \in RestoreForm \cup {Idle} : request' = [request EXCEPT ![c] = r]
    BY <1>0, <1>4, RestoreFormTyped
  <2>2. UNCHANGED <<configs, redirects, former>>
    BY <1>4 DEF ReadVersion
  <2> QED  BY <1>0, <2>1, <2>2, RequestLeads
<1>5. CASE UNCHANGED vars
  <2>1. \A k : PathOf(k)' = PathOf(k)
    BY <1>5, SamePath DEF vars
  <2>2. TargetFree'
    BY <1>5 DEF vars, Leads, TargetFree, FreeTarget, Saving, Exists
  <2>3. SlugsFree' /\ Chained'
    BY <1>5, <2>1 DEF vars, Leads, SlugsFree, Chained, Exists
  <2> QED  BY <2>2, <2>3 DEF Leads
<1>6. ASSUME NEW c \in Clients, NEW p, NEW body, NEW redirect, NEW listing, BeginSave(c, p, body, redirect, listing)
      PROVE  Leads'
  BY <1>0, <1>6, BeginLeads DEF BeginSave
<1>7. ASSUME NEW c \in Clients, NEW redirect, BeginRestore(c, redirect)
      PROVE  Leads'
  BY <1>0, <1>7, BeginLeads DEF BeginRestore
<1>8. Sources \subseteq Paths
  BY SeoPathsAssumption
<1> QED
  BY <1>0, <1>1, <1>2, <1>3, <1>4, <1>5, <1>6, <1>7, <1>8, CommitSaveLeads, CommitRedirectLeads,
     RemoveListingLeads, RemoveRedirectLeads DEF Next

LEMMA LeadsEnd ==
  ASSUME TypeOK, Roads, Leads
  PROVE  FormerPathsFollow
<1> SUFFICES ASSUME NEW k \in Keys, NEW p \in former[k]
             PROVE  End(p) = End(PathOf(k))
  BY DEF FormerPathsFollow
<1>1. PICK R, F, h : R = redirects /\ F = former[k] /\ h = PathOf(k)
  OBVIOUS
<1>2. R \in Routes /\ F \subseteq Paths /\ p \in F
  BY <1>1, RoutesTyped DEF TypeOK
<1>3. \A x \in F : R[x].active /\ (R[x].dest \in F \/ R[x].dest = h)
  BY <1>1 DEF Leads, Chained
<1>4. Arrives(R, p)
  BY <1>1, <1>2 DEF Roads
<1>5. Walk(R, p, Cardinality(Paths)) = Walk(R, h, Cardinality(Paths))
  BY <1>2, <1>3, <1>4, ChainLeads
<1> QED  BY <1>1, <1>5, WalkIs DEF End

\* persistConfig's redirect: a path that a page has left with a redirect leads
\* wherever the page's own path leads, after any number of moves and redirects of
\* other pages, as long as one person edits at a time.
THEOREM FormerPaths ==
  ASSUME \A c, d \in Clients : c = d
  PROVE  Spec => []FormerPathsFollow
<1>1. Sole
  BY DEF Sole
<1>2. Init => Leads
  BY SeoPathsAssumption DEF Init, Leads, SlugsFree, TargetFree, Chained, Saving, Exists, Idle
<1>3. IInv /\ Roads /\ Leads /\ [Next]_vars => Roads' /\ Leads'
  BY <1>1, RoadsStay, LeadsStay DEF IInv
<1>4. IInv /\ Roads /\ Leads => FormerPathsFollow
  BY LeadsEnd DEF IInv
<1> QED
  BY <1>2, <1>3, <1>4, InitRoads, SeoInvariant, PTL DEF Spec

=============================================================================
