------------------------------ MODULE PanelProofs ------------------------------
(***************************************************************************)
(* The panels of the CRM that save whole rows.                             *)
(*                                                                         *)
(* What AdMedia guarantees for any number of ads, uploads and placements:  *)
(* every ad has the images its placement takes, however many requests      *)
(* overlap, unless one is overtaken by another and one of the two moves    *)
(* the ad; and as long as none overlap, every image of an ad is in the     *)
(* bucket.  And what AdminRows guarantees for any number of users and      *)
(* rows: an answered save stands unless saves of the row overlapped.       *)
(***************************************************************************)
EXTENDS AdMedia, AdminRows, TLAPS

-----------------------------------------------------------------------------
(* Types *)

Image == Keys \union {Clear}

\* Of an id that no ad has, and of a request there is not.
NoPlacement == CHOOSE p \in Placements : TRUE
NoAd == CHOOSE a \in Ads : TRUE

Row == [live : BOOLEAN, placement : Placements \union {NoPlacement}, desktop : Image, mobile : Image]

Steps == Saving \union {"idle", "delete", "clean"}
Request == [step : Steps, ad : Ads \union {NoAd}, desktop : Keys \union {Same},
            mobile : Keys \union {Same, Blank, Clear}, entity : Row, moved : BOOLEAN,
            diff : SUBSET Columns, overtaken : BOOLEAN, old : SUBSET Keys]

\* Ads that are shown, and those that requests are about to save, have a
\* placement there is; a request is about an ad.
Typed ==
  /\ stored \subseteq Keys
  /\ doomed \subseteq Keys
  /\ rows \in [Ads -> Row]
  /\ op \in [Staff -> Request]
  /\ fresh \subseteq Uploads
  /\ \A a \in Ads : rows[a].live => rows[a].placement \in Placements
  /\ \A s \in Staff : op[s].step # "idle" =>
       /\ op[s].ad \in Ads
       /\ op[s].step # "clean" => op[s].entity.live /\ op[s].entity.placement \in Placements

-----------------------------------------------------------------------------
(* An ad has the images its placement takes *)

Fits(row) ==
  /\ row.desktop # Clear
  /\ Takes[row.placement] = "both" => row.mobile # Clear
  /\ Takes[row.placement] = "single" => row.mobile = Clear

\* What the request will make of its ad has a desktop image.
DesktopComes(o) ==
  IF o.step \in {"validate", "desktop"}
    THEN o.desktop = Same => o.entity.desktop # Clear
    ELSE o.entity.desktop # Clear

\* Where a mobile image is required the request names one, or the ad keeps the
\* one it has.
MobileComes(o) ==
  Takes[o.entity.placement] = "both" =>
    \/ o.mobile \in Keys
    \/ o.mobile \in {Same, Blank} /\ ~o.moved /\ o.entity.mobile # Clear

\* What the request is about to save, or will be, fits.
RequestFits(o) ==
  /\ o.step \in {"validate", "desktop", "mobile"} => DesktopComes(o) /\ MobileComes(o)
  /\ o.step \in {"save", "update", "insert"} => Fits(o.entity)

\* What the ad of a request is, that no other request has overtaken: at the
\* placement it is saved at, or, if the request moves it, as it was selected.
Tracks(o) ==
  /\ ~o.moved => o.entity.placement = rows[o.ad].placement
  /\ o.moved /\ o.step = "update" /\ rows[o.ad].live =>
       /\ "placement" \in o.diff \/ rows[o.ad].placement = o.entity.placement
       /\ "desktop" \in o.diff \/ rows[o.ad].desktop = o.entity.desktop
       /\ "mobile" \in o.diff \/ rows[o.ad].mobile = o.entity.mobile

Right(o) == o.step \in Saving /\ o.ad \notin mixed => RequestFits(o) /\ (o.overtaken \/ Tracks(o))

Fitting ==
  /\ \A a \in Shown \ mixed : Fits(rows[a])
  /\ \A s \in Staff : Right(op[s])

-----------------------------------------------------------------------------
(* Images are in the bucket *)

\* What a request has still to finalize.
Waiting(o) ==
  {k \in Keys : \/ o.step \in {"validate", "desktop"} /\ k = o.desktop
                \/ o.step \in {"validate", "desktop", "mobile"} /\ k = o.mobile}

\* No key of a fresh upload is anywhere yet.
Unsent(k) == k.file \in fresh
FreshUnknown ==
  /\ \A k \in doomed : ~Unsent(k)
  /\ \A a \in Ads : \A k \in ImagesOf(rows[a]) : ~Unsent(k)
  /\ \A s \in Staff : op[s].step # "idle" =>
       \A k \in Waiting(op[s]) \union ImagesOf(op[s].entity) \union op[s].old : ~Unsent(k)

\* Until it is finalized, an upload is nobody's but the request's, and nobody
\* deletes it or its copy.  Anything else the request names is in the bucket.
Safe(k) == k \in stored \ doomed
WaitingSafe(s) ==
  \A k \in Waiting(op[s]) :
    IF IsTemp(k)
      THEN /\ k \notin doomed \union Referenced \union ImagesOf(op[s].entity)
           /\ Final(k) \notin doomed
           /\ op[s].step # "validate" => k \in stored
      ELSE Safe(k)

\* The two images a request names are different uploads.
Apart(s) ==
  op[s].step \in {"validate", "desktop"} =>
    (IsTemp(op[s].desktop) => op[s].desktop # op[s].mobile)

\* What a request is about to save is in the bucket.
EntitySafe(s) ==
  op[s].step \in Saving => \A k \in ImagesOf(op[s].entity) : Safe(k)

InBucket == Referenced \subseteq stored \ doomed

Shows ==
  /\ InBucket
  /\ FreshUnknown
  /\ \A s \in Staff : WaitingSafe(s) /\ Apart(s) /\ EntitySafe(s)

\* Every key has a place and a file; what a save may name instead has neither.
LEMMA KeyFacts ==
  /\ \A k \in Keys : /\ k.file \in Uploads /\ Final(k) \in Keys /\ Final(k).file = k.file
                     /\ ~IsTemp(Final(k)) /\ k \notin {Same, Blank, Clear}
                     /\ IsTemp(k) => k = Staged(k.file)
  /\ \A u \in Uploads : Staged(u) \in Keys /\ IsTemp(Staged(u)) /\ Staged(u).file = u
  /\ \A k \in {Same, Blank, Clear} : ~IsTemp(k)
  /\ Same # Clear /\ Same # Blank /\ Blank # Clear
BY DEF Keys, Final, IsTemp, Staged, Same, Blank, Clear

LEMMA ImageFacts ==
  /\ \A row, k : k \in ImagesOf(row) <=> k # Clear /\ (k = row.desktop \/ k = row.mobile)
  /\ \A row \in Row : ImagesOf(row) \subseteq Keys
BY DEF ImagesOf, Row, Image

LEMMA ReferencedFacts ==
  ASSUME Typed
  PROVE  /\ \A k : k \in Referenced <=> \E a \in Shown : k \in ImagesOf(rows[a])
         /\ Referenced \subseteq Keys
         /\ Shown \subseteq Ads
<1>1. \A k : k \in Referenced <=> \E a \in Shown : k \in ImagesOf(rows[a])
  BY DEF Referenced
<1>2. Shown \subseteq Ads
  BY DEF Shown
<1>3. \A a \in Ads : ImagesOf(rows[a]) \subseteq Keys
  BY ImageFacts DEF Typed
<1> QED  BY <1>1, <1>2, <1>3

LEMMA NamedFacts ==
  ASSUME Typed
  PROVE  \A k \in Named : /\ k \in Keys
                          /\ \/ IsTemp(k) /\ k.file \in fresh
                             \/ k \in Referenced /\ k.at \in Reuse
<1> SUFFICES ASSUME NEW k \in Named
             PROVE  k \in Keys /\ ((IsTemp(k) /\ k.file \in fresh) \/ (k \in Referenced /\ k.at \in Reuse))
  OBVIOUS
<1>1. fresh \subseteq Uploads
  BY DEF Typed
<1>2. CASE k \in Referenced /\ k.at \in Reuse
  BY <1>2, ReferencedFacts
<1>4. k \in {Staged(u) : u \in fresh} \/ (k \in Referenced /\ k.at \in Reuse)
  BY DEF Named
<1>5. CASE k \in {Staged(u) : u \in fresh}
  <2>1. PICK u \in fresh : k = Staged(u)
    BY <1>5
  <2>2. u \in Uploads /\ k \in Keys /\ IsTemp(k) /\ k.file = u
    BY <1>1, <2>1, KeyFacts
  <2> QED  BY <2>2
<1> QED  BY <1>2, <1>4, <1>5

-----------------------------------------------------------------------------
(* What each step does to its request *)

\* Request s goes on, to save images d and m.
Onward(s, step, d, m, old) ==
  /\ op' \in [Staff -> Request]
  /\ \A t \in Staff \ {s} : op'[t] = op[t]
  /\ op'[s].step = step
  /\ op'[s].ad = op[s].ad
  /\ op'[s].desktop = op[s].desktop
  /\ op'[s].mobile = op[s].mobile
  /\ op'[s].moved = op[s].moved
  /\ op'[s].overtaken = op[s].overtaken
  /\ op'[s].old = old
  /\ op'[s].entity.live = op[s].entity.live
  /\ op'[s].entity.placement = op[s].entity.placement
  /\ op'[s].entity.desktop = d
  /\ op'[s].entity.mobile = m

Keeps(s, step, old) == Onward(s, step, op[s].entity.desktop, op[s].entity.mobile, old)

Ends(s) ==
  /\ op' \in [Staff -> Request]
  /\ \A t \in Staff \ {s} : op'[t] = op[t]
  /\ op'[s] = Idle

\* Request s begins, about ad a.
Begins(s, step, a, d, m, entity, moved) ==
  /\ op' \in [Staff -> Request]
  /\ \A t \in Staff \ {s} : op'[t] = op[t]
  /\ op'[s].step = step /\ op'[s].ad = a /\ op'[s].desktop = d /\ op'[s].mobile = m
  /\ op'[s].entity = entity /\ op'[s].moved = moved /\ op'[s].old = {}

LEMMA AbsentRow ==
  /\ Absent \in Row /\ ~Absent.live /\ ImagesOf(Absent) = {}
  /\ Idle \in Request /\ Idle.step = "idle" /\ Idle.old = {} /\ Idle.desktop = Same /\ Idle.mobile = Same
  /\ Idle.entity = Absent
  /\ Idle = [step |-> "idle", ad |-> NoAd, desktop |-> Same, mobile |-> Same,
             entity |-> Absent, moved |-> FALSE, diff |-> {}, overtaken |-> FALSE, old |-> {}]
<1>1. Absent = [live |-> FALSE, placement |-> NoPlacement, desktop |-> Clear, mobile |-> Clear]
  BY DEF Absent, NoPlacement
<1>2. Absent \in Row
  BY <1>1 DEF Row, Image
<1>3. Absent.desktop = Clear /\ Absent.mobile = Clear /\ ~Absent.live
  BY <1>1
<1>4. Idle = [step |-> "idle", ad |-> NoAd, desktop |-> Same, mobile |-> Same,
              entity |-> Absent, moved |-> FALSE, diff |-> {}, overtaken |-> FALSE, old |-> {}]
  BY DEF Idle, NoAd
<1>5. Idle \in Request
  BY <1>2, <1>4 DEF Request, Steps, Saving
<1> QED  BY <1>2, <1>3, <1>4, <1>5, ImageFacts

LEMMA ProceedDoes ==
  ASSUME Typed, NEW s \in Staff, NEW a \in Ads, NEW p, NEW d \in Keys \union {Same},
         NEW m \in Keys \union {Same, Blank, Clear}, NEW entity \in Row, NEW moved \in BOOLEAN,
         Proceed(s, a, p, d, m, entity, moved)
  PROVE  /\ Begins(s, "validate", a, d, IF Ignored(p, m) THEN Same ELSE m, entity, moved)
         /\ doomed' = IF Ignored(p, m) THEN doomed \union TempsOf(m, m) ELSE doomed
<1> DEFINE n == [step |-> "validate", ad |-> a, desktop |-> d,
                 mobile |-> IF Ignored(p, m) THEN Same ELSE m,
                 entity |-> entity, moved |-> moved, diff |-> {}, overtaken |-> FALSE, old |-> {}]
<1>1. op' = [op EXCEPT ![s] = n]
  BY DEF Proceed
<1>2. n \in Request
  BY DEF Request, Steps, Saving
<1> HIDE DEF n
<1>3. op' \in [Staff -> Request] /\ (\A t \in Staff \ {s} : op'[t] = op[t]) /\ op'[s] = n
  BY <1>1, <1>2 DEF Typed
<1>4. n.step = "validate" /\ n.ad = a /\ n.desktop = d /\ n.mobile = (IF Ignored(p, m) THEN Same ELSE m)
      /\ n.entity = entity /\ n.moved = moved /\ n.old = {}
  BY DEF n
<1> QED  BY <1>3, <1>4 DEF Proceed, Begins

\* A request that only loads its ad.
LEMMA LoadDoes ==
  ASSUME Typed, NEW s \in Staff, NEW a \in Ads, NEW step \in Steps,
         op' = [op EXCEPT ![s] = [Idle EXCEPT !.step = step, !.ad = a, !.entity = rows[a]]]
  PROVE  Begins(s, step, a, Same, Same, rows[a], FALSE)
<1> DEFINE n == [step |-> step, ad |-> a, desktop |-> Same, mobile |-> Same,
                 entity |-> rows[a], moved |-> FALSE, diff |-> {}, overtaken |-> FALSE, old |-> {}]
<1>1. [Idle EXCEPT !.step = step, !.ad = a, !.entity = rows[a]] = n
  <2>1. PICK o : o = Idle
    OBVIOUS
  <2>2. PICK m : m = [o EXCEPT !.step = step, !.ad = a, !.entity = rows[a]]
    OBVIOUS
  <2>3. o = [step |-> "idle", ad |-> NoAd, desktop |-> Same, mobile |-> Same,
             entity |-> Absent, moved |-> FALSE, diff |-> {}, overtaken |-> FALSE, old |-> {}]
    BY <2>1, AbsentRow
  <2>4. m = n
    BY <2>2, <2>3
  <2> QED  BY <2>1, <2>2, <2>4
<1>2. n \in Request
  BY DEF Request, Typed
<1> HIDE DEF n
<1>3. op' \in [Staff -> Request] /\ (\A t \in Staff \ {s} : op'[t] = op[t]) /\ op'[s] = n
  BY <1>1, <1>2 DEF Typed
<1>4. n.step = step /\ n.ad = a /\ n.desktop = Same /\ n.mobile = Same
      /\ n.entity = rows[a] /\ n.moved = FALSE /\ n.old = {}
  BY DEF n
<1> QED  BY <1>3, <1>4 DEF Begins

\* Request o, to save images d and m.
With(o, x, d, m, v) ==
  [step |-> x, ad |-> o.ad, desktop |-> o.desktop, mobile |-> o.mobile,
   entity |-> [live |-> o.entity.live, placement |-> o.entity.placement, desktop |-> d, mobile |-> m],
   moved |-> o.moved, diff |-> o.diff, overtaken |-> o.overtaken, old |-> v]

\* The fields of a request after a step of its save.
LEMMA OnwardIf ==
  ASSUME Typed, NEW s \in Staff, NEW step \in Steps, NEW d \in Image, NEW m \in Image, NEW old \in SUBSET Keys,
         op' = [op EXCEPT ![s] = With(op[s], step, d, m, old)]
  PROVE  Onward(s, step, d, m, old)
<1> DEFINE e == [live |-> op[s].entity.live, placement |-> op[s].entity.placement,
                 desktop |-> d, mobile |-> m]
           n == [step |-> step, ad |-> op[s].ad, desktop |-> op[s].desktop, mobile |-> op[s].mobile,
                 entity |-> e, moved |-> op[s].moved, diff |-> op[s].diff,
                 overtaken |-> op[s].overtaken, old |-> old]
<1>1. op[s] \in Request /\ op[s].entity \in Row
  BY DEF Typed, Request
<1>2. e \in Row
  BY <1>1 DEF Row
<1>3. n \in Request
  BY <1>1, <1>2 DEF Request
<1>4. /\ n.step = step /\ n.ad = op[s].ad /\ n.desktop = op[s].desktop /\ n.mobile = op[s].mobile
      /\ n.entity = e /\ n.moved = op[s].moved /\ n.old = old /\ n.overtaken = op[s].overtaken
      /\ e.live = op[s].entity.live /\ e.placement = op[s].entity.placement
      /\ e.desktop = d /\ e.mobile = m
  OBVIOUS
<1> HIDE DEF n
<1>5. op' = [op EXCEPT ![s] = n]
  BY DEF n, With
<1> HIDE DEF e
<1>6. op' \in [Staff -> Request] /\ (\A t \in Staff \ {s} : op'[t] = op[t]) /\ op'[s] = n
  BY <1>3, <1>5 DEF Typed
<1> QED  BY <1>4, <1>6 DEF Onward

LEMMA RequestFields ==
  ASSUME NEW o \in Request
  PROVE  /\ o = [step |-> o.step, ad |-> o.ad, desktop |-> o.desktop, mobile |-> o.mobile,
                 entity |-> o.entity, moved |-> o.moved, diff |-> o.diff,
                 overtaken |-> o.overtaken, old |-> o.old]
         /\ o.entity = [live |-> o.entity.live, placement |-> o.entity.placement,
                        desktop |-> o.entity.desktop, mobile |-> o.entity.mobile]
<1>1. o.entity \in Row
  BY DEF Request
<1> QED  BY <1>1 DEF Request, Row

LEMMA FieldTypes ==
  ASSUME Typed, NEW s \in Staff
  PROVE  /\ op[s] \in Request /\ op[s].entity \in Row
         /\ op[s].entity.desktop \in Image /\ op[s].entity.mobile \in Image
         /\ op[s].old \subseteq Keys
         /\ op[s].desktop \in Keys \union {Same}
         /\ op[s].mobile \in Keys \union {Same, Blank, Clear}
         /\ op[s].moved \in BOOLEAN /\ op[s].overtaken \in BOOLEAN
         /\ op[s].diff \subseteq Columns
<1>1. op[s] \in Request
  BY DEF Typed
<1>2. op[s].entity \in Row
  BY <1>1 DEF Request
<1> QED  BY <1>1, <1>2 DEF Request, Row

\* Updates of a request, field by field.
LEMMA StepOnward ==
  ASSUME Typed, NEW s \in Staff, NEW step \in Steps,
         op' = [op EXCEPT ![s].step = step]
  PROVE  Keeps(s, step, op[s].old)
<1>1. PICK f, g, o : f = op /\ g = op' /\ o = op[s]
  OBVIOUS
<1>2. f \in [Staff -> Request] /\ o \in Request
  BY <1>1 DEF Typed
<1>3. g = [f EXCEPT ![s].step = step]
  BY <1>1
<1>4. PICK n : n = [o EXCEPT !.step = step]
  OBVIOUS
<1>5. g = [f EXCEPT ![s] = n]
  BY <1>1, <1>2, <1>3, <1>4
<1>6. n = With(o, step, o.entity.desktop, o.entity.mobile, o.old)
  <2>0. /\ o = [step |-> o.step, ad |-> o.ad, desktop |-> o.desktop, mobile |-> o.mobile,
                entity |-> o.entity, moved |-> o.moved, diff |-> o.diff,
                 overtaken |-> o.overtaken, old |-> o.old]
        /\ o.entity = [live |-> o.entity.live, placement |-> o.entity.placement,
                       desktop |-> o.entity.desktop, mobile |-> o.entity.mobile]
    BY <1>2, RequestFields
  <2>1. n = [step |-> step, ad |-> o.ad, desktop |-> o.desktop, mobile |-> o.mobile,
             entity |-> o.entity, moved |-> o.moved, diff |-> o.diff,
                 overtaken |-> o.overtaken, old |-> o.old]
    BY <1>4, <2>0
  <2>2. o.entity = [live |-> o.entity.live, placement |-> o.entity.placement,
         desktop |-> o.entity.desktop, mobile |-> o.entity.mobile]
    BY <2>0
  <2> QED  BY <2>1, <2>2 DEF With
<1>7. op' = [op EXCEPT ![s] = With(op[s], step, op[s].entity.desktop, op[s].entity.mobile, op[s].old)]
  BY <1>1, <1>5, <1>6
<1> QED  BY <1>7, OnwardIf, FieldTypes DEF Keeps

LEMMA OldOnward ==
  ASSUME Typed, NEW s \in Staff, NEW old \in SUBSET Keys,
         op' = [op EXCEPT ![s].old = old]
  PROVE  Keeps(s, op[s].step, old)
<1>1. PICK f, g, o : f = op /\ g = op' /\ o = op[s]
  OBVIOUS
<1>2. f \in [Staff -> Request] /\ o \in Request
  BY <1>1 DEF Typed
<1>3. g = [f EXCEPT ![s].old = old]
  BY <1>1
<1>4. PICK n : n = [o EXCEPT !.old = old]
  OBVIOUS
<1>5. g = [f EXCEPT ![s] = n]
  BY <1>1, <1>2, <1>3, <1>4
<1>6. n = With(o, o.step, o.entity.desktop, o.entity.mobile, old)
  <2>0. /\ o = [step |-> o.step, ad |-> o.ad, desktop |-> o.desktop, mobile |-> o.mobile,
                entity |-> o.entity, moved |-> o.moved, diff |-> o.diff,
                 overtaken |-> o.overtaken, old |-> o.old]
        /\ o.entity = [live |-> o.entity.live, placement |-> o.entity.placement,
                       desktop |-> o.entity.desktop, mobile |-> o.entity.mobile]
    BY <1>2, RequestFields
  <2>1. n = [step |-> o.step, ad |-> o.ad, desktop |-> o.desktop, mobile |-> o.mobile,
             entity |-> o.entity, moved |-> o.moved, diff |-> o.diff,
             overtaken |-> o.overtaken, old |-> old]
    BY <1>4, <2>0
  <2>2. o.entity = [live |-> o.entity.live, placement |-> o.entity.placement,
         desktop |-> o.entity.desktop, mobile |-> o.entity.mobile]
    BY <2>0
  <2> QED  BY <2>1, <2>2 DEF With
<1>7. op' = [op EXCEPT ![s] = With(op[s], op[s].step, op[s].entity.desktop, op[s].entity.mobile, old)]
  BY <1>1, <1>5, <1>6
<1> QED  BY <1>7, OnwardIf, FieldTypes DEF Keeps, Request

LEMMA StepOldOnward ==
  ASSUME Typed, NEW s \in Staff, NEW step \in Steps, NEW old \in SUBSET Keys,
         op' = [op EXCEPT ![s].step = step, ![s].old = old]
  PROVE  Keeps(s, step, old)
<1>1. PICK f, g, o : f = op /\ g = op' /\ o = op[s]
  OBVIOUS
<1>2. f \in [Staff -> Request] /\ o \in Request
  BY <1>1 DEF Typed
<1>3. g = [f EXCEPT ![s].step = step, ![s].old = old]
  BY <1>1
<1>4. PICK n : n = [o EXCEPT !.step = step, !.old = old]
  OBVIOUS
<1>5. g = [f EXCEPT ![s] = n]
  BY <1>1, <1>2, <1>3, <1>4
<1>6. n = With(o, step, o.entity.desktop, o.entity.mobile, old)
  <2>0. /\ o = [step |-> o.step, ad |-> o.ad, desktop |-> o.desktop, mobile |-> o.mobile,
                entity |-> o.entity, moved |-> o.moved, diff |-> o.diff,
                 overtaken |-> o.overtaken, old |-> o.old]
        /\ o.entity = [live |-> o.entity.live, placement |-> o.entity.placement,
                       desktop |-> o.entity.desktop, mobile |-> o.entity.mobile]
    BY <1>2, RequestFields
  <2>1. n = [step |-> step, ad |-> o.ad, desktop |-> o.desktop, mobile |-> o.mobile,
             entity |-> o.entity, moved |-> o.moved, diff |-> o.diff,
             overtaken |-> o.overtaken, old |-> old]
    BY <1>4, <2>0
  <2>2. o.entity = [live |-> o.entity.live, placement |-> o.entity.placement,
         desktop |-> o.entity.desktop, mobile |-> o.entity.mobile]
    BY <2>0
  <2> QED  BY <2>1, <2>2 DEF With
<1>7. op' = [op EXCEPT ![s] = With(op[s], step, op[s].entity.desktop, op[s].entity.mobile, old)]
  BY <1>1, <1>5, <1>6
<1> QED  BY <1>7, OnwardIf, FieldTypes DEF Keeps

LEMMA DesktopOnward ==
  ASSUME Typed, NEW s \in Staff, NEW step \in Steps, NEW k \in Image, NEW old \in SUBSET Keys,
         op' = [op EXCEPT ![s].step = step, ![s].entity.desktop = k, ![s].old = old]
  PROVE  Onward(s, step, k, op[s].entity.mobile, old)
<1>1. PICK f, g, o : f = op /\ g = op' /\ o = op[s]
  OBVIOUS
<1>2. f \in [Staff -> Request] /\ o \in Request
  BY <1>1 DEF Typed
<1>3. g = [f EXCEPT ![s].step = step, ![s].entity.desktop = k, ![s].old = old]
  BY <1>1
<1>4. PICK n : n = [o EXCEPT !.step = step, !.entity.desktop = k, !.old = old]
  OBVIOUS
<1>5. g = [f EXCEPT ![s] = n]
  BY <1>1, <1>2, <1>3, <1>4
<1>6. n = With(o, step, k, o.entity.mobile, old)
  <2>0. /\ o = [step |-> o.step, ad |-> o.ad, desktop |-> o.desktop, mobile |-> o.mobile,
                entity |-> o.entity, moved |-> o.moved, diff |-> o.diff,
                 overtaken |-> o.overtaken, old |-> o.old]
        /\ o.entity = [live |-> o.entity.live, placement |-> o.entity.placement,
                       desktop |-> o.entity.desktop, mobile |-> o.entity.mobile]
    BY <1>2, RequestFields
  <2>1. n = [step |-> step, ad |-> o.ad, desktop |-> o.desktop, mobile |-> o.mobile,
             entity |-> [o.entity EXCEPT !.desktop = k], moved |-> o.moved,
             diff |-> o.diff, overtaken |-> o.overtaken, old |-> old]
    BY <1>4, <2>0
  <2>2. [o.entity EXCEPT !.desktop = k] = [live |-> o.entity.live, placement |-> o.entity.placement,
         desktop |-> k, mobile |-> o.entity.mobile]
    BY <2>0
  <2> QED  BY <2>1, <2>2 DEF With
<1>7. op' = [op EXCEPT ![s] = With(op[s], step, k, op[s].entity.mobile, old)]
  BY <1>1, <1>5, <1>6
<1> QED  BY <1>7, OnwardIf, FieldTypes

LEMMA MobileOnward ==
  ASSUME Typed, NEW s \in Staff, NEW step \in Steps, NEW k \in Image, NEW old \in SUBSET Keys,
         op' = [op EXCEPT ![s].step = step, ![s].entity.mobile = k, ![s].old = old]
  PROVE  Onward(s, step, op[s].entity.desktop, k, old)
<1>1. PICK f, g, o : f = op /\ g = op' /\ o = op[s]
  OBVIOUS
<1>2. f \in [Staff -> Request] /\ o \in Request
  BY <1>1 DEF Typed
<1>3. g = [f EXCEPT ![s].step = step, ![s].entity.mobile = k, ![s].old = old]
  BY <1>1
<1>4. PICK n : n = [o EXCEPT !.step = step, !.entity.mobile = k, !.old = old]
  OBVIOUS
<1>5. g = [f EXCEPT ![s] = n]
  BY <1>1, <1>2, <1>3, <1>4
<1>6. n = With(o, step, o.entity.desktop, k, old)
  <2>0. /\ o = [step |-> o.step, ad |-> o.ad, desktop |-> o.desktop, mobile |-> o.mobile,
                entity |-> o.entity, moved |-> o.moved, diff |-> o.diff,
                 overtaken |-> o.overtaken, old |-> o.old]
        /\ o.entity = [live |-> o.entity.live, placement |-> o.entity.placement,
                       desktop |-> o.entity.desktop, mobile |-> o.entity.mobile]
    BY <1>2, RequestFields
  <2>1. n = [step |-> step, ad |-> o.ad, desktop |-> o.desktop, mobile |-> o.mobile,
             entity |-> [o.entity EXCEPT !.mobile = k], moved |-> o.moved,
             diff |-> o.diff, overtaken |-> o.overtaken, old |-> old]
    BY <1>4, <2>0
  <2>2. [o.entity EXCEPT !.mobile = k] = [live |-> o.entity.live, placement |-> o.entity.placement,
         desktop |-> o.entity.desktop, mobile |-> k]
    BY <2>0
  <2> QED  BY <2>1, <2>2 DEF With
<1>7. op' = [op EXCEPT ![s] = With(op[s], step, op[s].entity.desktop, k, old)]
  BY <1>1, <1>5, <1>6
<1> QED  BY <1>7, OnwardIf, FieldTypes

\* A finalized key, and what it takes the place of.
LEMMA FinalizeKeys ==
  ASSUME NEW k \in Keys, NEW key \in {k, Final(k)}, NEW old \in Image
  PROVE  key \in Keys /\ key \in Image /\ Replaced(k, key, old) \subseteq Keys
                     /\ Replaced(k, key, old) \subseteq {old}
BY KeyFacts DEF Replaced, Image

LEMMA ValidateDoes ==
  ASSUME Typed, NEW s \in Staff, Validate(s)
  PROVE  /\ op[s].step = "validate"
         /\ \/ /\ Keeps(s, "desktop", op[s].old) /\ doomed' = doomed
               /\ TempsOf(op[s].desktop, op[s].mobile) \subseteq stored
            \/ /\ Ends(s) /\ doomed' = doomed \union TempsOf(op[s].desktop, op[s].mobile)
<1>1. CASE op' = [op EXCEPT ![s].step = "desktop"] /\ doomed' = doomed
           /\ Checked(op[s]) \subseteq stored
  BY <1>1, StepOnward DEF Validate, Steps, Saving, Checked
<1>2. CASE op' = [op EXCEPT ![s] = Idle] /\ doomed' = doomed \union TempsOf(op[s].desktop, op[s].mobile)
  BY <1>2, AbsentRow DEF Validate, Ends, Typed
<1> QED  BY <1>1, <1>2 DEF Validate

LEMMA FinalizeDesktopDoes ==
  ASSUME Typed, NEW s \in Staff, FinalizeDesktop(s)
  PROVE  /\ op[s].step = "desktop"
         /\ \/ /\ op[s].desktop = Same
               /\ Keeps(s, "mobile", op[s].old)
               /\ UNCHANGED <<stored, doomed>>
            \/ \E key \in {op[s].desktop, Final(op[s].desktop)}, old \in SUBSET {op[s].entity.desktop} :
                 /\ op[s].desktop \in Keys /\ key \in Keys /\ old \subseteq Keys
                 /\ Finalize(op[s].desktop, key)
                 /\ Onward(s, "mobile", key, op[s].entity.mobile, old)
<1>1. CASE op[s].desktop = Same
  <2>1. op' = [op EXCEPT ![s].step = "mobile"]
    BY <1>1 DEF FinalizeDesktop
  <2>2. Keeps(s, "mobile", op[s].old)
    BY <2>1, StepOnward DEF Steps, Saving
  <2> QED  BY <1>1, <2>2 DEF FinalizeDesktop
<1>2. CASE op[s].desktop # Same
  <2>1. PICK key \in {op[s].desktop, Final(op[s].desktop)} :
          /\ Finalize(op[s].desktop, key)
          /\ op' = [op EXCEPT ![s].step = "mobile", ![s].entity.desktop = key,
                      ![s].old = Replaced(op[s].desktop, key, op[s].entity.desktop)]
    BY <1>2 DEF FinalizeDesktop
  <2>2. PICK old : old = Replaced(op[s].desktop, key, op[s].entity.desktop)
    OBVIOUS
  <2>3. op[s].desktop \in Keys /\ op[s].entity.desktop \in Image
    BY <1>2, FieldTypes
  <2>4. key \in Keys /\ key \in Image /\ old \in SUBSET Keys /\ old \in SUBSET {op[s].entity.desktop}
    BY <2>2, <2>3, FinalizeKeys
  <2>5. Onward(s, "mobile", key, op[s].entity.mobile, old)
    BY <2>1, <2>2, <2>4, DesktopOnward DEF Steps, Saving
  <2> QED  BY <2>1, <2>3, <2>4, <2>5 DEF FinalizeDesktop
<1> QED  BY <1>1, <1>2

Gone(o) ==
  \/ Takes[o.entity.placement] = "single"
  \/ o.moved /\ o.mobile \in {Same, Blank}
  \/ o.mobile = Clear

LEMMA FinalizeMobileDoes ==
  ASSUME Typed, NEW s \in Staff, FinalizeMobile(s)
  PROVE  /\ op[s].step = "mobile"
         /\ \/ /\ Gone(op[s])
               /\ Onward(s, "save", op[s].entity.desktop, Clear,
                         op[s].old \union ({op[s].entity.mobile} \ {Clear}))
               /\ UNCHANGED <<stored, doomed>>
            \/ /\ ~Gone(op[s]) /\ op[s].mobile = Same
               /\ Keeps(s, "save", op[s].old)
               /\ UNCHANGED <<stored, doomed>>
            \/ /\ Ends(s)
               /\ UNCHANGED <<stored, doomed>>
            \/ \E key \in {op[s].mobile, Final(op[s].mobile)}, old \in SUBSET {op[s].entity.mobile} :
                 /\ ~Gone(op[s])
                 /\ op[s].mobile \in Keys /\ key \in Keys /\ old \subseteq Keys
                 /\ Finalize(op[s].mobile, key)
                 /\ Onward(s, "save", op[s].entity.desktop, key, op[s].old \union old)
<1>0. op[s].step = "mobile"
  BY DEF FinalizeMobile
<1>1. CASE /\ Gone(op[s])
           /\ op' = [op EXCEPT ![s].step = "save", ![s].entity.mobile = Clear,
                       ![s].old = @ \union ({op[s].entity.mobile} \ {Clear})]
           /\ UNCHANGED <<stored, doomed>>
  <2>1. PICK old : old = op[s].old \union ({op[s].entity.mobile} \ {Clear})
    OBVIOUS
  <2>2. op' = [op EXCEPT ![s].step = "save", ![s].entity.mobile = Clear, ![s].old = old]
    BY <1>1, <2>1, FieldTypes
  <2>3. old \in SUBSET Keys /\ Clear \in Image
    BY <2>1, FieldTypes DEF Image
  <2>4. Onward(s, "save", op[s].entity.desktop, Clear, old)
    BY <2>2, <2>3, MobileOnward DEF Steps, Saving
  <2> QED  BY <1>0, <1>1, <2>1, <2>4
<1>2. CASE /\ ~Gone(op[s]) /\ op[s].mobile = Same
           /\ op' = [op EXCEPT ![s].step = "save"]
           /\ UNCHANGED <<stored, doomed>>
  <2>1. Keeps(s, "save", op[s].old)
    BY <1>2, StepOnward DEF Steps, Saving
  <2> QED  BY <1>0, <1>2, <2>1
<1>3. CASE /\ op' = [op EXCEPT ![s] = Idle]
           /\ UNCHANGED <<stored, doomed>>
  <2>1. Ends(s)
    BY <1>3, AbsentRow DEF Ends, Typed
  <2> QED  BY <1>0, <1>3, <2>1
<1>4. ASSUME NEW key \in {op[s].mobile, Final(op[s].mobile)}, ~Gone(op[s]), op[s].mobile \in Keys,
             Finalize(op[s].mobile, key),
             op' = [op EXCEPT ![s].step = "save", ![s].entity.mobile = key,
                      ![s].old = @ \union Replaced(op[s].mobile, key, op[s].entity.mobile)]
      PROVE  \E old \in SUBSET {op[s].entity.mobile} :
               /\ key \in Keys /\ old \subseteq Keys
               /\ Onward(s, "save", op[s].entity.desktop, key, op[s].old \union old)
  <2>1. PICK old : old = Replaced(op[s].mobile, key, op[s].entity.mobile)
    OBVIOUS
  <2>2. PICK all : all = op[s].old \union old
    OBVIOUS
  <2>3. op' = [op EXCEPT ![s].step = "save", ![s].entity.mobile = key, ![s].old = all]
    BY <1>4, <2>1, <2>2
  <2>4. op[s].entity.mobile \in Image
    BY FieldTypes
  <2>5. key \in Keys /\ key \in Image /\ old \in SUBSET Keys /\ old \in SUBSET {op[s].entity.mobile}
    BY <1>4, <2>1, <2>4, FinalizeKeys
  <2>6. all \in SUBSET Keys
    BY <2>2, <2>5, FieldTypes
  <2>7. Onward(s, "save", op[s].entity.desktop, key, all)
    BY <2>3, <2>5, <2>6, MobileOnward DEF Steps, Saving
  <2> QED  BY <2>2, <2>5, <2>7
<1> QED  BY <1>0, <1>1, <1>2, <1>3, <1>4 DEF FinalizeMobile, Gone

\* The other steps: the row is selected, written or deleted, or that fails; a
\* replaced image is looked at.
LEMMA SelectDoes ==
  ASSUME Typed, NEW s \in Staff, SelectAd(s)
  PROVE  /\ op[s].step = "save" /\ UNCHANGED <<stored, doomed, rows, fresh>>
         /\ Keeps(s, IF rows[op[s].ad].live THEN "update" ELSE "insert", op[s].old)
         /\ op'[s].diff = {c \in Columns : op[s].entity[c] # rows[op[s].ad][c]}
<1>1. PICK f, g, o, step, diff : /\ f = op /\ g = op' /\ o = op[s]
                                 /\ step = IF rows[o.ad].live THEN "update" ELSE "insert"
                                 /\ diff = {c \in Columns : o.entity[c] # rows[o.ad][c]}
  OBVIOUS
<1>2. f \in [Staff -> Request] /\ o \in Request
  BY <1>1 DEF Typed
<1>3. g = [f EXCEPT ![s].step = step, ![s].diff = diff]
  BY <1>1 DEF SelectAd
<1>4. PICK n : n = [o EXCEPT !.step = step, !.diff = diff]
  OBVIOUS
<1>5. g = [f EXCEPT ![s] = n]
  BY <1>1, <1>2, <1>3, <1>4
<1>6. step \in Steps /\ diff \in SUBSET Columns
  BY <1>1 DEF Steps, Saving
<1>7. n \in Request
  BY <1>2, <1>4, <1>6 DEF Request
<1>8. /\ n.step = step /\ n.diff = diff /\ n.ad = o.ad /\ n.desktop = o.desktop /\ n.mobile = o.mobile
      /\ n.entity = o.entity /\ n.moved = o.moved /\ n.overtaken = o.overtaken /\ n.old = o.old
  BY <1>2, <1>4 DEF Request
<1>9. op' \in [Staff -> Request] /\ (\A t \in Staff \ {s} : op'[t] = op[t]) /\ op'[s] = n
  BY <1>1, <1>2, <1>5, <1>7
<1>10. Keeps(s, step, op[s].old)
  BY <1>1, <1>8, <1>9 DEF Keeps, Onward
<1> QED  BY <1>1, <1>8, <1>9, <1>10 DEF SelectAd

\* Request s has written row; other requests about the ad may be overtaken.
Wrote(s, row) ==
  /\ op' \in [Staff -> Request]
  /\ rows' = [rows EXCEPT ![op[s].ad] = row]
  /\ op'[s].step = "clean" /\ op'[s].ad = op[s].ad
  /\ op'[s].entity = op[s].entity /\ op'[s].old = op[s].old
  /\ \A t \in Staff \ {s} :
       /\ op'[t].step = op[t].step /\ op'[t].ad = op[t].ad
       /\ op'[t].desktop = op[t].desktop /\ op'[t].mobile = op[t].mobile
       /\ op'[t].entity = op[t].entity /\ op'[t].moved = op[t].moved
       /\ op'[t].diff = op[t].diff /\ op'[t].old = op[t].old
       /\ op'[t].overtaken = Overtaken(op[t], op[s].ad, row)

LEMMA WriteDoes ==
  ASSUME Typed, NEW s \in Staff, NEW row, Write(s, row)
  PROVE  Wrote(s, row)
<1>1. op[s] \in Request /\ \A t \in Staff : op[t] \in Request
  BY DEF Typed
<1>2. PICK o : o = op[s]
  OBVIOUS
<1>3. PICK n : n = [o EXCEPT !.step = "clean", !.diff = {}, !.overtaken = FALSE]
  OBVIOUS
<1>4. /\ n \in Request
      /\ n.step = "clean" /\ n.ad = o.ad /\ n.entity = o.entity /\ n.old = o.old
  BY <1>1, <1>2, <1>3 DEF Request, Steps, Saving
<1>5. op' = [t \in Staff |-> IF t = s THEN n
                             ELSE [op[t] EXCEPT !.overtaken = Overtaken(op[t], op[s].ad, row)]]
  BY <1>2, <1>3 DEF Write
<1>6. ASSUME NEW t \in Staff \ {s}
      PROVE  /\ op'[t] \in Request
             /\ op'[t].step = op[t].step /\ op'[t].ad = op[t].ad
             /\ op'[t].desktop = op[t].desktop /\ op'[t].mobile = op[t].mobile
             /\ op'[t].entity = op[t].entity /\ op'[t].moved = op[t].moved
             /\ op'[t].diff = op[t].diff /\ op'[t].old = op[t].old
             /\ op'[t].overtaken = Overtaken(op[t], op[s].ad, row)
  <2>1. PICK u, b : u = op[t] /\ b = Overtaken(op[t], op[s].ad, row)
    OBVIOUS
  <2>2. u \in Request /\ b \in BOOLEAN
    BY <1>1, <2>1 DEF Overtaken, Request
  <2>3. op'[t] = [u EXCEPT !.overtaken = b]
    BY <1>5, <2>1
  <2>4. PICK v : v = [u EXCEPT !.overtaken = b]
    OBVIOUS
  <2>5. /\ v \in Request
        /\ v.step = u.step /\ v.ad = u.ad /\ v.desktop = u.desktop /\ v.mobile = u.mobile
        /\ v.entity = u.entity /\ v.moved = u.moved /\ v.diff = u.diff /\ v.old = u.old
        /\ v.overtaken = b
    BY <2>2, <2>4 DEF Request
  <2>6. op'[t] = v
    BY <2>3, <2>4
  <2> QED  BY <2>1, <2>5, <2>6
<1>7. op'[s] = n
  BY <1>5
<1>8. \A t \in Staff : op'[t] \in Request
  BY <1>4, <1>6, <1>7
<1>9. op' \in [Staff -> Request]
  <2>1. op' = [t \in Staff |-> op'[t]]
    BY <1>5
  <2> QED  BY <1>8, <2>1
<1> QED  BY <1>2, <1>4, <1>6, <1>7, <1>9 DEF Write, Wrote

\* What the UPDATE makes of the row.
LEMMA UpdatedRow ==
  ASSUME Typed, NEW s \in Staff, op[s].ad \in Ads, NEW e, NEW row, NEW new, NEW diff,
         e = op[s].entity, row = rows[op[s].ad], new = Updated(op[s]), diff = op[s].diff
  PROVE  /\ new \in Row /\ new.live = row.live
         /\ ~row.live => new = row
         /\ row.live =>
              /\ new.placement = IF "placement" \in diff THEN e.placement ELSE row.placement
              /\ new.desktop = IF "desktop" \in diff THEN e.desktop ELSE row.desktop
              /\ new.mobile = IF "mobile" \in diff THEN e.mobile ELSE row.mobile
<1>1. e \in Row /\ row \in Row
  BY FieldTypes DEF Typed
<1>2. CASE ~row.live
  BY <1>1, <1>2 DEF Updated
<1>3. CASE row.live
  <2>1. PICK p, d, m : /\ p = IF "placement" \in diff THEN e.placement ELSE row.placement
                       /\ d = IF "desktop" \in diff THEN e.desktop ELSE row.desktop
                       /\ m = IF "mobile" \in diff THEN e.mobile ELSE row.mobile
    OBVIOUS
  <2>2. new = [row EXCEPT !.placement = p, !.desktop = d, !.mobile = m]
    BY <1>3, <2>1 DEF Updated
  <2>3. /\ p \in Placements \union {NoPlacement} /\ d \in Image /\ m \in Image
    BY <1>1, <2>1 DEF Row
  <2>4. new \in Row /\ new.live = row.live /\ new.placement = p /\ new.desktop = d /\ new.mobile = m
    BY <1>1, <2>2, <2>3 DEF Row
  <2> QED  BY <1>3, <2>1, <2>4
<1> QED  BY <1>2, <1>3

LEMMA UpdateAdDoes ==
  ASSUME Typed, NEW s \in Staff, UpdateAd(s)
  PROVE  /\ op[s].step = "update" /\ op[s].ad \in Ads /\ Wrote(s, Updated(op[s]))
         /\ mixed' = IF op[s].overtaken THEN mixed \union {op[s].ad} ELSE mixed
         /\ UNCHANGED <<stored, doomed, fresh>>
BY WriteDoes DEF UpdateAd, Typed

LEMMA InsertAdDoes ==
  ASSUME Typed, NEW s \in Staff, InsertAd(s)
  PROVE  /\ op[s].step = "insert" /\ op[s].ad \in Ads
         /\ UNCHANGED <<stored, doomed, fresh, mixed>>
         /\ \/ Ends(s) /\ UNCHANGED rows
            \/ ~rows[op[s].ad].live /\ Wrote(s, op[s].entity)
<1>1. op[s].step = "insert" /\ op[s].ad \in Ads /\ UNCHANGED <<stored, doomed, fresh, mixed>>
  BY DEF InsertAd, Typed, history
<1>2. CASE rows[op[s].ad].live
  BY <1>1, <1>2, AbsentRow DEF InsertAd, Ends, Typed
<1>3. CASE ~rows[op[s].ad].live
  BY <1>1, <1>3, WriteDoes DEF InsertAd
<1> QED  BY <1>1, <1>2, <1>3

LEMMA DeleteRowDoes ==
  ASSUME Typed, NEW s \in Staff, DeleteRow(s)
  PROVE  /\ op[s].step = "delete" /\ Keeps(s, "clean", ImagesOf(op[s].entity))
         /\ rows' = [rows EXCEPT ![op[s].ad].live = FALSE]
         /\ UNCHANGED <<stored, doomed, fresh>>
<1>1. ImagesOf(op[s].entity) \in SUBSET Keys
  BY FieldTypes, ImageFacts
<1>2. PICK old \in SUBSET Keys : old = ImagesOf(op[s].entity)
  BY <1>1
<1>3. op' = [op EXCEPT ![s].step = "clean", ![s].old = old]
  BY <1>2 DEF DeleteRow
<1>4. Keeps(s, "clean", old)
  BY <1>3, StepOldOnward DEF Steps, Saving
<1> QED  BY <1>2, <1>4 DEF DeleteRow

LEMMA SaveFailsDoes ==
  ASSUME Typed, NEW s \in Staff, SaveFails(s)
  PROVE  Ends(s) /\ UNCHANGED <<stored, doomed, rows, fresh>>
BY AbsentRow DEF SaveFails, Ends, Typed

LEMMA CleanDoes ==
  ASSUME Typed, NEW s \in Staff, Clean(s)
  PROVE  /\ op[s].step = "clean"
         /\ UNCHANGED <<stored, rows, fresh>>
         /\ \/ Ends(s) /\ doomed' = doomed
            \/ \E k \in op[s].old :
                 /\ Keeps(s, "clean", op[s].old \ {k})
                 /\ doomed' = IF Unused(k) THEN doomed \union {k} ELSE doomed
<1>1. CASE op[s].old = {}
  BY <1>1, AbsentRow DEF Clean, Ends, Typed
<1>2. CASE op[s].old # {}
  <2>1. PICK k \in op[s].old :
          /\ op' = [op EXCEPT ![s].old = @ \ {k}]
          /\ doomed' = IF Unused(k) THEN doomed \union {k} ELSE doomed
    BY <1>2 DEF Clean
  <2>2. PICK old \in SUBSET Keys : old = op[s].old \ {k}
    BY FieldTypes
  <2>3. op' = [op EXCEPT ![s].old = old]
    BY <2>1, <2>2
  <2>4. Keeps(s, op[s].step, old) /\ op[s].step = "clean"
    BY <2>3, OldOnward DEF Clean
  <2> QED  BY <2>1, <2>2, <2>4 DEF Clean
<1> QED  BY <1>1, <1>2

-----------------------------------------------------------------------------
(* Typing *)

\* A request to create ad a or to update it is sent: it is refused, or begins
\* with the ad as it will be saved but for its images.
Requested(s, a, p, d, m) ==
  /\ op[s].step = "idle"
  /\ d \in Named \union {Same}
  /\ m \in Named \union {Same, Blank, Clear}
  /\ Send(d, m)
  /\ rows' = rows
  /\ \/ op' = op /\ doomed' \subseteq doomed \union TempsOf(d, m)
     \/ \E e \in Row, moved \in BOOLEAN :
          /\ Begins(s, "validate", a, d, IF Ignored(p, m) THEN Same ELSE m, e, moved)
          /\ doomed' = IF Ignored(p, m) THEN doomed \union TempsOf(m, m) ELSE doomed
          /\ e.live /\ e.placement = p
          /\ \/ /\ e.desktop = Clear /\ e.mobile = Clear /\ d # Same /\ moved
                /\ m \in Named \union {Same} /\ (Takes[p] = "both" => m # Same)
             \/ /\ rows[a].live /\ e.desktop = rows[a].desktop /\ e.mobile = rows[a].mobile
                /\ moved = (p # rows[a].placement) /\ ~Refuses(rows[a], p, d, m)

LEMMA CreateRequested ==
  ASSUME Typed, NEW s \in Staff, NEW a \in Ads, NEW p \in Placements,
         NEW d \in Named, NEW m \in Named \union {Same}, Create(s, a, p, d, m)
  PROVE  Requested(s, a, p, d, m)
<1> DEFINE e == [live |-> TRUE, placement |-> p, desktop |-> Clear, mobile |-> Clear]
<1>1. d \in Keys /\ d # Same /\ m \in Keys \union {Same, Blank, Clear}
  BY NamedFacts, KeyFacts
<1>2. /\ op[s].step = "idle" /\ Send(d, m) /\ rows' = rows
      /\ \/ /\ Takes[p] = "both" /\ m = Same
            /\ doomed' = doomed \union TempsOf(d, d) /\ op' = op
         \/ ~(Takes[p] = "both" /\ m = Same) /\ Proceed(s, a, p, d, m, e, TRUE)
  BY DEF Create, Begin
<1>3. CASE doomed' = doomed \union TempsOf(d, d) /\ op' = op
  <2>1. doomed' \subseteq doomed \union TempsOf(d, m)
    BY <1>3 DEF TempsOf
  <2> QED  BY <1>2, <1>3, <2>1 DEF Requested
<1>4. CASE ~(Takes[p] = "both" /\ m = Same) /\ Proceed(s, a, p, d, m, e, TRUE)
  <2>1. e \in Row /\ e.live /\ e.placement = p /\ e.desktop = Clear /\ e.mobile = Clear
    BY DEF Row, Image
  <2> HIDE DEF e
  <2>2. /\ Begins(s, "validate", a, d, IF Ignored(p, m) THEN Same ELSE m, e, TRUE)
        /\ doomed' = IF Ignored(p, m) THEN doomed \union TempsOf(m, m) ELSE doomed
    BY <1>1, <1>4, <2>1, ProceedDoes
  <2>3. TRUE \in BOOLEAN
    OBVIOUS
  <2> QED  BY <1>1, <1>2, <1>4, <2>1, <2>2, <2>3 DEF Requested
<1> QED  BY <1>2, <1>3, <1>4

LEMMA UpdateRequested ==
  ASSUME Typed, NEW s \in Staff, NEW a \in Ads, NEW p \in Placements,
         NEW d \in Named \union {Same}, NEW m \in Named \union {Same, Blank, Clear}, Update(s, a, p, d, m)
  PROVE  Requested(s, a, p, d, m)
<1>1. d \in Keys \union {Same} /\ m \in Keys \union {Same, Blank, Clear}
  BY NamedFacts
<1>2. PICK e : e = [rows[a] EXCEPT !.placement = p]
  OBVIOUS
<1>3. PICK moved \in BOOLEAN : moved = (p # rows[a].placement)
  OBVIOUS
<1>4. /\ op[s].step = "idle" /\ Send(d, m) /\ rows' = rows /\ rows[a].live
      /\ \/ doomed' = doomed \union TempsOf(d, m) /\ op' = op
         \/ ~Refuses(rows[a], p, d, m) /\ Proceed(s, a, p, d, m, e, moved)
  <2>1. /\ op[s].step = "idle" /\ Send(d, m) /\ rows' = rows /\ rows[a].live
        /\ \/ doomed' = doomed \union TempsOf(d, m) /\ op' = op
           \/ /\ ~Refuses(rows[a], p, d, m)
              /\ Proceed(s, a, p, d, m, [rows[a] EXCEPT !.placement = p], p # rows[a].placement)
    BY DEF Update, Begin
  <2>2. Proceed(s, a, p, d, m, [rows[a] EXCEPT !.placement = p], p # rows[a].placement)
          => Proceed(s, a, p, d, m, e, moved)
    BY <1>2, <1>3
  <2> QED  BY <2>1, <2>2
<1>5. CASE doomed' = doomed \union TempsOf(d, m) /\ op' = op
  BY <1>4, <1>5 DEF Requested
<1>6. CASE ~Refuses(rows[a], p, d, m) /\ Proceed(s, a, p, d, m, e, moved)
  <2>1. rows[a] \in Row
    BY DEF Typed
  <2>2. e \in Row /\ e.live /\ e.placement = p /\ e.desktop = rows[a].desktop /\ e.mobile = rows[a].mobile
    BY <1>2, <1>4, <2>1 DEF Row
  <2>3. /\ Begins(s, "validate", a, d, IF Ignored(p, m) THEN Same ELSE m, e, moved)
        /\ doomed' = IF Ignored(p, m) THEN doomed \union TempsOf(m, m) ELSE doomed
    BY <1>1, <1>3, <1>6, <2>2, ProceedDoes
  <2> QED  BY <1>3, <1>4, <1>6, <2>2, <2>3 DEF Requested
<1> QED  BY <1>4, <1>5, <1>6

\* Requests other than s's are as they were.
LEMMA RequestTyped ==
  ASSUME Typed, NEW s \in Staff, op' \in [Staff -> Request],
         \A t \in Staff \ {s} : op'[t] = op[t],
         op'[s].step # "idle" =>
           /\ op'[s].ad \in Ads
           /\ op'[s].step # "clean" => op'[s].entity.live /\ op'[s].entity.placement \in Placements
  PROVE  \A t \in Staff : op'[t].step # "idle" =>
           /\ op'[t].ad \in Ads
           /\ op'[t].step # "clean" => op'[t].entity.live /\ op'[t].entity.placement \in Placements
<1> SUFFICES ASSUME NEW t \in Staff, op'[t].step # "idle"
             PROVE  /\ op'[t].ad \in Ads
                    /\ op'[t].step # "clean" => op'[t].entity.live /\ op'[t].entity.placement \in Placements
  OBVIOUS
<1>1. CASE t = s
  BY <1>1
<1>2. CASE t # s
  BY <1>2 DEF Typed
<1> QED  BY <1>1, <1>2

LEMMA OnwardTyped ==
  ASSUME Typed, NEW s \in Staff, NEW step, NEW d, NEW m, NEW old, Onward(s, step, d, m, old),
         op[s].step # "idle", op[s].step = "clean" => step = "clean",
         stored' \subseteq Keys, doomed' \subseteq Keys, UNCHANGED <<rows, fresh>>
  PROVE  Typed'
<1>1. op[s].ad \in Ads /\ (step # "clean" => op[s].entity.live /\ op[s].entity.placement \in Placements)
  BY DEF Typed
<1>2. op' \in [Staff -> Request] /\ \A t \in Staff \ {s} : op'[t] = op[t]
  BY DEF Onward
<1>3. \A t \in Staff : op'[t].step # "idle" =>
        /\ op'[t].ad \in Ads
        /\ op'[t].step # "clean" => op'[t].entity.live /\ op'[t].entity.placement \in Placements
  BY <1>1, <1>2, RequestTyped DEF Onward
<1> QED  BY <1>2, <1>3 DEF Typed

LEMMA EndsTyped ==
  ASSUME Typed, NEW s \in Staff, Ends(s),
         stored' \subseteq Keys, doomed' \subseteq Keys, UNCHANGED <<rows, fresh>>
  PROVE  Typed'
<1>1. op' \in [Staff -> Request] /\ \A t \in Staff \ {s} : op'[t] = op[t]
  BY DEF Ends
<1>2. op'[s].step = "idle"
  BY AbsentRow DEF Ends
<1>3. \A t \in Staff : op'[t].step # "idle" =>
        /\ op'[t].ad \in Ads
        /\ op'[t].step # "clean" => op'[t].entity.live /\ op'[t].entity.placement \in Placements
  BY <1>1, <1>2, RequestTyped
<1> QED  BY <1>1, <1>3 DEF Typed

LEMMA TempKeys ==
  ASSUME NEW d \in Keys \union {Same, Blank, Clear}, NEW m \in Keys \union {Same, Blank, Clear}
  PROVE  TempsOf(d, m) \subseteq Keys
BY KeyFacts DEF TempsOf

LEMMA RequestedTyped ==
  ASSUME Typed, NEW s \in Staff, NEW a \in Ads, NEW p \in Placements, NEW d, NEW m, Requested(s, a, p, d, m)
  PROVE  Typed'
<1>1. d \in Keys \union {Same, Blank, Clear} /\ m \in Keys \union {Same, Blank, Clear}
  BY NamedFacts DEF Requested
<1>2. TempsOf(d, m) \subseteq Keys /\ TempsOf(m, m) \subseteq Keys
  BY <1>1, TempKeys
<1>3. stored' \subseteq Keys /\ fresh' \subseteq fresh
  BY <1>2 DEF Requested, Send, Typed
<1>4. doomed' \subseteq Keys /\ rows' = rows
  <2>1. doomed' \subseteq doomed \union TempsOf(d, m) \union TempsOf(m, m)
    BY DEF Requested
  <2> QED  BY <1>2, <2>1 DEF Requested, Typed
<1>5. CASE op' = op
  BY <1>3, <1>4, <1>5 DEF Typed
<1>6. ASSUME NEW e \in Row, NEW moved, NEW n, Begins(s, "validate", a, d, n, e, moved),
             e.live, e.placement = p
      PROVE  Typed'
  <2>1. op' \in [Staff -> Request] /\ \A t \in Staff \ {s} : op'[t] = op[t]
    BY <1>6 DEF Begins
  <2>2. \A t \in Staff : op'[t].step # "idle" =>
          /\ op'[t].ad \in Ads
          /\ op'[t].step # "clean" => op'[t].entity.live /\ op'[t].entity.placement \in Placements
    BY <1>6, <2>1, RequestTyped DEF Begins
  <2> QED  BY <1>3, <1>4, <2>1, <2>2 DEF Typed
<1>7. \/ op' = op
      \/ \E e \in Row, moved \in BOOLEAN :
           /\ Begins(s, "validate", a, d, IF Ignored(p, m) THEN Same ELSE m, e, moved)
           /\ e.live /\ e.placement = p
  BY DEF Requested
<1> QED  BY <1>5, <1>6, <1>7

LEMMA LoadTyped ==
  ASSUME Typed, NEW s \in Staff, NEW a \in Ads, UpdateStatus(s, a) \/ Remove(s, a)
  PROVE  /\ Typed'
         /\ op[s].step = "idle" /\ rows[a].live
         /\ UNCHANGED <<stored, doomed, rows, fresh>>
         /\ \E step \in {"save", "delete"} : Begins(s, step, a, Same, Same, rows[a], FALSE)
<1>1. /\ UNCHANGED <<stored, doomed, rows, fresh>> /\ rows[a].live /\ op[s].step = "idle"
      /\ \/ op' = [op EXCEPT ![s] = [Idle EXCEPT !.step = "save", !.ad = a, !.entity = rows[a]]]
         \/ op' = [op EXCEPT ![s] = [Idle EXCEPT !.step = "delete", !.ad = a, !.entity = rows[a]]]
  BY DEF UpdateStatus, Remove, Begin
<1>2. PICK step \in {"save", "delete"} : Begins(s, step, a, Same, Same, rows[a], FALSE)
  BY <1>1, LoadDoes DEF Steps, Saving
<1>3. op' \in [Staff -> Request] /\ \A t \in Staff \ {s} : op'[t] = op[t]
  BY <1>2 DEF Begins
<1>4. op'[s].ad \in Ads /\ op'[s].entity.live /\ op'[s].entity.placement \in Placements
  BY <1>1, <1>2 DEF Begins, Typed
<1>5. \A t \in Staff : op'[t].step # "idle" =>
        /\ op'[t].ad \in Ads
        /\ op'[t].step # "clean" => op'[t].entity.live /\ op'[t].entity.placement \in Placements
  BY <1>3, <1>4, RequestTyped
<1>6. Typed'
  BY <1>1, <1>3, <1>5 DEF Typed
<1> QED  BY <1>1, <1>2, <1>6

LEMMA FinalizeTypes ==
  ASSUME Typed, NEW k \in Keys, NEW key, Finalize(k, key)
  PROVE  stored' \subseteq Keys /\ doomed' \subseteq Keys
BY KeyFacts DEF Finalize, Typed

LEMMA WroteTyped ==
  ASSUME Typed, NEW s \in Staff, op[s].ad \in Ads, NEW row \in Row,
         row.live => row.placement \in Placements, Wrote(s, row), UNCHANGED <<stored, doomed, fresh>>
  PROVE  Typed'
<1>1. rows' \in [Ads -> Row] /\ \A b \in Ads : rows'[b].live => rows'[b].placement \in Placements
  BY DEF Wrote, Typed
<1>2. ASSUME NEW t \in Staff, op'[t].step # "idle"
      PROVE  /\ op'[t].ad \in Ads
             /\ op'[t].step # "clean" => op'[t].entity.live /\ op'[t].entity.placement \in Placements
  <2>1. CASE t = s
    BY <2>1 DEF Wrote
  <2>2. CASE t # s
    BY <1>2, <2>2 DEF Wrote, Typed
  <2> QED  BY <2>1, <2>2
<1>3. op' \in [Staff -> Request]
  BY DEF Wrote
<1> QED  BY <1>1, <1>2, <1>3 DEF Typed

\* Every state is well typed, and ads that are shown have a placement there is.
LEMMA TypesStay == Typed /\ [Next]_vars => Typed'
<1> SUFFICES ASSUME Typed, [Next]_vars
             PROVE  Typed'
  OBVIOUS
<1>1. ASSUME NEW s \in Staff, NEW a \in Ads, NEW p \in Placements,
             NEW d \in Named, NEW m \in Named \union {Same}, Create(s, a, p, d, m)
      PROVE  Typed'
  BY <1>1, CreateRequested, RequestedTyped
<1>2. ASSUME NEW s \in Staff, NEW a \in Ads, NEW p \in Placements,
             NEW d \in Named \union {Same}, NEW m \in Named \union {Same, Blank, Clear},
             Update(s, a, p, d, m)
      PROVE  Typed'
  BY <1>2, UpdateRequested, RequestedTyped
<1>3. ASSUME NEW s \in Staff, NEW a \in Ads, UpdateStatus(s, a) \/ Remove(s, a)
      PROVE  Typed'
  BY <1>3, LoadTyped
<1>4. ASSUME NEW s \in Staff, Validate(s)
      PROVE  Typed'
  <2>1. TempsOf(op[s].desktop, op[s].mobile) \subseteq Keys
    BY FieldTypes, TempKeys
  <2>2. UNCHANGED <<stored, rows, fresh>> /\ stored' \subseteq Keys /\ doomed' \subseteq Keys
    BY <1>4, <2>1, ValidateDoes DEF Validate, Typed
  <2> QED  BY <1>4, <2>2, ValidateDoes, OnwardTyped, EndsTyped DEF Keeps
<1>5. ASSUME NEW s \in Staff, FinalizeDesktop(s)
      PROVE  Typed'
  <2>1. UNCHANGED <<rows, fresh>> /\ op[s].step = "desktop"
    BY <1>5 DEF FinalizeDesktop
  <2>2. CASE Keeps(s, "mobile", op[s].old) /\ UNCHANGED <<stored, doomed>>
    BY <2>1, <2>2, OnwardTyped DEF Keeps, Typed
  <2>3. ASSUME NEW key, NEW old, op[s].desktop \in Keys, Finalize(op[s].desktop, key),
               Onward(s, "mobile", key, op[s].entity.mobile, old)
        PROVE  Typed'
    BY <2>1, <2>3, FinalizeTypes, OnwardTyped
  <2> QED  BY <1>5, <2>2, <2>3, FinalizeDesktopDoes
<1>6. ASSUME NEW s \in Staff, FinalizeMobile(s)
      PROVE  Typed'
  <2>1. UNCHANGED <<rows, fresh>> /\ op[s].step = "mobile"
    BY <1>6 DEF FinalizeMobile
  <2>2. ASSUME NEW m, NEW old, Onward(s, "save", op[s].entity.desktop, m, old), UNCHANGED <<stored, doomed>>
        PROVE  Typed'
    BY <2>1, <2>2, OnwardTyped DEF Typed
  <2>3. CASE Ends(s) /\ UNCHANGED <<stored, doomed>>
    BY <2>1, <2>3, EndsTyped DEF Typed
  <2>4. ASSUME NEW key, NEW old, op[s].mobile \in Keys, Finalize(op[s].mobile, key),
               Onward(s, "save", op[s].entity.desktop, key, old)
        PROVE  Typed'
    BY <2>1, <2>4, FinalizeTypes, OnwardTyped
  <2> QED  BY <1>6, <2>2, <2>3, <2>4, FinalizeMobileDoes DEF Keeps
<1>7. ASSUME NEW s \in Staff, SelectAd(s)
      PROVE  Typed'
  BY <1>7, SelectDoes, OnwardTyped DEF Keeps, Typed
<1>8. ASSUME NEW s \in Staff, UpdateAd(s)
       PROVE  Typed'
  <2>1. /\ op[s].ad \in Ads /\ Wrote(s, Updated(op[s])) /\ UNCHANGED <<stored, doomed, fresh>>
        /\ op[s].step = "update"
    BY <1>8, UpdateAdDoes
  <2>2. PICK new, e : new = Updated(op[s]) /\ e = op[s].entity
    OBVIOUS
  <2>3. e.placement \in Placements
    BY <2>1, <2>2 DEF Typed
  <2>4. new \in Row /\ (new.live => new.placement \in Placements)
    <3>1. PICK a : a = op[s].ad
      OBVIOUS
    <3>2. /\ new \in Row
          /\ new.live => rows[a].live /\ (new.placement = e.placement \/ new.placement = rows[a].placement)
      BY <2>1, <2>2, <3>1, UpdatedRow
    <3> QED  BY <2>1, <2>3, <3>1, <3>2 DEF Typed
  <2> QED  BY <2>1, <2>2, <2>4, WroteTyped
<1>9. ASSUME NEW s \in Staff, InsertAd(s)
       PROVE  Typed'
  <2>1. CASE Ends(s) /\ UNCHANGED rows
    BY <1>9, <2>1, InsertAdDoes, EndsTyped DEF Typed
  <2>2. CASE Wrote(s, op[s].entity)
    <3>1. op[s].entity \in Row /\ op[s].entity.placement \in Placements
      BY <1>9, InsertAdDoes, FieldTypes DEF Typed
    <3> QED  BY <1>9, <2>2, <3>1, InsertAdDoes, WroteTyped
  <2> QED  BY <1>9, <2>1, <2>2, InsertAdDoes
<1>10. ASSUME NEW s \in Staff, DeleteRow(s)
       PROVE  Typed'
  <2>1. /\ UNCHANGED <<stored, doomed, fresh>> /\ op[s].step = "delete"
        /\ \E old : Keeps(s, "clean", old)
        /\ rows' = [rows EXCEPT ![op[s].ad].live = FALSE]
    BY <1>10, DeleteRowDoes
  <2>2. PICK a \in Ads : a = op[s].ad
    BY <2>1 DEF Typed
  <2>3. rows' \in [Ads -> Row] /\ \A b \in Ads : rows'[b].live => rows'[b].placement \in Placements
    <3>1. PICK f, g : f = rows /\ g = rows'
      OBVIOUS
    <3>2. g = [f EXCEPT ![a].live = FALSE] /\ f \in [Ads -> Row]
      BY <2>1, <2>2, <3>1 DEF Typed
    <3>3. g = [f EXCEPT ![a] = [f[a] EXCEPT !.live = FALSE]]
      BY <3>2
    <3>4. [f[a] EXCEPT !.live = FALSE] \in Row /\ ~[f[a] EXCEPT !.live = FALSE].live
      BY <3>2 DEF Row
    <3>5. g \in [Ads -> Row] /\ ~g[a].live /\ \A b \in Ads \ {a} : g[b] = f[b]
      BY <3>2, <3>3, <3>4
    <3> QED  BY <3>1, <3>5 DEF Typed
  <2>5. PICK old : Keeps(s, "clean", old)
    BY <2>1
  <2>6. op' \in [Staff -> Request] /\ \A t \in Staff \ {s} : op'[t] = op[t]
    BY <2>5 DEF Keeps, Onward
  <2>7. op'[s].step = "clean" /\ op'[s].ad \in Ads
    BY <2>2, <2>5 DEF Keeps, Onward
  <2>8. \A t \in Staff : op'[t].step # "idle" =>
          /\ op'[t].ad \in Ads
          /\ op'[t].step # "clean" => op'[t].entity.live /\ op'[t].entity.placement \in Placements
    BY <2>6, <2>7, RequestTyped
  <2> QED  BY <2>1, <2>3, <2>6, <2>8 DEF Typed
<1>11. ASSUME NEW s \in Staff, SaveFails(s)
      PROVE  Typed'
  <2>1. UNCHANGED <<rows, fresh>> /\ stored' \subseteq Keys /\ doomed' \subseteq Keys /\ Ends(s)
    BY <1>11, SaveFailsDoes DEF Typed
  <2> QED  BY <2>1, EndsTyped
<1>12. ASSUME NEW s \in Staff, Clean(s)
      PROVE  Typed'
  <2>1. op[s].step = "clean" /\ UNCHANGED <<stored, rows, fresh>> /\ stored' \subseteq Keys
    BY <1>12, CleanDoes DEF Typed
  <2>2. CASE Ends(s) /\ doomed' = doomed
    BY <2>1, <2>2, EndsTyped DEF Typed
  <2>3. ASSUME NEW k \in op[s].old, Keeps(s, "clean", op[s].old \ {k}),
               doomed' = IF Unused(k) THEN doomed \union {k} ELSE doomed
        PROVE  Typed'
    <3>1. doomed' \subseteq Keys
      BY <2>3, FieldTypes DEF Typed
    <3> QED  BY <2>1, <2>3, <3>1, OnwardTyped DEF Keeps
  <2> QED  BY <1>12, <2>2, <2>3, CleanDoes
<1>13. ASSUME NEW k \in doomed, Delete(k)
       PROVE  Typed'
  BY <1>13 DEF Delete, Typed
<1>14. CASE UNCHANGED vars
  BY <1>14 DEF vars, Typed
<1> QED
  BY <1>1, <1>2, <1>3, <1>4, <1>5, <1>6, <1>7, <1>8, <1>9, <1>10, <1>11, <1>12, <1>13, <1>14
     DEF Next, Acts, Deletes

\* Every state is well typed.
THEOREM AdTypes == Spec => []Typed
<1>1. Init => Typed
  <2> SUFFICES ASSUME Init
               PROVE  Typed
    OBVIOUS
  <2>1. rows \in [Ads -> Row] /\ \A a \in Ads : ~rows[a].live
    BY AbsentRow DEF Init
  <2>2. op \in [Staff -> Request] /\ \A s \in Staff : op[s].step = "idle"
    BY AbsentRow DEF Init
  <2> QED  BY <2>1, <2>2 DEF Init, Typed
<1> QED  BY <1>1, TypesStay, PTL DEF Spec

-----------------------------------------------------------------------------
(* An ad has the images its placement takes *)

LEMMA FittingIf ==
  ASSUME Fitting, NEW s \in Staff, \A t \in Staff \ {s} : op'[t] = op[t], UNCHANGED <<rows, mixed>>,
         Right(op'[s])
  PROVE  Fitting'
<1>1. ASSUME NEW t \in Staff
      PROVE  Right(op[t])'
  <2>1. CASE t = s
    BY <2>1 DEF Right, RequestFits, Tracks, DesktopComes, MobileComes
  <2>2. CASE t # s
    BY <2>2 DEF Fitting, Right, RequestFits, Tracks, DesktopComes, MobileComes
  <2> QED  BY <2>1, <2>2
<1>2. (\A a \in Shown \ mixed : Fits(rows[a]))'
  BY DEF Fitting, Shown, Fits
<1> QED  BY <1>1, <1>2 DEF Fitting

\* A request that goes on and will save what fits is as right as it was.
LEMMA OnwardFits ==
  ASSUME Fitting, NEW s \in Staff, NEW step, NEW d, NEW m, NEW old, Onward(s, step, d, m, old),
         UNCHANGED <<rows, mixed>>, op[s].step \in Saving, step # "update",
         op[s].ad \notin mixed => RequestFits(op'[s])
  PROVE  Fitting'
<1>1. \A t \in Staff \ {s} : op'[t] = op[t]
  BY DEF Onward
<1>2. PICK n, o : n = op'[s] /\ o = op[s]
  OBVIOUS
<1>3. n.step = step /\ n.ad = o.ad /\ n.moved = o.moved /\ n.overtaken = o.overtaken
      /\ n.entity.placement = o.entity.placement
  BY <1>2 DEF Onward
<1>4. ASSUME n.ad \notin mixed
      PROVE  RequestFits(n) /\ (n.overtaken \/ Tracks(n))
  <2>1. o.overtaken \/ Tracks(o)
    BY <1>2, <1>3, <1>4 DEF Fitting, Right
  <2>2. Tracks(o) => Tracks(n)
    BY <1>3 DEF Tracks
  <2> QED  BY <1>2, <1>3, <1>4, <2>1, <2>2
<1>5. Right(op'[s])
  BY <1>2, <1>4 DEF Right
<1> QED  BY <1>1, <1>5, FittingIf

\* So is one that has nothing to save.
LEMMA OtherFits ==
  ASSUME Fitting, NEW s \in Staff, \A t \in Staff \ {s} : op'[t] = op[t], UNCHANGED <<rows, mixed>>,
         op'[s].step \notin Saving
  PROVE  Fitting'
<1>1. Right(op'[s])
  BY DEF Right
<1> QED  BY <1>1, FittingIf

\* Whatever a request that is not refused was sent with will do.
LEMMA RequestedFits ==
  ASSUME Typed, Fitting, NEW s \in Staff, NEW a \in Ads, NEW p \in Placements, NEW d, NEW m,
         Requested(s, a, p, d, m), UNCHANGED mixed
  PROVE  Fitting'
<1>1. CASE op' = op
  BY <1>1, FittingIf DEF Requested, Fitting
<1>2. ASSUME NEW e \in Row, NEW moved \in BOOLEAN,
             Begins(s, "validate", a, d, IF Ignored(p, m) THEN Same ELSE m, e, moved),
             e.live, e.placement = p,
             \/ /\ e.desktop = Clear /\ e.mobile = Clear /\ d # Same /\ moved
                /\ m \in Named \union {Same} /\ (Takes[p] = "both" => m # Same)
             \/ /\ rows[a].live /\ e.desktop = rows[a].desktop /\ e.mobile = rows[a].mobile
                /\ moved = (p # rows[a].placement) /\ ~Refuses(rows[a], p, d, m)
      PROVE  Fitting'
  <2>1. PICK n : n = op'[s]
    OBVIOUS
  <2>2. /\ n.step = "validate" /\ n.ad = a /\ n.desktop = d /\ n.entity = e /\ n.moved = moved
        /\ n.mobile = IF Ignored(p, m) THEN Same ELSE m
        /\ \A t \in Staff \ {s} : op'[t] = op[t]
    BY <1>2, <2>1 DEF Begins
  <2>3. m \in Keys \union {Same, Blank, Clear}
    BY NamedFacts DEF Requested
  <2>4. ASSUME e.desktop = Clear, e.mobile = Clear, d # Same,
               m \in Named \union {Same}, Takes[p] = "both" => m # Same, moved
        PROVE  RequestFits(n) /\ Tracks(n)
    <3>1. DesktopComes(n)
      BY <2>2, <2>4 DEF DesktopComes
    <3>2. MobileComes(n)
      <4> SUFFICES ASSUME Takes[p] = "both"
                   PROVE  n.mobile \in Keys
        BY <1>2, <2>2 DEF MobileComes
      <4>1. ~Ignored(p, m)
        BY DEF Ignored
      <4> QED  BY <2>2, <2>4, <4>1, NamedFacts
    <3> QED  BY <2>2, <2>4, <3>1, <3>2 DEF RequestFits, Tracks
  <2>5. ASSUME rows[a].live, e.desktop = rows[a].desktop, e.mobile = rows[a].mobile,
               moved = (p # rows[a].placement), ~Refuses(rows[a], p, d, m), a \notin mixed
        PROVE  RequestFits(n) /\ Tracks(n)
    <3>1. Fits(rows[a])
      BY <1>2, <2>5 DEF Fitting, Shown
    <3>2. DesktopComes(n)
      BY <2>2, <2>5, <3>1 DEF DesktopComes, Fits
    <3>3. MobileComes(n)
      <4> SUFFICES ASSUME Takes[p] = "both"
                   PROVE  \/ n.mobile \in Keys
                          \/ n.mobile \in {Same, Blank} /\ ~moved /\ e.mobile # Clear
        BY <1>2, <2>2 DEF MobileComes
      <4>1. ~Ignored(p, m) /\ n.mobile = m /\ m # Clear
        BY <2>2, <2>5 DEF Ignored, Refuses
      <4>2. CASE moved
        <5>1. IsTemp(m)
          BY <2>5, <4>2 DEF Refuses
        <5> QED  BY <2>3, <4>1, <5>1, KeyFacts
      <4>3. CASE ~moved
        <5>1. p = rows[a].placement /\ e.mobile # Clear
          BY <2>5, <3>1, <4>3 DEF Fits
        <5> QED  BY <2>3, <4>1, <4>3, <5>1
      <4> QED  BY <4>2, <4>3
    <3> QED  BY <1>2, <2>2, <2>5, <3>2, <3>3 DEF RequestFits, Tracks
  <2>6. Right(op'[s])
    BY <1>2, <2>1, <2>2, <2>4, <2>5 DEF Right
  <2> QED  BY <2>2, <2>6, FittingIf DEF Requested
<1> QED  BY <1>1, <1>2 DEF Requested

\* What the row is written with fits; so does what requests will save that
\* are not overtaken by it.
LEMMA WroteFits ==
  ASSUME Typed, Fitting, NEW s \in Staff, op[s].ad \in Ads, NEW row, Wrote(s, row),
         mixed \subseteq mixed', row # rows[op[s].ad] /\ op[s].ad \notin mixed' => Fits(row)
  PROVE  Fitting'
<1>1. PICK a : a = op[s].ad
  OBVIOUS
<1>2. rows' = [rows EXCEPT ![a] = row] /\ a \in Ads /\ rows \in [Ads -> Row]
  BY <1>1 DEF Wrote, Typed
<1>3. (\A b \in Shown \ mixed : Fits(rows[b]))'
  <2> SUFFICES ASSUME NEW b \in Ads, b \notin mixed', rows'[b].live
               PROVE  Fits(rows[b])'
    BY DEF Shown
  <2>1. CASE rows'[b] = rows[b]
    <3>1. Fits(rows[b])
      BY <2>1 DEF Fitting, Shown
    <3> QED  BY <2>1, <3>1 DEF Fits
  <2>2. CASE rows'[b] # rows[b]
    <3>1. b = a /\ rows'[b] = row
      BY <1>2, <2>2
    <3> QED  BY <1>1, <2>2, <3>1 DEF Fits
  <2> QED  BY <2>1, <2>2
<1>4. ASSUME NEW t \in Staff
      PROVE  Right(op[t])'
  <2>1. CASE t = s
    BY <2>1 DEF Wrote, Right, Saving
  <2>2. CASE t # s
    <3>1. PICK o, n : o = op[t] /\ n = op'[t]
      OBVIOUS
    <3>2. /\ n.step = o.step /\ n.ad = o.ad /\ n.desktop = o.desktop /\ n.mobile = o.mobile
          /\ n.entity = o.entity /\ n.moved = o.moved /\ n.diff = o.diff
          /\ n.overtaken = Overtaken(o, a, row)
      BY <1>1, <2>2, <3>1 DEF Wrote
    <3>3. ASSUME o.step \in Saving, o.ad \notin mixed'
          PROVE  RequestFits(n) /\ (n.overtaken \/ Tracks(n)')
      <4>1. RequestFits(o) /\ (o.overtaken \/ Tracks(o))
        BY <3>1, <3>3 DEF Fitting, Right
      <4>2. RequestFits(n)
        BY <3>2, <4>1 DEF RequestFits, DesktopComes, MobileComes
      <4>3. ASSUME ~n.overtaken
            PROVE  Tracks(n)'
        <5>1. Tracks(o) /\ o.ad \in Ads
          BY <3>1, <3>2, <3>3, <4>1, <4>3 DEF Overtaken, Typed, Saving
        <5>2. \/ rows'[o.ad] = rows[o.ad]
              \/ ~o.moved /\ rows'[o.ad].placement = rows[o.ad].placement
          <6>1. CASE o.ad # a
            BY <1>2, <5>1, <6>1
          <6>2. CASE o.ad = a
            <7>1. rows'[a] = row
              BY <1>2
            <7> QED  BY <3>2, <3>3, <4>3, <6>2, <7>1 DEF Overtaken
          <6> QED  BY <6>1, <6>2
        <5>3. CASE rows'[o.ad] = rows[o.ad]
          BY <3>2, <5>1, <5>3 DEF Tracks
        <5>4. CASE ~o.moved /\ rows'[o.ad].placement = rows[o.ad].placement
          BY <3>2, <5>1, <5>4 DEF Tracks
        <5> QED  BY <5>2, <5>3, <5>4
      <4> QED  BY <4>2, <4>3
    <3> QED  BY <3>1, <3>2, <3>3 DEF Right, RequestFits, DesktopComes, MobileComes, Fits, Tracks
  <2> QED  BY <2>1, <2>2
<1> QED  BY <1>3, <1>4 DEF Fitting

LEMMA FittingStays == Typed /\ Fitting /\ [Next]_vars => Fitting'
<1> SUFFICES ASSUME Typed, Fitting, [Next]_vars
             PROVE  Fitting'
  OBVIOUS
<1>1. ASSUME NEW s \in Staff, NEW a \in Ads, NEW p \in Placements,
             NEW d \in Named, NEW m \in Named \union {Same}, Create(s, a, p, d, m)
      PROVE  Fitting'
  <2>1. UNCHANGED mixed
    BY <1>1 DEF Create, Begin
  <2> QED  BY <1>1, <2>1, CreateRequested, RequestedFits
<1>2. ASSUME NEW s \in Staff, NEW a \in Ads, NEW p \in Placements,
             NEW d \in Named \union {Same}, NEW m \in Named \union {Same, Blank, Clear},
             Update(s, a, p, d, m)
      PROVE  Fitting'
  <2>1. UNCHANGED mixed
    BY <1>2 DEF Update, Begin
  <2> QED  BY <1>2, <2>1, UpdateRequested, RequestedFits
<1>3. ASSUME NEW s \in Staff, NEW a \in Ads, UpdateStatus(s, a) \/ Remove(s, a)
      PROVE  Fitting'
  <2>1. PICK step \in {"save", "delete"} : Begins(s, step, a, Same, Same, rows[a], FALSE)
    BY <1>3, LoadTyped
  <2>2. rows[a].live /\ UNCHANGED <<rows, mixed>>
    BY <1>3, LoadTyped DEF UpdateStatus, Remove, Begin
  <2>3. \A t \in Staff \ {s} : op'[t] = op[t]
    BY <2>1 DEF Begins
  <2>4. PICK n : n = op'[s]
    OBVIOUS
  <2>5. n.step \in {"save", "delete"} /\ n.ad = a /\ n.entity = rows[a] /\ n.moved = FALSE
    BY <2>1, <2>4 DEF Begins
  <2>6. a \notin mixed => Fits(rows[a])
    BY <2>2 DEF Fitting, Shown
  <2>7. Right(n)
    BY <2>5, <2>6 DEF Right, RequestFits, Tracks
  <2> QED  BY <2>2, <2>3, <2>4, <2>7, FittingIf
<1>4. ASSUME NEW s \in Staff, Ends(s), UNCHANGED <<rows, mixed>>
      PROVE  Fitting'
  <2>1. op'[s].step \notin Saving /\ \A t \in Staff \ {s} : op'[t] = op[t]
    BY <1>4, AbsentRow DEF Ends, Saving
  <2> QED  BY <1>4, <2>1, OtherFits
<1>5. ASSUME NEW s \in Staff, Validate(s)
      PROVE  Fitting'
  <2>1. UNCHANGED <<rows, mixed>> /\ op[s].step = "validate" /\ op[s].step \in Saving
    BY <1>5 DEF Validate, history, Saving
  <2>2. CASE Keeps(s, "desktop", op[s].old)
    <3>1. op[s].ad \notin mixed => RequestFits(op[s])
      BY <2>1 DEF Fitting, Right
    <3>2. op[s].ad \notin mixed => RequestFits(op'[s])
      BY <2>1, <2>2, <3>1 DEF Keeps, Onward, RequestFits, DesktopComes, MobileComes
    <3> QED  BY <2>1, <2>2, <3>2, OnwardFits DEF Keeps
  <2> QED  BY <1>4, <1>5, <2>1, <2>2, ValidateDoes
<1>6. ASSUME NEW s \in Staff, FinalizeDesktop(s)
      PROVE  Fitting'
  <2>1. /\ UNCHANGED <<rows, mixed>> /\ op[s].step = "desktop" /\ op[s].step \in Saving
        /\ op[s].ad \notin mixed => DesktopComes(op[s]) /\ MobileComes(op[s])
    BY <1>6 DEF FinalizeDesktop, history, Saving, Fitting, Right, RequestFits
  <2>2. \E key, old : /\ Onward(s, "mobile", key, op[s].entity.mobile, old)
                      /\ op[s].ad \notin mixed => key # Clear
    <3>1. CASE op[s].desktop = Same /\ Keeps(s, "mobile", op[s].old)
      BY <2>1, <3>1 DEF DesktopComes, Keeps
    <3>2. \A key \in Keys : key # Clear
      BY KeyFacts
    <3> QED  BY <1>6, <3>1, <3>2, FinalizeDesktopDoes
  <2>3. PICK key, old : /\ Onward(s, "mobile", key, op[s].entity.mobile, old)
                        /\ op[s].ad \notin mixed => key # Clear
    BY <2>2
  <2>4. op[s].ad \notin mixed => RequestFits(op'[s])
    BY <2>1, <2>3 DEF Onward, RequestFits, DesktopComes, MobileComes
  <2> QED  BY <2>1, <2>3, <2>4, OnwardFits
<1>7. ASSUME NEW s \in Staff, FinalizeMobile(s)
      PROVE  Fitting'
  <2>1. /\ UNCHANGED <<rows, mixed>> /\ op[s].step = "mobile" /\ op[s].step \in Saving
        /\ op[s].ad \notin mixed => op[s].entity.desktop # Clear /\ MobileComes(op[s])
    BY <1>7 DEF FinalizeMobile, history, Saving, Fitting, Right, RequestFits, DesktopComes
  <2>2. ASSUME NEW m, NEW old, Onward(s, "save", op[s].entity.desktop, m, old),
               op[s].ad \notin mixed => (Takes[op[s].entity.placement] = "both" => m # Clear),
               Takes[op[s].entity.placement] = "single" => m = Clear
        PROVE  Fitting'
    <3>1. op[s].ad \notin mixed => RequestFits(op'[s])
      BY <2>1, <2>2 DEF Onward, RequestFits, Fits
    <3> QED  BY <2>1, <2>2, <3>1, OnwardFits
  <2>3. ASSUME Takes[op[s].entity.placement] = "both", op[s].ad \notin mixed
        PROVE  ~Gone(op[s]) /\ (op[s].mobile = Same => op[s].entity.mobile # Clear)
    <3>1. \A k \in Keys : k \notin {Same, Blank, Clear}
      BY KeyFacts
    <3> QED  BY <2>1, <2>3, <3>1, KeyFacts DEF MobileComes, Gone
  <2>4. Takes[op[s].entity.placement] = "single" => Gone(op[s])
    BY DEF Gone
  <2>5. \A key \in Keys : key # Clear
    BY KeyFacts
  <2>6. CASE /\ Gone(op[s])
             /\ Onward(s, "save", op[s].entity.desktop, Clear,
                       op[s].old \union ({op[s].entity.mobile} \ {Clear}))
    BY <2>2, <2>3, <2>6
  <2>7. CASE ~Gone(op[s]) /\ op[s].mobile = Same /\ Keeps(s, "save", op[s].old)
    BY <2>2, <2>3, <2>4, <2>7 DEF Keeps
  <2>8. ASSUME NEW key \in Keys, NEW old, ~Gone(op[s]),
               Onward(s, "save", op[s].entity.desktop, key, op[s].old \union old)
        PROVE  Fitting'
    BY <2>2, <2>4, <2>5, <2>8
  <2> QED  BY <1>4, <1>7, <2>1, <2>6, <2>7, <2>8, FinalizeMobileDoes
<1>8. ASSUME NEW s \in Staff, SelectAd(s)
      PROVE  Fitting'
  <2>1. PICK n, o, row : n = op'[s] /\ o = op[s] /\ row = rows[o.ad]
    OBVIOUS
  <2>2. /\ o.step = "save" /\ UNCHANGED <<rows, mixed>>
        /\ n.step = (IF row.live THEN "update" ELSE "insert")
        /\ n.diff = {c \in Columns : o.entity[c] # row[c]}
        /\ n.ad = o.ad /\ n.moved = o.moved /\ n.overtaken = o.overtaken
        /\ n.entity.placement = o.entity.placement
        /\ n.entity.desktop = o.entity.desktop /\ n.entity.mobile = o.entity.mobile
        /\ \A t \in Staff \ {s} : op'[t] = op[t]
    <3>1. UNCHANGED <<rows, mixed>>
      BY <1>8 DEF SelectAd, history
    <3>2. PICK step : step = IF rows[op[s].ad].live THEN "update" ELSE "insert"
      OBVIOUS
    <3>3. /\ op[s].step = "save" /\ Onward(s, step, op[s].entity.desktop, op[s].entity.mobile, op[s].old)
          /\ op'[s].diff = {c \in Columns : op[s].entity[c] # rows[op[s].ad][c]}
      BY <1>8, <3>2, SelectDoes DEF Keeps
    <3> QED  BY <2>1, <3>1, <3>2, <3>3 DEF Onward
  <2>3. ASSUME n.ad \notin mixed
        PROVE  Fits(n.entity) /\ (n.overtaken \/ Tracks(n))
    <3>1. Fits(o.entity) /\ (o.overtaken \/ Tracks(o))
      BY <2>1, <2>2, <2>3 DEF Fitting, Right, RequestFits, Saving
    <3>2. Fits(n.entity)
      BY <2>2, <3>1 DEF Fits
    <3>3. ~n.moved /\ Tracks(o) => Tracks(n)
      BY <2>2 DEF Tracks
    <3>4. \A c \in Columns : c \in n.diff \/ o.entity[c] = row[c]
      BY <2>2
    <3>5. n.moved => Tracks(n)
      BY <2>1, <2>2, <3>4 DEF Tracks, Columns
    <3> QED  BY <2>2, <3>1, <3>2, <3>3, <3>5
  <2>4. Right(n)
    BY <2>2, <2>3 DEF Right, RequestFits
  <2> QED  BY <2>1, <2>2, <2>4, FittingIf
<1>9. ASSUME NEW s \in Staff, UpdateAd(s)
      PROVE  Fitting'
  <2>1. PICK a, o, e, row, new : /\ a = op[s].ad /\ o = op[s] /\ e = op[s].entity
                                 /\ row = rows[a] /\ new = Updated(op[s])
    OBVIOUS
  <2>2. /\ a \in Ads /\ o.step = "update" /\ Wrote(s, new) /\ mixed \subseteq mixed'
        /\ a \notin mixed' => ~o.overtaken
    BY <1>9, <2>1, UpdateAdDoes
  <2>3. /\ new.live = row.live /\ (~row.live => new = row)
        /\ row.live =>
             /\ new.placement = IF "placement" \in o.diff THEN e.placement ELSE row.placement
             /\ new.desktop = IF "desktop" \in o.diff THEN e.desktop ELSE row.desktop
             /\ new.mobile = IF "mobile" \in o.diff THEN e.mobile ELSE row.mobile
    BY <2>1, <2>2, UpdatedRow
  <2>4. ASSUME a \notin mixed', row.live
        PROVE  Fits(new)
    <3>1. Fits(e) /\ Tracks(o)
      BY <2>1, <2>2, <2>4 DEF Fitting, Right, RequestFits, Saving
    <3>2. Fits(row)
      BY <2>1, <2>2, <2>4 DEF Fitting, Shown
    <3>3. CASE o.moved
      <4>1. new.placement = e.placement /\ new.desktop = e.desktop /\ new.mobile = e.mobile
        BY <2>1, <2>2, <2>3, <2>4, <3>1, <3>3 DEF Tracks
      <4> QED  BY <3>1, <4>1 DEF Fits
    <3>4. CASE ~o.moved
      <4>1. e.placement = row.placement /\ new.placement = row.placement
        BY <2>1, <2>3, <2>4, <3>1, <3>4 DEF Tracks
      <4> QED  BY <2>3, <2>4, <3>1, <3>2, <4>1 DEF Fits
    <3> QED  BY <3>3, <3>4
  <2> QED  BY <2>1, <2>2, <2>3, <2>4, WroteFits
<1>10. ASSUME NEW s \in Staff, InsertAd(s)
       PROVE  Fitting'
  <2>1. op[s].step = "insert" /\ op[s].ad \in Ads /\ UNCHANGED mixed
    BY <1>10, InsertAdDoes
  <2>2. CASE Ends(s) /\ UNCHANGED rows
    BY <1>4, <2>1, <2>2
  <2>3. CASE Wrote(s, op[s].entity)
    <3>1. op[s].ad \notin mixed => Fits(op[s].entity)
      BY <2>1 DEF Fitting, Right, RequestFits, Saving
    <3> QED  BY <2>1, <2>3, <3>1, WroteFits
  <2> QED  BY <1>10, <2>2, <2>3, InsertAdDoes
<1>11. ASSUME NEW s \in Staff, DeleteRow(s)
       PROVE  Fitting'
  <2>1. /\ op[s].step = "delete" /\ Keeps(s, "clean", ImagesOf(op[s].entity))
        /\ rows' = [rows EXCEPT ![op[s].ad].live = FALSE] /\ UNCHANGED mixed
    BY <1>11, DeleteRowDoes DEF DeleteRow, history
  <2>2. \A a \in Ads : /\ rows'[a].live => rows'[a] = rows[a]
                       /\ rows'[a].placement = rows[a].placement
    <3>1. PICK f, g, b : f = rows /\ g = rows' /\ b = op[s].ad
      OBVIOUS
    <3>2. g = [f EXCEPT ![b].live = FALSE] /\ f \in [Ads -> Row] /\ b \in Ads
      BY <2>1, <3>1 DEF Typed
    <3>3. \A a \in Ads \ {b} : g[a] = f[a]
      BY <3>2
    <3>4. ~g[b].live /\ g[b].placement = f[b].placement
      <4>1. g = [f EXCEPT ![b] = [f[b] EXCEPT !.live = FALSE]]
        BY <3>2
      <4>2. /\ ~[f[b] EXCEPT !.live = FALSE].live
            /\ [f[b] EXCEPT !.live = FALSE].placement = f[b].placement
        BY <3>2 DEF Row
      <4> QED  BY <3>2, <4>1, <4>2
    <3> QED  BY <3>1, <3>3, <3>4
  <2>3. (\A a \in Shown \ mixed : Fits(rows[a]))'
    <3> SUFFICES ASSUME NEW a \in Ads, a \notin mixed, rows'[a].live
                 PROVE  Fits(rows[a])'
      BY <2>1 DEF Shown
    <3>1. rows'[a] = rows[a] /\ Fits(rows[a])
      BY <2>2 DEF Fitting, Shown
    <3> QED  BY <3>1 DEF Fits
  <2>4. ASSUME NEW t \in Staff
        PROVE  Right(op[t])'
    <3>1. CASE t = s
      BY <2>1, <3>1 DEF Keeps, Onward, Right, Saving
    <3>2. CASE t # s
      <4>1. PICK o : o = op[t]
        OBVIOUS
      <4>2. op'[t] = o
        BY <2>1, <3>2, <4>1 DEF Keeps, Onward
      <4>3. ASSUME o.step \in Saving, o.ad \notin mixed, Tracks(o)
            PROVE  Tracks(o)'
        <5>1. o.ad \in Ads
          BY <4>1, <4>3 DEF Typed, Saving
        <5>2. PICK x, y : x = rows[o.ad] /\ y = rows'[o.ad]
          OBVIOUS
        <5>3. y.placement = x.placement /\ (y.live => y = x)
          BY <2>2, <5>1, <5>2
        <5> QED  BY <4>3, <5>2, <5>3 DEF Tracks
      <4>4. Right(o)
        BY <4>1 DEF Fitting
      <4>5. Right(o)'
        BY <2>1, <4>3, <4>4 DEF Right, RequestFits, DesktopComes, MobileComes, Fits
      <4> QED  BY <4>2, <4>5 DEF Right, RequestFits, DesktopComes, MobileComes, Fits, Tracks
    <3> QED  BY <3>1, <3>2
  <2> QED  BY <2>3, <2>4 DEF Fitting
<1>12. ASSUME NEW s \in Staff, SaveFails(s)
       PROVE  Fitting'
  BY <1>4, <1>12, SaveFailsDoes DEF SaveFails, history
<1>13. ASSUME NEW s \in Staff, Clean(s)
       PROVE  Fitting'
  <2>1. op[s].step = "clean" /\ UNCHANGED <<rows, mixed>>
    BY <1>13, CleanDoes DEF Clean, history
  <2>2. ASSUME NEW old, Keeps(s, "clean", old)
        PROVE  Fitting'
    <3>1. op'[s].step \notin Saving /\ \A t \in Staff \ {s} : op'[t] = op[t]
      BY <2>2 DEF Keeps, Onward, Saving
    <3> QED  BY <2>1, <3>1, OtherFits
  <2> QED  BY <1>4, <1>13, <2>1, <2>2, CleanDoes
<1>14. CASE UNCHANGED <<rows, op, mixed>>
  BY <1>14 DEF Fitting, Shown, Right, RequestFits, DesktopComes, MobileComes, Fits, Tracks
<1>15. CASE UNCHANGED vars
  BY <1>14, <1>15 DEF vars
<1>16. ASSUME NEW k \in doomed, Delete(k)
       PROVE  Fitting'
  BY <1>14, <1>16 DEF Delete, history
<1> QED
  BY <1>1, <1>2, <1>3, <1>5, <1>6, <1>7, <1>8, <1>9, <1>10, <1>11, <1>12, <1>13, <1>15, <1>16
     DEF Next, Acts, Deletes

\* Every ad has the images its placement takes, however many requests about
\* it overlap; but for an ad updated by a request that another one overtook,
\* one of the two moving the ad to another placement.
THEOREM ImagesFit == Spec => []FitsPlacement
<1>1. Init => Typed /\ Fitting
  <2> SUFFICES ASSUME Init
               PROVE  Typed /\ Fitting
    OBVIOUS
  <2>1. rows \in [Ads -> Row] /\ \A a \in Ads : ~rows[a].live
    BY AbsentRow DEF Init
  <2>2. op \in [Staff -> Request] /\ \A s \in Staff : op[s].step = "idle"
    BY AbsentRow DEF Init
  <2>3. \A s \in Staff : Right(op[s])
    BY <2>2 DEF Right, Saving
  <2> QED  BY <2>1, <2>2, <2>3 DEF Init, Typed, Fitting, Shown
<1>2. Typed /\ Fitting /\ [Next]_vars => (Typed /\ Fitting)'
  BY TypesStay, FittingStays
<1>3. Fitting => FitsPlacement
  BY DEF Fitting, FitsPlacement, Fits
<1> QED  BY <1>1, <1>2, <1>3, PTL DEF Spec

-----------------------------------------------------------------------------
(* Images are in the bucket, as long as requests do not overlap *)

\* No other request than s's is under way.
Sole(s) == \A t \in Staff \ {s} : op'[t].step = "idle"

LEMMA ShowsIf ==
  ASSUME NEW s \in Staff, Sole(s), NEW n, n = op'[s], InBucket',
         \A k \in doomed' : k.file \notin fresh',
         \A a \in Ads : \A k \in ImagesOf(rows'[a]) : k.file \notin fresh',
         n.step # "idle" =>
           \A k \in Waiting(n) \union ImagesOf(n.entity) \union n.old : k.file \notin fresh',
         \A k \in Waiting(n) :
           IF IsTemp(k)
             THEN /\ k \notin doomed' \union Referenced' \union ImagesOf(n.entity)
                  /\ Final(k) \notin doomed'
                  /\ n.step # "validate" => k \in stored'
             ELSE k \in stored' \ doomed',
         n.step \in {"validate", "desktop"} => (IsTemp(n.desktop) => n.desktop # n.mobile),
         n.step \in Saving =>
           \A k \in ImagesOf(n.entity) : k \in stored' \ doomed'
  PROVE  Shows'
<1>1. ASSUME NEW t \in Staff
      PROVE  /\ op'[t].step # "idle" =>
                  \A k \in Waiting(op'[t]) \union ImagesOf(op'[t].entity) \union op'[t].old : k.file \notin fresh'
             /\ WaitingSafe(t)' /\ Apart(t)' /\ EntitySafe(t)'
  <2>1. CASE t = s
    <3>1. WaitingSafe(s)'
      BY DEF WaitingSafe, Safe
    <3>2. Apart(s)' /\ EntitySafe(s)'
      BY DEF Apart, EntitySafe, Safe
    <3> QED  BY <2>1, <3>1, <3>2
  <2>2. CASE t # s
    <3>1. PICK o : o = op'[t]
      OBVIOUS
    <3>2. o.step = "idle"
      BY <2>2, <3>1 DEF Sole
    <3>3. Waiting(o) = {} /\ o.step \notin Saving
      BY <3>2 DEF Waiting, Saving
    <3>4. WaitingSafe(t)'
      BY <3>1, <3>3 DEF WaitingSafe
    <3> QED  BY <3>1, <3>2, <3>3, <3>4 DEF Apart, EntitySafe
  <2> QED  BY <2>1, <2>2
<1>2. FreshUnknown'
  BY <1>1 DEF FreshUnknown, Unsent, Waiting, ImagesOf
<1> QED  BY <1>1, <1>2 DEF Shows

\* The keys a request waits for, by its step.
LEMMA WaitingFacts ==
  ASSUME NEW o
  PROVE  /\ \A k \in Waiting(o) : k \in Keys /\ (k = o.desktop \/ k = o.mobile)
         /\ o.step \in {"validate", "desktop"} =>
              \A k \in Keys : k = o.desktop \/ k = o.mobile => k \in Waiting(o)
         /\ o.step = "mobile" => \A k \in Keys : k \in Waiting(o) <=> k = o.mobile
         /\ o.step \in {"idle", "save", "update", "insert", "delete", "clean"} => Waiting(o) = {}
BY DEF Waiting

LEMMA SameRows ==
  ASSUME UNCHANGED rows
  PROVE  Referenced' = Referenced
BY DEF Referenced, Shown

\* A request that ends takes nothing along that an ad refers to.
LEMMA EndsShows ==
  ASSUME Typed, Shows, NEW s \in Staff, Sole(s), Ends(s), UNCHANGED <<stored, rows, fresh>>,
         \A k \in doomed' : k \in doomed \/ (k \notin Referenced /\ k.file \notin fresh)
  PROVE  Shows'
<1>1. PICK n : n = op'[s]
  OBVIOUS
<1>2. n = Idle
  BY <1>1 DEF Ends
<1>3. /\ n.step = "idle" /\ Waiting(n) = {} /\ ImagesOf(n.entity) = {} /\ n.old = {}
  BY <1>2, AbsentRow, WaitingFacts
<1>4. InBucket'
  BY SameRows DEF Shows, InBucket
<1>5. /\ \A k \in doomed' : k.file \notin fresh'
      /\ \A a \in Ads : \A k \in ImagesOf(rows'[a]) : k.file \notin fresh'
  BY DEF Shows, FreshUnknown, Unsent
<1> QED  BY <1>1, <1>3, <1>4, <1>5, ShowsIf

LEMMA ImagesOfTwo ==
  ASSUME NEW e, NEW d, NEW m, e.desktop = d, e.mobile = m
  PROVE  ImagesOf(e) = {d, m} \ {Clear}
BY DEF ImagesOf

\* A request that goes on has safe images, and what it has deleted was only its own.
LEMMA OnwardShows ==
  ASSUME Typed, Shows, NEW s \in Staff, Sole(s), NEW step, NEW d, NEW m, NEW old,
         Onward(s, step, d, m, old), UNCHANGED <<rows, fresh>>,
         step \in {"desktop", "mobile", "save", "update", "insert"},
         step = "desktop" => op[s].step = "validate",
         stored \subseteq stored',
         \A k \in doomed' : \/ k \in doomed
                            \/ k \notin Referenced /\ k.file \notin fresh /\ IsTemp(k),
         \A k \in {d, m} \ {Clear} : k \in stored' \ doomed' /\ k.file \notin fresh,
         \A k \in Waiting(op'[s]) :
           k \in Waiting(op[s]) /\ k \notin doomed' \ doomed /\ (IsTemp(k) => k \notin {d, m} /\ k \in stored'),
         \A k \in old : k.file \notin fresh
  PROVE  Shows'
<1>1. PICK n : n = op'[s]
  OBVIOUS
<1>2. /\ n.step = step /\ n.desktop = op[s].desktop /\ n.mobile = op[s].mobile /\ n.old = old
      /\ n.entity.desktop = d /\ n.entity.mobile = m
  BY <1>1 DEF Onward
<1>3. ImagesOf(n.entity) = {d, m} \ {Clear}
  BY <1>2, ImagesOfTwo
<1>4. InBucket' /\ Referenced' = Referenced
  BY SameRows DEF Shows, InBucket
<1>5. /\ \A k \in doomed' : k.file \notin fresh'
      /\ \A a \in Ads : \A k \in ImagesOf(rows'[a]) : k.file \notin fresh'
      /\ \A k \in Waiting(n) \union ImagesOf(n.entity) \union n.old : k.file \notin fresh'
  <2>1. \A k \in Waiting(op[s]) : k.file \notin fresh
    BY WaitingFacts DEF Shows, FreshUnknown, Unsent
  <2> QED  BY <1>1, <1>2, <1>3, <2>1 DEF Shows, FreshUnknown, Unsent
<1>6. ASSUME NEW k \in Waiting(n)
      PROVE  IF IsTemp(k)
               THEN /\ k \notin doomed' \union Referenced' \union ImagesOf(n.entity)
                    /\ Final(k) \notin doomed'
                    /\ n.step # "validate" => k \in stored'
               ELSE k \in stored' \ doomed'
  <2>1. k \in Waiting(op[s]) /\ k \notin doomed' \ doomed /\ (IsTemp(k) => k \notin {d, m} /\ k \in stored')
        /\ k \in Keys
    BY <1>1, WaitingFacts
  <2>2. IF IsTemp(k)
          THEN k \notin doomed /\ k \notin Referenced /\ Final(k) \notin doomed
          ELSE k \in stored \ doomed
    BY <2>1 DEF Shows, WaitingSafe, Safe
  <2>3. ~IsTemp(Final(k))
    BY <2>1, KeyFacts
  <2>4. CASE IsTemp(k)
    BY <1>3, <1>4, <2>1, <2>2, <2>3, <2>4
  <2>5. CASE ~IsTemp(k)
    BY <2>1, <2>2, <2>5
  <2> QED  BY <2>4, <2>5
<1>7. n.step \in {"validate", "desktop"} => (IsTemp(n.desktop) => n.desktop # n.mobile)
  BY <1>2 DEF Shows, Apart
<1> QED  BY <1>1, <1>3, <1>4, <1>5, <1>6, <1>7, ShowsIf

\* What a save may name is in the bucket, or is its own.
LEMMA SentFacts ==
  ASSUME Typed, Shows, Reuse \subseteq {"ads"}, NEW s \in Staff, NEW a, NEW p, NEW d, NEW m,
         Requested(s, a, p, d, m)
  PROVE  /\ \A k \in {d, m} \intersect Keys :
              IF IsTemp(k)
                THEN /\ k \in stored' /\ k.file \notin fresh'
                     /\ k \notin doomed /\ Final(k) \notin doomed /\ k \notin Referenced
                     /\ \A b \in Ads : k \notin ImagesOf(rows[b])
                ELSE k \in Referenced
         /\ \A k \in TempsOf(d, m) \union TempsOf(m, m) : k \in {d, m} \intersect Keys /\ IsTemp(k)
         /\ IsTemp(d) => d # m
         /\ fresh' \subseteq fresh /\ stored \subseteq stored'
<1>1. /\ d \in Named \union {Same} /\ m \in Named \union {Same, Blank, Clear} /\ Send(d, m)
  BY DEF Requested
<1>2. ASSUME NEW k \in {d, m} \intersect Keys
      PROVE  /\ IsTemp(k) => k.file \in fresh
             /\ ~IsTemp(k) => k \in Referenced
  <2>1. k \in Named
    BY <1>1, <1>2, KeyFacts
  <2>2. k \in Referenced /\ k.at \in Reuse => ~IsTemp(k)
    BY DEF IsTemp
  <2> QED  BY <2>1, <2>2, NamedFacts
<1>3. ASSUME NEW k \in {d, m} \intersect Keys, IsTemp(k)
      PROVE  /\ k \in stored' /\ k.file \notin fresh'
             /\ k \notin doomed /\ Final(k) \notin doomed /\ k \notin Referenced
             /\ \A b \in Ads : k \notin ImagesOf(rows[b])
  <2>1. k.file \in fresh /\ k \in TempsOf(d, m) /\ Final(k).file = k.file
    BY <1>2, <1>3, KeyFacts DEF TempsOf
  <2>2. k \in stored' /\ k.file \notin fresh'
    BY <1>1, <2>1 DEF Send
  <2>3. k \notin doomed /\ Final(k) \notin doomed /\ \A b \in Ads : k \notin ImagesOf(rows[b])
    BY <2>1 DEF Shows, FreshUnknown, Unsent
  <2> QED  BY <2>2, <2>3, ReferencedFacts
<1>4. \A k \in TempsOf(d, m) \union TempsOf(m, m) : k \in {d, m} \intersect Keys /\ IsTemp(k)
  <2>1. d \in Keys \union {Same} /\ m \in Keys \union {Same, Blank, Clear}
    BY <1>1, NamedFacts
  <2> QED  BY <2>1, KeyFacts DEF TempsOf
<1>5. (IsTemp(d) => d # m) /\ fresh' \subseteq fresh /\ stored \subseteq stored'
  BY <1>1 DEF Send
<1> QED  BY <1>2, <1>3, <1>4, <1>5

LEMMA RequestedShows ==
  ASSUME Typed, Shows, Reuse \subseteq {"ads"}, NEW s \in Staff, Sole(s), NEW a \in Ads, NEW p, NEW d, NEW m,
         Requested(s, a, p, d, m)
  PROVE  Shows'
<1>1. /\ op[s].step = "idle" /\ rows' = rows /\ Referenced' = Referenced
  BY SameRows DEF Requested
<1>2. /\ d \in Keys \union {Same} /\ m \in Keys \union {Same, Blank, Clear}
  BY NamedFacts DEF Requested
<1>3. doomed' \subseteq doomed \union TempsOf(d, m) \union TempsOf(m, m)
  BY DEF Requested
<1>4. ASSUME NEW k \in doomed'
      PROVE  k.file \notin fresh' /\ (k \in doomed \/ (IsTemp(k) /\ k \notin Referenced))
  <2>1. CASE k \in doomed
    BY <2>1, SentFacts DEF Shows, FreshUnknown, Unsent
  <2>2. CASE k \notin doomed
    <3>1. k \in {d, m} \intersect Keys /\ IsTemp(k)
      BY <1>3, <1>4, <2>2, SentFacts
    <3> QED  BY <3>1, SentFacts
  <2> QED  BY <2>1, <2>2
<1>5. \A b \in Ads : \A k \in ImagesOf(rows'[b]) : k.file \notin fresh'
  BY <1>1, SentFacts DEF Shows, FreshUnknown, Unsent
<1>6. InBucket'
  BY <1>1, <1>4, SentFacts DEF Shows, InBucket
<1>7. \A k \in Referenced : k.file \notin fresh' /\ k \in stored' \ doomed'
  BY <1>1, <1>5, <1>6, ReferencedFacts DEF InBucket
<1>8. CASE op' = op
  <2>1. PICK n : n = op'[s]
    OBVIOUS
  <2>2. n.step = "idle" /\ Waiting(n) = {} /\ n = op[s]
    BY <1>1, <1>8, <2>1, WaitingFacts
  <2> QED  BY <1>4, <1>5, <1>6, <2>1, <2>2, ShowsIf DEF Saving
<1>9. ASSUME NEW e \in Row, NEW moved \in BOOLEAN,
             Begins(s, "validate", a, d, IF Ignored(p, m) THEN Same ELSE m, e, moved),
             doomed' = IF Ignored(p, m) THEN doomed \union TempsOf(m, m) ELSE doomed,
             \/ e.desktop = Clear /\ e.mobile = Clear
             \/ rows[a].live /\ e.desktop = rows[a].desktop /\ e.mobile = rows[a].mobile
      PROVE  Shows'
  <2>1. PICK n, ignored : n = op'[s] /\ ignored = Ignored(p, m)
    OBVIOUS
  <2>2. /\ n.step = "validate" /\ n.desktop = d /\ n.entity = e /\ n.old = {}
        /\ ignored => n.mobile = Same
        /\ ~ignored => n.mobile = m /\ doomed' = doomed
    BY <1>9, <2>1 DEF Begins
  <2>3. ImagesOf(e) \subseteq Referenced
    <3>1. CASE e.desktop = Clear /\ e.mobile = Clear
      BY <3>1, ImageFacts
    <3>2. CASE rows[a].live /\ e.desktop = rows[a].desktop /\ e.mobile = rows[a].mobile
      BY <3>2, ImageFacts, ReferencedFacts DEF Shown
    <3> QED  BY <1>9, <3>1, <3>2
  <2>4. ASSUME NEW k \in Waiting(n)
        PROVE  /\ k \in {d, m} \intersect Keys
               /\ k.file \notin fresh'
               /\ IF IsTemp(k)
                    THEN /\ k \notin doomed' \union Referenced' \union ImagesOf(n.entity)
                         /\ Final(k) \notin doomed'
                    ELSE k \in stored' \ doomed'
    <3>1. k \in Keys /\ (k = d \/ (~ignored /\ k = m))
      BY <2>2, <2>4, WaitingFacts, KeyFacts
    <3>2. CASE ~IsTemp(k)
      BY <1>7, <3>1, <3>2, SentFacts
    <3>3. CASE IsTemp(k)
      <4>1. /\ k.file \notin fresh' /\ k \notin doomed /\ Final(k) \notin doomed /\ k \notin Referenced
            /\ ~IsTemp(Final(k))
        BY <3>1, <3>3, SentFacts, KeyFacts
      <4>2. ignored => k = d /\ d # m
        BY <3>1, <3>3, SentFacts
      <4>3. doomed' \subseteq doomed \union {m} /\ \A l \in doomed' : l \in doomed \/ IsTemp(l)
        BY <1>4, <1>9 DEF TempsOf
      <4> QED  BY <1>1, <2>2, <2>3, <3>1, <3>3, <4>1, <4>2, <4>3
    <3> QED  BY <3>2, <3>3
  <2>5. \A k \in Waiting(n) \union ImagesOf(n.entity) \union n.old : k.file \notin fresh'
    BY <1>7, <2>2, <2>3, <2>4
  <2>6. IsTemp(n.desktop) => n.desktop # n.mobile
    BY <2>2, SentFacts, KeyFacts
  <2>7. \A k \in ImagesOf(n.entity) : k \in stored' \ doomed'
    BY <1>7, <2>2, <2>3
  <2> QED  BY <1>4, <1>5, <1>6, <2>1, <2>2, <2>4, <2>5, <2>6, <2>7, ShowsIf
<1>10. \/ op' = op
       \/ \E e \in Row, moved \in BOOLEAN :
            /\ Begins(s, "validate", a, d, IF Ignored(p, m) THEN Same ELSE m, e, moved)
            /\ doomed' = IF Ignored(p, m) THEN doomed \union TempsOf(m, m) ELSE doomed
            /\ \/ e.desktop = Clear /\ e.mobile = Clear
               \/ rows[a].live /\ e.desktop = rows[a].desktop /\ e.mobile = rows[a].mobile
  BY DEF Requested
<1> QED  BY <1>8, <1>9, <1>10

LEMMA LoadShows ==
  ASSUME Typed, Shows, NEW s \in Staff, Sole(s), NEW a \in Ads, UpdateStatus(s, a) \/ Remove(s, a)
  PROVE  Shows'
<1>1. PICK step \in {"save", "delete"} : Begins(s, step, a, Same, Same, rows[a], FALSE)
  BY LoadTyped
<1>2. UNCHANGED <<stored, doomed, rows, fresh>> /\ rows[a].live
  BY LoadTyped
<1>3. PICK n : n = op'[s]
  OBVIOUS
<1>4. n.step = step /\ n.entity = rows[a] /\ n.old = {} /\ Waiting(n) = {}
  BY <1>1, <1>3, WaitingFacts DEF Begins
<1>5. InBucket' /\ Referenced' = Referenced
  BY <1>2, SameRows DEF Shows, InBucket
<1>6. \A k \in ImagesOf(n.entity) : k \in stored' \ doomed' /\ k.file \notin fresh'
  BY <1>2, <1>4, ReferencedFacts DEF Shows, InBucket, Shown, FreshUnknown, Unsent
<1>7. /\ \A k \in doomed' : k.file \notin fresh'
      /\ \A b \in Ads : \A k \in ImagesOf(rows'[b]) : k.file \notin fresh'
  BY <1>2 DEF Shows, FreshUnknown, Unsent
<1> QED  BY <1>3, <1>4, <1>5, <1>6, <1>7, ShowsIf

\* What a request waits for or is about to save: in the bucket and sent.
LEMMA OwnFacts ==
  ASSUME Typed, Shows, NEW s \in Staff, op[s].step # "idle"
  PROVE  /\ \A k \in {op[s].entity.desktop, op[s].entity.mobile} \ {Clear} :
              /\ k \in Keys /\ k.file \notin fresh
              /\ op[s].step \in Saving => k \in stored \ doomed
         /\ \A k \in op[s].old : k \in Keys /\ k.file \notin fresh
         /\ \A k \in Waiting(op[s]) :
              /\ k \in Keys /\ k.file \notin fresh
              /\ IsTemp(k) => /\ k \notin doomed /\ k \notin Referenced /\ Final(k) \notin doomed
                              /\ k \notin {op[s].entity.desktop, op[s].entity.mobile}
                              /\ op[s].step # "validate" => k \in stored
              /\ ~IsTemp(k) => k \in stored \ doomed
<1>1. ImagesOf(op[s].entity) = {op[s].entity.desktop, op[s].entity.mobile} \ {Clear}
  BY DEF ImagesOf
<1>2. ImagesOf(op[s].entity) \subseteq Keys /\ op[s].old \subseteq Keys
  BY FieldTypes, ImageFacts
<1>3. ASSUME NEW k \in {op[s].entity.desktop, op[s].entity.mobile} \ {Clear}
      PROVE  /\ k \in Keys /\ k.file \notin fresh
             /\ op[s].step \in Saving => k \in stored \ doomed
  BY <1>1, <1>2, <1>3 DEF Shows, FreshUnknown, Unsent, EntitySafe, Safe
<1>4. \A k \in op[s].old : k \in Keys /\ k.file \notin fresh
  BY <1>2 DEF Shows, FreshUnknown, Unsent
<1>5. ASSUME NEW k \in Waiting(op[s])
      PROVE  /\ k \in Keys /\ k.file \notin fresh
             /\ IsTemp(k) => /\ k \notin doomed /\ k \notin Referenced /\ Final(k) \notin doomed
                             /\ k \notin {op[s].entity.desktop, op[s].entity.mobile}
                             /\ op[s].step # "validate" => k \in stored
             /\ ~IsTemp(k) => k \in stored \ doomed
  <2>1. k \in Keys /\ k # Clear
    BY WaitingFacts, KeyFacts
  <2>2. k.file \notin fresh
    BY DEF Shows, FreshUnknown, Unsent
  <2>3. IF IsTemp(k)
          THEN /\ k \notin doomed \union Referenced \union ImagesOf(op[s].entity)
               /\ Final(k) \notin doomed
               /\ op[s].step # "validate" => k \in stored
          ELSE k \in stored \ doomed
    BY DEF Shows, WaitingSafe, Safe
  <2> QED  BY <1>1, <2>1, <2>2, <2>3
<1> QED  BY <1>3, <1>4, <1>5

\* Once finalized, an image is in the bucket; its upload may be deleted.
LEMMA FinalizeFacts ==
  ASSUME Typed, Shows, NEW s \in Staff, NEW k \in Waiting(op[s]), op[s].step # "validate",
         NEW key, Finalize(k, key)
  PROVE  /\ key \in stored' \ doomed' /\ key.file \notin fresh
         /\ IsTemp(key) => key = k
         /\ stored \subseteq stored' /\ doomed' \subseteq doomed \union {k}
         /\ \A l \in doomed' : l \in doomed \/ (l = k /\ l \notin Referenced /\ l.file \notin fresh /\ IsTemp(l))
<1>1. /\ k \in Keys /\ k.file \notin fresh
      /\ IsTemp(k) => k \notin doomed /\ k \notin Referenced /\ Final(k) \notin doomed /\ k \in stored
      /\ ~IsTemp(k) => k \in stored \ doomed
  BY WaitingFacts, OwnFacts
<1>2. Final(k).file = k.file /\ ~IsTemp(Final(k))
  BY <1>1, KeyFacts
<1>3. CASE ~IsTemp(k) /\ key = k /\ UNCHANGED <<stored, doomed>>
  BY <1>1, <1>3
<1>4. CASE /\ IsTemp(k) /\ key = Final(k)
           /\ stored' = stored \union {Final(k)} /\ doomed' = doomed \union {k}
  BY <1>1, <1>2, <1>4
<1>5. CASE IsTemp(k) /\ key = k /\ UNCHANGED <<stored, doomed>>
  BY <1>1, <1>5
<1> QED  BY <1>3, <1>4, <1>5 DEF Finalize

LEMMA ValidateShows ==
  ASSUME Typed, Shows, NEW s \in Staff, Sole(s), Validate(s)
  PROVE  Shows'
<1>1. op[s].step = "validate" /\ op[s].step \in Saving /\ UNCHANGED <<stored, rows, fresh>>
  BY DEF Validate, Saving
<1>2. op[s].desktop \in Keys \union {Same} /\ op[s].mobile \in Keys \union {Same, Blank, Clear}
  BY FieldTypes
<1>3. \A k \in Keys : k = op[s].desktop \/ k = op[s].mobile => k \in Waiting(op[s])
  BY <1>1, WaitingFacts
<1>4. \A k \in TempsOf(op[s].desktop, op[s].mobile) :
        k \in Waiting(op[s]) /\ k \notin Referenced /\ k.file \notin fresh
  BY <1>1, <1>2, <1>3, KeyFacts, OwnFacts DEF TempsOf
<1>5. CASE /\ Keeps(s, "desktop", op[s].old) /\ doomed' = doomed
           /\ TempsOf(op[s].desktop, op[s].mobile) \subseteq stored
  <2>1. PICK n : n = op'[s]
    OBVIOUS
  <2>2. n.desktop = op[s].desktop /\ n.mobile = op[s].mobile
    BY <1>5, <2>1 DEF Keeps, Onward
  <2>3. ASSUME NEW k \in Waiting(n)
        PROVE  /\ k \in Waiting(op[s])
               /\ IsTemp(k) => k \notin {op[s].entity.desktop, op[s].entity.mobile} /\ k \in stored
    <3>1. k \in Keys /\ (k = op[s].desktop \/ k = op[s].mobile)
      BY <2>2, WaitingFacts
    <3>2. IsTemp(k) => k \in TempsOf(op[s].desktop, op[s].mobile)
      BY <3>1 DEF TempsOf
    <3> QED  BY <1>1, <1>3, <1>5, <3>1, <3>2, OwnFacts
  <2>4. \A k \in {op[s].entity.desktop, op[s].entity.mobile} \ {Clear} :
          k \in stored' \ doomed' /\ k.file \notin fresh
    BY <1>1, <1>5, OwnFacts
  <2> QED  BY <1>1, <1>5, <2>1, <2>3, <2>4, OwnFacts, OnwardShows DEF Keeps
<1>6. CASE Ends(s) /\ doomed' = doomed \union TempsOf(op[s].desktop, op[s].mobile)
  BY <1>1, <1>4, <1>6, EndsShows
<1> QED  BY <1>5, <1>6, ValidateDoes

LEMMA FinalizeDesktopShows ==
  ASSUME Typed, Shows, NEW s \in Staff, Sole(s), FinalizeDesktop(s)
  PROVE  Shows'
<1>1. op[s].step = "desktop" /\ op[s].step \in Saving /\ UNCHANGED <<rows, fresh>>
  BY DEF FinalizeDesktop, Saving
<1>2. PICK n, k : n = op'[s] /\ k = op[s].desktop
  OBVIOUS
<1>3. \A l \in Keys : l = op[s].desktop \/ l = op[s].mobile => l \in Waiting(op[s])
  BY <1>1, WaitingFacts
<1>4. ASSUME NEW d, NEW m, NEW old, Onward(s, "mobile", d, m, old), NEW l \in Waiting(n)
      PROVE  /\ l \in Waiting(op[s]) /\ l = op[s].mobile
             /\ IsTemp(l) => /\ l \notin {op[s].entity.desktop, op[s].entity.mobile} /\ l \in stored
                             /\ l # op[s].desktop
  <2>1. n.step = "mobile" /\ n.mobile = op[s].mobile
    BY <1>2, <1>4 DEF Onward
  <2>2. l \in Keys /\ l = op[s].mobile
    BY <2>1, WaitingFacts
  <2>3. l \in Waiting(op[s])
    BY <1>3, <2>2
  <2>4. IsTemp(l) => l # op[s].desktop
    BY <1>1, <2>2 DEF Shows, Apart
  <2> QED  BY <1>1, <2>2, <2>3, <2>4, OwnFacts
<1>5. CASE Keeps(s, "mobile", op[s].old) /\ UNCHANGED <<stored, doomed>>
  <2>1. \A l \in {op[s].entity.desktop, op[s].entity.mobile} \ {Clear} :
          l \in stored' \ doomed' /\ l.file \notin fresh
    BY <1>1, <1>5, OwnFacts
  <2>2. \A l \in Waiting(n) : /\ l \in Waiting(op[s]) /\ l \notin doomed' \ doomed
                              /\ IsTemp(l) => l \notin {op[s].entity.desktop, op[s].entity.mobile} /\ l \in stored'
    BY <1>4, <1>5 DEF Keeps
  <2> QED  BY <1>1, <1>2, <1>5, <2>1, <2>2, OwnFacts, OnwardShows DEF Keeps
<1>6. ASSUME NEW key, NEW old, k \in Keys, Finalize(k, key), old \subseteq Keys,
             old \subseteq {op[s].entity.desktop},
             Onward(s, "mobile", key, op[s].entity.mobile, old)
      PROVE  Shows'
  <2>1. k \in Waiting(op[s])
    BY <1>2, <1>3, <1>6
  <2>2. /\ key \in stored' \ doomed' /\ key.file \notin fresh
        /\ IsTemp(key) => key = k
        /\ stored \subseteq stored' /\ doomed' \subseteq doomed \union {k}
        /\ \A l \in doomed' : l \in doomed \/ (l \notin Referenced /\ l.file \notin fresh /\ IsTemp(l))
    BY <1>1, <1>6, <2>1, FinalizeFacts
  <2>3. IsTemp(k) => k # op[s].entity.mobile
    BY <1>1, <2>1, OwnFacts
  <2>4. doomed' \subseteq doomed \/ IsTemp(k)
    BY <2>2
  <2>5. \A l \in {key, op[s].entity.mobile} \ {Clear} : l \in stored' \ doomed' /\ l.file \notin fresh
    <3>1. \A l \in {op[s].entity.mobile} \ {Clear} : l \in stored' \ doomed' /\ l.file \notin fresh
      BY <1>1, <2>2, <2>3, <2>4, OwnFacts
    <3> QED  BY <2>2, <3>1
  <2>6. \A l \in old : l.file \notin fresh
    <3>1. \A l \in old : l # Clear
      BY <1>6, KeyFacts
    <3> QED  BY <1>1, <1>6, <3>1, OwnFacts
  <2>7. ASSUME NEW l \in Waiting(n)
        PROVE  /\ l \in Waiting(op[s]) /\ l \notin doomed' \ doomed
               /\ IsTemp(l) => l \notin {key, op[s].entity.mobile} /\ l \in stored'
    <3>1. /\ l \in Waiting(op[s]) /\ l = op[s].mobile
          /\ IsTemp(l) => l \notin {op[s].entity.desktop, op[s].entity.mobile} /\ l \in stored /\ l # k
      BY <1>2, <1>4, <1>6
    <3>2. ~IsTemp(l) => l \notin doomed' \ doomed
      BY <2>2
    <3>3. IsTemp(l) => l \notin doomed' \ doomed /\ l # key
      BY <2>2, <3>1
    <3> QED  BY <2>2, <3>1, <3>2, <3>3
  <2> QED  BY <1>1, <1>2, <1>6, <2>2, <2>5, <2>6, <2>7, OnwardShows
<1> QED  BY <1>2, <1>5, <1>6, FinalizeDesktopDoes

LEMMA FinalizeMobileShows ==
  ASSUME Typed, Shows, NEW s \in Staff, Sole(s), FinalizeMobile(s)
  PROVE  Shows'
<1>1. op[s].step = "mobile" /\ op[s].step \in Saving /\ UNCHANGED <<rows, fresh>>
  BY DEF FinalizeMobile, Saving
<1>2. PICK n, k : n = op'[s] /\ k = op[s].mobile
  OBVIOUS
<1>3. ASSUME NEW d, NEW m, NEW old, Onward(s, "save", d, m, old)
      PROVE  Waiting(n) = {}
  BY <1>2, <1>3, WaitingFacts DEF Onward
<1>4. ASSUME NEW m \in {Clear, op[s].entity.mobile}, NEW old, UNCHANGED <<stored, doomed>>,
             Onward(s, "save", op[s].entity.desktop, m, old),
             \A l \in old : l \in op[s].old \/ l \in {op[s].entity.mobile} \ {Clear}
      PROVE  Shows'
  <2>1. \A l \in {op[s].entity.desktop, m} \ {Clear} : l \in stored' \ doomed' /\ l.file \notin fresh
    BY <1>1, <1>4, OwnFacts
  <2>2. \A l \in old : l.file \notin fresh
    BY <1>1, <1>4, OwnFacts
  <2>3. Waiting(n) = {}
    BY <1>3, <1>4
  <2> QED  BY <1>1, <1>2, <1>4, <2>1, <2>2, <2>3, OnwardShows
<1>5. CASE Ends(s) /\ UNCHANGED <<stored, doomed>>
  BY <1>1, <1>5, EndsShows
<1>6. ASSUME NEW key, NEW old, k \in Keys, Finalize(k, key), old \subseteq Keys,
             old \subseteq {op[s].entity.mobile},
             Onward(s, "save", op[s].entity.desktop, key, op[s].old \union old)
      PROVE  Shows'
  <2>1. k \in Waiting(op[s])
    BY <1>1, <1>2, <1>6, WaitingFacts
  <2>2. /\ key \in stored' \ doomed' /\ key.file \notin fresh
        /\ stored \subseteq stored' /\ doomed' \subseteq doomed \union {k}
        /\ \A l \in doomed' : l \in doomed \/ (l \notin Referenced /\ l.file \notin fresh /\ IsTemp(l))
    BY <1>1, <1>6, <2>1, FinalizeFacts
  <2>3. IsTemp(k) => k # op[s].entity.desktop
    BY <1>1, <2>1, OwnFacts
  <2>4. doomed' \subseteq doomed \/ IsTemp(k)
    BY <2>2
  <2>5. \A l \in {op[s].entity.desktop, key} \ {Clear} : l \in stored' \ doomed' /\ l.file \notin fresh
    <3>1. \A l \in {op[s].entity.desktop} \ {Clear} : l \in stored' \ doomed' /\ l.file \notin fresh
      BY <1>1, <2>2, <2>3, <2>4, OwnFacts
    <3> QED  BY <2>2, <3>1
  <2>6. \A l \in op[s].old \union old : l.file \notin fresh
    <3>1. \A l \in old : l # Clear
      BY <1>6, KeyFacts
    <3> QED  BY <1>1, <1>6, <3>1, OwnFacts
  <2>7. Waiting(n) = {}
    BY <1>3, <1>6
  <2> QED  BY <1>1, <1>2, <1>6, <2>2, <2>5, <2>6, <2>7, OnwardShows
<1>7. CASE /\ UNCHANGED <<stored, doomed>>
           /\ Onward(s, "save", op[s].entity.desktop, Clear,
                     op[s].old \union ({op[s].entity.mobile} \ {Clear}))
  BY <1>4, <1>7
<1>8. CASE UNCHANGED <<stored, doomed>> /\ Keeps(s, "save", op[s].old)
  BY <1>4, <1>8 DEF Keeps
<1> QED  BY <1>2, <1>5, <1>6, <1>7, <1>8, FinalizeMobileDoes

\* A request that selects its ad has what it is about to save.
LEMMA SelectShows ==
  ASSUME Typed, Shows, NEW s \in Staff, Sole(s), SelectAd(s)
  PROVE  Shows'
<1>1. PICK n, step : n = op'[s] /\ step = IF rows[op[s].ad].live THEN "update" ELSE "insert"
  OBVIOUS
<1>2. /\ op[s].step = "save" /\ UNCHANGED <<stored, doomed, rows, fresh>>
      /\ Onward(s, step, op[s].entity.desktop, op[s].entity.mobile, op[s].old)
  BY <1>1, SelectDoes DEF Keeps
<1>3. step \in {"update", "insert"} /\ n.step = step
  BY <1>1, <1>2 DEF Onward
<1>4. Waiting(n) = {}
  BY <1>3, WaitingFacts
<1>5. \A k \in {op[s].entity.desktop, op[s].entity.mobile} \ {Clear} :
        k \in stored' \ doomed' /\ k.file \notin fresh
  BY <1>2, OwnFacts DEF Saving
<1>6. \A k \in op[s].old : k.file \notin fresh
  BY <1>2, OwnFacts
<1> QED  BY <1>1, <1>2, <1>3, <1>4, <1>5, <1>6, OnwardShows

\* A request that only has images left to delete.
LEMMA CleansShows ==
  ASSUME Typed, Shows, NEW s \in Staff, Sole(s), NEW old, UNCHANGED fresh, op[s].step # "idle",
         op'[s].step = "clean", op'[s].old = old,
         op'[s].entity.desktop = op[s].entity.desktop, op'[s].entity.mobile = op[s].entity.mobile,
         InBucket', \A k \in doomed' : k.file \notin fresh, \A k \in old : k.file \notin fresh,
         \A a \in Ads : \A k \in ImagesOf(rows'[a]) : k.file \notin fresh
  PROVE  Shows'
<1>1. PICK n : n = op'[s]
  OBVIOUS
<1>2. /\ n.step = "clean" /\ n.old = old
      /\ n.entity.desktop = op[s].entity.desktop /\ n.entity.mobile = op[s].entity.mobile
  BY <1>1
<1>3. Waiting(n) = {} /\ ImagesOf(n.entity) = {op[s].entity.desktop, op[s].entity.mobile} \ {Clear}
  BY <1>2, WaitingFacts, ImagesOfTwo
<1>4. \A k \in Waiting(n) \union ImagesOf(n.entity) \union n.old : k.file \notin fresh'
  BY <1>2, <1>3, OwnFacts
<1> QED  BY <1>1, <1>2, <1>3, <1>4, ShowsIf DEF Saving

\* What is written of an ad is in the bucket: what the request is about to
\* save, or what the row had.
LEMMA WroteShows ==
  ASSUME Typed, Shows, NEW s \in Staff, Sole(s), op[s].step \in {"update", "insert"}, op[s].ad \in Ads,
         NEW row, Wrote(s, row), UNCHANGED <<stored, doomed, fresh>>,
         \A k \in ImagesOf(row) : \/ k \in ImagesOf(op[s].entity)
                                  \/ /\ k \in ImagesOf(rows[op[s].ad])
                                     /\ row.live => rows[op[s].ad].live
  PROVE  Shows'
<1>1. \A k \in ImagesOf(op[s].entity) : k.file \notin fresh /\ k \in stored \ doomed
  BY OwnFacts, ImageFacts DEF Saving
<1>2. \A b \in Ads : \A k \in ImagesOf(rows[b]) : /\ k.file \notin fresh
                                                  /\ rows[b].live => k \in stored \ doomed
  BY ReferencedFacts DEF Shows, FreshUnknown, Unsent, InBucket, Shown
<1>3. \A b \in Ads : rows'[b] = IF b = op[s].ad THEN row ELSE rows[b]
  BY DEF Wrote, Typed
<1>4. ASSUME NEW b \in Ads, NEW k \in ImagesOf(rows'[b])
      PROVE  k.file \notin fresh /\ (rows'[b].live => k \in stored \ doomed)
  <2>1. CASE b = op[s].ad
    BY <1>1, <1>2, <1>3, <1>4, <2>1
  <2>2. CASE b # op[s].ad
    BY <1>2, <1>3, <1>4, <2>2
  <2> QED  BY <2>1, <2>2
<1>5. InBucket'
  BY <1>4 DEF InBucket, Referenced, Shown
<1>6. \A k \in doomed' : k.file \notin fresh
  BY DEF Shows, FreshUnknown, Unsent
<1>7. /\ op'[s].step = "clean" /\ op'[s].old = op[s].old
      /\ op'[s].entity.desktop = op[s].entity.desktop /\ op'[s].entity.mobile = op[s].entity.mobile
  BY DEF Wrote
<1>8. \A k \in op[s].old : k.file \notin fresh
  BY OwnFacts
<1> QED  BY <1>4, <1>5, <1>6, <1>7, <1>8, CleansShows

LEMMA RowsShow ==
  ASSUME Typed, Shows, NEW s \in Staff, Sole(s), UpdateAd(s) \/ InsertAd(s) \/ DeleteRow(s)
  PROVE  Shows'
<1>1. CASE UpdateAd(s)
  <2>1. PICK a, e, row, new : a = op[s].ad /\ e = op[s].entity /\ row = rows[a] /\ new = Updated(op[s])
    OBVIOUS
  <2>2. op[s].step = "update" /\ a \in Ads /\ Wrote(s, new) /\ UNCHANGED <<stored, doomed, fresh>>
    BY <1>1, <2>1, UpdateAdDoes
  <2>3. /\ new.live = row.live
        /\ new.desktop = e.desktop \/ new.desktop = row.desktop
        /\ new.mobile = e.mobile \/ new.mobile = row.mobile
    BY <2>1, <2>2, UpdatedRow
  <2>4. \A k \in ImagesOf(new) : k \in ImagesOf(e) \/ k \in ImagesOf(row)
    BY <2>3 DEF ImagesOf
  <2> QED  BY <2>1, <2>2, <2>3, <2>4, WroteShows
<1>2. CASE InsertAd(s)
  <2>1. op[s].step = "insert" /\ op[s].ad \in Ads /\ UNCHANGED <<stored, doomed, fresh>>
    BY <1>2, InsertAdDoes
  <2>2. CASE Ends(s) /\ UNCHANGED rows
    BY <2>1, <2>2, EndsShows
  <2>3. CASE Wrote(s, op[s].entity)
    BY <2>1, <2>3, WroteShows
  <2> QED  BY <1>2, <2>2, <2>3, InsertAdDoes
<1>3. CASE DeleteRow(s)
  <2>1. PICK a, e, f, g : a = op[s].ad /\ e = op[s].entity /\ f = rows /\ g = rows'
    OBVIOUS
  <2>2. /\ UNCHANGED <<stored, doomed, fresh>> /\ op[s].step = "delete"
        /\ g = [f EXCEPT ![a].live = FALSE] /\ Keeps(s, "clean", ImagesOf(e))
    BY <1>3, <2>1, DeleteRowDoes
  <2>3. a \in Ads /\ f \in [Ads -> Row]
    BY <2>1, <2>2 DEF Typed
  <2>4. \A k \in ImagesOf(e) : k.file \notin fresh
    BY <2>1, <2>2, OwnFacts, ImageFacts
  <2>5. \A b \in Ads : \A k \in ImagesOf(f[b]) : /\ k.file \notin fresh
                                                 /\ f[b].live => k \in stored \ doomed
    BY <2>1, ReferencedFacts DEF Shows, FreshUnknown, Unsent, InBucket, Shown
  <2>6. ASSUME NEW b \in Ads, NEW k \in ImagesOf(g[b])
        PROVE  k.file \notin fresh /\ (g[b].live => k \in stored \ doomed)
    <3>1. CASE b # a
      BY <2>2, <2>3, <2>5, <2>6, <3>1
    <3>2. CASE b = a
      <4>1. g[a] = [f[a] EXCEPT !.live = FALSE] /\ f[a] \in Row
        BY <2>2, <2>3
      <4>2. ~g[a].live /\ g[a].desktop = f[a].desktop /\ g[a].mobile = f[a].mobile
        BY <4>1 DEF Row
      <4>3. k \in ImagesOf(f[b])
        BY <2>6, <3>2, <4>2, ImageFacts
      <4> QED  BY <2>5, <3>2, <4>2, <4>3
    <3> QED  BY <3>1, <3>2
  <2>7. InBucket'
    BY <2>1, <2>2, <2>6 DEF InBucket, Referenced, Shown
  <2>8. \A k \in doomed' : k.file \notin fresh
    BY <2>2 DEF Shows, FreshUnknown, Unsent
  <2>9. /\ op'[s].step = "clean" /\ op'[s].old = ImagesOf(e)
        /\ op'[s].entity.desktop = op[s].entity.desktop /\ op'[s].entity.mobile = op[s].entity.mobile
    BY <2>2 DEF Keeps, Onward
  <2> QED  BY <2>1, <2>2, <2>4, <2>6, <2>7, <2>8, <2>9, CleansShows
<1> QED  BY <1>1, <1>2, <1>3

LEMMA CleanShows ==
  ASSUME Typed, Shows, NEW s \in Staff, Sole(s), Clean(s)
  PROVE  Shows'
<1>1. op[s].step = "clean" /\ UNCHANGED <<stored, rows, fresh>>
  BY CleanDoes
<1>2. CASE Ends(s) /\ doomed' = doomed
  BY <1>1, <1>2, EndsShows
<1>3. ASSUME NEW k \in op[s].old, Keeps(s, "clean", op[s].old \ {k}),
             doomed' = IF Unused(k) THEN doomed \union {k} ELSE doomed
      PROVE  Shows'
  <2>1. k.file \notin fresh /\ \A l \in op[s].old \ {k} : l.file \notin fresh
    BY <1>1, OwnFacts
  <2>2. \A l \in doomed' : l \in doomed \/ (l = k /\ l \notin Referenced)
    BY <1>3 DEF Unused
  <2>3. \A l \in doomed' : l.file \notin fresh
    BY <2>1, <2>2 DEF Shows, FreshUnknown, Unsent
  <2>4. InBucket'
    BY <1>1, <2>2, SameRows DEF Shows, InBucket
  <2>5. \A a \in Ads : \A l \in ImagesOf(rows'[a]) : l.file \notin fresh
    BY <1>1 DEF Shows, FreshUnknown, Unsent
  <2>6. /\ op'[s].step = "clean" /\ op'[s].old = op[s].old \ {k}
        /\ op'[s].entity.desktop = op[s].entity.desktop /\ op'[s].entity.mobile = op[s].entity.mobile
    BY <1>3 DEF Keeps, Onward
  <2> QED  BY <1>1, <2>1, <2>3, <2>4, <2>5, <2>6, CleansShows
<1> QED  BY <1>2, <1>3, CleanDoes

\* A deletion takes nothing away that was not about to go.
LEMMA DeleteShows ==
  ASSUME Typed, Shows, NEW k \in doomed, Delete(k)
  PROVE  Shows'
<1>1. /\ UNCHANGED <<rows, op, fresh>> /\ stored' \ doomed' = stored \ doomed
      /\ doomed' = doomed \ {k} /\ stored' = stored \ {k}
  BY DEF Delete
<1>2. InBucket'
  BY <1>1, SameRows DEF Shows, InBucket
<1>3. FreshUnknown'
  BY <1>1 DEF Shows, FreshUnknown, Unsent
<1>4. ASSUME NEW s \in Staff
      PROVE  WaitingSafe(s)' /\ Apart(s)' /\ EntitySafe(s)'
  <2>1. WaitingSafe(s)'
    <3>1. PICK o : o = op[s]
      OBVIOUS
    <3>2. \A l \in Waiting(o) :
            IF IsTemp(l)
              THEN /\ l \notin doomed \union Referenced \union ImagesOf(o.entity)
                   /\ Final(l) \notin doomed
                   /\ o.step # "validate" => l \in stored
              ELSE l \in stored \ doomed
      BY <3>1 DEF Shows, WaitingSafe, Safe
    <3>3. op'[s] = o /\ Referenced' = Referenced
      BY <1>1, <3>1, SameRows
    <3>4. \A l \in Waiting(o) :
            IF IsTemp(l)
              THEN /\ l \notin doomed' \union Referenced' \union ImagesOf(o.entity)
                   /\ Final(l) \notin doomed'
                   /\ o.step # "validate" => l \in stored'
              ELSE l \in stored' \ doomed'
      BY <1>1, <3>2, <3>3
    <3> QED  BY <3>3, <3>4 DEF WaitingSafe, Safe
  <2>2. Apart(s)' /\ EntitySafe(s)'
    BY <1>1 DEF Shows, Apart, EntitySafe, Safe
  <2> QED  BY <2>1, <2>2
<1> QED  BY <1>2, <1>3, <1>4 DEF Shows

\* What is in the bucket stays as the ads need it.
LEMMA ActsShow ==
  ASSUME Reuse \subseteq {"ads"}, Typed, Shows, NEW s \in Staff, Sole(s), Acts(s)
  PROVE  Shows'
<1>1. ASSUME NEW a \in Ads, NEW p \in Placements,
             NEW d \in Named, NEW m \in Named \union {Same}, Create(s, a, p, d, m)
      PROVE  Shows'
  BY <1>1, CreateRequested, RequestedShows
<1>2. ASSUME NEW a \in Ads, NEW p \in Placements,
             NEW d \in Named \union {Same}, NEW m \in Named \union {Same, Blank, Clear},
             Update(s, a, p, d, m)
      PROVE  Shows'
  BY <1>2, UpdateRequested, RequestedShows
<1>3. ASSUME NEW a \in Ads, UpdateStatus(s, a) \/ Remove(s, a)
      PROVE  Shows'
  BY <1>3, LoadShows
<1>4. CASE Validate(s) \/ FinalizeDesktop(s) \/ FinalizeMobile(s) \/ SelectAd(s)
  BY <1>4, ValidateShows, FinalizeDesktopShows, FinalizeMobileShows, SelectShows
<1>5. CASE UpdateAd(s) \/ InsertAd(s) \/ DeleteRow(s) \/ Clean(s)
  BY <1>5, RowsShow, CleanShows
<1>6. CASE SaveFails(s)
  BY <1>6, SaveFailsDoes, EndsShows
<1> QED  BY <1>1, <1>2, <1>3, <1>4, <1>5, <1>6 DEF Acts

\* Requests that never overlapped: at most one is under way.
OneBusy == \A s, t \in Staff : s = t \/ op[s].step = "idle" \/ op[t].step = "idle"
Apace == ~overlapped => Shows /\ OneBusy

LEMMA ActsAlone ==
  ASSUME Typed, OneBusy, NEW s \in Staff, Acts(s), ~overlapped'
  PROVE  ~overlapped /\ Sole(s) /\ OneBusy'
<1>1. ~overlapped /\ \A t \in Staff \ {s} : op[t].step = "idle"
  <2>1. CASE Begin(s)
    BY <2>1 DEF Begin
  <2>2. CASE op[s].step # "idle" /\ overlapped' = overlapped
    BY <2>2 DEF OneBusy
  <2>3. Begin(s) \/ (op[s].step # "idle" /\ overlapped' = overlapped)
    BY DEF Acts, Create, Update, UpdateStatus, Remove, Validate, FinalizeDesktop, FinalizeMobile,
           SelectAd, UpdateAd, InsertAd, DeleteRow, SaveFails, Clean, history
  <2> QED  BY <2>1, <2>2, <2>3
<1>2. \A t \in Staff \ {s} : op'[t].step = op[t].step
  <2>1. CASE UpdateAd(s) \/ InsertAd(s)
    BY <2>1, UpdateAdDoes, InsertAdDoes DEF Wrote, Ends
  <2>2. CASE Validate(s) \/ FinalizeDesktop(s) \/ FinalizeMobile(s) \/ SelectAd(s)
    BY <2>2, ValidateDoes, FinalizeDesktopDoes, FinalizeMobileDoes, SelectDoes DEF Keeps, Onward, Ends
  <2>3. CASE DeleteRow(s) \/ SaveFails(s) \/ Clean(s)
    BY <2>3, DeleteRowDoes, SaveFailsDoes, CleanDoes DEF Keeps, Onward, Ends
  <2>4. ASSUME NEW a \in Ads, UpdateStatus(s, a) \/ Remove(s, a)
        PROVE  \A t \in Staff \ {s} : op'[t].step = op[t].step
    BY <2>4, LoadTyped DEF Begins
  <2>5. ASSUME NEW a \in Ads, NEW p, NEW d, NEW m, Requested(s, a, p, d, m)
        PROVE  \A t \in Staff \ {s} : op'[t].step = op[t].step
    BY <2>5 DEF Requested, Begins
  <2>6. ASSUME NEW a \in Ads, NEW p \in Placements,
               NEW d \in Named, NEW m \in Named \union {Same}, Create(s, a, p, d, m)
        PROVE  \A t \in Staff \ {s} : op'[t].step = op[t].step
    BY <2>5, <2>6, CreateRequested
  <2>7. ASSUME NEW a \in Ads, NEW p \in Placements,
               NEW d \in Named \union {Same}, NEW m \in Named \union {Same, Blank, Clear},
               Update(s, a, p, d, m)
        PROVE  \A t \in Staff \ {s} : op'[t].step = op[t].step
    BY <2>5, <2>7, UpdateRequested
  <2> QED  BY <2>1, <2>2, <2>3, <2>4, <2>6, <2>7 DEF Acts
<1> QED  BY <1>1, <1>2 DEF Sole, OneBusy

LEMMA ApaceStays ==
  ASSUME Reuse \subseteq {"ads"}
  PROVE  Typed /\ Apace /\ [Next]_vars => Apace'
<1> SUFFICES ASSUME Typed, Apace, [Next]_vars, ~overlapped'
             PROVE  Shows' /\ OneBusy'
  BY DEF Apace
<1>1. ASSUME NEW s \in Staff, Acts(s)
      PROVE  Shows' /\ OneBusy'
  <2>1. Begin(s) \/ overlapped' = overlapped
    BY <1>1 DEF Acts, Create, Update, UpdateStatus, Remove, Validate, FinalizeDesktop, FinalizeMobile,
                SelectAd, UpdateAd, InsertAd, DeleteRow, SaveFails, Clean, history
  <2>2. ~overlapped
    BY <2>1 DEF Begin
  <2>3. Shows /\ OneBusy
    BY <2>2 DEF Apace
  <2> QED  BY <1>1, <2>3, ActsAlone, ActsShow
<1>2. ASSUME NEW k \in doomed, Delete(k)
      PROVE  Shows' /\ OneBusy'
  <2>1. ~overlapped /\ op' = op
    BY <1>2 DEF Delete, history
  <2> QED  BY <1>2, <2>1, DeleteShows DEF Apace, OneBusy
<1>3. CASE UNCHANGED vars
  <2>1. ~overlapped
    BY <1>3 DEF vars
  <2> QED  BY <1>3, <2>1, SameRows
           DEF Apace, vars, Shows, InBucket, FreshUnknown, Unsent, WaitingSafe, Apart, EntitySafe, Safe, OneBusy
<1> QED  BY <1>1, <1>2, <1>3 DEF Next, Deletes

\* Every image of an ad is in the bucket and nobody is about to delete it, as
\* long as requests do not overlap and no save names an upload a second time.
THEOREM AdImagesShown ==
  ASSUME Reuse \subseteq {"ads"}
  PROVE  Spec => []ImagesShown
<1>1. Init => Typed /\ Apace
  <2> SUFFICES ASSUME Init
               PROVE  Typed /\ Shows /\ OneBusy
    BY DEF Apace
  <2>1. rows \in [Ads -> Row] /\ \A a \in Ads : ~rows[a].live /\ ImagesOf(rows[a]) = {}
    BY AbsentRow DEF Init
  <2>2. /\ op \in [Staff -> Request]
        /\ \A s \in Staff : /\ op[s].step = "idle" /\ op[s].old = {} /\ ImagesOf(op[s].entity) = {}
                            /\ Waiting(op[s]) = {}
    BY AbsentRow, WaitingFacts DEF Init
  <2>3. Typed
    BY <2>1, <2>2 DEF Init, Typed
  <2>4. InBucket
    BY <2>1 DEF InBucket, Referenced, Shown
  <2>5. FreshUnknown
    BY <2>1, <2>2 DEF Init, FreshUnknown
  <2>6. \A s \in Staff : WaitingSafe(s) /\ Apart(s) /\ EntitySafe(s)
    BY <2>2 DEF WaitingSafe, Apart, EntitySafe, Saving
  <2>7. OneBusy
    BY <2>2 DEF OneBusy
  <2> QED  BY <2>3, <2>4, <2>5, <2>6, <2>7 DEF Shows
<1>2. Typed /\ Apace /\ [Next]_vars => (Typed /\ Apace)'
  BY TypesStay, ApaceStays
<1>3. Apace => ImagesShown
  BY DEF Apace, Shows, InBucket, ImagesShown
<1> QED  BY <1>1, <1>2, <1>3, PTL DEF Spec

-----------------------------------------------------------------------------
(* The plain rows of the panels *)

EntryRequest == {"step", "kind", "table", "id", "set", "row", "since", "n", "new", "diff"}

\* A request under way: its entity has what the form names; of a row that was
\* loaded it has all else as the row has it, but for what was written since, and
\* a row that is gone was gone since.  What Select found to be the same still is.
Sound(r) ==
  /\ DOMAIN r = EntryRequest /\ r.step # "idle"
  /\ r.table \in about /\ r.id \in Ids \union {0} /\ DOMAIN r.row = Fields[r.table]
  /\ r.step = "load" => (r.kind = "upsert" <=> r.id = 0)
  /\ \A f \in Fields[r.table] \cap DOMAIN r.set : r.row[f] = r.set[f]
  /\ r.step # "load" /\ r.id # 0 /\ ~There(r.table, r.id) => Fields[r.table] \subseteq r.since
  /\ r.step # "load" /\ r.id # 0 /\ There(r.table, r.id) =>
       \A f \in Fields[r.table] \ (r.since \union DOMAIN r.set) : r.row[f] = entries[r.table][r.id][f]
  /\ r.step = "update" => r.id # 0
  /\ r.step = "update" /\ There(r.table, r.id) =>
       \A f \in Fields[r.table] \ (r.since \union r.diff) : r.row[f] = entries[r.table][r.id][f]

\* Rows and what is promised of them have the columns of their table; ids that
\* were not given yet have no row.
Tables ==
  /\ about \subseteq DOMAIN Fields
  /\ entries = [t \in about |-> [i \in Ids |-> entries[t][i]]]
  /\ promised = [t \in about |-> [i \in Ids |-> promised[t][i]]]
  /\ nextId \in [about -> Nat]
  /\ \A t \in about, i \in Ids :
       /\ There(t, i) => DOMAIN entries[t][i] = Fields[t] /\ DOMAIN promised[t][i] = Fields[t]
       /\ ~There(t, i) => promised[t][i] = NoRow
       /\ i >= nextId[t] => ~There(t, i)

RowsInv ==
  /\ Tables
  /\ requests = [u \in Users |-> requests[u]]
  /\ \A u \in Users : requests[u] = NoRequest \/ Sound(requests[u])
  /\ SavesKept

LEMMA TableFields ==
  /\ DOMAIN Fields = {"builders", "cities", "sublocations", "property_seo", "listing_page_seo"}
  /\ \A t \in DOMAIN Fields : Fields[t] # {}
  /\ DOMAIN NoRow = {}
  /\ NoRequest.step = "idle"
BY DEF Fields, NoRow, NoRequest

\* Steps of one request that write nothing.
LEMMA GoStep ==
  ASSUME RowsInv, NEW u \in Users, NEW q, q = NoRequest \/ Sound(q),
         requests' = [requests EXCEPT ![u] = q], UNCHANGED <<about, entries, nextId, promised>>
  PROVE  RowsInv'
<1>1. Tables' /\ SavesKept'
  BY DEF RowsInv, Tables, SavesKept, There
<1>2. \A r : Sound(r)' <=> Sound(r)
  BY DEF Sound, There
<1>3. \A v \in Users : requests'[v] = IF v = u THEN q ELSE requests[v]
  BY DEF RowsInv
<1>4. requests' = [v \in Users |-> requests'[v]]
  BY DEF RowsInv
<1>5. \A v \in Users : requests'[v] = NoRequest \/ Sound(requests'[v])
  BY <1>3 DEF RowsInv
<1>6. ASSUME NEW v \in Users
      PROVE  (requests[v] = NoRequest \/ Sound(requests[v]))'
  <2>1. PICK r : r = requests'[v]
    OBVIOUS
  <2>2. Sound(r)' <=> Sound(requests[v])'
    BY <2>1 DEF Sound, There
  <2> QED  BY <1>2, <1>5, <2>1, <2>2
<1> QED  BY <1>1, <1>4, <1>6 DEF RowsInv

\* A new request has an entity with what its form names.
LEMMA SubmitStep ==
  ASSUME RowsInv, NEW u \in Users, NEW kind, NEW t, NEW i \in Ids \union {0}, NEW set, NEW step,
         Submit(u, kind, t, i, set, step), step \notin {"idle", "update"},
         step = "load" => (kind = "upsert" <=> i = 0), step # "load" => i = 0
  PROVE  RowsInv'
<1> DEFINE q == [step |-> step, kind |-> kind, table |-> t, id |-> i, set |-> set,
                 row |-> Over(set, BlankEntry(t)), since |-> {}, n |-> 0, new |-> FALSE, diff |-> {}]
<1>1. t \in about /\ requests' = [requests EXCEPT ![u] = q] /\ UNCHANGED <<about, entries, nextId, promised>>
  BY DEF Submit
<1>2. DOMAIN q.row = Fields[t] /\ \A f \in Fields[t] \cap DOMAIN set : q.row[f] = set[f]
  BY DEF Over, BlankEntry
<1>3. /\ DOMAIN q = EntryRequest /\ q.step = step /\ q.kind = kind /\ q.table = t /\ q.id = i /\ q.set = set
  BY DEF EntryRequest
<1> HIDE DEF q
<1>4. Sound(q)
  BY <1>1, <1>2, <1>3 DEF Sound
<1> QED  BY <1>1, <1>4, GoStep

LEMMA FormSteps ==
  ASSUME RowsInv, NEW u \in Users,
         \/ CreateEntry(u) \/ UpdateEntry(u) \/ UpdateEntryStatus(u)
         \/ RequestRemoval(u) \/ Upsert(u) \/ GenerateLocality(u)
  PROVE  RowsInv'
<1>0. Ids \subseteq Ids \union {0} /\ 0 \notin Ids /\ 0 \in Ids \union {0}
  BY DEF Ids
<1>1. ASSUME NEW t \in about \intersect DOMAIN Whole, NEW set \in Whole[t],
             Submit(u, "create", t, 0, set,
               CASE t = "builders" -> "slug" [] t = "cities" -> "unique" [] t = "sublocations" -> "city")
      PROVE  RowsInv'
  <2>1. t \in {"builders", "cities", "sublocations"}
    BY DEF Whole
  <2>2. CASE t = "builders"
    <3>1. Submit(u, "create", t, 0, set, "slug")
      BY <1>1, <2>2
    <3> QED  BY <1>0, <3>1, SubmitStep
  <2>3. CASE t = "cities"
    <3>1. Submit(u, "create", t, 0, set, "unique")
      BY <1>1, <2>3
    <3> QED  BY <1>0, <3>1, SubmitStep
  <2>4. CASE t = "sublocations"
    <3>1. Submit(u, "create", t, 0, set, "city")
      BY <1>1, <2>4
    <3> QED  BY <1>0, <3>1, SubmitStep
  <2> QED  BY <2>1, <2>2, <2>3, <2>4
<1>2. ASSUME NEW kind \in {"update", "status", "remove"}, NEW t, NEW i \in Ids, NEW set,
             Submit(u, kind, t, i, set, "load")
      PROVE  RowsInv'
  BY <1>0, <1>2, SubmitStep
<1>3. ASSUME NEW t, NEW set, Submit(u, "upsert", t, 0, set, "load")
      PROVE  RowsInv'
  BY <1>0, <1>3, SubmitStep
<1>4. CASE CreateEntry(u)
  BY <1>1, <1>4 DEF CreateEntry
<1>5. CASE UpdateEntry(u)
  BY <1>2, <1>5 DEF UpdateEntry
<1>6. CASE UpdateEntryStatus(u)
  BY <1>2, <1>6 DEF UpdateEntryStatus
<1>7. CASE RequestRemoval(u)
  BY <1>2, <1>7 DEF RequestRemoval
<1>8. CASE Upsert(u)
  BY <1>3, <1>8 DEF Upsert
<1>9. CASE GenerateLocality(u)
  BY <1>3, <1>9 DEF GenerateLocality
<1> QED  BY <1>4, <1>5, <1>6, <1>7, <1>8, <1>9

\* A request that is answered, or goes on with its entity as it is.
LEMMA RefuseStep ==
  ASSUME RowsInv, NEW u \in Users, Refuse(u)
  PROVE  RowsInv'
BY GoStep DEF Refuse, End

LEMMA AdvanceStep ==
  ASSUME RowsInv, NEW u \in Users, requests[u].step \notin {"idle", "load"},
         NEW step \in {"unique", "save", "insert"}, Go(u, [requests[u] EXCEPT !.step = step])
  PROVE  RowsInv'
<1> DEFINE r == requests[u]
           q == [r EXCEPT !.step = step]
<1>1. Sound(r)
  BY TableFields DEF RowsInv
<1>2. /\ DOMAIN q = EntryRequest /\ q.step = step /\ q.kind = r.kind /\ q.table = r.table /\ q.id = r.id
      /\ q.set = r.set /\ q.row = r.row /\ q.since = r.since /\ q.diff = r.diff
  BY <1>1 DEF Sound, EntryRequest
<1> HIDE DEF q
<1>3. Sound(q)
  BY <1>1, <1>2 DEF Sound
<1> QED  BY <1>3, GoStep DEF Go, q

LEMMA LoadStep ==
  ASSUME RowsInv, NEW u \in Users, Load(u)
  PROVE  RowsInv'
<1> DEFINE r == requests[u]
           row == entries[r.table][r.id]
           q == [r EXCEPT !.row = Merged(r.set, row), !.step = AfterLoad(r, row)]
<1>1. r.step = "load" /\ r.kind # "upsert"
  BY DEF Load
<1>2. Sound(r)
  BY <1>1, TableFields DEF RowsInv
<1>3. CASE There(r.table, r.id)
  <2>1. Go(u, q)
    BY <1>3 DEF Load
  <2>2. r.id \in Ids /\ r.id # 0 /\ r.table \in about
    BY <1>1, <1>2 DEF Sound
  <2>3. DOMAIN row = Fields[r.table]
    BY <1>3, <2>2 DEF RowsInv, Tables
  <2>4. AfterLoad(r, row) \in {"delete", "city", "unique", "slug", "save"}
    BY DEF AfterLoad
  <2>5. /\ DOMAIN Merged(r.set, row) = Fields[r.table]
        /\ \A f \in Fields[r.table] : Merged(r.set, row)[f] = IF f \in DOMAIN r.set THEN r.set[f] ELSE row[f]
    BY <2>3 DEF Merged, Over
  <2>6. /\ DOMAIN q = EntryRequest /\ q.step = AfterLoad(r, row) /\ q.kind = r.kind /\ q.table = r.table
        /\ q.id = r.id /\ q.set = r.set /\ q.row = Merged(r.set, row)
    BY <1>2 DEF Sound, EntryRequest
  <2> HIDE DEF q
  <2>7. Sound(q)
    BY <1>2, <1>3, <2>2, <2>4, <2>5, <2>6 DEF Sound
  <2> QED  BY <2>1, <2>7, GoStep DEF Go
<1>4. CASE ~There(r.table, r.id)
  BY <1>4, RefuseStep DEF Load
<1> QED  BY <1>3, <1>4

LEMMA LoadByKeyStep ==
  ASSUME RowsInv, NEW u \in Users, LoadByKey(u)
  PROVE  RowsInv'
<1> DEFINE r == requests[u]
           new == [f \in Fields[r.table] |-> IF f \in UniqueKey[r.table] THEN "key" ELSE NULL]
<1>1. r.step = "load" /\ r.kind = "upsert"
  BY DEF LoadByKey
<1>2. Sound(r) /\ r.id = 0 /\ r.table \in about
  BY <1>1, TableFields DEF RowsInv, Sound
<1>3. ASSUME NEW i \in Ids, There(r.table, i),
             Go(u, [r EXCEPT !.id = i, !.row = Merged(r.set, entries[r.table][i]), !.step = "save"])
      PROVE  RowsInv'
  <2> DEFINE row == entries[r.table][i]
             q == [r EXCEPT !.id = i, !.row = Merged(r.set, row), !.step = "save"]
  <2>1. DOMAIN row = Fields[r.table]
    BY <1>2, <1>3 DEF RowsInv, Tables
  <2>2. /\ DOMAIN Merged(r.set, row) = Fields[r.table]
        /\ \A f \in Fields[r.table] : Merged(r.set, row)[f] = IF f \in DOMAIN r.set THEN r.set[f] ELSE row[f]
    BY <2>1 DEF Merged, Over
  <2>3. /\ DOMAIN q = EntryRequest /\ q.step = "save" /\ q.kind = r.kind /\ q.table = r.table
        /\ q.id = i /\ q.set = r.set /\ q.row = Merged(r.set, row)
    BY <1>2 DEF Sound, EntryRequest
  <2> HIDE DEF q
  <2>4. Sound(q)
    BY <1>2, <1>3, <2>2, <2>3 DEF Sound
  <2> QED  BY <1>3, <2>4, GoStep DEF Go, q
<1>4. ASSUME Go(u, [r EXCEPT !.row = Merged(r.set, new), !.step = "save"])
      PROVE  RowsInv'
  <2> DEFINE q == [r EXCEPT !.row = Merged(r.set, new), !.step = "save"]
  <2>1. /\ DOMAIN Merged(r.set, new) = Fields[r.table]
        /\ \A f \in Fields[r.table] \cap DOMAIN r.set : Merged(r.set, new)[f] = r.set[f]
    BY DEF Merged, Over
  <2>2. /\ DOMAIN q = EntryRequest /\ q.step = "save" /\ q.kind = r.kind /\ q.table = r.table
        /\ q.id = 0 /\ q.set = r.set /\ q.row = Merged(r.set, new)
    BY <1>2 DEF Sound, EntryRequest
  <2> HIDE DEF q, new
  <2>3. Sound(q)
    BY <1>2, <2>1, <2>2 DEF Sound
  <2> QED  BY <1>4, <2>3, GoStep DEF Go, q
<1> QED  BY <1>3, <1>4 DEF LoadByKey

LEMMA SlugStep ==
  ASSUME RowsInv, NEW u \in Users, ChooseSlug(u)
  PROVE  RowsInv'
<1> DEFINE r == requests[u]
           candidate == <<r.set.name, r.n>>
           row == [r.row EXCEPT !.slug = candidate]
           more == [r EXCEPT !.n = @ + 1]
           q == [r EXCEPT !.row = row, !.set = Also("slug", candidate, @), !.step = "save"]
<1>1. r.step = "slug" /\ (Go(u, more) \/ Go(u, q))
  BY DEF ChooseSlug
<1>2. Sound(r)
  BY <1>1, TableFields DEF RowsInv
<1>3. CASE Go(u, more)
  <2>1. /\ DOMAIN more = EntryRequest /\ more.step = r.step /\ more.kind = r.kind /\ more.table = r.table
        /\ more.id = r.id /\ more.set = r.set /\ more.row = r.row /\ more.since = r.since /\ more.diff = r.diff
    BY <1>2 DEF Sound, EntryRequest
  <2> HIDE DEF more
  <2>2. Sound(more)
    BY <1>2, <2>1 DEF Sound
  <2> QED  BY <1>3, <2>2, GoStep DEF Go
<1>4. CASE Go(u, q)
  <2> DEFINE set == Also("slug", candidate, r.set)
  <2>1. /\ DOMAIN set = DOMAIN r.set \union {"slug"}
        /\ \A f \in DOMAIN set : set[f] = IF f = "slug" THEN candidate ELSE r.set[f]
    BY DEF Also
  <2>2. /\ DOMAIN row = Fields[r.table]
        /\ \A f \in Fields[r.table] : row[f] = IF f = "slug" THEN candidate ELSE r.row[f]
    BY <1>2 DEF Sound
  <2>3. /\ DOMAIN q = EntryRequest /\ q.step = "save" /\ q.kind = r.kind /\ q.table = r.table
        /\ q.id = r.id /\ q.set = set /\ q.row = row /\ q.since = r.since
    BY <1>2 DEF Sound, EntryRequest
  <2> HIDE DEF q, set, row, candidate
  <2>4. Sound(q)
    BY <1>1, <1>2, <2>1, <2>2, <2>3 DEF Sound
  <2> QED  BY <1>4, <2>4, GoStep DEF Go
<1> QED  BY <1>1, <1>3, <1>4

LEMMA SelectStep ==
  ASSUME RowsInv, NEW u \in Users, Select(u)
  PROVE  RowsInv'
<1> DEFINE r == requests[u]
           diff == {f \in DOMAIN r.row : r.row[f] # entries[r.table][r.id][f]}
           q == [r EXCEPT !.diff = diff, !.step = "update"]
<1>1. r.step = "save"
  BY DEF Select
<1>2. Sound(r)
  BY <1>1, TableFields DEF RowsInv
<1>3. CASE r.id # 0 /\ There(r.table, r.id)
  <2>1. Go(u, q)
    BY <1>3 DEF Select
  <2>2. /\ DOMAIN q = EntryRequest /\ q.step = "update" /\ q.kind = r.kind /\ q.table = r.table
        /\ q.id = r.id /\ q.set = r.set /\ q.row = r.row /\ q.since = r.since /\ q.diff = diff
    BY <1>2 DEF Sound, EntryRequest
  <2>3. \A f \in Fields[r.table] \ diff : r.row[f] = entries[r.table][r.id][f]
    BY <1>2 DEF Sound
  <2> HIDE DEF q, diff
  <2>4. Sound(q)
    BY <1>1, <1>2, <1>3, <2>2, <2>3 DEF Sound
  <2> QED  BY <2>1, <2>4, GoStep DEF Go
<1>4. CASE ~(r.id # 0 /\ There(r.table, r.id))
  <2>1. Go(u, [r EXCEPT !.step = "insert"])
    BY <1>4 DEF Select
  <2> QED  BY <1>1, <2>1, AdvanceStep
<1> QED  BY <1>3, <1>4

LEMMA CellChanged ==
  ASSUME NEW S, NEW I, NEW F, F = [s \in S |-> [j \in I |-> F[s][j]]], NEW t \in S, NEW i \in I, NEW x
  PROVE  [F EXCEPT ![t][i] = x] = [s \in S |-> [j \in I |-> IF s = t /\ j = i THEN x ELSE F[s][j]]]
<1> DEFINE G == [F EXCEPT ![t] = [F[t] EXCEPT ![i] = x]]
<1>1. DOMAIN F = S /\ \A s \in S : F[s] = [j \in I |-> F[s][j]]
  OBVIOUS
<1>2. G = [s \in S |-> IF s = t THEN [F[t] EXCEPT ![i] = x] ELSE F[s]]
  BY <1>1
<1>3. [F[t] EXCEPT ![i] = x] = [j \in I |-> IF j = i THEN x ELSE F[t][j]]
  BY <1>1
<1>4. ASSUME NEW s \in S
      PROVE  G[s] = [j \in I |-> IF s = t /\ j = i THEN x ELSE F[s][j]]
  BY <1>1, <1>2, <1>3
<1> QED  BY <1>2, <1>4

\* A statement writes some columns of one row, and the others that have loaded
\* the row learn which: what is promised of the row is what it holds.
LEMMA StoreStep ==
  ASSUME RowsInv, NEW u \in Users, NEW t, requests[u].step # "idle", requests[u].table = t,
         NEW i \in Ids, NEW row, NEW fields, DOMAIN row = Fields[t],
         \A f \in Fields[t] \ fields : There(t, i) /\ row[f] = entries[t][i][f],
         \A f \in Fields[t] : Promise(requests[u], row, promised[t][i])[f] \in {row[f], Contested},
         Store(u, i, row, fields)
  PROVE  RowsInv'
<1> DEFINE r == requests[u]
           promise == Promise(r, row, promised[t][i])
<1>1. Sound(r) /\ t \in about
  BY TableFields DEF RowsInv, Sound
<1>2. CASE Refuse(u)
  BY <1>2, RefuseStep
<1>3. CASE ~Refuse(u)
  <2>1. /\ about' = about
        /\ entries' = [entries EXCEPT ![t][i] = row]
        /\ promised' = [promised EXCEPT ![t][i] = Promise(r, row, @)]
        /\ requests' = Overlapped(u, {<<t, i>>}, fields)
        /\ nextId' = [nextId EXCEPT ![t] = IF i < @ THEN @ ELSE i + 1]
    BY <1>3 DEF Store
  <2>2. /\ entries' = [s \in about |-> [j \in Ids |-> IF s = t /\ j = i THEN row ELSE entries[s][j]]]
        /\ promised' = [s \in about |-> [j \in Ids |-> IF s = t /\ j = i THEN promise ELSE promised[s][j]]]
    <3> HIDE DEF promise
    <3>1. entries' = [entries EXCEPT ![t][i] = row] /\ promised' = [promised EXCEPT ![t][i] = promise]
      BY <2>1 DEF promise
    <3>2. entries = [s \in about |-> [j \in Ids |-> entries[s][j]]]
      BY DEF RowsInv, Tables
    <3>3. promised = [s \in about |-> [j \in Ids |-> promised[s][j]]]
      BY DEF RowsInv, Tables
    <3>4. \A x : [entries EXCEPT ![t][i] = x] = [s \in about |-> [j \in Ids |-> IF s = t /\ j = i THEN x ELSE entries[s][j]]]
      BY <1>1, <3>2, CellChanged
    <3>5. \A x : [promised EXCEPT ![t][i] = x] = [s \in about |-> [j \in Ids |-> IF s = t /\ j = i THEN x ELSE promised[s][j]]]
      BY <1>1, <3>3, CellChanged
    <3>6. entries' = [s \in about |-> [j \in Ids |-> IF s = t /\ j = i THEN row ELSE entries[s][j]]]
      BY <3>1, <3>4
    <3>7. promised' = [s \in about |-> [j \in Ids |-> IF s = t /\ j = i THEN promise ELSE promised[s][j]]]
      BY <3>1, <3>5
    <3> QED  BY <3>6, <3>7
  <2>3. DOMAIN promise = Fields[t] /\ Fields[t] # {} /\ row # NoRow
    BY <1>1, TableFields DEF Promise, RowsInv, Tables
  <2> HIDE DEF promise
  <2>4. \A s \in about, j \in Ids : There(s, j)' <=> (s = t /\ j = i) \/ There(s, j)
    BY <2>1, <2>2, <2>3 DEF There, NoRow
  <2>5. Tables'
    <3>1. nextId' \in [about -> Nat] /\ \A s \in about, j \in Ids : j >= nextId'[s] => j >= nextId[s] /\ ~(s = t /\ j = i)
      BY <1>1, <2>1 DEF RowsInv, Tables, Ids
    <3>2. \A s \in about, j \in Ids :
            /\ There(s, j)' => DOMAIN entries'[s][j] = Fields[s] /\ DOMAIN promised'[s][j] = Fields[s]
            /\ ~There(s, j)' => promised'[s][j] = NoRow
            /\ j >= nextId'[s] => ~There(s, j)'
      BY <2>2, <2>3, <2>4, <3>1 DEF RowsInv, Tables
    <3>3. /\ entries' = [s \in about |-> [j \in Ids |-> entries'[s][j]]]
          /\ promised' = [s \in about |-> [j \in Ids |-> promised'[s][j]]]
      BY <2>2
    <3>4. about \subseteq DOMAIN Fields
      BY DEF RowsInv, Tables
    <3> QED  BY <2>1, <3>1, <3>2, <3>3, <3>4 DEF Tables, There
  <2>6. SavesKept'
    <3>1. ASSUME NEW s \in about, NEW j \in Ids, NEW f \in DOMAIN promised'[s][j]
          PROVE  f \in DOMAIN entries'[s][j] /\ promised'[s][j][f] \in {entries'[s][j][f], Contested}
      <4>1. CASE s = t /\ j = i
        BY <2>2, <2>3, <4>1 DEF promise
      <4>2. CASE ~(s = t /\ j = i)
        BY <2>2, <4>2 DEF RowsInv, SavesKept
      <4> QED  BY <4>1, <4>2
    <3> QED  BY <2>1, <3>1 DEF SavesKept
  <2>7. ASSUME NEW v \in Users
        PROVE  (requests[v] = NoRequest \/ Sound(requests[v]))'
    <3>1. PICK q : q = requests'[v]
      OBVIOUS
    <3>2. q = NoRequest \/ Sound(q)'
      <4>1. CASE v = u
        BY <2>1, <3>1, <4>1 DEF Overlapped
      <4>2. CASE v # u /\ requests[v] = NoRequest
        BY <2>1, <3>1, <4>2, TableFields DEF Overlapped
      <4>3. CASE v # u /\ requests[v] # NoRequest
        <5>0. PICK o : o = requests[v]
          OBVIOUS
        <5>1. Sound(o)
          BY <4>3, <5>0 DEF RowsInv
        <5>2. CASE o.step = "load"
          <6>1. q = o
            BY <2>1, <3>1, <4>3, <5>0, <5>2 DEF Overlapped
          <6> QED  BY <2>1, <5>1, <5>2, <6>1 DEF Sound
        <5>3. CASE o.step # "load" /\ <<o.table, o.id>> # <<t, i>>
          <6>1. q = o
            BY <2>1, <3>1, <4>3, <5>0, <5>3 DEF Overlapped
          <6>2. o.table \in about /\ o.id \in Ids \union {0}
            BY <5>1 DEF Sound
          <6>3. o.id # 0 => (There(o.table, o.id)' <=> There(o.table, o.id)) /\ entries'[o.table][o.id] = entries[o.table][o.id]
            <7>1. o.table # t \/ o.id # i
              BY <5>3
            <7>2. o.id # 0 => entries'[o.table][o.id] = entries[o.table][o.id]
              BY <2>2, <6>2, <7>1
            <7> QED  BY <7>2 DEF There
          <6> QED  BY <2>1, <5>1, <6>1, <6>2, <6>3 DEF Sound, There
        <5>4. CASE o.step # "load" /\ <<o.table, o.id>> = <<t, i>>
          <6>1. q = [o EXCEPT !.since = @ \union fields]
            BY <2>1, <3>1, <4>3, <5>0, <5>1, <5>4 DEF Overlapped, Sound
          <6>2. /\ DOMAIN q = EntryRequest /\ q.step = o.step /\ q.kind = o.kind /\ q.table = t /\ q.id = i
                /\ q.set = o.set /\ q.row = o.row /\ q.diff = o.diff /\ q.since = o.since \union fields
            BY <5>1, <5>4, <6>1 DEF Sound, EntryRequest
          <6>3. There(t, i)' /\ entries'[t][i] = row
            BY <1>1, <2>2, <2>4
          <6> QED  BY <2>1, <5>1, <5>4, <6>2, <6>3 DEF Sound
        <5> QED  BY <5>2, <5>3, <5>4
      <4> QED  BY <4>1, <4>2, <4>3
    <3>3. Sound(q)' <=> Sound(requests[v])'
      BY <3>1 DEF Sound, There
    <3> QED  BY <3>1, <3>2, <3>3
  <2>8. (requests = [v \in Users |-> requests[v]])'
    BY <2>1 DEF Overlapped
  <2> QED  BY <2>5, <2>6, <2>7, <2>8 DEF RowsInv
<1> QED  BY <1>2, <1>3

LEMMA EnsureSteps ==
  ASSUME RowsInv, NEW u \in Users, EnsureCityExists(u) \/ EnsureUnique(u)
  PROVE  RowsInv'
BY RefuseStep, AdvanceStep DEF EnsureCityExists, EnsureUnique

\* A column that was found to be the same, and that nobody wrote since, is the same.
LEMMA UpdateStep ==
  ASSUME RowsInv, NEW u \in Users, UpdateRow(u)
  PROVE  RowsInv'
<1> DEFINE r == requests[u]
           t == r.table
           old == entries[t][r.id]
           row == [f \in DOMAIN old |-> IF f \in r.diff THEN r.row[f] ELSE old[f]]
           fields == r.diff \union DOMAIN r.set
<1>1. r.step = "update"
  BY DEF UpdateRow
<1>2. Sound(r)
  BY <1>1, TableFields DEF RowsInv
<1>3. t \in about /\ r.id \in Ids
  BY <1>1, <1>2 DEF Sound
<1>4. CASE ~There(t, r.id)
  BY <1>4, RefuseStep DEF UpdateRow
<1>5. CASE There(t, r.id)
  <2>1. Store(u, r.id, row, fields)
    BY <1>5 DEF UpdateRow
  <2>2. DOMAIN old = Fields[t] /\ DOMAIN promised[t][r.id] = Fields[t]
    BY <1>3, <1>5 DEF RowsInv, Tables
  <2>3. DOMAIN row = Fields[t] /\ \A f \in Fields[t] : row[f] = IF f \in r.diff THEN r.row[f] ELSE old[f]
    BY <2>2
  <2>4. \A f \in Fields[t] \ fields : There(t, r.id) /\ row[f] = entries[t][r.id][f]
    BY <1>5, <2>3
  <2> HIDE DEF row
  <2>5. ASSUME NEW f \in Fields[t]
        PROVE  Promise(r, row, promised[t][r.id])[f] \in {row[f], Contested}
    <3>1. Promise(r, row, promised[t][r.id])[f] = IF f \in r.since THEN Contested
                        ELSE IF f \in DOMAIN r.set THEN r.set[f]
                        ELSE IF promised[t][r.id] = NoRow THEN r.row[f] ELSE promised[t][r.id][f]
      BY <2>3 DEF Promise
    <3>2. promised[t][r.id] # NoRow
      BY <1>3, <2>2, TableFields DEF RowsInv, Tables
    <3>3. promised[t][r.id][f] \in {old[f], Contested}
      BY <1>3, <2>2 DEF RowsInv, SavesKept
    <3>4. CASE f \in r.since
      BY <3>1, <3>4
    <3>5. CASE f \notin r.since
      <4>1. f \notin r.diff => r.row[f] = old[f]
        BY <1>1, <1>2, <1>5, <3>5 DEF Sound
      <4>2. row[f] = r.row[f]
        BY <2>3, <4>1
      <4>3. f \in DOMAIN r.set => r.row[f] = r.set[f]
        BY <1>2 DEF Sound
      <4>4. f \notin DOMAIN r.set => r.row[f] = old[f]
        BY <1>1, <1>2, <1>3, <1>5, <3>5 DEF Sound, Ids
      <4> QED  BY <3>1, <3>2, <3>3, <3>5, <4>2, <4>3, <4>4
    <3> QED  BY <3>4, <3>5
  <2> QED  BY <1>1, <1>3, <2>1, <2>3, <2>4, <2>5, StoreStep
<1> QED  BY <1>4, <1>5

\* An inserted row is new, or was removed since it was loaded.
LEMMA InsertStep ==
  ASSUME RowsInv, NEW u \in Users, InsertRow(u)
  PROVE  RowsInv'
<1> DEFINE r == requests[u]
           t == r.table
           i == IF r.id = 0 THEN nextId[t] ELSE r.id
<1>1. r.step = "insert"
  BY DEF InsertRow
<1>2. Sound(r) /\ t \in about /\ r.id \in Ids \union {0}
  BY <1>1, TableFields DEF RowsInv, Sound
<1>3. CASE Refuse(u)
  BY <1>3, RefuseStep
<1>4. CASE ~Refuse(u)
  <2>1. i \in Ids /\ Store(u, i, r.row, Fields[t])
    BY <1>2, <1>4 DEF InsertRow
  <2>2. ~There(t, i)
    <3>1. CASE r.id = 0
      <4>1. i >= nextId[t]
        BY <1>2, <3>1 DEF RowsInv, Tables
      <4> QED  BY <1>2, <2>1, <4>1 DEF RowsInv, Tables
    <3>2. CASE r.id # 0
      BY <1>4, <3>2 DEF InsertRow
    <3> QED  BY <3>1, <3>2
  <2>3. promised[t][i] = NoRow
    BY <1>2, <2>1, <2>2 DEF RowsInv, Tables
  <2>4. DOMAIN r.row = Fields[t] /\ \A f \in Fields[t] \cap DOMAIN r.set : r.row[f] = r.set[f]
    BY <1>2 DEF Sound
  <2>5. \A f \in Fields[t] : Promise(r, r.row, promised[t][i])[f] \in {r.row[f], Contested}
    BY <2>3, <2>4 DEF Promise
  <2> HIDE DEF i
  <2> QED  BY <1>1, <2>1, <2>4, <2>5, StoreStep
<1> QED  BY <1>3, <1>4

\* Of a removed row nothing is promised, and who has loaded it learns that.
LEMMA DeleteStep ==
  ASSUME RowsInv, NEW u \in Users, DeleteEntry(u)
  PROVE  RowsInv'
<1> DEFINE r == requests[u]
           all == UNION {Fields[t] : t \in about}
<1>0. PICK gone : gone = Leaving(r.table, r.id)
  OBVIOUS
<1>1. /\ about' = about /\ nextId' = nextId
      /\ entries' = [t \in about |-> [i \in Ids |-> IF <<t, i>> \in gone THEN NoRow ELSE entries[t][i]]]
      /\ promised' = [t \in about |-> [i \in Ids |-> IF <<t, i>> \in gone THEN NoRow ELSE promised[t][i]]]
      /\ requests' = Overlapped(u, gone, all)
  BY <1>0 DEF DeleteEntry
<1>2. \A t \in about, i \in Ids : There(t, i)' <=> <<t, i>> \notin gone /\ There(t, i)
  BY <1>1 DEF There, NoRow
<1>3. Tables'
  <2>1. /\ about \subseteq DOMAIN Fields /\ nextId \in [about -> Nat]
        /\ \A t \in about, i \in Ids :
             /\ There(t, i) => DOMAIN entries[t][i] = Fields[t] /\ DOMAIN promised[t][i] = Fields[t]
             /\ ~There(t, i) => promised[t][i] = NoRow
             /\ i >= nextId[t] => ~There(t, i)
    BY DEF RowsInv, Tables
  <2>2. \A t \in about, i \in Ids :
          /\ There(t, i)' => DOMAIN entries'[t][i] = Fields[t] /\ DOMAIN promised'[t][i] = Fields[t]
          /\ ~There(t, i)' => promised'[t][i] = NoRow
          /\ i >= nextId[t] => ~There(t, i)'
    BY <1>1, <1>2, <2>1
  <2>3. /\ entries' = [t \in about |-> [i \in Ids |-> entries'[t][i]]]
        /\ promised' = [t \in about |-> [i \in Ids |-> promised'[t][i]]]
    BY <1>1
  <2> QED  BY <1>1, <2>1, <2>2, <2>3 DEF Tables, There
<1>4. SavesKept'
  <2>1. ASSUME NEW t \in about, NEW i \in Ids, NEW f \in DOMAIN promised'[t][i]
        PROVE  f \in DOMAIN entries'[t][i] /\ promised'[t][i][f] \in {entries'[t][i][f], Contested}
    <3>1. CASE <<t, i>> \in gone
      BY <1>1, <3>1, TableFields
    <3>2. CASE <<t, i>> \notin gone
      BY <1>1, <3>2 DEF RowsInv, SavesKept
    <3> QED  BY <3>1, <3>2
  <2> QED  BY <1>1, <2>1 DEF SavesKept
<1>5. ASSUME NEW v \in Users
      PROVE  (requests[v] = NoRequest \/ Sound(requests[v]))'
  <2>1. PICK q : q = requests'[v]
    OBVIOUS
  <2>2. PICK o : o = requests[v]
    OBVIOUS
  <2>3. q = NoRequest \/ Sound(q)'
    <3>1. CASE v = u \/ o = NoRequest
      BY <1>1, <2>1, <2>2, <3>1, TableFields DEF Overlapped
    <3>2. CASE v # u /\ o # NoRequest
      <4>1. Sound(o)
        BY <2>2, <3>2 DEF RowsInv
      <4>2. o.table \in about /\ o.id \in Ids \union {0} /\ Fields[o.table] \subseteq all
        BY <4>1 DEF Sound
      <4>3. CASE o.step = "load"
        <5>1. q = o
          BY <1>1, <2>1, <2>2, <3>2, <4>3 DEF Overlapped
        <5> QED  BY <1>1, <4>1, <4>3, <5>1 DEF Sound
      <4>4. CASE o.step # "load" /\ <<o.table, o.id>> \notin gone
        <5>1. q = o
          BY <1>1, <2>1, <2>2, <3>2, <4>4 DEF Overlapped
        <5>2. o.id # 0 => entries'[o.table][o.id] = entries[o.table][o.id]
          BY <1>1, <4>2, <4>4
        <5> QED  BY <1>1, <4>1, <4>2, <5>1, <5>2 DEF Sound, There
      <4>5. CASE o.step # "load" /\ <<o.table, o.id>> \in gone
        <5>1. q = [o EXCEPT !.since = @ \union all]
          BY <1>1, <2>1, <2>2, <3>2, <4>1, <4>5 DEF Overlapped, Sound
        <5> HIDE DEF all
        <5>2. /\ DOMAIN q = EntryRequest /\ q.step = o.step /\ q.kind = o.kind /\ q.table = o.table /\ q.id = o.id
              /\ q.set = o.set /\ q.row = o.row /\ q.diff = o.diff /\ q.since = o.since \union all
          BY <4>1, <5>1 DEF Sound, EntryRequest
        <5>3. o.id # 0 => ~(entries'[o.table][o.id] # NoRow)
          BY <1>1, <4>2, <4>5
        <5> QED  BY <1>1, <4>1, <4>2, <4>5, <5>2, <5>3 DEF Sound, There
      <4> QED  BY <4>3, <4>4, <4>5
    <3> QED  BY <3>1, <3>2
  <2>4. Sound(q)' <=> Sound(requests[v])'
    BY <2>1 DEF Sound, There
  <2> QED  BY <2>1, <2>3, <2>4
<1>6. (requests = [v \in Users |-> requests[v]])'
  BY <1>1 DEF Overlapped
<1> QED  BY <1>3, <1>4, <1>5, <1>6 DEF RowsInv

\* SavesKept for any number of users, rows and requests, and any texts: what a
\* save was answered with is what the row holds, unless saves of the row overlapped.
THEOREM SavesStand == AdminRowsSpec => []SavesKept
<1>1. AdminRowsInit => RowsInv
  <2> SUFFICES ASSUME AdminRowsInit PROVE RowsInv
    OBVIOUS
  <2>1. about \subseteq DOMAIN Fields
    BY TableFields DEF AdminRowsInit, Places
  <2>2. \A t \in about, i \in Ids : entries[t][i] = NoRow /\ promised[t][i] = NoRow
    BY DEF AdminRowsInit
  <2>3. Tables
    BY <2>1, <2>2 DEF AdminRowsInit, Tables, There
  <2>4. SavesKept
    BY <2>2, TableFields DEF SavesKept
  <2> QED  BY <2>3, <2>4 DEF AdminRowsInit, RowsInv
<1>2. RowsInv /\ [AdminRowsNext]_adminVars => RowsInv'
  <2> SUFFICES ASSUME RowsInv, [AdminRowsNext]_adminVars PROVE RowsInv'
    OBVIOUS
  <2>1. CASE UNCHANGED adminVars
    <3>1. UNCHANGED <<about, entries, nextId, requests, promised>>
      BY <2>1 DEF adminVars
    <3>2. Tables' /\ SavesKept'
      BY <3>1 DEF RowsInv, Tables, SavesKept, There
    <3>3. \A u \in Users : Sound(requests[u])' <=> Sound(requests[u])
      BY <3>1 DEF Sound, There
    <3> QED  BY <3>1, <3>2, <3>3 DEF RowsInv
  <2>2. ASSUME NEW u \in Users,
               \/ CreateEntry(u) \/ UpdateEntry(u) \/ UpdateEntryStatus(u)
               \/ RequestRemoval(u) \/ Upsert(u) \/ GenerateLocality(u)
        PROVE  RowsInv'
    BY <2>2, FormSteps
  <2>3. ASSUME NEW u \in Users,
               \/ Load(u) \/ LoadByKey(u) \/ EnsureCityExists(u) \/ EnsureUnique(u) \/ ChooseSlug(u)
               \/ Select(u) \/ UpdateRow(u) \/ InsertRow(u) \/ DeleteEntry(u)
        PROVE  RowsInv'
    BY <2>3, LoadStep, LoadByKeyStep, EnsureSteps, SlugStep, SelectStep, UpdateStep, InsertStep, DeleteStep
  <2> QED  BY <2>1, <2>2, <2>3 DEF AdminRowsNext
<1>3. RowsInv => SavesKept
  BY DEF RowsInv
<1> QED  BY <1>1, <1>2, <1>3, PTL DEF AdminRowsSpec

================================================================================
