------------------------------- MODULE MCPanels -------------------------------
(***************************************************************************)
(* The panels of the CRM that save whole rows, each part on its own:       *)
(* advertisements with their images, edited by one member of staff or one  *)
(* of them by several (races), and the plain rows of builders, places,     *)
(* property SEO and listing pages.                                         *)
(***************************************************************************)
EXTENDS AdMedia, AdminRows, TLC

CONSTANTS hero, offers, menu, s1

VARIABLE part    \* which part a behaviour is about; the other rests

all == <<vars, adminVars, part>>

PanelsInit ==
  /\ part \in {"ads", "races", "rows"}
  /\ Init /\ AdminRowsInit
  /\ part # "rows" => about = {"builders"}

\* A temporary object, which nobody names again, is deleted at once.
ActsLater == (\A k \in doomed : ~IsTemp(k)) /\ Acts(s1)

\* A deletion between the statements of a save is as good as one before them.
DeletesApart == op[s1].step \notin {"update", "insert"} /\ Deletes

\* One ad, nothing fails, images are new and stay in the bucket.
OneAd ==
  Cardinality({a \in Ads : \/ rows'[a] # Absent
                           \/ \E s \in Staff : op'[s].step # "idle" /\ op'[s].ad = a}) <= 1
Smooth ==
  /\ \A s \in Staff : op[s].step \notin {"idle", "clean", "insert"} => op'[s].step # "idle"
  /\ \A s \in Staff : {op'[s].desktop.at, op'[s].mobile.at} \intersect {"ads", "blank"} = {}

\* Steps that touch nothing but their own request and the bucket run on.
Local == {"validate", "desktop", "mobile", "clean"}
Onward(s) == \A t \in Staff \ {s} : op[t].step \notin Local

Races(s) == Onward(s) /\ Acts(s) /\ OneAd /\ Smooth

PanelsNext ==
  \/ part = "ads" /\ (ActsLater \/ DeletesApart) /\ UNCHANGED <<adminVars, part>>
  \/ part = "races" /\ (\E s \in Staff : Races(s)) /\ UNCHANGED <<adminVars, part>>
  \/ part = "rows" /\ AdminRowsNext /\ UNCHANGED <<vars, part>>

PanelsSpec == PanelsInit /\ [][PanelsNext]_all

AllPlacements == (hero :> "both") @@ (offers :> "optional") @@ (menu :> "single")

Symmetry == Permutations(Uploads) \union Permutations(Ads)
=============================================================================
