---------------------------- MODULE MCEditorial ----------------------------
(***************************************************************************)
(* Two behaviours that TLC can afford apart and not together: two posts    *)
(* that move among four addresses, saved one request at a time, and one    *)
(* post with two addresses in use and two requests in progress.            *)
(***************************************************************************)
EXTENDS Editorial, TLC

VARIABLE part

MCInit == Init /\ part \in {"links", "saves"}

Only == CHOOSE c \in Clients : TRUE   \* the client of the first part
Plain(row) == row.seo = DefaultSeo
Touched ==
  {s \in Slugs : \/ redirects[s] # NoRule
                 \/ \E p \in Posts : posts[p].slug = s
                 \/ \E c \in Clients : request[c] # Idle /\ request[c].slug = s}
Busy == {c \in Clients : request[c] # Idle}

MCNext ==
  /\ Next /\ UNCHANGED part
  /\ \/ /\ part = "links" /\ Busy' \subseteq {Only}
        /\ \A c \in Busy' : Plain(request'[c])
     \/ /\ part = "saves" /\ Cardinality(allocated') <= 1 /\ Cardinality(Touched') <= 2
        /\ \A c \in Busy' : request'[c].revision < MaxRevision - 1

MCSpec == MCInit /\ [][MCNext]_<<vars, part>>

Symmetry == Permutations(Slugs) \cup Permutations(Posts)
=============================================================================
