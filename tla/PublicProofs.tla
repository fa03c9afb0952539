---------------------------- MODULE PublicProofs ----------------------------
(***************************************************************************)
(* What the public finds: posts behind their old links, and listings in    *)
(* the search index.                                                       *)
(*                                                                         *)
(* What Editorial guarantees for any number of posts, addresses and        *)
(* concurrent requests, and revisions without a bound; and that its saves  *)
(* implement those of AtomicSaves.                                         *)
(*                                                                         *)
(* Of SearchIndex, that the index never holds what was not public at some  *)
(* time, that a call that ran by itself, or a reindex nothing interfered   *)
(* with, leaves documents that agree with their rows, and that no listing  *)
(* page shows a hidden row: for any number of rows, calls under way and    *)
(* changes, any size of batches and pages, whatever fails.                 *)
(***************************************************************************)
EXTENDS Editorial, SearchIndex, FiniteSetTheorems, WellFoundedInduction, TLAPS

(***************************************************************************)
(* The inductive invariant                                                 *)
(***************************************************************************)

\* The unique index on blog_posts.slug.
SlugsDistinct ==
  \A p, q \in existing : posts[p].slug = posts[q].slug => p = q

\* A promised link is a blog redirect straight to the post's address, unless
\* the post has taken the address back.
PromisesKept ==
  \A p \in existing : \A s \in former[p] :
    s # posts[p].slug => redirects[s] = BlogRule(posts[p].slug)

\* No other post lives at a promised address.
PromisesFree ==
  \A p, q \in existing : posts[q].slug \in former[p] => p = q

\* Only a post that has been published has promises.
PromisesPublished == \A p \in existing : ~posts[p].published => former[p] = {}

\* Only rows that exist have promises.
PromisesOwned == \A p \in Posts : p \notin existing => former[p] = {}

\* What a request has read is the row as it was at or after the revision the
\* client loaded; if the row still has that revision it has not changed.
SnapshotsHonest ==
  \A c \in Clients :
    request[c] # Idle =>
      LET r == request[c]
          row == posts[r.post]
      IN /\ r.post \in allocated
         /\ r.stage # "submitted" /\ r.post \in existing =>
              /\ r.revision <= r.previous.revision
              /\ r.previous.revision <= row.revision
              /\ r.previous.revision = row.revision =>
                   /\ r.previous.slug = row.slug
                   /\ r.previous.seo = row.seo
                   /\ r.previous.published = row.published

\* The address of a metadata request is a real one.
SeoAddressed ==
  \A c \in Clients :
    request[c] # Idle /\ request[c].kind = "seo" => request[c].slug \in Slugs

\* The revision a client loaded is not ahead of the row.
Loaded ==
  \A c \in Clients :
    request[c] # Idle /\ request[c].post \in existing =>
      request[c].revision <= posts[request[c].post].revision

IInv ==
  /\ TypeOK
  /\ SlugsDistinct
  /\ PromisesKept
  /\ PromisesFree
  /\ PromisesOwned
  /\ PromisesPublished
  /\ SnapshotsHonest
  /\ SeoAddressed
  /\ Loaded
  /\ OneHop

(***************************************************************************)
(* Types                                                                   *)
(***************************************************************************)

LEMMA RequestTypes ==
  ASSUME TypeOK, NEW c \in Clients, request[c] # Idle
  PROVE  /\ request[c] \in Request
         /\ request[c].post \in Posts
         /\ posts[request[c].post] \in Post
         /\ request[c].previous \in Post
BY DEF TypeOK, Request

LEMMA RejectTypes ==
  ASSUME TypeOK, NEW c \in Clients, Reject(c)
  PROVE  TypeOK'
BY DEF TypeOK, Reject, Done

\* An UPDATE of a row that exists, ending the request: the new row keeps or
\* takes a real address.
LEMMA WriteTypes ==
  ASSUME TypeOK, NEW c \in Clients, NEW p \in Posts, NEW row \in Post,
         row.slug \in Slugs,
         posts' = [posts EXCEPT ![p] = row],
         redirects' \in [Slugs -> Rule],
         former' \in [Posts -> SUBSET Slugs],
         Done(c), UNCHANGED <<existing, allocated>>
  PROVE  TypeOK'
BY DEF TypeOK, Done

\* TypeOK is a set of rows that exist with real addresses, and every step
\* writes values of the right kind.
LEMMA TypeStep ==
  ASSUME TypeOK, SnapshotsHonest, SeoAddressed, Next
  PROVE  TypeOK'
<1> USE EditorialAssumption
<1>1. ASSUME NEW p \in Posts, NEW s \in Slugs, NEW st \in Statuses, Create(p, s, st)
      PROVE  TypeOK'
  <2>1. posts' = [posts EXCEPT ![p] = [NoRow EXCEPT !.slug = s, !.status = st,
                                       !.published = (st = "published")]]
    BY <1>1 DEF Create
  <2>2. posts' \in [Posts -> Post]
    BY <2>1 DEF TypeOK, NoRow, Post, Statuses
  <2>3. \A q \in existing' : posts'[q].slug \in Slugs
    BY <1>1, <2>1 DEF Create, TypeOK, NoRow
  <2> QED
    BY <1>1, <2>2, <2>3 DEF Create, TypeOK
<1>2. ASSUME NEW c \in Clients, NEW p \in Posts, NEW kind \in Kinds,
             NEW s \in Slugs \cup {NoSlug}, NEW v \in SeoValues, NEW st \in Statuses,
             Submit(c, p, kind, s, v, st)
      PROVE  TypeOK'
  <2>1. NoRow \in Post
    BY DEF NoRow, Post, Statuses
  <2>2. [stage |-> "submitted", kind |-> kind, post |-> p,
         revision |-> posts[p].revision, slug |-> s, seo |-> v,
         status |-> st, previous |-> NoRow] \in Request
    BY <2>1 DEF Request, TypeOK, Post
  <2> QED
    BY <1>2, <2>2 DEF Submit, TypeOK
<1>3. ASSUME NEW c \in Clients, ReadPrevious(c)
      PROVE  TypeOK'
  <2>1. request[c] # Idle
    BY <1>3 DEF ReadPrevious, At, Idle
  <2>2. CASE Reject(c)
    BY <2>2, RejectTypes
  <2>3. CASE ~Reject(c)
    <3> DEFINE new == [request[c] EXCEPT !.stage = "read",
                                         !.previous = posts[request[c].post]]
    <3>1. /\ UNCHANGED <<existing, allocated, posts, redirects, former>>
          /\ request' = [request EXCEPT ![c] = new]
      BY <1>3, <2>3 DEF ReadPrevious
    <3>2. request[c] \in Request /\ posts[request[c].post] \in Post
      BY <2>1, RequestTypes
    <3>3. new \in Request
      BY <3>2 DEF Request
    <3> QED
      BY <3>1, <3>3 DEF TypeOK
  <2> QED
    BY <2>2, <2>3
<1>4. ASSUME NEW c \in Clients, CheckContent(c)
      PROVE  TypeOK'
  <2>1. request[c] # Idle
    BY <1>4 DEF CheckContent, At, Idle
  <2>2. CASE Reject(c)
    BY <2>2, RejectTypes
  <2>3. CASE ~Reject(c)
    <3> DEFINE row == Dated(request[c].previous, posts[request[c].post].published)
               new == [request[c] EXCEPT !.stage = "checked", !.previous = row]
    <3>1. /\ UNCHANGED <<existing, allocated, posts, redirects, former>>
          /\ request' = [request EXCEPT ![c] = new]
      BY <1>4, <2>3 DEF CheckContent
    <3>2. request[c] \in Request /\ request[c].previous \in Post
      BY <2>1, RequestTypes
    <3>3. row \in Post
      BY <3>2 DEF Dated, Post
    <3>4. new \in Request
      BY <3>2, <3>3 DEF Request
    <3> QED
      BY <3>1, <3>4 DEF TypeOK
  <2> QED
    BY <2>2, <2>3
<1>5. ASSUME NEW c \in Clients, WriteContent(c)
      PROVE  TypeOK'
  <2>1. request[c] # Idle
    BY <1>5 DEF WriteContent, At, Idle
  <2>2. CASE Reject(c)
    BY <2>2, RejectTypes
  <2>3. CASE ~Reject(c)
    <3>1. /\ Current(c)
          /\ UNCHANGED <<existing, allocated, redirects, former>>
          /\ posts' = [posts EXCEPT ![request[c].post] = ContentRow(c)]
          /\ Done(c)
      BY <1>5, <2>3 DEF WriteContent
    <3>2. /\ request[c] \in Request
          /\ request[c].post \in Posts
          /\ posts[request[c].post] \in Post
          /\ request[c].previous \in Post
      BY <2>1, RequestTypes
    <3>3. ContentRow(c) \in Post
      BY <3>2 DEF ContentRow, Post, Request, Statuses
    <3>4. ContentRow(c).slug \in Slugs
      <4>1. request[c].stage = "checked"
        BY <1>5 DEF WriteContent, At
      <4>2. request[c].previous.slug = posts[request[c].post].slug
        BY <2>1, <3>1, <3>2, <4>1 DEF SnapshotsHonest, Current, Post, Request
      <4> QED
        BY <3>1, <4>2 DEF ContentRow, Current, TypeOK
    <3> QED
      BY <3>1, <3>2, <3>3, <3>4, WriteTypes DEF TypeOK
  <2> QED
    BY <2>2, <2>3
<1>6. ASSUME NEW c \in Clients, WriteSeo(c)
      PROVE  TypeOK'
  <2>1. request[c] # Idle
    BY <1>6 DEF WriteSeo, At, Idle
  <2>2. CASE Reject(c)
    BY <2>2, RejectTypes
  <2>3. CASE ~Reject(c)
    <3>1. /\ Current(c)
          /\ UNCHANGED <<existing, allocated, redirects, former>>
          /\ posts' = [posts EXCEPT ![request[c].post] = SeoRow(c)]
          /\ Done(c)
          /\ request[c].stage = "read"
          /\ request[c].slug = request[c].previous.slug
      BY <1>6, <2>3 DEF WriteSeo, At
    <3>2. request[c] \in Request /\ request[c].post \in Posts /\ posts[request[c].post] \in Post
      BY <2>1, RequestTypes
    <3>3. request[c].slug \in Slugs
      BY <2>1, <3>1, <3>2 DEF SnapshotsHonest, Current, Post, Request, TypeOK
    <3>4. SeoRow(c) \in Post /\ SeoRow(c).slug \in Slugs
      BY <3>2, <3>3 DEF SeoRow, Post, Request
    <3> QED
      BY <3>1, <3>2, <3>4, WriteTypes DEF TypeOK
  <2> QED
    BY <2>2, <2>3
<1>7. ASSUME NEW c \in Clients, Rename(c)
      PROVE  TypeOK'
  <2>1. request[c] # Idle
    BY <1>7 DEF Rename, At, Idle
  <2>2. CASE Reject(c)
    BY <2>2, RejectTypes
  <2>3. CASE ~Reject(c)
    <3> DEFINE p == request[c].post
               old == request[c].previous.slug
               new == request[c].slug
    <3>1. /\ MayRename(c)
          /\ UNCHANGED <<existing, allocated>>
          /\ posts' = [posts EXCEPT ![p] = SeoRow(c)]
          /\ Done(c)
          /\ request[c].kind = "seo"
      BY <1>7, <2>3 DEF Rename, At
    <3>2. request[c] \in Request /\ p \in Posts /\ posts[p] \in Post
      BY <2>1, RequestTypes
    <3>3. new \in Slugs
      BY <2>1, <3>1 DEF SeoAddressed
    <3>4. SeoRow(c) \in Post /\ SeoRow(c).slug \in Slugs
      BY <3>2, <3>3 DEF SeoRow, Post, Request
    <3>5. old \in Slugs
      BY <3>1 DEF MayRename, Current, TypeOK
    <3>6. redirects' \in [Slugs -> Rule] /\ former' \in [Posts -> SUBSET Slugs]
      <4>1. CASE posts[p].published
        <5>1. redirects' = Relinked(old, new) /\ former' = [former EXCEPT ![p] = @ \cup {old}]
          BY <1>7, <2>3, <4>1 DEF Rename
        <5>2. Relinked(old, new) \in [Slugs -> Rule]
          BY <3>3 DEF Relinked, BlogRule, NoRule, Rule, TypeOK
        <5> QED
          BY <3>2, <3>5, <5>1, <5>2 DEF TypeOK
      <4>2. CASE ~posts[p].published
        BY <1>7, <2>3, <4>2 DEF Rename, TypeOK
      <4> QED
        BY <4>1, <4>2
    <3> QED
      BY <3>1, <3>2, <3>4, <3>6, WriteTypes
  <2> QED
    BY <2>2, <2>3
<1>8. ASSUME NEW c \in Clients, Remove(c)
      PROVE  TypeOK'
  <2>1. request[c] # Idle
    BY <1>8 DEF Remove, At, Idle
  <2>2. CASE Reject(c)
    BY <2>2, RejectTypes
  <2>3. CASE ~Reject(c)
    <3>1. NoRow \in Post
      BY DEF NoRow, Post, Statuses
    <3>2. request[c].post \in Posts
      BY <2>1, RequestTypes
    <3> QED
      BY <1>8, <2>3, <3>1, <3>2 DEF Remove, Done, TypeOK
  <2> QED
    BY <2>2, <2>3
<1>9. ASSUME NEW s \in Slugs, NEW active \in BOOLEAN, SaveRedirect(s, active)
      PROVE  TypeOK'
  <2>1. [reason |-> "manual", dest |-> Page, active |-> active] \in Rule
    BY DEF Rule
  <2> QED
    BY <1>9, <2>1 DEF SaveRedirect, Released, TypeOK
<1>10. ASSUME NEW s \in Slugs, RemoveRedirect(s)
       PROVE  TypeOK'
  <2>1. NoRule \in Rule
    BY DEF NoRule, Rule
  <2> QED
    BY <1>10, <2>1 DEF RemoveRedirect, Released, TypeOK
<1> QED
  BY <1>1, <1>2, <1>3, <1>4, <1>5, <1>6, <1>7, <1>8, <1>9, <1>10
  DEF Next, EditorStep, Kinds, Statuses

(***************************************************************************)
(* The invariant is inductive                                              *)
(***************************************************************************)

LEMMA RejectInvariant ==
  ASSUME IInv, NEW c \in Clients, Reject(c)
  PROVE  IInv'
<1>1. TypeOK'
  BY RejectTypes DEF IInv
<1>2. \A d \in Clients : request'[d] # Idle => request'[d] = request[d]
  BY DEF Reject, Done, IInv, TypeOK
<1>3. /\ SnapshotsHonest'
      /\ SeoAddressed'
      /\ Loaded'
  BY <1>2 DEF Reject, IInv, SnapshotsHonest, SeoAddressed, Loaded
<1>4. /\ SlugsDistinct'
      /\ PromisesKept'
      /\ PromisesFree'
      /\ PromisesOwned'
      /\ PromisesPublished'
      /\ OneHop'
  BY DEF Reject, IInv, SlugsDistinct, PromisesKept, PromisesFree, PromisesOwned,
         PromisesPublished, OneHop
<1> QED
  BY <1>1, <1>3, <1>4 DEF IInv

\* A guarded UPDATE raises the revision, so nobody who read the row before can
\* mistake what it read for the row as it is.
LEMMA UpdateSnapshots ==
  ASSUME IInv, NEW c \in Clients, request[c] # Idle, NEW row \in Post,
         posts' = [posts EXCEPT ![request[c].post] = row],
         row.revision = posts[request[c].post].revision + 1,
         Done(c), UNCHANGED <<existing, allocated>>
  PROVE  SnapshotsHonest' /\ SeoAddressed' /\ Loaded'
<1>1. \A d \in Clients : request'[d] # Idle => request'[d] = request[d]
  BY DEF Done, IInv, TypeOK
<1>2. \A d \in Clients : request[d] # Idle =>
        /\ request[d] \in Request
        /\ request[d].post \in Posts
        /\ posts[request[d].post] \in Post
        /\ request[d].previous \in Post
  BY RequestTypes DEF IInv
<1>3. \A q \in Posts : posts'[q] = IF q = request[c].post THEN row ELSE posts[q]
  BY <1>2 DEF IInv, TypeOK
<1>4. \A d \in Clients : request[d] # Idle =>
        /\ request[d].previous.revision \in Nat
        /\ request[d].revision \in Nat
        /\ posts[request[d].post].revision \in Nat
  BY <1>2 DEF Request, Post
<1>5. SeoAddressed'
  BY <1>1 DEF IInv, SeoAddressed
<1>6. Loaded'
  BY <1>1, <1>2, <1>3, <1>4 DEF IInv, Loaded
<1>7. SnapshotsHonest'
  <2> SUFFICES ASSUME NEW d \in Clients, request'[d] # Idle
               PROVE  /\ request'[d].post \in allocated'
                      /\ request'[d].stage # "submitted" /\ request'[d].post \in existing' =>
                           /\ request'[d].revision <= request'[d].previous.revision
                           /\ request'[d].previous.revision <= posts'[request'[d].post].revision
                           /\ request'[d].previous.revision = posts'[request'[d].post].revision =>
                                /\ request'[d].previous.slug = posts'[request'[d].post].slug
                                /\ request'[d].previous.seo = posts'[request'[d].post].seo
                                /\ request'[d].previous.published = posts'[request'[d].post].published
    BY DEF SnapshotsHonest
  <2>1. request'[d] = request[d] /\ request[d] # Idle
    BY <1>1
  <2>2. CASE request[d].post = request[c].post
    BY <2>1, <2>2, <1>2, <1>3, <1>4 DEF IInv, SnapshotsHonest
  <2>3. CASE request[d].post # request[c].post
    BY <2>1, <2>3, <1>2, <1>3, <1>4 DEF IInv, SnapshotsHonest
  <2> QED
    BY <2>2, <2>3
<1> QED
  BY <1>5, <1>6, <1>7

LEMMA CreateInvariant ==
  ASSUME IInv, NEW p \in Posts, NEW s \in Slugs, NEW st \in Statuses,
         Create(p, s, st), TypeOK'
  PROVE  IInv'
<1>1. /\ p \notin allocated
      /\ FreshSlug(s)
      /\ existing' = existing \cup {p}
      /\ allocated' = allocated \cup {p}
      /\ UNCHANGED <<redirects, former, request>>
  BY DEF Create
<1>2. /\ posts'[p].slug = s
      /\ \A q \in Posts : q # p => posts'[q] = posts[q]
  BY DEF Create, IInv, TypeOK, NoRow
<1>3. p \notin existing /\ existing \subseteq Posts /\ existing \subseteq allocated
  BY <1>1 DEF IInv, TypeOK
<1>4. former[p] = {}
  BY <1>3 DEF IInv, PromisesOwned
<1>5. \A q \in existing : s \notin former[q]
  <2> SUFFICES ASSUME NEW q \in existing, s \in former[q] PROVE FALSE
    OBVIOUS
  <2>1. s # posts[q].slug
    BY <1>1 DEF FreshSlug
  <2>2. redirects[s] = BlogRule(posts[q].slug)
    BY <2>1 DEF IInv, PromisesKept
  <2>3. redirects[s].reason = "blog-slug"
    BY <2>2 DEF BlogRule
  <2> QED
    BY <1>1, <2>3 DEF FreshSlug
<1>6. SlugsDistinct'
  BY <1>1, <1>2, <1>3 DEF IInv, SlugsDistinct, FreshSlug
<1>7. PromisesKept'
  BY <1>1, <1>2, <1>3, <1>4 DEF IInv, PromisesKept
<1>8. PromisesFree'
  BY <1>1, <1>2, <1>3, <1>4, <1>5 DEF IInv, PromisesFree
<1>9. PromisesOwned' /\ PromisesPublished' /\ OneHop' /\ SeoAddressed'
  BY <1>1, <1>2, <1>3, <1>4
  DEF IInv, PromisesOwned, PromisesPublished, OneHop, SeoAddressed
<1>10. SnapshotsHonest' /\ Loaded'
  <2>1. \A c \in Clients : request[c] # Idle => request[c].post # p /\ request[c].post \in Posts
    BY <1>1, RequestTypes DEF IInv, SnapshotsHonest
  <2> QED
    BY <1>1, <1>2, <2>1 DEF IInv, SnapshotsHonest, Loaded
<1> QED
  BY <1>6, <1>7, <1>8, <1>9, <1>10 DEF IInv

\* Steps that only move a request forward leave the tables alone.
LEMMA TablesUnchanged ==
  ASSUME IInv, UNCHANGED <<existing, allocated, posts, redirects, former>>
  PROVE  /\ SlugsDistinct' /\ PromisesKept' /\ PromisesFree' /\ PromisesOwned'
         /\ PromisesPublished' /\ OneHop'
BY DEF IInv, SlugsDistinct, PromisesKept, PromisesFree, PromisesOwned,
       PromisesPublished, OneHop

LEMMA SubmitInvariant ==
  ASSUME IInv, NEW c \in Clients, NEW p \in Posts, NEW kind \in Kinds,
         NEW s \in Slugs \cup {NoSlug}, NEW v \in SeoValues, NEW st \in Statuses,
         kind = "seo" => s \in Slugs,
         Submit(c, p, kind, s, v, st), TypeOK'
  PROVE  IInv'
<1>1. /\ UNCHANGED <<existing, allocated, posts, redirects, former>>
      /\ p \in existing
  BY DEF Submit
<1>2. /\ request'[c].stage = "submitted"
      /\ request'[c].kind = kind
      /\ request'[c].post = p
      /\ request'[c].revision = posts[p].revision
      /\ request'[c].slug = s
      /\ \A d \in Clients : d # c => request'[d] = request[d]
  BY DEF Submit, IInv, TypeOK
<1>3. posts[p].revision \in Nat
  BY DEF IInv, TypeOK, Post
<1>4. SnapshotsHonest' /\ SeoAddressed' /\ Loaded'
  BY <1>1, <1>2, <1>3 DEF IInv, TypeOK, SnapshotsHonest, SeoAddressed, Loaded
<1> QED
  BY <1>1, <1>4, TablesUnchanged DEF IInv

LEMMA ReadInvariant ==
  ASSUME IInv, NEW c \in Clients, ReadPrevious(c), TypeOK'
  PROVE  IInv'
<1>1. CASE Reject(c)
  BY <1>1, RejectInvariant
<1>2. CASE ~Reject(c)
  <2> DEFINE p == request[c].post
  <2>1. request[c] # Idle
    BY DEF ReadPrevious, At, Idle
  <2>2. request[c] \in Request /\ posts[p] \in Post
    BY <2>1, RequestTypes DEF IInv
  <2>3. /\ UNCHANGED <<existing, allocated, posts, redirects, former>>
        /\ request' = [request EXCEPT ![c] =
             [@ EXCEPT !.stage = "read", !.previous = posts[p]]]
        /\ p \in existing
    BY <1>2 DEF ReadPrevious
  <2>4. /\ request'[c].kind = request[c].kind
        /\ request'[c].slug = request[c].slug
        /\ request'[c].post = p
        /\ request'[c].revision = request[c].revision
        /\ request'[c].previous = posts[p]
        /\ \A d \in Clients : d # c => request'[d] = request[d]
    BY <2>2, <2>3 DEF IInv, TypeOK, Request
  <2>5. request[c].revision \in Nat /\ posts[p].revision \in Nat
    BY <2>2 DEF Request, Post
  <2>6. SnapshotsHonest' /\ SeoAddressed' /\ Loaded'
    BY <2>1, <2>3, <2>4, <2>5 DEF IInv, SnapshotsHonest, SeoAddressed, Loaded
  <2> QED
    BY <2>3, <2>6, TablesUnchanged DEF IInv
<1> QED
  BY <1>1, <1>2

LEMMA CheckInvariant ==
  ASSUME IInv, NEW c \in Clients, CheckContent(c), TypeOK'
  PROVE  IInv'
<1>1. CASE Reject(c)
  BY <1>1, RejectInvariant
<1>2. CASE ~Reject(c)
  <2> DEFINE p   == request[c].post
             row == Dated(request[c].previous, posts[p].published)
  <2>1. request[c] # Idle /\ request[c].stage = "read"
    BY DEF CheckContent, At, Idle
  <2>2. request[c] \in Request /\ posts[p] \in Post /\ request[c].previous \in Post
    BY <2>1, RequestTypes DEF IInv
  <2>3. /\ UNCHANGED <<existing, allocated, posts, redirects, former>>
        /\ request' = [request EXCEPT ![c] =
             [@ EXCEPT !.stage = "checked", !.previous = row]]
    BY <1>2 DEF CheckContent
  <2>4. /\ row.slug = request[c].previous.slug
        /\ row.seo = request[c].previous.seo
        /\ row.revision = request[c].previous.revision
        /\ row.published = (request[c].previous.published \/ posts[p].published)
    BY <2>2 DEF Dated, Post
  <2>5. /\ request'[c].kind = request[c].kind
        /\ request'[c].slug = request[c].slug
        /\ request'[c].post = p
        /\ request'[c].revision = request[c].revision
        /\ request'[c].previous = row
        /\ \A d \in Clients : d # c => request'[d] = request[d]
    BY <2>2, <2>3 DEF IInv, TypeOK, Request
  <2>6. SeoAddressed' /\ Loaded'
    BY <2>1, <2>3, <2>5 DEF IInv, SeoAddressed, Loaded
  <2>7. p \in existing /\ row.revision = posts[p].revision
          => row.published = posts[p].published
    BY <2>1, <2>2, <2>4 DEF IInv, SnapshotsHonest, Post
  <2>8. SnapshotsHonest'
    BY <2>1, <2>3, <2>4, <2>5, <2>7 DEF IInv, SnapshotsHonest
  <2> QED
    BY <2>3, <2>6, <2>8, TablesUnchanged DEF IInv
<1> QED
  BY <1>1, <1>2

\* An UPDATE that keeps the address disturbs no link.
LEMMA UpdateInPlace ==
  ASSUME IInv, NEW c \in Clients, request[c] # Idle, NEW row \in Post,
         posts' = [posts EXCEPT ![request[c].post] = row],
         row.revision = posts[request[c].post].revision + 1,
         row.slug = posts[request[c].post].slug,
         posts[request[c].post].published => row.published,
         Done(c), UNCHANGED <<existing, allocated, redirects, former>>,
         TypeOK'
  PROVE  IInv'
<1>1. \A q \in existing : /\ posts'[q].slug = posts[q].slug
                           /\ posts[q].published => posts'[q].published
  BY DEF IInv, TypeOK
<1>2. /\ SlugsDistinct' /\ PromisesKept' /\ PromisesFree' /\ PromisesOwned'
      /\ PromisesPublished' /\ OneHop'
  BY <1>1 DEF IInv, SlugsDistinct, PromisesKept, PromisesFree, PromisesOwned,
              PromisesPublished, OneHop
<1> QED
  BY <1>2, UpdateSnapshots DEF IInv

\* A save whose guarded UPDATE finds its row has read that very row.
LEMMA CurrentSnapshot ==
  ASSUME IInv, NEW c \in Clients, request[c] # Idle,
         request[c].stage # "submitted", Current(c)
  PROVE  /\ request[c].previous.slug = posts[request[c].post].slug
         /\ request[c].previous.seo = posts[request[c].post].seo
         /\ request[c].previous.published = posts[request[c].post].published
<1>1. request[c] \in Request /\ posts[request[c].post] \in Post /\ request[c].previous \in Post
  BY RequestTypes DEF IInv
<1>2. /\ request[c].revision \in Nat
      /\ request[c].previous.revision \in Nat
      /\ posts[request[c].post].revision \in Nat
  BY <1>1 DEF Request, Post
<1> QED
  BY <1>2 DEF IInv, SnapshotsHonest, Current

LEMMA WriteContentInvariant ==
  ASSUME IInv, NEW c \in Clients, WriteContent(c), TypeOK'
  PROVE  IInv'
<1>1. CASE Reject(c)
  BY <1>1, RejectInvariant
<1>2. CASE ~Reject(c)
  <2>1. request[c] # Idle /\ request[c].stage = "checked"
    BY DEF WriteContent, At, Idle
  <2>2. /\ Current(c)
        /\ UNCHANGED <<existing, allocated, redirects, former>>
        /\ posts' = [posts EXCEPT ![request[c].post] = ContentRow(c)]
        /\ Done(c)
    BY <1>2 DEF WriteContent
  <2>3. /\ request[c] \in Request
        /\ request[c].post \in Posts
        /\ posts[request[c].post] \in Post
        /\ request[c].previous \in Post
    BY <2>1, RequestTypes DEF IInv
  <2>4. ContentRow(c) \in Post
    BY <2>3 DEF ContentRow, Post, Request, Statuses
  <2>5. /\ ContentRow(c).slug = posts[request[c].post].slug
        /\ ContentRow(c).revision = posts[request[c].post].revision + 1
        /\ posts[request[c].post].published => ContentRow(c).published
    BY <2>1, <2>2, CurrentSnapshot DEF ContentRow
  <2> QED
    BY <2>1, <2>2, <2>4, <2>5, UpdateInPlace
<1> QED
  BY <1>1, <1>2

LEMMA WriteSeoInvariant ==
  ASSUME IInv, NEW c \in Clients, WriteSeo(c), TypeOK'
  PROVE  IInv'
<1>1. CASE Reject(c)
  BY <1>1, RejectInvariant
<1>2. CASE ~Reject(c)
  <2>1. request[c] # Idle /\ request[c].stage = "read"
    BY DEF WriteSeo, At, Idle
  <2>2. /\ Current(c)
        /\ UNCHANGED <<existing, allocated, redirects, former>>
        /\ posts' = [posts EXCEPT ![request[c].post] = SeoRow(c)]
        /\ request[c].slug = request[c].previous.slug
        /\ Done(c)
    BY <1>2 DEF WriteSeo
  <2>3. request[c] \in Request /\ posts[request[c].post] \in Post
    BY <2>1, RequestTypes DEF IInv
  <2>4. SeoRow(c) \in Post
    BY <2>3 DEF SeoRow, Post, Request
  <2>5. /\ SeoRow(c).slug = posts[request[c].post].slug
        /\ SeoRow(c).revision = posts[request[c].post].revision + 1
        /\ posts[request[c].post].published => SeoRow(c).published
    BY <2>1, <2>2, CurrentSnapshot DEF SeoRow
  <2> QED
    BY <2>1, <2>2, <2>4, <2>5, UpdateInPlace
<1> QED
  BY <1>1, <1>2

LEMMA RemoveInvariant ==
  ASSUME IInv, NEW c \in Clients, Remove(c), TypeOK'
  PROVE  IInv'
<1>1. CASE Reject(c)
  BY <1>1, RejectInvariant
<1>2. CASE ~Reject(c)
  <2> DEFINE p == request[c].post
  <2>1. request[c] # Idle
    BY DEF Remove, At, Idle
  <2>2. p \in Posts
    BY <2>1, RequestTypes DEF IInv
  <2>3. /\ existing' = existing \ {p}
        /\ UNCHANGED <<allocated, redirects>>
        /\ \A d \in Clients : request'[d] # Idle => request'[d] = request[d]
    BY <1>2 DEF Remove, Done, IInv, TypeOK
  <2>4. /\ \A q \in Posts : q # p => posts'[q] = posts[q] /\ former'[q] = former[q]
        /\ former'[p] = {}
    BY <1>2, <2>2 DEF Remove, IInv, TypeOK
  <2>5. existing \subseteq Posts
    BY DEF IInv, TypeOK
  <2>6. SlugsDistinct' /\ PromisesKept' /\ PromisesFree'
    BY <2>3, <2>4, <2>5 DEF IInv, SlugsDistinct, PromisesKept, PromisesFree
  <2>7. PromisesOwned' /\ PromisesPublished' /\ OneHop' /\ SeoAddressed'
    BY <2>3, <2>4, <2>5
    DEF IInv, PromisesOwned, PromisesPublished, OneHop, SeoAddressed
  <2>8. SnapshotsHonest' /\ Loaded'
    BY <2>3, <2>4, <2>5 DEF IInv, SnapshotsHonest, Loaded
  <2> QED
    BY <2>6, <2>7, <2>8 DEF IInv
<1> QED
  BY <1>1, <1>2

\* The redirect manager overwrites or deletes the redirect of one source.
LEMMA ManagerInvariant ==
  ASSUME IInv, NEW s \in Slugs, NEW rule \in Rule, rule.reason # "blog-slug",
         redirects' = [redirects EXCEPT ![s] = rule],
         Released(s), UNCHANGED <<existing, allocated, posts, request>>, TypeOK'
  PROVE  IInv'
<1>1. \A p \in Posts : former'[p] = former[p] \ {s}
  BY DEF Released
<1>2. \A t \in Slugs : redirects'[t] = IF t = s THEN rule ELSE redirects[t]
  BY DEF IInv, TypeOK
<1>3. existing \subseteq Posts /\ \A p \in existing : former[p] \subseteq Slugs
  BY DEF IInv, TypeOK
<1>4. /\ SlugsDistinct' /\ PromisesKept' /\ PromisesFree' /\ PromisesOwned'
      /\ PromisesPublished'
  BY <1>1, <1>2, <1>3
  DEF IInv, SlugsDistinct, PromisesKept, PromisesFree, PromisesOwned, PromisesPublished
<1>5. OneHop'
  BY <1>2 DEF IInv, OneHop
<1>6. SnapshotsHonest' /\ SeoAddressed' /\ Loaded'
  BY DEF IInv, SnapshotsHonest, SeoAddressed, Loaded
<1> QED
  BY <1>4, <1>5, <1>6 DEF IInv

(***************************************************************************)
(* The rename: old links follow the post, nobody else's link is touched    *)
(***************************************************************************)

LEMMA RelinkedRules ==
  ASSUME NEW old \in Slugs, NEW new \in Slugs, old # new, NEW s \in Slugs, TypeOK
  PROVE  /\ s = old => Relinked(old, new)[s] = BlogRule(new)
         /\ s = new => Relinked(old, new)[s].reason # "blog-slug"
         /\ s # old /\ s # new /\ redirects[s] = BlogRule(old)
              => Relinked(old, new)[s] = BlogRule(new)
         /\ s # old /\ s # new /\ redirects[s].dest # old
              => Relinked(old, new)[s] = redirects[s]
         /\ s # old /\ Relinked(old, new)[s].reason = "blog-slug"
              => /\ redirects[s].reason = "blog-slug"
                 /\ Relinked(old, new)[s].dest \in {new, redirects[s].dest}
                 /\ Relinked(old, new)[s].dest # old
<1>1. /\ redirects[s] \in Rule
      /\ NoRule.reason = "none"
      /\ BlogRule(old).reason = "blog-slug"
      /\ BlogRule(old).dest = old
  BY DEF TypeOK, NoRule, BlogRule
<1>2. CASE s = old
  BY <1>2 DEF Relinked
<1>3. CASE s # old /\ redirects[s].reason # "blog-slug"
  <2>1. Relinked(old, new)[s] = redirects[s]
    BY <1>3 DEF Relinked
  <2> QED
    BY <1>1, <1>3, <2>1
<1>4. CASE s # old /\ redirects[s].reason = "blog-slug" /\ s = new
  <2>1. Relinked(old, new)[s] = NoRule
    BY <1>4 DEF Relinked
  <2> QED
    BY <1>1, <1>4, <2>1
<1>5. CASE s # old /\ redirects[s].reason = "blog-slug" /\ s # new /\ redirects[s].dest = old
  <2>1. Relinked(old, new)[s] =
          [reason |-> "blog-slug", dest |-> new, active |-> redirects[s].active]
    BY <1>5 DEF Relinked
  <2>2. Relinked(old, new)[s].dest = new
    BY <2>1
  <2>3. redirects[s] = BlogRule(old) => Relinked(old, new)[s] = BlogRule(new)
    BY <2>1 DEF BlogRule
  <2> QED
    BY <1>5, <2>1, <2>2, <2>3
<1>6. CASE s # old /\ redirects[s].reason = "blog-slug" /\ s # new /\ redirects[s].dest # old
  <2>1. Relinked(old, new)[s] = redirects[s]
    BY <1>6 DEF Relinked
  <2> QED
    BY <1>1, <1>6, <2>1
<1> QED
  BY <1>2, <1>3, <1>4, <1>5, <1>6

LEMMA RenameInvariant ==
  ASSUME IInv, NEW c \in Clients, Rename(c), TypeOK'
  PROVE  IInv'
<1>1. CASE Reject(c)
  BY <1>1, RejectInvariant
<1>2. CASE ~Reject(c)
  <2> DEFINE p   == request[c].post
             old == request[c].previous.slug
             new == request[c].slug
  <2>1. request[c] # Idle /\ request[c].kind = "seo" /\ request[c].stage = "read"
    BY DEF Rename, At, Idle
  <2>2. /\ MayRename(c)
        /\ UNCHANGED <<existing, allocated>>
        /\ posts' = [posts EXCEPT ![p] = SeoRow(c)]
        /\ Done(c)
        /\ new # old
    BY <1>2 DEF Rename
  <2>3. request[c] \in Request /\ p \in Posts /\ posts[p] \in Post
    BY <2>1, RequestTypes DEF IInv
  <2>4. /\ p \in existing
        /\ posts[p].slug = old
        /\ \A q \in existing : q # p => posts[q].slug # new
        /\ redirects[new].active => redirects[new] = BlogRule(old)
    BY <2>2 DEF MayRename, Current, Occupied, Reserved
  <2>5. old \in Slugs /\ new \in Slugs
    BY <2>1, <2>4 DEF IInv, TypeOK, SeoAddressed
  <2>6. SeoRow(c) \in Post
    BY <2>3 DEF SeoRow, Post, Request
  <2>7. SnapshotsHonest' /\ SeoAddressed' /\ Loaded'
    <3>1. SeoRow(c).revision = posts[p].revision + 1
      BY DEF SeoRow
    <3> QED
      BY <2>1, <2>2, <2>6, <3>1, UpdateSnapshots
  <2>8. /\ posts'[p].slug = new
        /\ \A q \in Posts : q # p => posts'[q] = posts[q]
    BY <2>2, <2>3 DEF SeoRow, IInv, TypeOK
  <2>15. posts'[p].published = posts[p].published
    BY <2>2, <2>3 DEF SeoRow, IInv, TypeOK
  <2>9. existing \subseteq Posts /\ \A q \in Posts : former[q] \subseteq Slugs
    BY DEF IInv, TypeOK
  <2>10. SlugsDistinct'
    BY <2>2, <2>4, <2>8, <2>9 DEF IInv, SlugsDistinct
  \* Another post's promised link is active and leads to that post, not to the
  \* address being left, so the new address is not one of them.
  <2>11. \A q \in existing : q # p => new \notin former[q]
    <3> SUFFICES ASSUME NEW q \in existing, q # p, new \in former[q]
                 PROVE  FALSE
      OBVIOUS
    <3>1. posts[q].slug # new /\ posts[q].slug # old
      BY <2>4 DEF IInv, SlugsDistinct
    <3>2. redirects[new] = BlogRule(posts[q].slug)
      BY <3>1 DEF IInv, PromisesKept
    <3>3. BlogRule(posts[q].slug).active /\ BlogRule(posts[q].slug) # BlogRule(old)
      BY <3>1 DEF BlogRule
    <3> QED
      BY <2>4, <3>2, <3>3
  <2>12. \A q \in existing : q # p => old \notin former[q]
    BY <2>4 DEF IInv, PromisesFree
  <2>13. CASE posts[p].published
    <3>1. redirects' = Relinked(old, new) /\ former' = [former EXCEPT ![p] = @ \cup {old}]
      BY <1>2, <2>13 DEF Rename
    <3>2. /\ former'[p] = former[p] \cup {old}
          /\ \A q \in Posts : q # p => former'[q] = former[q]
      BY <2>3, <3>1 DEF IInv, TypeOK
    <3>3. PromisesKept'
      <4> SUFFICES ASSUME NEW q \in existing, NEW s \in former'[q], s # posts'[q].slug
                   PROVE  redirects'[s] = BlogRule(posts'[q].slug)
        BY <2>2 DEF PromisesKept
      <4>1. s \in Slugs
        BY <2>5, <2>9, <3>2
      <4>2. CASE q = p /\ s = old
        BY <2>2, <2>5, <2>8, <3>1, <4>2, RelinkedRules DEF IInv
      <4>3. CASE q = p /\ s # old
        <5>1. redirects[s] = BlogRule(old)
          BY <2>4, <3>2, <4>3 DEF IInv, PromisesKept
        <5> QED
          BY <2>2, <2>5, <2>8, <3>1, <4>1, <4>3, <5>1, RelinkedRules DEF IInv
      <4>4. CASE q # p
        <5>1. q \in Posts /\ s \in former[q] /\ posts'[q] = posts[q]
          BY <2>8, <2>9, <3>2, <4>4
        <5>2. s # old /\ s # new
          BY <2>11, <2>12, <4>4, <5>1
        <5>3. redirects[s] = BlogRule(posts[q].slug)
          BY <5>1 DEF IInv, PromisesKept
        <5>4. posts[q].slug # old
          BY <2>4, <4>4 DEF IInv, SlugsDistinct
        <5>5. redirects[s].dest # old
          BY <5>3, <5>4 DEF BlogRule
        <5> QED
          BY <2>2, <2>5, <3>1, <4>1, <5>1, <5>2, <5>3, <5>5, RelinkedRules DEF IInv
      <4> QED
        BY <4>2, <4>3, <4>4
    <3>4. PromisesFree'
      <4> SUFFICES ASSUME NEW q \in existing, NEW r \in existing, posts'[r].slug \in former'[q]
                   PROVE  q = r
        BY <2>2 DEF PromisesFree
      <4>1. CASE r = p
        BY <2>8, <2>9, <2>11, <3>2, <4>1
      <4>2. CASE r # p /\ q = p
        BY <2>4, <2>8, <2>9, <3>2, <4>2 DEF IInv, PromisesFree, SlugsDistinct
      <4>3. CASE r # p /\ q # p
        BY <2>8, <2>9, <3>2, <4>3 DEF IInv, PromisesFree
      <4> QED
        BY <4>1, <4>2, <4>3
    <3>5. PromisesOwned'
      BY <2>2, <2>4, <3>2 DEF IInv, PromisesOwned
    <3>6. OneHop'
      <4> SUFFICES ASSUME NEW s \in Slugs, NEW t \in Slugs,
                          redirects'[s].reason = "blog-slug", redirects'[s].dest = t,
                          redirects'[t].reason = "blog-slug"
                   PROVE  FALSE
        BY DEF OneHop
      <4>1. t # new
        BY <2>2, <2>5, <3>1, RelinkedRules DEF IInv
      <4>2. s # old
        <5>1. BlogRule(new).dest = new
          BY DEF BlogRule
        <5> QED
          BY <2>2, <2>5, <3>1, <4>1, <5>1, RelinkedRules DEF IInv
      <4>3. redirects[s].reason = "blog-slug" /\ redirects[s].dest = t /\ t # old
        BY <2>2, <2>5, <3>1, <4>1, <4>2, RelinkedRules DEF IInv
      <4>4. redirects[t].reason = "blog-slug"
        BY <2>2, <2>5, <3>1, <4>3, RelinkedRules DEF IInv
      <4> QED
        BY <4>3, <4>4 DEF IInv, OneHop
    <3>7. PromisesPublished'
      BY <2>2, <2>8, <2>9, <2>13, <2>15, <3>2 DEF IInv, PromisesPublished
    <3> QED
      BY <2>7, <2>10, <3>3, <3>4, <3>5, <3>6, <3>7 DEF IInv
  <2>14. CASE ~posts[p].published
    <3>1. UNCHANGED <<redirects, former>>
      BY <1>2, <2>14 DEF Rename
    <3>2. former[p] = {}
      BY <2>4, <2>14 DEF IInv, PromisesPublished
    <3>3. PromisesKept'
      BY <2>2, <2>8, <2>9, <3>1, <3>2 DEF IInv, PromisesKept
    <3>4. PromisesFree'
      BY <2>2, <2>8, <2>9, <2>11, <3>1, <3>2 DEF IInv, PromisesFree
    <3>5. PromisesOwned' /\ OneHop'
      BY <2>2, <3>1 DEF IInv, PromisesOwned, OneHop
    <3>6. PromisesPublished'
      BY <2>2, <2>8, <2>9, <3>1, <3>2 DEF IInv, PromisesPublished
    <3> QED
      BY <2>7, <2>10, <3>3, <3>4, <3>5, <3>6 DEF IInv
  <2> QED
    BY <2>13, <2>14
<1> QED
  BY <1>1, <1>2

(***************************************************************************)
(* Theorems                                                                *)
(***************************************************************************)

LEMMA InitInvariant == Init => IInv
<1> SUFFICES ASSUME Init PROVE IInv
  OBVIOUS
<1>1. NoRow \in Post /\ NoRule \in Rule /\ NoRule.reason = "none"
  BY EditorialAssumption DEF NoRow, Post, Statuses, NoRule, Rule
<1>2. TypeOK
  BY <1>1 DEF Init, TypeOK
<1>3. \A c \in Clients : request[c] = Idle
  BY DEF Init
<1>4. \A s \in Slugs : redirects[s].reason = "none"
  BY <1>1 DEF Init
<1> QED
  BY <1>2, <1>3, <1>4
  DEF Init, IInv, SlugsDistinct, PromisesKept, PromisesFree, PromisesOwned,
      PromisesPublished, SnapshotsHonest, SeoAddressed, Loaded, OneHop

LEMMA StepInvariant == IInv /\ [Next]_vars => IInv'
<1> SUFFICES ASSUME IInv, [Next]_vars PROVE IInv'
  OBVIOUS
<1> USE EditorialAssumption
<1>1. CASE UNCHANGED vars
  BY <1>1 DEF vars, IInv, TypeOK, SlugsDistinct, PromisesKept, PromisesFree,
    PromisesOwned, PromisesPublished, SnapshotsHonest, SeoAddressed, Loaded, OneHop
<1>2. CASE Next
  <2>1. TypeOK'
    BY <1>2, TypeStep DEF IInv
  <2>2. ASSUME NEW p \in Posts, NEW s \in Slugs, NEW st \in Statuses, Create(p, s, st)
        PROVE  IInv'
    BY <2>1, <2>2, CreateInvariant
  <2>3. ASSUME NEW c \in Clients, NEW p \in Posts, NEW st \in Statuses,
               Submit(c, p, "content", NoSlug, DefaultSeo, st)
        PROVE  IInv'
    BY <2>1, <2>3, SubmitInvariant DEF Kinds
  <2>4. ASSUME NEW c \in Clients, NEW p \in Posts, NEW s \in Slugs, NEW v \in SeoValues,
               Submit(c, p, "seo", s, v, "draft")
        PROVE  IInv'
    BY <2>1, <2>4, SubmitInvariant DEF Kinds, Statuses
  <2>5. ASSUME NEW c \in Clients, NEW p \in Posts,
               Submit(c, p, "remove", NoSlug, DefaultSeo, "draft")
        PROVE  IInv'
    BY <2>1, <2>5, SubmitInvariant DEF Kinds, Statuses
  <2>6. ASSUME NEW c \in Clients, ReadPrevious(c) PROVE IInv'
    BY <2>1, <2>6, ReadInvariant
  <2>7. ASSUME NEW c \in Clients, CheckContent(c) PROVE IInv'
    BY <2>1, <2>7, CheckInvariant
  <2>8. ASSUME NEW c \in Clients, WriteContent(c) PROVE IInv'
    BY <2>1, <2>8, WriteContentInvariant
  <2>9. ASSUME NEW c \in Clients, WriteSeo(c) PROVE IInv'
    BY <2>1, <2>9, WriteSeoInvariant
  <2>10. ASSUME NEW c \in Clients, Rename(c) PROVE IInv'
    BY <2>1, <2>10, RenameInvariant
  <2>11. ASSUME NEW c \in Clients, Remove(c) PROVE IInv'
    BY <2>1, <2>11, RemoveInvariant
  <2>12. ASSUME NEW s \in Slugs, NEW active \in BOOLEAN, SaveRedirect(s, active)
         PROVE  IInv'
    <3> DEFINE rule == [reason |-> "manual", dest |-> Page, active |-> active]
    <3>1. rule \in Rule /\ rule.reason # "blog-slug"
      BY DEF Rule
    <3> QED
      BY <2>1, <2>12, <3>1, ManagerInvariant DEF SaveRedirect
  <2>13. ASSUME NEW s \in Slugs, RemoveRedirect(s)
         PROVE  IInv'
    <3>1. NoRule \in Rule /\ NoRule.reason # "blog-slug"
      BY DEF NoRule, Rule
    <3> QED
      BY <2>1, <2>13, <3>1, ManagerInvariant DEF RemoveRedirect
  <2> QED
    BY <1>2, <2>2, <2>3, <2>4, <2>5, <2>6, <2>7, <2>8, <2>9, <2>10, <2>11, <2>12, <2>13
    DEF Next, EditorStep
<1> QED
  BY <1>1, <1>2

\* The inductive invariant holds in every reachable state.
THEOREM EditorialInvariant == Spec => []IInv
  BY InitInvariant, StepInvariant, PTL DEF Spec

\* Types, for every set of posts, addresses and clients (any revision).
THEOREM EditorialTypes == Spec => []TypeOK
<1>1. IInv => TypeOK
  BY DEF IInv
<1> QED
  BY <1>1, EditorialInvariant, PTL

\* The blog redirects never form a chain, let alone a loop: resolveSlug may
\* follow a single one.
THEOREM NoRedirectChains == Spec => []OneHop
<1>1. IInv => OneHop
  BY DEF IInv
<1> QED
  BY <1>1, EditorialInvariant, PTL

LEMMA InvariantResolves == IInv => OldLinksResolve
<1> SUFFICES ASSUME IInv, NEW p \in existing, NEW s \in former[p], Live(p)
             PROVE  Resolves(s, p)
  BY DEF OldLinksResolve
<1>1. CASE posts[p].slug = s
  BY <1>1 DEF Resolves
<1>2. CASE posts[p].slug # s
  <2>1. redirects[s] = BlogRule(posts[p].slug)
    BY <1>2 DEF IInv, PromisesKept
  <2>2. /\ redirects[s].reason = "blog-slug"
        /\ redirects[s].active
        /\ redirects[s].dest = posts[p].slug
    BY <2>1 DEF BlogRule
  <2>3. \A q \in existing : posts[q].slug # s
    BY <1>2 DEF IInv, PromisesFree
  <2> QED
    BY <2>2, <2>3 DEF Resolves
<1> QED
  BY <1>1, <1>2

\* Permanent links: however many posts and concurrent saves there are, every
\* address a live post was published under still leads to it.
THEOREM PermanentLinks == Spec => []OldLinksResolve
  BY EditorialInvariant, InvariantResolves, PTL

LEMMA StepOwnership == IInv /\ [Next]_vars => [OwnFieldsOnly]_vars
<1> SUFFICES ASSUME IInv, Next, NEW p \in existing, p \in existing',
                    posts[p].status # posts'[p].status
             PROVE  posts[p].slug = posts'[p].slug /\ posts[p].seo = posts'[p].seo
  BY DEF OwnFieldsOnly
<1> USE EditorialAssumption
<1>1. p \in Posts /\ p \in allocated
  BY DEF IInv, TypeOK
<1>2. ASSUME NEW q \in Posts, NEW s \in Slugs, NEW st \in Statuses, Create(q, s, st)
      PROVE  FALSE
  BY <1>1, <1>2 DEF Create, IInv, TypeOK
<1>3. ASSUME NEW c \in Clients, WriteContent(c)
      PROVE  posts[p].slug = posts'[p].slug /\ posts[p].seo = posts'[p].seo
  <2>1. request[c] # Idle /\ request[c].stage = "checked"
    BY <1>3 DEF WriteContent, At, Idle
  <2>2. Current(c) /\ posts' = [posts EXCEPT ![request[c].post] = ContentRow(c)]
    BY <1>3 DEF WriteContent, Reject
  <2>3. request[c].post \in Posts
    BY <2>1, RequestTypes DEF IInv
  <2>4. CASE p = request[c].post
    <3>1. posts'[p] = ContentRow(c)
      BY <2>2, <2>3, <2>4 DEF IInv, TypeOK
    <3> QED
      BY <2>1, <2>2, <2>4, <3>1, CurrentSnapshot DEF ContentRow
  <2>5. CASE p # request[c].post
    BY <1>1, <2>2, <2>3, <2>5 DEF IInv, TypeOK
  <2> QED
    BY <2>4, <2>5
<1>4. ASSUME NEW c \in Clients, WriteSeo(c) \/ Rename(c)
      PROVE  FALSE
  <2>1. request[c] # Idle
    BY <1>4 DEF WriteSeo, Rename, At, Idle
  <2>2. posts' = [posts EXCEPT ![request[c].post] = SeoRow(c)]
    BY <1>4 DEF WriteSeo, Rename, Reject
  <2>3. request[c].post \in Posts
    BY <2>1, RequestTypes DEF IInv
  <2>4. posts'[p].status = posts[p].status
    BY <1>1, <2>2, <2>3 DEF SeoRow, IInv, TypeOK
  <2> QED
    BY <2>4
<1>5. ASSUME NEW c \in Clients, Remove(c)
      PROVE  FALSE
  <2>1. request[c] # Idle
    BY <1>5 DEF Remove, At, Idle
  <2>2. /\ existing' = existing \ {request[c].post}
        /\ posts' = [posts EXCEPT ![request[c].post] = NoRow]
    BY <1>5 DEF Remove, Reject
  <2> QED
    BY <1>1, <2>2 DEF IInv, TypeOK
<1>6. ASSUME UNCHANGED posts
      PROVE  FALSE
  BY <1>6
<1> QED
  BY <1>2, <1>3, <1>4, <1>5, <1>6
  DEF Next, EditorStep, Submit, ReadPrevious, CheckContent, Reject, SaveRedirect, RemoveRedirect

\* Ownership of the fields: no interleaving of CRM saves and SEO saves lets one
\* of them write back a stale value of the other's fields.
THEOREM Ownership == Spec => FieldsKeepTheirOwner
  BY EditorialInvariant, StepOwnership, PTL DEF Spec, FieldsKeepTheirOwner

-----------------------------------------------------------------------------
(***************************************************************************)
(* Refinement: the saves of Editorial, each several statements long,       *)
(* implement the saves of AtomicSaves, each one step: the step is the      *)
(* statement that writes, and all others are steps in which nothing        *)
(* happens.                                                                *)
(***************************************************************************)


\* The rows and forms that AtomicSaves sees.
RowAs(row) ==
  [revision |-> row.revision, content |-> row.status,
   metadata |-> [slug |-> row.slug, seo |-> row.seo], dated |-> row.published]
RowsNow == [p \in existing |-> RowAs(posts[p])]
FormsNow == [c \in Clients |-> IF request[c] = Idle THEN [half |-> "none"] ELSE Form(c)]

\* A request in progress is a form of one of three kinds.
LEMMA FormFacts ==
  ASSUME TypeOK, NEW c \in Clients, request[c] # Idle
  PROVE  /\ FormsNow[c] = Form(c)
         /\ Form(c).row = request[c].post
         /\ Form(c).revision = request[c].revision
         /\ Form(c).half = [content |-> "content", seo |-> "metadata", remove |-> "both"][request[c].kind]
         /\ request[c].kind \in Kinds
         /\ FormsNow[c] # [half |-> "none"]
<1>1. request[c].kind \in Kinds
  BY RequestTypes DEF Request
<1>2. /\ FormsNow[c] = Form(c)
      /\ Form(c).row = request[c].post
      /\ Form(c).revision = request[c].revision
      /\ Form(c).half = [content |-> "content", seo |-> "metadata", remove |-> "both"][request[c].kind]
  BY DEF FormsNow, Form
<1>3. Form(c).half # "none"
  BY <1>1, <1>2 DEF Kinds
<1>4. [half |-> "none"].half = "none"
  OBVIOUS
<1> QED
  BY <1>1, <1>2, <1>3, <1>4

\* A request that ends closes its form.
LEMMA EndCloses ==
  ASSUME TypeOK, NEW c \in Clients, request[c] # Idle, Done(c)
  PROVE  Atomic!Close(c)
<1>1. FormsNow[c] # [half |-> "none"]
  BY FormFacts
<1>2. request' = [request EXCEPT ![c] = Idle]
  BY DEF Done
<1>3. /\ request'[c] = Idle
      /\ \A d \in Clients \ {c} : request'[d] = request[d]
  BY <1>2 DEF TypeOK
<1>4. FormsNow' = [FormsNow EXCEPT ![c] = [half |-> "none"]]
  <2> DEFINE after(d) == IF request'[d] = Idle THEN [half |-> "none"] ELSE Form(d)'
  <2> HIDE DEF after
  <2>1. FormsNow' = [d \in Clients |-> after(d)]
    BY DEF FormsNow, after, Idle
  <2>2. after(c) = [half |-> "none"]
    BY <1>3 DEF after
  <2>3. \A d \in Clients \ {c} : after(d) = FormsNow[d]
    BY <1>3 DEF after, FormsNow, Form
  <2>4. FormsNow = [d \in Clients |-> FormsNow[d]]
    BY DEF FormsNow
  <2> QED
    BY <2>1, <2>2, <2>3, <2>4
<1> QED
  BY <1>1, <1>4 DEF Atomic!Close, Atomic!NoForm, FormsNow

\* A request that is refused, or whose row has changed, leaves the rows alone.
LEMMA RejectRefuses ==
  ASSUME TypeOK, NEW c \in Clients, request[c] # Idle, Reject(c)
  PROVE  Atomic!Refuse(c)
<1>1. Atomic!Close(c)
  BY EndCloses DEF Reject
<1>2. RowsNow' = RowsNow
  BY DEF Reject, RowsNow
<1> QED
  BY <1>1, <1>2 DEF Atomic!Refuse, RowsNow, RowAs

\* The row a save is about is the one AtomicSaves sees.
LEMMA CurrentForm ==
  ASSUME TypeOK, NEW c \in Clients, request[c] # Idle, Current(c)
  PROVE  /\ Atomic!Current(c)
         /\ request[c].post \in existing
         /\ RowsNow[request[c].post] = RowAs(posts[request[c].post])
<1>1. /\ request[c].post \in existing
      /\ posts[request[c].post].revision = request[c].revision
  BY DEF Current
<1>2. /\ FormsNow[c].row = request[c].post
      /\ FormsNow[c].revision = request[c].revision
  BY FormFacts
<1>3. RowsNow[request[c].post] = RowAs(posts[request[c].post])
  BY <1>1 DEF RowsNow
<1>4. RowsNow[request[c].post].revision = posts[request[c].post].revision
  BY <1>3 DEF RowAs
<1>5. FormsNow[c].row \in DOMAIN RowsNow
  BY <1>1, <1>2 DEF RowsNow
<1> QED
  BY <1>1, <1>2, <1>3, <1>4, <1>5 DEF Atomic!Current, RowsNow, FormsNow, RowAs

\* A statement that writes the row AtomicSaves computes is its save.
LEMMA WriteSaves ==
  ASSUME TypeOK, NEW c \in Clients, request[c] # Idle, Current(c), Done(c),
         request[c].kind \in {"content", "seo"},
         NEW row, posts' = [posts EXCEPT ![request[c].post] = row],
         existing' = existing,
         RowAs(row) = Atomic!Saved(RowAs(posts[request[c].post]), Form(c))
  PROVE  Atomic!Save(c)
<1> DEFINE p == request[c].post
<1>1. /\ FormsNow[c] = Form(c) /\ FormsNow[c].row = p
      /\ FormsNow[c].half \in {"content", "metadata"}
  BY FormFacts
<1>2. Atomic!Close(c) /\ Atomic!Current(c)
  BY EndCloses, CurrentForm
<1>3. p \in existing /\ p \in Posts /\ existing \subseteq Posts /\ RowsNow[p] = RowAs(posts[p])
  BY CurrentForm DEF TypeOK
<1>4. RowsNow' = [RowsNow EXCEPT ![p] = RowAs(row)]
  BY <1>3 DEF RowsNow, TypeOK
<1>5. RowsNow' = [RowsNow EXCEPT ![FormsNow[c].row] = Atomic!Saved(RowsNow[FormsNow[c].row], FormsNow[c])]
  BY <1>1, <1>3, <1>4
<1> QED
  BY <1>1, <1>2, <1>5 DEF Atomic!Save, RowsNow, FormsNow, RowAs

\* Nothing of the rows and forms has changed.
LEMMA Unseen ==
  ASSUME UNCHANGED <<existing, posts>>, FormsNow' = FormsNow
  PROVE  UNCHANGED Atomic!vars
<1>1. RowsNow' = RowsNow
  BY DEF RowsNow
<1> QED
  BY <1>1 DEF Atomic!vars, RowsNow, FormsNow, RowAs

\* A request that reads on is still the same form.
LEMMA SameForm ==
  ASSUME TypeOK, NEW c \in Clients, request[c] # Idle, NEW stage, NEW previous, stage # "idle",
         request' = [request EXCEPT ![c] = [request[c] EXCEPT !.stage = stage, !.previous = previous]]
  PROVE  FormsNow' = FormsNow
<1> DEFINE after(d) == IF request'[d] = Idle THEN [half |-> "none"] ELSE Form(d)'
<1> HIDE DEF after
<1>1. FormsNow' = [d \in Clients |-> after(d)]
  BY DEF FormsNow, after, Idle
<1>2. request[c] \in Request
  BY RequestTypes
<1>3. /\ request'[c] = [request[c] EXCEPT !.stage = stage, !.previous = previous]
      /\ \A d \in Clients \ {c} : request'[d] = request[d]
  BY DEF TypeOK
<1>4. /\ request'[c].stage = stage
      /\ request'[c].kind = request[c].kind /\ request'[c].post = request[c].post
      /\ request'[c].revision = request[c].revision /\ request'[c].status = request[c].status
      /\ request'[c].slug = request[c].slug /\ request'[c].seo = request[c].seo
  <2> DEFINE new == [request[c] EXCEPT !.stage = stage, !.previous = previous]
  <2>1. /\ new.stage = stage /\ new.kind = request[c].kind /\ new.post = request[c].post
        /\ new.revision = request[c].revision /\ new.status = request[c].status
        /\ new.slug = request[c].slug /\ new.seo = request[c].seo
    BY <1>2 DEF Request
  <2> QED
    BY <1>3, <2>1
<1>5. request'[c] # Idle
  <2>1. Idle.stage = "idle"
    BY DEF Idle
  <2> QED
    BY <1>4, <2>1
<1>6. Form(c)' = Form(c)
  BY <1>4 DEF Form
<1>7. \A d \in Clients \ {c} : after(d) = FormsNow[d]
  BY <1>3 DEF after, FormsNow, Form
<1>8. after(c) = FormsNow[c]
  BY <1>5, <1>6, FormFacts DEF after
<1> QED
  BY <1>1, <1>7, <1>8 DEF FormsNow

\* Sending a form opens it for AtomicSaves.
LEMMA SubmitOpens ==
  ASSUME TypeOK, NEW c \in Clients, NEW p \in Posts, NEW kind \in Kinds,
         NEW slug, NEW seo, NEW status, Submit(c, p, kind, slug, seo, status),
         NEW half, half = [content |-> "content", seo |-> "metadata", remove |-> "both"][kind],
         NEW values,
         (IF kind = "content" THEN status ELSE IF kind = "seo" THEN [slug |-> slug, seo |-> seo] ELSE "") \in values
  PROVE  FormsNow[c] = [half |-> "none"] /\ Atomic!Open(c, half, values)
<1> DEFINE after(d) == IF request'[d] = Idle THEN [half |-> "none"] ELSE Form(d)'
           value == IF kind = "content" THEN status ELSE IF kind = "seo" THEN [slug |-> slug, seo |-> seo] ELSE ""
           sent == [half |-> half, row |-> p, revision |-> posts[p].revision, value |-> value]
<1> HIDE DEF after
<1>1. /\ request[c] = Idle /\ p \in existing
      /\ UNCHANGED <<existing, posts>>
      /\ request' = [request EXCEPT ![c] =
           [stage |-> "submitted", kind |-> kind, post |-> p, revision |-> posts[p].revision,
            slug |-> slug, seo |-> seo, status |-> status, previous |-> NoRow]]
  BY DEF Submit
<1>2. /\ request'[c].stage = "submitted" /\ request'[c].kind = kind /\ request'[c].post = p
      /\ request'[c].revision = posts[p].revision /\ request'[c].slug = slug
      /\ request'[c].seo = seo /\ request'[c].status = status
      /\ \A d \in Clients \ {c} : request'[d] = request[d]
  BY <1>1 DEF TypeOK
<1>3. request'[c] # Idle
  <2>1. Idle.stage = "idle"
    BY DEF Idle
  <2> QED
    BY <1>2, <2>1
<1>4. Form(c)' = sent
  BY <1>2 DEF Form
<1>5. FormsNow' = [d \in Clients |-> after(d)]
  BY DEF FormsNow, after, Idle
<1>6. after(c) = sent /\ \A d \in Clients \ {c} : after(d) = FormsNow[d]
  BY <1>2, <1>3, <1>4 DEF after, FormsNow, Form
<1>7. FormsNow'[c] = sent /\ FormsNow' = [FormsNow EXCEPT ![c] = FormsNow'[c]]
  BY <1>5, <1>6 DEF FormsNow
<1>8. RowsNow' = RowsNow /\ p \in DOMAIN RowsNow /\ RowsNow[p].revision = posts[p].revision
  BY <1>1 DEF RowsNow, RowAs
<1>9. sent \in [half : {half}, row : {p}, revision : {RowsNow[p].revision}, value : values]
  BY <1>8
<1>10. \E r \in DOMAIN RowsNow :
         FormsNow'[c] \in [half : {half}, row : {r}, revision : {RowsNow[r].revision}, value : values]
  BY <1>7, <1>8, <1>9
<1>11. FormsNow[c] = [half |-> "none"]
  BY <1>1 DEF FormsNow
<1> QED
  BY <1>7, <1>8, <1>10, <1>11 DEF Atomic!Open, RowsNow, FormsNow, RowAs

\* A post that is created is a row that is added.
LEMMA CreateAdds ==
  ASSUME TypeOK, NEW p \in Posts, NEW s \in Slugs, NEW st \in Statuses, Create(p, s, st)
  PROVE  p \notin existing /\ p \in existing' /\ Atomic!Add(p)
<1> DEFINE row == [NoRow EXCEPT !.slug = s, !.status = st, !.published = (st = "published")]
<1>1. /\ p \notin existing /\ existing \subseteq Posts /\ existing' = existing \cup {p}
      /\ posts' = [posts EXCEPT ![p] = row] /\ UNCHANGED request
  BY DEF Create, TypeOK
<1>2. /\ row.slug = s /\ row.revision = 1 /\ row.status = st
      /\ row.published = (st = "published") /\ row.seo = DefaultSeo
  BY DEF NoRow
<1>3. RowAs(row) \in {r \in [revision : {1}, content : Statuses, metadata : [slug : Slugs, seo : SeoValues],
                              dated : BOOLEAN] : r.dated = (r.content \in {"published"})}
  BY <1>2, EditorialAssumption DEF RowAs
<1>4. posts'[p] = row /\ \A q \in existing : posts'[q] = posts[q]
  BY <1>1 DEF TypeOK
<1>5. RowsNow'[p] = RowAs(row)
  BY <1>1, <1>4 DEF RowsNow
<1>6. RowsNow' = [q \in DOMAIN RowsNow \cup {p} |-> IF q = p THEN RowsNow'[p] ELSE RowsNow[q]]
  BY <1>1, <1>4 DEF RowsNow
<1>7. FormsNow' = FormsNow
  BY <1>1 DEF FormsNow, Form
<1> QED
  BY <1>1, <1>3, <1>5, <1>6, <1>7 DEF Atomic!Add, Atomic!Fresh, RowsNow, FormsNow, RowAs

LEMMA ReadUnseen ==
  ASSUME TypeOK, NEW c \in Clients, ReadPrevious(c)
  PROVE  Atomic!Refuse(c) \/ UNCHANGED Atomic!vars
<1>1. request[c] # Idle
  BY DEF ReadPrevious, At, Idle
<1>2. CASE Reject(c)
  BY <1>1, <1>2, RejectRefuses
<1>3. CASE ~Reject(c)
  <2>1. /\ UNCHANGED <<existing, posts>>
        /\ request' = [request EXCEPT ![c] =
             [request[c] EXCEPT !.stage = "read", !.previous = posts[request[c].post]]]
    BY <1>3 DEF ReadPrevious
  <2> QED
    BY <1>1, <2>1, SameForm, Unseen
<1> QED
  BY <1>2, <1>3

LEMMA CheckUnseen ==
  ASSUME TypeOK, NEW c \in Clients, CheckContent(c)
  PROVE  Atomic!Refuse(c) \/ UNCHANGED Atomic!vars
<1>1. request[c] # Idle
  BY DEF CheckContent, At, Idle
<1>2. CASE Reject(c)
  BY <1>1, <1>2, RejectRefuses
<1>3. CASE ~Reject(c)
  <2> DEFINE previous == Dated(request[c].previous, posts[request[c].post].published)
  <2>1. /\ UNCHANGED <<existing, posts>>
        /\ request' = [request EXCEPT ![c] =
             [request[c] EXCEPT !.stage = "checked", !.previous = previous]]
    BY <1>3 DEF CheckContent
  <2> QED
    BY <1>1, <2>1, SameForm, Unseen
<1> QED
  BY <1>2, <1>3

\* The content save writes back the metadata it has read, and that is the
\* metadata of the row, because the row still has the revision.
LEMMA ContentSaves ==
  ASSUME IInv, NEW c \in Clients, WriteContent(c)
  PROVE  Atomic!Save(c) \/ Atomic!Refuse(c)
<1> USE DEF IInv
<1>1. request[c] # Idle /\ request[c].stage # "submitted" /\ request[c].kind = "content"
  BY DEF WriteContent, At, Idle
<1>2. CASE Reject(c)
  BY <1>1, <1>2, RejectRefuses
<1>3. CASE ~Reject(c)
  <2> DEFINE r == request[c]
             row == posts[r.post]
             new == ContentRow(c)
  <2>1. /\ Current(c) /\ Done(c) /\ existing' = existing
        /\ posts' = [posts EXCEPT ![r.post] = new]
    BY <1>3 DEF WriteContent
  <2>2. r.previous.slug = row.slug /\ r.previous.seo = row.seo /\ r.previous.published = row.published
    BY <1>1, <2>1, CurrentSnapshot
  <2>3. /\ new.revision = row.revision + 1 /\ new.status = r.status /\ new.slug = row.slug
        /\ new.seo = row.seo /\ new.published = (row.published \/ r.status = "published")
    BY <2>2 DEF ContentRow
  <2>4. Form(c).half = "content" /\ Form(c).value = r.status
    BY <1>1 DEF Form
  <2>5. RowAs(new) = Atomic!Saved(RowAs(row), Form(c))
    BY <2>3, <2>4 DEF RowAs, Atomic!Saved
  <2> QED
    BY <1>1, <2>1, <2>5, WriteSaves
<1> QED
  BY <1>2, <1>3

\* Both ways of saving metadata write the row's own content.
LEMMA MetadataSaves ==
  ASSUME TypeOK, NEW c \in Clients, WriteSeo(c) \/ Rename(c)
  PROVE  Atomic!Save(c) \/ Atomic!Refuse(c)
<1>1. request[c] # Idle /\ request[c].kind = "seo"
  BY DEF WriteSeo, Rename, At, Idle
<1>2. CASE Reject(c)
  BY <1>1, <1>2, RejectRefuses
<1>3. CASE ~Reject(c)
  <2> DEFINE r == request[c]
             row == posts[r.post]
             new == SeoRow(c)
  <2>1. /\ Current(c) /\ Done(c) /\ existing' = existing
        /\ posts' = [posts EXCEPT ![r.post] = new]
    BY <1>3 DEF WriteSeo, Rename, MayRename
  <2>2. /\ new.revision = row.revision + 1 /\ new.status = row.status /\ new.slug = r.slug
        /\ new.seo = r.seo /\ new.published = row.published
    BY DEF SeoRow
  <2>3. Form(c).half = "metadata" /\ Form(c).value = [slug |-> r.slug, seo |-> r.seo]
    BY <1>1 DEF Form
  <2>4. row.published \in BOOLEAN
    BY <1>1, RequestTypes DEF Post
  <2>5. RowAs(new) = Atomic!Saved(RowAs(row), Form(c))
    BY <2>2, <2>3, <2>4 DEF RowAs, Atomic!Saved
  <2> QED
    BY <1>1, <2>1, <2>5, WriteSaves
<1> QED
  BY <1>2, <1>3

LEMMA RemoveDeletes ==
  ASSUME TypeOK, NEW c \in Clients, Remove(c)
  PROVE  Atomic!Delete(c) \/ Atomic!Refuse(c)
<1>1. request[c] # Idle /\ request[c].kind = "remove"
  BY DEF Remove, At, Idle
<1>2. CASE Reject(c)
  BY <1>1, <1>2, RejectRefuses
<1>3. CASE ~Reject(c)
  <2> DEFINE p == request[c].post
  <2>1. /\ Current(c) /\ Done(c) /\ existing' = existing \ {p}
        /\ posts' = [posts EXCEPT ![p] = NoRow]
    BY <1>3 DEF Remove
  <2>2. Atomic!Close(c) /\ Atomic!Current(c)
    BY <1>1, <2>1, EndCloses, CurrentForm
  <2>3. FormsNow[c].half = "both" /\ FormsNow[c].row = p
    BY <1>1, FormFacts
  <2>4. \A q \in existing \ {p} : posts'[q] = posts[q]
    BY <2>1 DEF TypeOK
  <2>5. RowsNow' = [q \in DOMAIN RowsNow \ {FormsNow[c].row} |-> RowsNow[q]]
    BY <2>1, <2>3, <2>4 DEF RowsNow
  <2> QED
    BY <2>2, <2>3, <2>5 DEF Atomic!Delete, RowsNow, FormsNow, RowAs
<1> QED
  BY <1>2, <1>3

(***************************************************************************)
(* The refinement                                                          *)
(***************************************************************************)

LEMMA InitRefines == Init => Atomic!Init
<1> SUFFICES ASSUME Init PROVE Atomic!Init
  OBVIOUS
<1>1. existing = {} /\ \A c \in Clients : request[c] = Idle
  BY DEF Init
<1>2. FormsNow = [c \in Clients |-> [half |-> "none"]]
  BY <1>1 DEF FormsNow
<1>3. RowsNow = [r \in {} |-> [half |-> "none"]]
  BY <1>1 DEF RowsNow
<1> QED
  BY <1>2, <1>3 DEF Atomic!Init, Atomic!NoForm, RowsNow, FormsNow, RowAs

LEMMA StepRefines == IInv /\ [Next]_vars => [Atomic!Next]_(Atomic!vars)
<1> SUFFICES ASSUME IInv, [Next]_vars PROVE Atomic!Next \/ UNCHANGED Atomic!vars
  OBVIOUS
<1>0. TypeOK
  BY DEF IInv
<1>1. CASE UNCHANGED vars
  <2>1. FormsNow' = FormsNow
    BY <1>1 DEF vars, FormsNow, Form
  <2> QED
    BY <1>1, <2>1, Unseen DEF vars
<1>2. ASSUME NEW p \in Posts, NEW s \in Slugs, NEW st \in Statuses, Create(p, s, st)
      PROVE  Atomic!Next
  <2>1. p \notin existing /\ p \in existing' /\ Atomic!Add(p)
    BY <1>0, <1>2, CreateAdds
  <2>2. p \in Posts \ DOMAIN RowsNow /\ p \in DOMAIN RowsNow'
    BY <2>1 DEF RowsNow
  <2> QED
    BY <2>1, <2>2 DEF Atomic!Next, RowsNow, RowAs
<1>3. ASSUME NEW c \in Clients, FormsNow[c] = [half |-> "none"],
             Atomic!Open(c, "content", Statuses)
               \/ Atomic!Open(c, "metadata", [slug : Slugs, seo : SeoValues])
               \/ Atomic!Open(c, "both", {""})
      PROVE  Atomic!Next
  BY <1>3 DEF Atomic!Next, Atomic!NoForm, FormsNow
<1>4. ASSUME NEW c \in Clients, NEW p \in Posts, NEW st \in Statuses,
             Submit(c, p, "content", NoSlug, DefaultSeo, st)
      PROVE  Atomic!Next
  <2>1. FormsNow[c] = [half |-> "none"] /\ Atomic!Open(c, "content", Statuses)
    BY <1>0, <1>4, SubmitOpens DEF Kinds
  <2> QED
    BY <1>3, <2>1
<1>5. ASSUME NEW c \in Clients, NEW p \in Posts, NEW s \in Slugs, NEW v \in SeoValues,
             Submit(c, p, "seo", s, v, "draft")
      PROVE  Atomic!Next
  <2>1. FormsNow[c] = [half |-> "none"] /\ Atomic!Open(c, "metadata", [slug : Slugs, seo : SeoValues])
    BY <1>0, <1>5, SubmitOpens DEF Kinds
  <2> QED
    BY <1>3, <2>1
<1>6. ASSUME NEW c \in Clients, NEW p \in Posts, Submit(c, p, "remove", NoSlug, DefaultSeo, "draft")
      PROVE  Atomic!Next
  <2>1. FormsNow[c] = [half |-> "none"] /\ Atomic!Open(c, "both", {""})
    BY <1>0, <1>6, SubmitOpens DEF Kinds
  <2> QED
    BY <1>3, <2>1
<1>7. ASSUME NEW c \in Clients,
             \/ ReadPrevious(c) \/ CheckContent(c) \/ WriteContent(c)
             \/ WriteSeo(c) \/ Rename(c) \/ Remove(c)
      PROVE  Atomic!Next \/ UNCHANGED Atomic!vars
  <2>1. Atomic!Save(c) \/ Atomic!Delete(c) \/ Atomic!Refuse(c) \/ UNCHANGED Atomic!vars
    BY <1>0, <1>7, ReadUnseen, CheckUnseen, ContentSaves, MetadataSaves, RemoveDeletes
  <2> QED
    BY <2>1 DEF Atomic!Next
<1>8. ASSUME NEW s \in Slugs, (\E active \in BOOLEAN : SaveRedirect(s, active)) \/ RemoveRedirect(s)
      PROVE  UNCHANGED Atomic!vars
  <2>1. UNCHANGED <<existing, posts, request>>
    BY <1>8 DEF SaveRedirect, RemoveRedirect
  <2>2. FormsNow' = FormsNow
    BY <2>1 DEF FormsNow, Form
  <2> QED
    BY <2>1, <2>2, Unseen
<1> QED
  BY <1>1, <1>2, <1>4, <1>5, <1>6, <1>7, <1>8 DEF Next, EditorStep

\* However many posts, editors and requests there are: the interleaved
\* statements of content saves, metadata saves, renames and removals come to
\* saves that happen at once or not at all.
THEOREM SavesRefine == Spec => SavesAtomic
  BY InitRefines, StepRefines, EditorialInvariant, PTL DEF Spec, SavesAtomic, Atomic!Spec

-----------------------------------------------------------------------------
(***************************************************************************)
(* The search index                                                        *)
(***************************************************************************)

Rows == [Ids -> [content : Contents, state : {"absent", "hidden", "public", "gone"}]]
Rebuilding == [step : {"idle", "clear", "read", "send"}, offset : Int,
               docs : SUBSET (Ids \X Contents), clean : BOOLEAN]

Shape ==
  /\ rows \in Rows
  /\ DOMAIN index = Ids
  /\ DOMAIN call = Calls
  /\ \A c \in Calls : call[c].step # "idle" => call[c].id \in Ids
  /\ reindex \in Rebuilding
  /\ reindex.docs \subseteq published

\* What is public, what a call is about to send and what a batch holds was
\* public at some time, like what the index holds.
RowsPublished == \A i \in Ids : IsPublic(rows[i]) => <<i, rows[i].content>> \in published
CallsPublished ==
  \A c \in Calls : call[c].doc # None => <<call[c].id, call[c].doc>> \in published

IndexInv == Shape /\ RowsPublished /\ CallsPublished /\ OnlyPublished

LEMMA InitInv ==
  ASSUME IndexInit
  PROVE  IndexInv
<1>1. Shape
  BY DEF IndexInit, Shape, Rows, Resting, NoCall, Rebuilding
<1>2. RowsPublished
  BY DEF IndexInit, RowsPublished, PublicRows
<1>3. CallsPublished
  BY DEF IndexInit, CallsPublished, NoCall
<1>4. OnlyPublished
  BY DEF IndexInit, OnlyPublished
<1> QED
  BY <1>1, <1>2, <1>3, <1>4 DEF IndexInv

\* A change of a row leaves a call without a document.
LEMMA ChangeInv ==
  ASSUME IndexInv, NEW i \in Ids, NEW c \in Calls, NEW step,
         NEW row \in [content : Contents, state : {"absent", "hidden", "public", "gone"}],
         Change(i, row, c, step)
  PROVE  IndexInv'
<1> USE DEF IndexInv
<1>1. /\ rows' = [rows EXCEPT ![i] = row]
      /\ published \subseteq published'
      /\ IsPublic(row) => <<i, row.content>> \in published'
      /\ index' = index
      /\ reindex' = [reindex EXCEPT !.clean = FALSE]
  BY DEF Change
<1>0. ASSUME NEW d \in Calls
      PROVE  \/ /\ call'[d].id = call[d].id
                /\ call'[d].doc = call[d].doc
                /\ call'[d].step = call[d].step
             \/ call'[d].id = i /\ call'[d].doc = None
  <2> DEFINE others == [e \in Calls |-> IF e \in InFlight(i) THEN Joined(call[e]) ELSE call[e]]
             fresh(q) == [step |-> step, id |-> i, doc |-> None, alone |-> q]
  <2>1. others[d].id = call[d].id /\ others[d].doc = call[d].doc /\ others[d].step = call[d].step
    BY DEF Joined
  <2>2. \/ call' = [others EXCEPT ![c] = fresh(InFlight(i) = {} /\ ~Reindexing)]
        \/ call' = others
    BY DEF Change
  <2>3. \A q : fresh(q).doc = None /\ fresh(q).id = i
    OBVIOUS
  <2>4. d \in DOMAIN others
    OBVIOUS
  <2> HIDE DEF fresh, others
  <2>5. CASE call' = others
    BY <2>1, <2>5
  <2>6. CASE call' = [others EXCEPT ![c] = fresh(InFlight(i) = {} /\ ~Reindexing)]
    <3>1. CASE d = c
      BY <2>3, <2>4, <2>6, <3>1
    <3>2. CASE d # c
      BY <2>1, <2>4, <2>6, <3>2
    <3> QED
      BY <3>1, <3>2
  <2> QED
    BY <2>2, <2>5, <2>6
<1>2. Shape'
  <2>1. rows' \in Rows
    BY <1>1 DEF Shape, Rows
  <2>2. DOMAIN call' = Calls
    BY DEF Change, Shape
  <2>3. reindex' \in Rebuilding /\ reindex'.docs = reindex.docs
    BY <1>1 DEF Shape, Rebuilding
  <2> QED
    BY <1>1, <1>0, <2>1, <2>2, <2>3 DEF Shape
<1>3. RowsPublished'
  BY <1>1 DEF RowsPublished, Shape, Rows
<1>4. CallsPublished'
  <2>1. ASSUME NEW d \in Calls, call'[d].doc # None
        PROVE  call'[d].id = call[d].id /\ call'[d].doc = call[d].doc
    BY <1>0, <2>1
  <2> QED
    BY <1>1, <2>1 DEF CallsPublished
<1>5. OnlyPublished'
  BY <1>1 DEF OnlyPublished
<1> QED
  BY <1>2, <1>3, <1>4, <1>5

LEMMA CallInv ==
  ASSUME IndexInv, NEW c \in Calls, ReadRow(c) \/ Send(c) \/ CallFails(c)
  PROVE  IndexInv'
<1> USE DEF IndexInv
<1>1. UNCHANGED <<rows, reindex, published>>
  BY DEF ReadRow, Send, CallFails
<1>0. call[c].id \in Ids
  BY DEF ReadRow, Send, CallFails, Shape
<1>2. CASE ReadRow(c)
  <2> DEFINE k == [step |-> "send", id |-> call[c].id,
                   doc |-> DocOf(rows[call[c].id]), alone |-> call[c].alone]
  <2>1. call' = [call EXCEPT ![c] = k] /\ index' = index
    BY <1>2 DEF ReadRow
  <2>2. k.doc # None => <<k.id, k.doc>> \in published
    BY <1>0 DEF RowsPublished, DocOf
  <2>4. k.id \in Ids
    BY <1>0
  <2> HIDE DEF k
  <2>3. CallsPublished'
    BY <1>1, <2>1, <2>2 DEF CallsPublished, Shape
  <2> QED
    BY <1>1, <2>1, <2>3, <2>4 DEF Shape, RowsPublished, OnlyPublished
<1>3. CASE Send(c)
  <2>1. call' = [call EXCEPT ![c] = NoCall] /\ index' = [index EXCEPT ![call[c].id] = call[c].doc]
    BY <1>3 DEF Send
  <2>2. CallsPublished'
    BY <1>1, <2>1 DEF CallsPublished, Shape, NoCall
  <2>3. OnlyPublished'
    BY <1>1, <2>1 DEF OnlyPublished, CallsPublished, Shape
  <2> QED
    BY <1>1, <2>1, <2>2, <2>3 DEF Shape, RowsPublished, NoCall
<1>4. CASE CallFails(c)
  <2>1. call' = [call EXCEPT ![c] = NoCall] /\ index' = index
    BY <1>4 DEF CallFails
  <2>2. CallsPublished'
    BY <1>1, <2>1 DEF CallsPublished, Shape, NoCall
  <2> QED
    BY <1>1, <2>1, <2>2 DEF Shape, RowsPublished, OnlyPublished, NoCall
<1> QED
  BY <1>2, <1>3, <1>4

\* Rebuilding the index sends rows that were public when they were read.
LEMMA ReindexInv ==
  ASSUME IndexInv, BeginReindex \/ ClearIndex \/ ReadBatch \/ SendBatch \/ ReindexFails
  PROVE  IndexInv'
<1> USE DEF IndexInv
<1>1. UNCHANGED <<rows, published>>
  BY DEF BeginReindex, ClearIndex, ReadBatch, SendBatch, ReindexFails
<1>2. RowsPublished'
  BY <1>1 DEF RowsPublished
<1>3. Resting \in Rebuilding /\ Resting.docs = {}
  BY DEF Resting, Rebuilding
<1>4. CASE BeginReindex
  <2>1. index' = index /\ call' = [c \in Calls |-> Joined(call[c])]
    BY <1>4 DEF BeginReindex
  <2>3. reindex' \in Rebuilding /\ reindex'.docs = reindex.docs
    <3>1. NoCalls \in BOOLEAN
      BY DEF NoCalls
    <3> QED
      BY <1>4, <3>1 DEF BeginReindex, Shape, Rebuilding
  <2>2. CallsPublished'
    BY <1>1, <2>1 DEF CallsPublished, Joined
  <2> QED
    BY <1>1, <1>2, <2>1, <2>2, <2>3 DEF Shape, OnlyPublished, Joined
<1>5. CASE ClearIndex
  <2>1. call' = call /\ reindex' \in Rebuilding /\ reindex'.docs = reindex.docs
    BY <1>5 DEF ClearIndex, Shape, Rebuilding
  <2>2. index' = index \/ index' = [i \in Ids |-> None]
    BY <1>5 DEF ClearIndex, Cleared
  <2> QED
    BY <1>1, <1>2, <2>1, <2>2 DEF Shape, CallsPublished, OnlyPublished
<1>6. CASE ReadBatch
  <2>1. call' = call /\ index' = index
    BY <1>6 DEF ReadBatch
  <2>2. reindex' \in Rebuilding /\ reindex'.docs \subseteq published
    <3>1. BatchAt(reindex.offset) \subseteq PublicRows
      BY DEF BatchAt
    <3>2. {<<i, rows[i].content>> : i \in BatchAt(reindex.offset)} \subseteq published
      BY <3>1 DEF RowsPublished, PublicRows
    <3>3. \/ reindex' = Resting
          \/ reindex' = [reindex EXCEPT !.step = "send",
                           !.docs = {<<i, rows[i].content>> : i \in BatchAt(reindex.offset)}]
      BY <1>6 DEF ReadBatch, Finish
    <3>4. {<<i, rows[i].content>> : i \in BatchAt(reindex.offset)} \in SUBSET (Ids \X Contents)
      BY <3>1 DEF PublicRows, Shape, Rows
    <3> QED
      BY <1>3, <3>2, <3>3, <3>4 DEF Shape, Rebuilding
  <2> QED
    BY <1>1, <1>2, <2>1, <2>2 DEF Shape, CallsPublished, OnlyPublished
<1>7. CASE SendBatch
  <2>1. call' = call /\ reindex' \in Rebuilding /\ reindex'.docs = {}
    <3>1. call' = call
      BY <1>7 DEF SendBatch
    <3>2. \/ reindex' = Resting
          \/ reindex' = [reindex EXCEPT !.step = "read", !.docs = {},
                                        !.offset = reindex.offset + Batch]
      BY <1>7 DEF SendBatch, Finish, NextOffset
    <3>3. reindex.offset + Batch \in Int
      BY BatchAssumption DEF Shape, Rebuilding
    <3> QED
      BY <1>3, <3>1, <3>2, <3>3 DEF Shape, Rebuilding
  <2>2. DOMAIN index' = Ids
    BY <1>7 DEF SendBatch
  <2>3. OnlyPublished'
    <3>1. ASSUME NEW i \in Ids, index'[i] # None
          PROVE  <<i, index'[i]>> \in published
      <4>1. CASE \E d \in reindex.docs : d[1] = i
        <5> DEFINE d == CHOOSE d \in reindex.docs : d[1] = i
        <5>1. d \in reindex.docs /\ d[1] = i
          BY <4>1
        <5>2. index'[i] = d[2]
          BY <1>7, <4>1 DEF SendBatch
        <5>3. d = <<d[1], d[2]>>
          BY <5>1 DEF Shape, Rebuilding
        <5> QED
          BY <5>1, <5>2, <5>3 DEF Shape
      <4>2. CASE ~ \E d \in reindex.docs : d[1] = i
        BY <1>7, <3>1, <4>2 DEF SendBatch, OnlyPublished
      <4> QED
        BY <4>1, <4>2
    <3> QED
      BY <1>1, <3>1 DEF OnlyPublished
  <2> QED
    BY <1>1, <1>2, <2>1, <2>2, <2>3 DEF Shape, CallsPublished
<1>8. CASE ReindexFails
  BY <1>1, <1>2, <1>3, <1>8 DEF ReindexFails, Shape, CallsPublished, OnlyPublished
<1> QED
  BY <1>4, <1>5, <1>6, <1>7, <1>8

LEMMA NextInv ==
  ASSUME IndexInv, [IndexNext]_indexVars
  PROVE  IndexInv'
<1>1. CASE UNCHANGED indexVars
  BY <1>1 DEF IndexInv, Shape, RowsPublished, CallsPublished, OnlyPublished, indexVars
<1>2. ASSUME NEW i \in Ids, NEW c \in Calls, NEW content \in Contents,
             NEW state \in {"hidden", "public"}, Save(i, content, state, c)
      PROVE  IndexInv'
  BY <1>2, ChangeInv DEF Save
<1>3. ASSUME NEW i \in Ids, NEW c \in Calls, RemoveRow(i, c)
      PROVE  IndexInv'
  <2>1. rows[i].content \in Contents
    BY DEF IndexInv, Shape, Rows
  <2> QED
    BY <1>3, <2>1, ChangeInv DEF RemoveRow
<1>4. ASSUME NEW c \in Calls, ReadRow(c) \/ Send(c) \/ CallFails(c)
      PROVE  IndexInv'
  BY <1>4, CallInv
<1>5. CASE BeginReindex \/ ClearIndex \/ ReadBatch \/ SendBatch \/ ReindexFails
  BY <1>5, ReindexInv
<1>6. CASE Search \/ Answer
  BY <1>6 DEF Search, Answer, IndexInv, Shape, RowsPublished, CallsPublished, OnlyPublished
<1> QED
  BY <1>1, <1>2, <1>3, <1>4, <1>5, <1>6 DEF IndexNext

\* The index only ever holds content that was public at some time, for any
\* number of rows and of calls that overlap each other and a reindex.
THEOREM DraftsStayOut == IndexSpec => []OnlyPublished
<1>1. IndexInit => IndexInv
  BY InitInv
<1>2. IndexInv /\ [IndexNext]_indexVars => IndexInv'
  BY NextInv
<1>3. IndexInv => OnlyPublished
  BY DEF IndexInv
<1> QED
  BY <1>1, <1>2, <1>3, PTL DEF IndexSpec

-----------------------------------------------------------------------------
(* Documents that agree with their rows *)

Calling == [step : {"idle", "read", "send"}, id : Ids \cup {Min(Ids)}, doc : Document,
            alone : BOOLEAN]

Typed ==
  /\ rows \in Rows
  /\ index \in [Ids -> Document]
  /\ call \in [Calls -> Calling]
  /\ \A c \in Calls : call[c].step # "idle" => call[c].id \in Ids
  /\ reindex \in Rebuilding /\ reindex.offset \in Nat
  /\ reindex.step \in {"idle", "clear"} => reindex.offset = 0
  /\ off \subseteq Ids

\* A call that is still alone is the only one of its row, and what it is about
\* to send agrees with the row.
Lone(c) ==
  /\ ~Reindexing
  /\ InFlight(call[c].id) = {c}
  /\ call[c].step = "send" => call[c].doc = DocOf(rows[call[c].id])

\* The rows of all other calls are among those whose document may be old.
CallsApart ==
  \A c \in Calls : call[c].step # "idle" => IF call[c].alone THEN Lone(c) ELSE call[c].id \in off

\* The documents of the first n public rows are there, and no others.
Rank(i) == Cardinality({j \in PublicRows : j <= i})
UpTo(n, docs) ==
  \A i \in Ids : docs[i] = IF i \in PublicRows /\ Rank(i) <= n THEN rows[i].content ELSE None

\* A reindex nothing interfered with has sent the rows up to its offset.
Rebuilt ==
  Reindexing =>
    /\ off = Ids
    /\ reindex.clean =>
         /\ NoCalls
         /\ reindex.step \in {"read", "send"} => UpTo(reindex.offset, index)
         /\ reindex.step = "send" =>
              reindex.docs = {<<i, rows[i].content>> : i \in BatchAt(reindex.offset)}

ExactInv == Typed /\ CallsApart /\ Rebuilt /\ SettledExact

-----------------------------------------------------------------------------
(* Ranks of public rows *)

LEMMA Ordered ==
  ASSUME NEW P \in SUBSET Nat, IsFiniteSet(P), NEW S \in SUBSET P, S # {}
  PROVE  /\ \E i \in S : \A j \in S : i <= j
         /\ \E i \in S : \A j \in S : j <= i
<1> DEFINE Below(i) == {j \in P : j <= i}
           Above(i) == {j \in P : i <= j}
           Least == {Below(i) : i \in S}
           Most == {Above(i) : i \in S}
<1>0. \A j \in P : j \in Nat
  OBVIOUS
<1>1. /\ Least \subseteq FiniteSubsetsOf(P) /\ Least # {}
      /\ Most \subseteq FiniteSubsetsOf(P) /\ Most # {}
  <2>1. \A i \in S : /\ Below(i) \in SUBSET P /\ IsFiniteSet(Below(i))
                     /\ Above(i) \in SUBSET P /\ IsFiniteSet(Above(i))
    BY FS_Subset
  <2> QED
    BY <2>1 DEF FiniteSubsetsOf
<1>2. /\ \E x \in Least : \A y \in Least : <<y, x>> \notin StrictSubsetOrdering(P)
      /\ \E x \in Most : \A y \in Most : <<y, x>> \notin StrictSubsetOrdering(P)
  BY <1>1, FS_StrictSubsetOrderingWellFounded, WFMin, Zenon
<1>3. PICK i \in S : \A j \in S : <<Below(j), Below(i)>> \notin StrictSubsetOrdering(P)
  BY <1>2, Zenon
<1>4. PICK k \in S : \A j \in S : <<Above(j), Above(k)>> \notin StrictSubsetOrdering(P)
  BY <1>2, Zenon
<1>5. ASSUME NEW j \in S, j < i
      PROVE  FALSE
  <2>0. i \in Below(i) /\ i \notin Below(j)
    BY <1>5
  <2>1. Below(j) \subseteq Below(i) /\ Below(j) # Below(i) /\ Below(j) \in SUBSET P /\ Below(i) \in SUBSET P
    <3>1. Below(j) \subseteq Below(i)
      <4>1. ASSUME NEW x \in P, x <= j
            PROVE  x <= i
        <5>1. i \in Nat /\ j \in Nat /\ x \in Nat
          BY <1>0
        <5> QED
          BY <1>5, <4>1, <5>1
      <4> QED
        BY <4>1
    <3> QED
      BY <2>0, <3>1
  <2> HIDE DEF Below
  <2>2. <<Below(j), Below(i)>> \in StrictSubsetOrdering(P)
    BY <2>1, Zenon DEF StrictSubsetOrdering
  <2> QED
    BY <1>3, <2>2
<1>6. ASSUME NEW j \in S, k < j
      PROVE  FALSE
  <2>0. k \in Above(k) /\ k \notin Above(j)
    BY <1>6
  <2>1. Above(j) \subseteq Above(k) /\ Above(j) # Above(k) /\ Above(j) \in SUBSET P /\ Above(k) \in SUBSET P
    <3>1. Above(j) \subseteq Above(k)
      <4>1. ASSUME NEW x \in P, j <= x
            PROVE  k <= x
        <5>1. k \in Nat /\ j \in Nat /\ x \in Nat
          BY <1>0
        <5> QED
          BY <1>6, <4>1, <5>1
      <4> QED
        BY <4>1
    <3> QED
      BY <2>0, <3>1
  <2> HIDE DEF Above
  <2>2. <<Above(j), Above(k)>> \in StrictSubsetOrdering(P)
    BY <2>1, Zenon DEF StrictSubsetOrdering
  <2> QED
    BY <1>4, <2>2
<1> QED
  BY <1>5, <1>6

LEMMA PublicFinite ==
  /\ PublicRows \in SUBSET Nat /\ IsFiniteSet(PublicRows)
  /\ \A i \in PublicRows : Rank(i) \in Nat \ {0}
<1>1. PublicRows \in SUBSET Nat /\ IsFiniteSet(PublicRows)
  BY IdsAssumption, FS_Subset DEF PublicRows
<1>2. ASSUME NEW i \in PublicRows
      PROVE  Rank(i) \in Nat \ {0}
  <2> DEFINE B == {j \in PublicRows : j <= i}
  <2>1. IsFiniteSet(B) /\ i \in B
    BY <1>1, FS_Subset
  <2>2. Cardinality(B) \in Nat /\ Cardinality(B) # 0
    BY <2>1, FS_CardinalityType, FS_EmptySet
  <2> QED
    BY <2>2 DEF Rank
<1> QED
  BY <1>1, <1>2

LEMMA RankMonotonic ==
  ASSUME NEW i \in PublicRows, NEW j \in PublicRows, i <= j
  PROVE  Rank(i) <= Rank(j)
<1>1. IsFiniteSet({k \in PublicRows : k <= j})
  BY PublicFinite, FS_Subset
<1>2. {k \in PublicRows : k <= i} \subseteq {k \in PublicRows : k <= j}
  <2>1. \A k \in PublicRows : k \in Nat
    BY PublicFinite
  <2> QED
    BY <2>1
<1> QED
  BY <1>1, <1>2, FS_Subset DEF Rank

\* Where a row has a rank above n, another has the rank n + 1: no batch skips one.
LEMMA RanksWithoutGaps ==
  ASSUME NEW n \in Nat, NEW i \in PublicRows, Rank(i) > n
  PROVE  \E j \in PublicRows : Rank(j) = n + 1
<1> DEFINE S == {j \in PublicRows : Rank(j) > n}
<1>1. PICK f \in S : \A j \in S : f <= j
  BY PublicFinite, Ordered
<1> DEFINE L == {j \in PublicRows : j < f}
<1>2. IsFiniteSet(L) /\ Cardinality(L) \in Nat /\ f \notin L
  BY PublicFinite, FS_Subset, FS_CardinalityType
<1>3. {j \in PublicRows : j <= f} = L \cup {f}
  <2>1. \A j \in PublicRows : j \in Nat
    BY PublicFinite
  <2> QED
    BY <2>1
<1>4. Rank(f) = Cardinality(L) + 1
  BY <1>2, <1>3, FS_AddElement DEF Rank
<1>5. Cardinality(L) <= n
  <2>1. CASE L = {}
    BY <2>1, FS_EmptySet
  <2>2. CASE L # {}
    <3>1. PICK k \in L : \A j \in L : j <= k
      BY <2>2, PublicFinite, Ordered
    <3>2. {j \in PublicRows : j <= k} = L
      <4>1. \A j \in PublicRows : j \in Nat
        BY PublicFinite
      <4> QED
        BY <3>1, <4>1
    <3>3. Rank(k) = Cardinality(L)
      BY <3>2 DEF Rank
    <3>4. k \notin S
      BY <1>1, <3>1, PublicFinite
    <3> QED
      BY <1>2, <3>1, <3>3, <3>4
  <2> QED
    BY <2>1, <2>2
<1> QED
  BY <1>1, <1>2, <1>4, <1>5

\* A batch that is not full reaches the last public row, an empty one too.
LEMMA LastBatch ==
  ASSUME NEW n \in Nat, NEW docs, docs = {<<i, rows[i].content>> : i \in BatchAt(n)},
         Cardinality(docs) < Batch, NEW i \in PublicRows
  PROVE  Rank(i) <= n + Batch
<1> SUFFICES ASSUME Rank(i) > n + Batch
             PROVE  FALSE
  BY PublicFinite, BatchAssumption
<1>0. Batch \in Nat \ {0}
  BY BatchAssumption
<1> DEFINE R == 1 .. Batch
           at(k) == CHOOSE j \in PublicRows : Rank(j) = n + k
           f == [k \in R |-> <<at(k), rows[at(k)].content>>]
<1>1. ASSUME NEW k \in R
      PROVE  at(k) \in PublicRows /\ Rank(at(k)) = n + k
  <2>1. n + k - 1 \in Nat /\ Rank(i) > n + k - 1
    BY <1>0, PublicFinite
  <2>2. \E j \in PublicRows : Rank(j) = n + k
    BY <2>1, RanksWithoutGaps
  <2> QED
    BY <2>2
<1>2. ASSUME NEW k \in R
      PROVE  at(k) \in BatchAt(n)
  <2>1. PICK j \in PublicRows : j = at(k) /\ Rank(j) = n + k
    BY <1>1
  <2>2. n < Rank(j) /\ Rank(j) <= n + Batch
    BY <1>0, <2>1
  <2>3. j \in BatchAt(n)
    BY <2>2 DEF BatchAt, Rank
  <2> QED
    BY <2>1, <2>3
<1>3. f \in [R -> docs]
  <2> HIDE DEF at
  <2> QED
    BY <1>2
<1>4. \A k, m \in R : f[k] = f[m] => k = m
  <2>1. ASSUME NEW k \in R, NEW m \in R, at(k) = at(m)
        PROVE  k = m
    BY <1>1, <2>1
  <2> HIDE DEF at
  <2> QED
    BY <2>1
<1>5. f \in Injection(R, docs)
  <2> HIDE DEF f
  <2> QED
    BY <1>3, <1>4 DEF Injection, IsInjective
<1>6. IsFiniteSet(docs)
  <2>1. IsFiniteSet(BatchAt(n))
    BY PublicFinite, FS_Subset DEF BatchAt
  <2> DEFINE g == [j \in BatchAt(n) |-> <<j, rows[j].content>>]
  <2>2. g \in Surjection(BatchAt(n), docs)
    BY DEF Surjection
  <2> HIDE DEF g
  <2> QED
    BY <2>1, <2>2, FS_Surjection
<1>7. Cardinality(R) = Batch /\ IsFiniteSet(R)
  BY <1>0, FS_Interval
<1>8. Cardinality(R) <= Cardinality(docs)
  <2> HIDE DEF f, R
  <2> QED
    BY <1>5, <1>6, FS_Injection
<1>9. Cardinality(docs) \in Nat
  BY <1>6, FS_CardinalityType
<1> QED
  BY <1>0, <1>7, <1>8, <1>9

-----------------------------------------------------------------------------
LEMMA InitExact ==
  ASSUME IndexInit
  PROVE  ExactInv
<1>1. Typed
  BY DEF IndexInit, Typed, Rows, Document, Calling, NoCall, Resting, Rebuilding
<1>2. CallsApart /\ Rebuilt
  BY DEF IndexInit, CallsApart, NoCall, Rebuilt, Reindexing, Resting
<1>3. SettledExact
  BY DEF IndexInit, SettledExact
<1> QED
  BY <1>1, <1>2, <1>3 DEF ExactInv

\* Whoever changes a row while its call is under way gives the row up.
LEMMA ChangeExact ==
  ASSUME ExactInv, NEW i \in Ids, NEW c \in Calls, NEW step \in {"read", "send"},
         NEW row \in [content : Contents, state : {"absent", "hidden", "public", "gone"}],
         step = "send" => ~IsPublic(row), Change(i, row, c, step)
  PROVE  ExactInv'
<1> DEFINE quiet == InFlight(i) = {} /\ ~Reindexing
           new == [step |-> step, id |-> i, doc |-> None, alone |-> quiet]
           others == [d \in Calls |-> IF d \in InFlight(i) THEN Joined(call[d]) ELSE call[d]]
<1>1. /\ rows' \in Rows /\ rows'[i] = row
      /\ \A j \in Ids \ {i} : rows'[j] = rows[j]
      /\ index' = index
  BY DEF Change, ExactInv, Typed, Rows
<1>2. /\ reindex' \in Rebuilding /\ reindex'.offset = reindex.offset
      /\ reindex'.step = reindex.step /\ reindex'.clean = FALSE /\ reindex'.docs = reindex.docs
  BY DEF Change, ExactInv, Typed, Rebuilding
<1>3. ASSUME NEW d \in Calls
      PROVE  /\ others[d] \in Calling
             /\ others[d].step = call[d].step /\ others[d].id = call[d].id /\ others[d].doc = call[d].doc
             /\ others[d].alone = IF d \in InFlight(i) THEN FALSE ELSE call[d].alone
  BY DEF ExactInv, Typed, Calling, Joined
<1>4. new \in Calling
  BY DEF Calling, Document
<1>5. \/ call[c].step = "idle" /\ call' = [others EXCEPT ![c] = new] /\ off' = IF quiet THEN off ELSE off \union {i}
      \/ call' = others /\ off' = off \union {i}
  BY DEF Change
<1>6. new.step = step /\ new.id = i /\ new.doc = None /\ new.alone = quiet
  OBVIOUS
<1>7. DOMAIN others = Calls
  OBVIOUS
<1> HIDE DEF new, others
<1>8. ASSUME NEW d \in Calls
      PROVE  call'[d] = others[d] \/ (call[c].step = "idle" /\ d = c /\ call'[d] = new /\ off' = IF quiet THEN off ELSE off \union {i})
  BY <1>5, <1>7
<1>9. off \subseteq off' /\ off' \subseteq Ids /\ (~quiet => i \in off')
  BY <1>5 DEF ExactInv, Typed
<1>10. Typed'
  <2>1. call' \in [Calls -> Calling]
    <3>1. DOMAIN call' = Calls /\ call' = [d \in Calls |-> call'[d]]
      BY <1>5, <1>7 DEF others
    <3> QED
      BY <1>3, <1>4, <1>8, <3>1
  <2>2. \A d \in Calls : call'[d].step # "idle" => call'[d].id \in Ids
    BY <1>3, <1>6, <1>8 DEF ExactInv, Typed
  <2> QED
    BY <1>1, <1>2, <1>9, <2>1, <2>2 DEF ExactInv, Typed
<1>11. ASSUME NEW d \in Calls, d # c \/ call'[d] = others[d]
       PROVE  call'[d].step = call[d].step /\ call'[d].id = call[d].id /\ call'[d].doc = call[d].doc
              /\ call'[d].alone = IF d \in InFlight(i) THEN FALSE ELSE call[d].alone
  BY <1>3, <1>8, <1>11
<1>12. ASSUME NEW j \in Ids, j # i
       PROVE  InFlight(j)' = InFlight(j)
  <2>1. ASSUME NEW d \in Calls
        PROVE  d \in InFlight(j)' <=> d \in InFlight(j)
    <3>1. CASE call'[d] = others[d]
      BY <1>3, <3>1 DEF InFlight
    <3>2. CASE call'[d] # others[d]
      BY <1>6, <1>8, <1>12, <3>2 DEF InFlight
    <3> QED
      BY <3>1, <3>2
  <2> QED
    BY <2>1 DEF InFlight
<1>13. ASSUME NEW d \in Calls, d \in InFlight(i)'
       PROVE  d \in InFlight(i) \/ (d = c /\ call'[c] = new)
  BY <1>3, <1>8, <1>13 DEF InFlight
<1>14. ASSUME NEW d \in Calls, call'[d].step # "idle"
       PROVE  IF call'[d].alone THEN Lone(d)' ELSE call'[d].id \in off'
  <2>1. CASE call'[d] = others[d]
    <3>1. call[d].step # "idle" /\ call[d].id \in Ids
      BY <1>3, <1>14, <2>1 DEF ExactInv, Typed
    <3>2. CASE d \in InFlight(i)
      <4>1. call'[d].id = i /\ ~call'[d].alone
        BY <1>3, <2>1, <3>2 DEF InFlight
      <4>2. ~quiet
        BY <3>2
      <4> QED
        BY <1>9, <4>1, <4>2
    <3>3. CASE d \notin InFlight(i)
      <4>1. call[d].id # i /\ call'[d].alone = call[d].alone /\ call'[d].id = call[d].id
        BY <1>3, <2>1, <3>1, <3>3 DEF InFlight
      <4>2. IF call[d].alone THEN Lone(d) ELSE call[d].id \in off
        BY <3>1 DEF ExactInv, CallsApart
      <4>3. CASE call[d].alone
        <5>1. InFlight(call[d].id)' = {d}
          BY <1>12, <3>1, <4>1, <4>2, <4>3 DEF Lone
        <5>2. call'[d].step = "send" => call'[d].doc = DocOf(rows'[call[d].id])
          <6>1. rows'[call[d].id] = rows[call[d].id]
            BY <1>1, <3>1, <4>1
          <6>2. call'[d].step = call[d].step /\ call'[d].doc = call[d].doc
            BY <1>3, <2>1
          <6> QED
            BY <4>2, <4>3, <6>1, <6>2 DEF Lone
        <5>3. ~Reindexing'
          BY <1>2, <4>2, <4>3 DEF Lone, Reindexing
        <5> QED
          BY <4>1, <4>3, <5>1, <5>2, <5>3 DEF Lone, InFlight
      <4> QED
        BY <1>9, <4>1, <4>2, <4>3
    <3> QED
      BY <3>2, <3>3
  <2>2. CASE call'[d] # others[d]
    <3>1. d = c /\ call'[d].step = step /\ call'[d].id = i /\ call'[d].doc = None /\ call'[d].alone = quiet
      BY <1>6, <1>8, <2>2
    <3>2. CASE quiet
      <4>1. InFlight(i)' = {c}
        <5>1. InFlight(i)' \subseteq {c}
          BY <1>13, <3>2 DEF InFlight
        <5>2. c \in InFlight(i)'
          BY <1>14, <3>1 DEF InFlight
        <5> QED
          BY <5>1, <5>2
      <4>2. ~Reindexing'
        BY <1>2, <3>2 DEF Reindexing
      <4>3. step = "send" => DocOf(rows'[i]) = None
        BY <1>1 DEF DocOf
      <4> QED
        BY <3>1, <3>2, <4>1, <4>2, <4>3 DEF Lone, InFlight
    <3> QED
      BY <1>9, <3>1, <3>2
  <2> QED
    BY <2>1, <2>2
<1>15. CallsApart'
  BY <1>14 DEF CallsApart
<1>16. Rebuilt'
  BY <1>2, <1>9 DEF ExactInv, Rebuilt, Reindexing
<1>17. SettledExact'
  <2> SUFFICES ASSUME NEW j \in Ids, j \notin off', InFlight(j)' = {}
               PROVE  index'[j] = DocOf(rows'[j])
    BY DEF SettledExact
  <2>1. CASE j = i
    <3>1. quiet /\ call' = [others EXCEPT ![c] = new]
      BY <1>5, <2>1
    <3>2. call'[c] = new
      BY <1>7, <3>1
    <3>3. c \in InFlight(i)'
      BY <1>6, <3>2 DEF InFlight
    <3> QED
      BY <2>1, <3>3
  <2>2. CASE j # i
    BY <1>1, <1>9, <1>12, <2>2 DEF ExactInv, SettledExact
  <2> QED
    BY <2>1, <2>2
<1> QED
  BY <1>10, <1>15, <1>16, <1>17 DEF ExactInv

LEMMA ReadRowExact ==
  ASSUME ExactInv, NEW c \in Calls, ReadRow(c)
  PROVE  ExactInv'
<1> DEFINE k == [step |-> "send", id |-> call[c].id, doc |-> DocOf(rows[call[c].id]), alone |-> call[c].alone]
<1>1. /\ call' = [call EXCEPT ![c] = k] /\ call[c].step # "idle" /\ call[c].id \in Ids
      /\ UNCHANGED <<rows, index, reindex, off>>
  BY DEF ReadRow, ExactInv, Typed
<1>2. /\ k \in Calling /\ k.step = "send" /\ k.id = call[c].id /\ k.alone = call[c].alone
      /\ k.doc = DocOf(rows[call[c].id])
  <2>1. DocOf(rows[call[c].id]) \in Document /\ call[c] \in Calling
    BY <1>1 DEF ExactInv, Typed, Rows, DocOf, Document
  <2> QED
    BY <2>1 DEF Calling
<1> HIDE DEF k
<1>3. /\ call' \in [Calls -> Calling] /\ call'[c] = k
      /\ \A d \in Calls \ {c} : call'[d] = call[d]
  BY <1>1, <1>2 DEF ExactInv, Typed
<1>4. \A j : InFlight(j)' = InFlight(j)
  BY <1>1, <1>2, <1>3 DEF InFlight
<1>5. Typed'
  BY <1>1, <1>2, <1>3 DEF ExactInv, Typed
<1>6. CallsApart'
  <2> SUFFICES ASSUME NEW d \in Calls, call'[d].step # "idle"
               PROVE  IF call'[d].alone THEN Lone(d)' ELSE call'[d].id \in off'
    BY DEF CallsApart
  <2>1. /\ call[d].step # "idle" /\ call'[d].alone = call[d].alone /\ call'[d].id = call[d].id
    BY <1>1, <1>2, <1>3
  <2>2. IF call[d].alone THEN Lone(d) ELSE call[d].id \in off
    BY <2>1 DEF ExactInv, CallsApart
  <2>3. CASE call[d].alone
    <3>1. InFlight(call[d].id)' = {d}
      BY <1>4, <2>1, <2>2, <2>3 DEF Lone
    <3>2. call'[d].step = "send" => call'[d].doc = DocOf(rows'[call'[d].id])
      BY <1>1, <1>2, <1>3, <2>1, <2>2, <2>3 DEF Lone
    <3>3. ~Reindexing'
      BY <1>1, <2>2, <2>3 DEF Lone, Reindexing
    <3> QED
      BY <2>1, <2>3, <3>1, <3>2, <3>3 DEF Lone, InFlight
  <2> QED
    BY <1>1, <2>1, <2>2, <2>3
<1>7. Rebuilt'
  <2>1. Reindexing => ~reindex.clean
    BY <1>1 DEF ExactInv, Rebuilt, NoCalls
  <2> QED
    BY <1>1, <2>1 DEF ExactInv, Rebuilt, Reindexing
<1>8. SettledExact'
  BY <1>1, <1>4 DEF ExactInv, SettledExact
<1> QED
  BY <1>5, <1>6, <1>7, <1>8 DEF ExactInv

\* A call that stayed alone brings the document; one that ends otherwise has
\* given its row up.
LEMMA EndExact ==
  ASSUME ExactInv, NEW c \in Calls, Send(c) \/ CallFails(c)
  PROVE  ExactInv'
<1> DEFINE i == call[c].id
<1>1. /\ call' = [call EXCEPT ![c] = NoCall] /\ call[c].step # "idle" /\ i \in Ids
      /\ UNCHANGED <<rows, reindex>>
  BY DEF Send, CallFails, ExactInv, Typed
<1>2. /\ index' \in [Ids -> Document]
      /\ \A j \in Ids : j # i => index'[j] = index[j]
  <2>1. call[c].doc \in Document
    BY DEF ExactInv, Typed, Calling
  <2> QED
    BY <1>1, <2>1 DEF Send, CallFails, ExactInv, Typed
<1>3. NoCall \in Calling /\ NoCall.step = "idle"
  BY DEF NoCall, Calling, Document
<1>4. /\ call' \in [Calls -> Calling] /\ call'[c].step = "idle"
      /\ \A d \in Calls \ {c} : call'[d] = call[d]
  BY <1>1, <1>3 DEF ExactInv, Typed
<1>5. \A j : InFlight(j)' = InFlight(j) \ {c}
  BY <1>4 DEF InFlight
<1>6. IF call[c].alone THEN Lone(c) ELSE i \in off
  BY <1>1 DEF ExactInv, CallsApart
<1>7. /\ off' \subseteq Ids
      /\ \A j \in off : j \in off' \/ (j = i /\ call[c].alone)
      /\ call[c].alone /\ i \notin off' => Send(c)
      /\ \A j \in Ids : j # i /\ j \notin off' => j \notin off
  BY <1>1, <1>6 DEF Send, CallFails, ExactInv, Typed
<1>8. Typed'
  BY <1>1, <1>2, <1>4, <1>7 DEF ExactInv, Typed
<1>9. CallsApart'
  <2> SUFFICES ASSUME NEW d \in Calls, call'[d].step # "idle"
               PROVE  IF call'[d].alone THEN Lone(d)' ELSE call'[d].id \in off'
    BY DEF CallsApart
  <2>1. d # c /\ call'[d] = call[d] /\ call[d].step # "idle"
    BY <1>4
  <2>2. IF call[d].alone THEN Lone(d) ELSE call[d].id \in off
    BY <2>1 DEF ExactInv, CallsApart
  <2>3. CASE call[d].alone
    <3>1. InFlight(call[d].id)' = {d}
      BY <1>5, <2>1, <2>2, <2>3 DEF Lone
    <3>2. call'[d].step = "send" => call'[d].doc = DocOf(rows'[call'[d].id])
      BY <1>1, <2>1, <2>2, <2>3 DEF Lone
    <3>3. ~Reindexing'
      BY <1>1, <2>2, <2>3 DEF Lone, Reindexing
    <3> QED
      BY <2>1, <2>3, <3>1, <3>2, <3>3 DEF Lone, InFlight
  <2>4. CASE ~call[d].alone
    <3>1. call[c].alone => call[d].id # i
      BY <1>6, <2>1 DEF Lone, InFlight
    <3> QED
      BY <1>7, <2>1, <2>2, <2>4, <3>1
  <2> QED
    BY <2>3, <2>4
<1>10. Rebuilt'
  <2> SUFFICES ASSUME Reindexing
               PROVE  off' = Ids /\ ~reindex'.clean
    BY <1>1 DEF Rebuilt, Reindexing
  <2>1. ~call[c].alone
    BY <1>6 DEF Lone
  <2>2. off = Ids /\ ~reindex.clean
    BY <1>1 DEF ExactInv, Rebuilt, NoCalls
  <2> QED
    BY <1>1, <1>7, <2>1, <2>2
<1>11. SettledExact'
  <2> SUFFICES ASSUME NEW j \in Ids, j \notin off', InFlight(j)' = {}
               PROVE  index'[j] = DocOf(rows'[j])
    BY DEF SettledExact
  <2>1. CASE j = i
    <3>1. call[c].alone /\ Send(c)
      BY <1>6, <1>7, <2>1
    <3>2. index'[i] = call[c].doc
      BY <1>1, <3>1 DEF Send, ExactInv, Typed
    <3>3. call[c].doc = DocOf(rows[i])
      BY <1>6, <3>1 DEF Lone, Send
    <3> QED
      BY <1>1, <2>1, <3>2, <3>3
  <2>2. CASE j # i
    <3>1. c \notin InFlight(j)
      BY <2>2 DEF InFlight
    <3> QED
      BY <1>1, <1>2, <1>5, <1>7, <2>2, <3>1 DEF ExactInv, SettledExact
  <2> QED
    BY <2>1, <2>2
<1> QED
  BY <1>8, <1>9, <1>10, <1>11 DEF ExactInv

\* A reindex gives all rows up, and nobody is alone.
LEMMA BeginExact ==
  ASSUME ExactInv, BeginReindex
  PROVE  ExactInv'
<1>1. /\ UNCHANGED <<rows, index>> /\ off' = Ids
      /\ call' = [c \in Calls |-> Joined(call[c])]
      /\ reindex' = [reindex EXCEPT !.step = "clear", !.clean = NoCalls]
  BY DEF BeginReindex
<1>2. reindex' \in Rebuilding /\ reindex'.offset = 0 /\ reindex'.step = "clear" /\ reindex'.clean = NoCalls
  <2>1. NoCalls \in BOOLEAN
    BY DEF NoCalls
  <2> QED
    BY <1>1, <2>1 DEF BeginReindex, Reindexing, ExactInv, Typed, Rebuilding
<1>3. /\ call' \in [Calls -> Calling]
      /\ \A c \in Calls : call'[c].step = call[c].step /\ call'[c].id = call[c].id /\ ~call'[c].alone
  BY <1>1 DEF Joined, Calling, ExactInv, Typed
<1>4. Typed'
  BY <1>1, <1>2, <1>3 DEF ExactInv, Typed
<1>5. CallsApart'
  BY <1>1, <1>3 DEF ExactInv, Typed, CallsApart
<1>6. Rebuilt'
  BY <1>1, <1>2, <1>3 DEF Rebuilt, NoCalls
<1>7. SettledExact'
  BY <1>1 DEF SettledExact
<1> QED
  BY <1>4, <1>5, <1>6, <1>7 DEF ExactInv

\* During a reindex no call is alone and every row is given up.
LEMMA WhileRebuilding ==
  ASSUME ExactInv, Reindexing
  PROVE  /\ off = Ids
         /\ \A c \in Calls : call[c].step # "idle" => ~call[c].alone /\ call[c].id \in Ids
         /\ reindex.clean => NoCalls
BY DEF ExactInv, CallsApart, Lone, Rebuilt, Typed

LEMMA ClearExact ==
  ASSUME ExactInv, ClearIndex
  PROVE  ExactInv'
<1>1. UNCHANGED <<rows, call, off>> /\ Reindexing /\ reindex.step = "clear"
  BY DEF ClearIndex, Reindexing
<1>2. /\ reindex' \in Rebuilding /\ reindex'.offset = 0 /\ reindex'.step = "read"
      /\ reindex'.clean => reindex.clean /\ index' = Cleared
  BY <1>1 DEF ClearIndex, ExactInv, Typed, Rebuilding
<1>3. index' \in [Ids -> Document]
  BY DEF ClearIndex, Cleared, Document, ExactInv, Typed
<1>4. Typed'
  BY <1>1, <1>2, <1>3 DEF ExactInv, Typed
<1>5. CallsApart'
  BY <1>1, WhileRebuilding DEF CallsApart
<1>6. Rebuilt'
  <2>1. index' = Cleared => UpTo(0, index)'
    <3>1. UNCHANGED PublicRows
      BY <1>1 DEF PublicRows
    <3>2. \A i \in PublicRows : Rank(i) # 0 /\ Rank(i)' = Rank(i) /\ Rank(i) \in Nat
      BY <3>1, PublicFinite DEF Rank
    <3> QED
      BY <3>1, <3>2 DEF UpTo, Cleared
  <2>2. reindex'.clean => NoCalls'
    BY <1>1, <1>2, WhileRebuilding DEF NoCalls
  <2> QED
    BY <1>1, <1>2, <2>1, <2>2, WhileRebuilding DEF Rebuilt
<1>7. SettledExact'
  BY <1>1, WhileRebuilding DEF SettledExact
<1> QED
  BY <1>4, <1>5, <1>6, <1>7 DEF ExactInv

\* A reindex ends, and all documents agree if nothing interfered.
LEMMA FinishExact ==
  ASSUME ExactInv, Reindexing, UNCHANGED <<rows, call>>, Finish, index' \in [Ids -> Document],
         reindex.clean => \A i \in Ids : index'[i] = DocOf(rows[i])
  PROVE  ExactInv'
<1>1. reindex' = Resting /\ off' = IF reindex.clean THEN {} ELSE Ids
  BY WhileRebuilding DEF Finish
<1>2. Typed'
  BY <1>1 DEF ExactInv, Typed, Resting, Rebuilding
<1>3. CallsApart'
  BY <1>1, WhileRebuilding DEF CallsApart, NoCalls
<1>4. Rebuilt'
  BY <1>1 DEF Rebuilt, Reindexing, Resting
<1>5. SettledExact'
  BY <1>1 DEF SettledExact
<1> QED
  BY <1>2, <1>3, <1>4, <1>5 DEF ExactInv

\* A reindex goes on after a batch is read or sent.
LEMMA GoesOnExact ==
  ASSUME ExactInv, Reindexing, UNCHANGED <<rows, call, off>>, index' \in [Ids -> Document],
         reindex' \in Rebuilding, reindex'.offset \in Nat, reindex'.step \in {"read", "send"},
         reindex'.clean = reindex.clean,
         reindex.clean => UpTo(reindex.offset, index)',
         reindex.clean /\ reindex'.step = "send" =>
           reindex'.docs = {<<i, rows[i].content>> : i \in BatchAt(reindex'.offset)}
  PROVE  ExactInv'
<1>1. Typed'
  BY DEF ExactInv, Typed
<1>2. CallsApart'
  BY WhileRebuilding DEF CallsApart
<1>3. Rebuilt'
  <2>1. reindex.clean => NoCalls'
    BY WhileRebuilding DEF NoCalls
  <2>2. \A n : BatchAt(n)' = BatchAt(n)
    BY DEF BatchAt, PublicRows
  <2>3. reindex.clean /\ reindex'.step = "send" =>
          reindex'.docs = {<<i, rows'[i].content>> : i \in BatchAt(reindex'.offset)}
    OBVIOUS
  <2> QED
    BY <2>1, <2>2, <2>3, WhileRebuilding DEF Rebuilt, BatchAt, PublicRows
<1>4. SettledExact'
  BY WhileRebuilding DEF SettledExact
<1> QED
  BY <1>1, <1>2, <1>3, <1>4 DEF ExactInv

LEMMA ReadBatchExact ==
  ASSUME ExactInv, ReadBatch
  PROVE  ExactInv'
<1> DEFINE n == reindex.offset
           docs == {<<i, rows[i].content>> : i \in BatchAt(n)}
<1>1. /\ UNCHANGED <<rows, index, call>> /\ Reindexing /\ reindex.step = "read" /\ n \in Nat
      /\ index' \in [Ids -> Document] /\ reindex \in Rebuilding
  BY DEF ReadBatch, Reindexing, ExactInv, Typed
<1>2. reindex.clean => UpTo(n, index)
  BY <1>1 DEF ExactInv, Rebuilt
<1>3. CASE BatchAt(n) = {}
  <2>1. Finish
    BY <1>3 DEF ReadBatch
  <2>2. ASSUME NEW i \in PublicRows
        PROVE  Rank(i) <= n
    <3> SUFFICES ASSUME Rank(i) > n
                 PROVE  FALSE
      BY <1>1, PublicFinite
    <3>1. PICK j \in PublicRows : Rank(j) = n + 1
      BY <1>1, RanksWithoutGaps
    <3>2. n < Rank(j) /\ Rank(j) <= n + Batch
      BY <1>1, <3>1, BatchAssumption
    <3>3. j \in BatchAt(n)
      BY <3>2 DEF BatchAt, Rank
    <3> QED
      BY <1>3, <3>3
  <2>3. reindex.clean => \A i \in Ids : index'[i] = DocOf(rows[i])
    BY <1>1, <1>2, <2>2 DEF UpTo, DocOf, PublicRows
  <2> QED
    BY <1>1, <2>1, <2>3, FinishExact
<1>4. CASE BatchAt(n) # {}
  <2>1. off' = off /\ reindex' = [reindex EXCEPT !.step = "send", !.docs = docs]
    BY <1>4 DEF ReadBatch
  <2>2. docs \in SUBSET (Ids \X Contents)
    <3>1. BatchAt(n) \subseteq Ids
      BY DEF BatchAt, PublicRows
    <3>2. \A i \in BatchAt(n) : rows[i].content \in Contents
      BY <3>1 DEF ExactInv, Typed, Rows
    <3> QED
      BY <3>1, <3>2
  <2> HIDE DEF docs
  <2>3. /\ reindex' \in Rebuilding /\ reindex'.offset = n /\ reindex'.step = "send"
        /\ reindex'.clean = reindex.clean /\ reindex'.docs = docs
    BY <1>1, <2>1, <2>2 DEF Rebuilding
  <2>4. reindex.clean => UpTo(reindex.offset, index)'
    BY <1>1, <1>2, <2>3 DEF UpTo, PublicRows, Rank
  <2> QED
    BY <1>1, <2>1, <2>3, <2>4, GoesOnExact DEF docs
<1> QED
  BY <1>3, <1>4

\* A batch brings the documents of the rows that follow the offset.
LEMMA SendBatchExact ==
  ASSUME ExactInv, SendBatch
  PROVE  ExactInv'
<1> DEFINE n == reindex.offset
           docs == reindex.docs
<1>1. /\ UNCHANGED <<rows, call>> /\ Reindexing /\ reindex.step = "send" /\ n \in Nat
      /\ reindex \in Rebuilding /\ Batch \in Nat \ {0} /\ n + Batch \in Nat
  BY BatchAssumption DEF SendBatch, Reindexing, ExactInv, Typed
<1>2. reindex.clean => UpTo(n, index) /\ docs = {<<i, rows[i].content>> : i \in BatchAt(n)}
  BY <1>1 DEF ExactInv, Rebuilt
<1>3. index' = [i \in Ids |-> IF \E d \in docs : d[1] = i
                                THEN (CHOOSE d \in docs : d[1] = i)[2] ELSE index[i]]
  BY DEF SendBatch
<1>4. index' \in [Ids -> Document]
  <2>1. \A d \in docs : d[2] \in Contents
    BY <1>1 DEF Rebuilding
  <2>2. \A i \in Ids : (\E d \in docs : d[1] = i) => (CHOOSE d \in docs : d[1] = i) \in docs
    OBVIOUS
  <2> QED
    BY <1>3, <2>1, <2>2 DEF Document, ExactInv, Typed
<1>5. ASSUME reindex.clean
      PROVE  UpTo(n + Batch, index')
  <2> SUFFICES ASSUME NEW i \in Ids
               PROVE  index'[i] = IF i \in PublicRows /\ Rank(i) <= n + Batch THEN rows[i].content ELSE None
    BY DEF UpTo
  <2>1. CASE i \in BatchAt(n)
    <3>1. i \in PublicRows /\ Rank(i) <= n + Batch
      BY <2>1 DEF BatchAt, Rank
    <3>2. <<i, rows[i].content>> \in docs /\ \A d \in docs : d[1] = i => d = <<i, rows[i].content>>
      BY <1>2, <1>5, <2>1
    <3> DEFINE e == CHOOSE d \in docs : d[1] = i
    <3> HIDE DEF docs
    <3>3. index'[i] = e[2]
      BY <1>3, <3>2
    <3>4. e = <<i, rows[i].content>>
      BY <3>2
    <3> HIDE DEF e
    <3>5. index'[i] = rows[i].content
      BY <3>3, <3>4
    <3> QED
      BY <3>1, <3>5
  <2>2. CASE i \notin BatchAt(n)
    <3>1. ~ \E d \in docs : d[1] = i
      BY <1>2, <1>5, <2>2
    <3>2. index'[i] = index[i]
      BY <1>3, <3>1
    <3>3. i \in PublicRows => (Rank(i) <= n + Batch <=> Rank(i) <= n)
      BY <1>1, <2>2, PublicFinite DEF BatchAt, Rank
    <3> QED
      BY <1>2, <1>5, <3>2, <3>3 DEF UpTo
  <2> QED
    BY <2>1, <2>2
<1>6. CASE Cardinality(docs) < Batch
  <2>1. Finish
    BY <1>6 DEF SendBatch
  <2>2. ASSUME reindex.clean, NEW i \in PublicRows
        PROVE  Rank(i) <= n + Batch
    BY <1>1, <1>2, <1>6, <2>2, LastBatch
  <2>3. reindex.clean => \A i \in Ids : index'[i] = DocOf(rows[i])
    BY <1>5, <2>2 DEF UpTo, DocOf, PublicRows
  <2> QED
    BY <1>1, <1>4, <2>1, <2>3, FinishExact
<1>7. CASE ~(Cardinality(docs) < Batch)
  <2>1. off' = off /\ reindex' = [reindex EXCEPT !.step = "read", !.docs = {}, !.offset = n + Batch]
    BY <1>7 DEF SendBatch, NextOffset
  <2>2. /\ reindex' \in Rebuilding /\ reindex'.offset = n + Batch /\ reindex'.step = "read"
        /\ reindex'.clean = reindex.clean
    <3>1. PICK m \in Int : m = n + Batch
      BY <1>1
    <3>2. reindex' = [reindex EXCEPT !.step = "read", !.docs = {}, !.offset = m]
      BY <2>1, <3>1
    <3>3. /\ reindex' \in Rebuilding /\ reindex'.offset = m /\ reindex'.step = "read"
          /\ reindex'.clean = reindex.clean
      BY <1>1, <3>2 DEF Rebuilding
    <3> QED
      BY <3>1, <3>3
  <2>3. reindex.clean => UpTo(reindex.offset, index)'
    BY <1>1, <1>5, <2>2 DEF UpTo, PublicRows, Rank
  <2> QED
    BY <1>1, <1>4, <2>1, <2>2, <2>3, GoesOnExact
<1> QED
  BY <1>6, <1>7

LEMMA ReindexFailsExact ==
  ASSUME ExactInv, ReindexFails
  PROVE  ExactInv'
<1>1. UNCHANGED <<rows, index, call, off>> /\ Reindexing /\ reindex' = Resting
  BY DEF ReindexFails, Reindexing
<1>2. Typed'
  BY <1>1 DEF ExactInv, Typed, Resting, Rebuilding
<1>3. CallsApart'
  BY <1>1, WhileRebuilding DEF CallsApart
<1>4. Rebuilt' /\ SettledExact'
  BY <1>1, WhileRebuilding DEF Rebuilt, Reindexing, Resting, SettledExact
<1> QED
  BY <1>2, <1>3, <1>4 DEF ExactInv

LEMMA NextExact ==
  ASSUME ExactInv, [IndexNext]_indexVars
  PROVE  ExactInv'
<1>1. CASE UNCHANGED <<rows, index, call, reindex, off>>
  <2>1. Typed' /\ SettledExact'
    BY <1>1 DEF ExactInv, Typed, SettledExact, InFlight
  <2>2. CallsApart'
    BY <1>1 DEF ExactInv, CallsApart, Lone, InFlight, Reindexing
  <2>3. Rebuilt'
    BY <1>1 DEF ExactInv, Rebuilt, Reindexing, NoCalls, UpTo, Rank, PublicRows, BatchAt
  <2> QED
    BY <2>1, <2>2, <2>3 DEF ExactInv
<1>2. ASSUME NEW i \in Ids, NEW c \in Calls, NEW content \in Contents,
             NEW state \in {"hidden", "public"}, Save(i, content, state, c)
      PROVE  ExactInv'
  BY <1>2, ChangeExact DEF Save
<1>3. ASSUME NEW i \in Ids, NEW c \in Calls, RemoveRow(i, c)
      PROVE  ExactInv'
  <2>1. rows[i].content \in Contents
    BY DEF ExactInv, Typed, Rows
  <2>2. ~IsPublic([content |-> rows[i].content, state |-> "gone"])
    BY DEF IsPublic
  <2> QED
    BY <1>3, <2>1, <2>2, ChangeExact DEF RemoveRow
<1>4. ASSUME NEW c \in Calls, ReadRow(c) \/ Send(c) \/ CallFails(c)
      PROVE  ExactInv'
  BY <1>4, ReadRowExact, EndExact
<1>5. CASE BeginReindex \/ ClearIndex \/ ReadBatch \/ SendBatch \/ ReindexFails
  BY <1>5, BeginExact, ClearExact, ReadBatchExact, SendBatchExact, ReindexFailsExact
<1>6. CASE UNCHANGED indexVars \/ Search \/ Answer
  BY <1>1, <1>6 DEF indexVars, Search, Answer
<1> QED
  BY <1>2, <1>3, <1>4, <1>5, <1>6 DEF IndexNext

\* A document agrees with its row once an index call has run by itself or a
\* reindex undisturbed, and until calls overlap or fail, for any number of
\* rows, calls under way and changes, and any size of the batches.
THEOREM SettledDocuments == IndexSpec => []SettledExact
<1>1. IndexInit => ExactInv
  BY InitExact
<1>2. ExactInv /\ [IndexNext]_indexVars => ExactInv'
  BY NextExact
<1>3. ExactInv => SettledExact
  BY DEF ExactInv
<1> QED
  BY <1>1, <1>2, <1>3, PTL DEF IndexSpec

-----------------------------------------------------------------------------
(* The gate of the listing *)

\* Hits are ids of rows.
HitsOfRows == search \subseteq Ids

\* Only a search and its answer touch the hits and the page.
LEMMA PageSteps ==
  ASSUME HitsOfRows, [IndexNext]_indexVars
  PROVE  HitsOfRows' /\ (page' # page => page' \subseteq PublicRows)
<1>1. CASE UNCHANGED searching
  BY <1>1 DEF searching, HitsOfRows
<1>2. CASE Search
  BY <1>2 DEF Search, HitsOfRows, Indexed, NoSearch
<1>3. CASE Answer
  BY <1>3 DEF Answer, HitsOfRows, Shown, PublicRows, NoSearch
<1>4. ASSUME NEW i \in Ids, NEW c \in Calls, NEW content \in Contents,
             NEW state \in {"hidden", "public"}, Save(i, content, state, c)
      PROVE  UNCHANGED searching
  BY <1>4 DEF Save, Change
<1>5. ASSUME NEW c \in Calls, ReadRow(c) \/ Send(c) \/ CallFails(c)
      PROVE  UNCHANGED searching
  BY <1>5 DEF ReadRow, Send, CallFails
<1>6. CASE BeginReindex \/ ClearIndex \/ ReadBatch \/ SendBatch \/ ReindexFails
  BY <1>1, <1>6 DEF BeginReindex, ClearIndex, ReadBatch, SendBatch, ReindexFails
<1>7. ASSUME NEW i \in Ids, NEW c \in Calls, RemoveRow(i, c)
      PROVE  UNCHANGED searching
  BY <1>7 DEF RemoveRow, Change
<1> QED
  BY <1>1, <1>2, <1>3, <1>4, <1>5, <1>6, <1>7 DEF IndexNext, indexVars, searching

\* No page shows a hidden row, for any size of the pages and however the index,
\* the calls and a reindex stand.
THEOREM GateOnHits == IndexSpec => ListedArePublic
<1>1. IndexInit => HitsOfRows
  BY DEF IndexInit, HitsOfRows, NoSearch
<1>2. HitsOfRows /\ [IndexNext]_indexVars => HitsOfRows' /\ [page' # page => page' \subseteq PublicRows]_indexVars
  BY PageSteps
<1> QED
  BY <1>1, <1>2, PTL DEF IndexSpec, ListedArePublic

=============================================================================
