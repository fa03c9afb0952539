------------------------------ MODULE Editorial ------------------------------
(***************************************************************************)
(* Blog posts and the permanent links of their old addresses.              *)
(*                                                                         *)
(* CRM editors own a post's content (here: its status), the SEO team owns  *)
(* its address and metadata.  Both save the same row, guarded by the       *)
(* revision they loaded.  Changing the address of a post that has been     *)
(* published leaves a 'blog-slug' redirect behind, and every earlier       *)
(* redirect of the post is pointed at the new address in the same          *)
(* transaction, because resolveSlug follows a single redirect.             *)
(*                                                                         *)
(* A request is a sequence of database statements; other requests run      *)
(* between them.  The rename transaction is one step here: it holds the    *)
(* lock of the post's row, and the unique index on slug and the locking    *)
(* reads of seo_redirects order it with every other writer of the rows it  *)
(* looks at.                                                               *)
(***************************************************************************)
EXTENDS Naturals, FiniteSets

CONSTANTS
  Posts,        \* ids of blog_posts; AUTO_INCREMENT never hands one out twice
  Slugs,        \* addresses under /blogs/
  NoSlug,       \* the address of a row that does not exist
  Page,         \* some other public page, the target of a hand-made redirect
  SeoValues,    \* values of the metadata owned by the SEO team
  DefaultSeo,   \* the empty metadata a new post starts with
  Clients,      \* requests that may be in progress at the same time
  MaxRevision   \* bound: a post is not saved again once it has this revision

ASSUME EditorialAssumption ==
  /\ Page \notin Slugs
  /\ NoSlug \notin Slugs
  /\ DefaultSeo \in SeoValues
  /\ MaxRevision \in Nat \ {0}

VARIABLES
  existing,   \* ids of the rows of blog_posts
  allocated,  \* ids ever given to a row
  posts,      \* blog_posts: id -> row (meaningful for existing ids)
  redirects,  \* seo_redirects: source slug -> row
  former,     \* history: slugs each post was published under, links still promised
  request     \* the request each client has in progress

vars == <<existing, allocated, posts, redirects, former, request>>

Statuses == {"draft", "published"}

\* A row.  published says whether published_at is set; a publication is dated
\* with the moment it happens, never later, so a post is live as soon as its
\* status is 'published'.
Post == [slug : Slugs \cup {NoSlug}, revision : Nat, status : Statuses,
         published : BOOLEAN, seo : SeoValues]

Rule == [reason : {"none", "manual", "blog-slug"},
         dest : Slugs \cup {Page}, active : BOOLEAN]
NoRule == [reason |-> "none", dest |-> Page, active |-> FALSE]
BlogRule(s) == [reason |-> "blog-slug", dest |-> s, active |-> TRUE]

Kinds == {"content", "seo", "remove"}

\* revision is the one the client loaded with the form it is sending; previous
\* is what the handler read first (details), once it has read it.
Request == [stage : {"submitted", "read", "checked"},
            kind : Kinds, post : Posts, revision : Nat,
            slug : Slugs \cup {NoSlug}, seo : SeoValues, status : Statuses,
            previous : Post]
Idle == [stage |-> "idle"]

NoRow == [slug |-> NoSlug, revision |-> 1, status |-> "draft",
          published |-> FALSE, seo |-> DefaultSeo]

TypeOK ==
  /\ existing \subseteq allocated
  /\ allocated \subseteq Posts
  /\ posts \in [Posts -> Post]
  /\ \A p \in existing : posts[p].slug \in Slugs
  /\ redirects \in [Slugs -> Rule]
  /\ former \in [Posts -> SUBSET Slugs]
  /\ request \in [Clients -> Request \cup {Idle}]

(***************************************************************************)
(* Reading                                                                 *)
(***************************************************************************)

Live(p) == p \in existing /\ posts[p].status = "published"

\* resolveSlug: a live post at the address itself, else one blog redirect
\* whose destination is the address of a live post, else nothing.
Resolves(s, p) ==
  /\ Live(p)
  /\ \/ posts[p].slug = s
     \/ /\ \A q \in existing : Live(q) => posts[q].slug # s
        /\ redirects[s].reason = "blog-slug"
        /\ redirects[s].active
        /\ redirects[s].dest = posts[p].slug

Occupied(s, p) == \E q \in existing \ {p} : posts[q].slug = s

(***************************************************************************)
(* Init                                                                    *)
(***************************************************************************)

Init ==
  /\ existing = {}
  /\ allocated = {}
  /\ posts = [p \in Posts |-> NoRow]
  /\ redirects = [s \in Slugs |-> NoRule]
  /\ former = [p \in Posts |-> {}]
  /\ request = [c \in Clients |-> Idle]

(***************************************************************************)
(* CRM: create a post.  The address is the title plus a random suffix, so  *)
(* it is one that no post and no redirect uses.                            *)
(***************************************************************************)

FreshSlug(s) ==
  /\ \A p \in existing : posts[p].slug # s
  /\ redirects[s].reason = "none"
  /\ \A t \in Slugs : redirects[t].dest # s

Create(p, s, status) ==
  /\ p \notin allocated
  /\ FreshSlug(s)
  /\ existing' = existing \cup {p}
  /\ allocated' = allocated \cup {p}
  /\ posts' = [posts EXCEPT ![p] =
       [NoRow EXCEPT !.slug = s, !.status = status,
                     !.published = (status = "published")]]
  /\ UNCHANGED <<redirects, former, request>>

(***************************************************************************)
(* Steps of a request                                                      *)
(***************************************************************************)

At(c, stage, kinds) ==
  /\ request[c].stage = stage
  /\ request[c].kind \in kinds

Done(c) == request' = [request EXCEPT ![c] = Idle]

\* The request ends without having changed anything (400, 404 or 409).
Reject(c) ==
  /\ Done(c)
  /\ UNCHANGED <<existing, allocated, posts, redirects, former>>

\* A client loads a post, fills the form and sends it.
\* Content requests carry a status, metadata requests an address and metadata.
Submit(c, p, kind, slug, seo, status) ==
  /\ request[c] = Idle
  /\ p \in existing
  /\ posts[p].revision < MaxRevision
  /\ request' = [request EXCEPT ![c] =
       [stage |-> "submitted", kind |-> kind, post |-> p,
        revision |-> posts[p].revision, slug |-> slug, seo |-> seo,
        status |-> status, previous |-> NoRow]]
  /\ UNCHANGED <<existing, allocated, posts, redirects, former>>

\* saveContent and saveSeo first read the row (details), 404 if it is gone.
ReadPrevious(c) ==
  LET p == request[c].post IN
  /\ At(c, "submitted", {"content", "seo"})
  /\ IF p \in existing
       THEN /\ request' = [request EXCEPT ![c] =
                 [@ EXCEPT !.stage = "read", !.previous = posts[p]]]
            /\ UNCHANGED <<existing, allocated, posts, redirects, former>>
       ELSE Reject(c)

Dated(row, published) ==
  [row EXCEPT !.published = row.published \/ published]

\* save reads the row once more and refuses another address for a post that
\* has been published; saveContent always hands it the address it read before.
CheckContent(c) ==
  LET p == request[c].post IN
  /\ At(c, "read", {"content"})
  /\ IF /\ p \in existing
        /\ posts[p].published => posts[p].slug = request[c].previous.slug
       THEN /\ request' = [request EXCEPT ![c] =
                 [@ EXCEPT !.stage = "checked",
                           !.previous = Dated(request[c].previous, posts[p].published)]]
            /\ UNCHANGED <<existing, allocated, posts, redirects, former>>
       ELSE Reject(c)

\* Faulty variant: the WHERE clause compares the id only.
CurrentById(c) == request[c].post \in existing

\* The UPDATE ... WHERE id = ? AND revision = ? of a save finds its row.
Current(c) ==
  /\ request[c].post \in existing
  /\ posts[request[c].post].revision = request[c].revision

\* The row a content save writes: the metadata and address it read, the new
\* content, and a publication date as soon as there is a publication.
ContentRow(c) ==
  LET r == request[c] IN
  [slug      |-> r.previous.slug,
   revision  |-> posts[r.post].revision + 1,
   status    |-> r.status,
   published |-> r.previous.published \/ r.status = "published",
   seo       |-> r.previous.seo]

WriteContent(c) ==
  LET p == request[c].post IN
  /\ At(c, "checked", {"content"})
  /\ IF Current(c) /\ ~Occupied(request[c].previous.slug, p)
       THEN /\ posts' = [posts EXCEPT ![p] = ContentRow(c)]
            /\ Done(c)
            /\ UNCHANGED <<existing, allocated, redirects, former>>
       ELSE Reject(c)

\* The row a metadata save writes: its own fields, the content as it stands.
SeoRow(c) ==
  LET r   == request[c]
      row == posts[r.post] IN
  [slug      |-> r.slug,
   revision  |-> row.revision + 1,
   status    |-> row.status,
   published |-> row.published,
   seo       |-> r.seo]

\* saveSeo that keeps the address it read: one guarded UPDATE.
WriteSeo(c) ==
  LET p == request[c].post IN
  /\ At(c, "read", {"seo"})
  /\ request[c].slug = request[c].previous.slug
  /\ IF Current(c) /\ ~Occupied(request[c].slug, p)
       THEN /\ posts' = [posts EXCEPT ![p] = SeoRow(c)]
            /\ Done(c)
            /\ UNCHANGED <<existing, allocated, redirects, former>>
       ELSE Reject(c)

(***************************************************************************)
(* saveSeo with another address: the rename transaction                    *)
(***************************************************************************)

\* The new address carries an active redirect that does not lead back to the
\* address the post is leaving.
Reserved(old, new) ==
  /\ redirects[new].active
  /\ redirects[new] # BlogRule(old)

\* The old address already has a redirect that is not a blog redirect.
HandMade(s) == redirects[s].reason \notin {"none", "blog-slug"}

MayRename(c) ==
  LET p   == request[c].post
      old == request[c].previous.slug
      new == request[c].slug
  IN /\ Current(c)
     /\ posts[p].slug = old
     /\ ~Occupied(new, p)
     /\ ~Reserved(old, new)
     /\ posts[p].published => ~HandMade(old)

\* Faulty variant: earlier redirects keep leading to the address being left.
RelinkedLastOnly(old, new) ==
  [redirects EXCEPT ![old] = BlogRule(new), ![new] = NoRule]

\* DELETE the blog redirect of the new address, point the redirects that led
\* to the old address at the new one, and upsert old -> new.
Relinked(old, new) ==
  [s \in Slugs |->
    IF s = old THEN BlogRule(new)
    ELSE IF redirects[s].reason # "blog-slug" THEN redirects[s]
    ELSE IF s = new THEN NoRule
    ELSE IF redirects[s].dest = old
      THEN [reason |-> "blog-slug", dest |-> new, active |-> redirects[s].active]
    ELSE redirects[s]]

Rename(c) ==
  LET p   == request[c].post
      old == request[c].previous.slug
      new == request[c].slug
  IN /\ At(c, "read", {"seo"})
     /\ new # old
     /\ IF MayRename(c)
          THEN /\ posts' = [posts EXCEPT ![p] = SeoRow(c)]
               /\ IF posts[p].published
                    THEN /\ redirects' = Relinked(old, new)
                         /\ former' = [former EXCEPT ![p] = @ \cup {old}]
                    ELSE UNCHANGED <<redirects, former>>
               /\ Done(c)
               /\ UNCHANGED <<existing, allocated>>
          ELSE Reject(c)

\* remove: one guarded DELETE.  The redirects of the post stay behind.
Remove(c) ==
  LET p == request[c].post IN
  /\ At(c, "submitted", {"remove"})
  /\ IF Current(c)
       THEN /\ existing' = existing \ {p}
            /\ posts' = [posts EXCEPT ![p] = NoRow]
            /\ former' = [former EXCEPT ![p] = {}]
            /\ Done(c)
            /\ UNCHANGED <<allocated, redirects>>
       ELSE Reject(c)

(***************************************************************************)
(* The redirect manager of the SEO panel writes the same table.  A post's  *)
(* address is not a destination it accepts (only paths of SEO pages are),  *)
(* but any address may be a source.  Taking over or deleting the redirect  *)
(* of an old address ends the promise that it leads to its post.           *)
(***************************************************************************)

Released(s) == former' = [p \in Posts |-> former[p] \ {s}]

SaveRedirect(s, active) ==
  /\ redirects' = [redirects EXCEPT ![s] =
       [reason |-> "manual", dest |-> Page, active |-> active]]
  /\ Released(s)
  /\ UNCHANGED <<existing, allocated, posts, request>>

RemoveRedirect(s) ==
  /\ redirects[s].reason # "none"
  /\ redirects' = [redirects EXCEPT ![s] = NoRule]
  /\ Released(s)
  /\ UNCHANGED <<existing, allocated, posts, request>>

(***************************************************************************)
(* Specification                                                           *)
(***************************************************************************)

EditorStep ==
  \E c \in Clients :
    \/ \E p \in Posts :
         \/ \E st \in Statuses : Submit(c, p, "content", NoSlug, DefaultSeo, st)
         \/ \E s \in Slugs, v \in SeoValues : Submit(c, p, "seo", s, v, "draft")
         \/ Submit(c, p, "remove", NoSlug, DefaultSeo, "draft")
    \/ ReadPrevious(c)
    \/ CheckContent(c)
    \/ WriteContent(c)
    \/ WriteSeo(c)
    \/ Rename(c)
    \/ Remove(c)

Next ==
  \/ \E p \in Posts, s \in Slugs, st \in Statuses : Create(p, s, st)
  \/ EditorStep
  \/ \E s \in Slugs : \/ \E active \in BOOLEAN : SaveRedirect(s, active)
                      \/ RemoveRedirect(s)

Spec == Init /\ [][Next]_vars

(***************************************************************************)
(* Properties                                                              *)
(***************************************************************************)

\* Every address a post has ever been published under leads to it for as long
\* as the post is live and nobody took the redirect away, whatever other
\* posts, renames, reclaimed addresses and saves happen in between.
OldLinksResolve ==
  \A p \in existing : \A s \in former[p] : Live(p) => Resolves(s, p)

\* A blog redirect never leads to an address that is itself redirected by a
\* blog redirect: following one redirect is enough, and there is no loop.
OneHop ==
  \A s, t \in Slugs :
    redirects[s].reason = "blog-slug" /\ redirects[s].dest = t
      => redirects[t].reason # "blog-slug"

\* Ownership: a step that changes the content of a post leaves its address
\* and metadata as they are, and the other way round, although every save
\* writes all the columns from what it read earlier.
OwnFieldsOnly ==
  \A p \in existing \cap existing' :
    posts[p].status # posts'[p].status
      => posts[p].slug = posts'[p].slug /\ posts[p].seo = posts'[p].seo

FieldsKeepTheirOwner == [][OwnFieldsOnly]_vars

(***************************************************************************)
(* What the statements of a save come to                                   *)
(***************************************************************************)

Form(c) ==
  LET r == request[c] IN
  [half |-> [content |-> "content", seo |-> "metadata", remove |-> "both"][r.kind],
   row |-> r.post, revision |-> r.revision,
   value |-> IF r.kind = "content" THEN r.status
             ELSE IF r.kind = "seo" THEN [slug |-> r.slug, seo |-> r.seo]
             ELSE ""]

Atomic == INSTANCE AtomicSaves WITH
  Rows <- Posts, Contents <- Statuses, Metadata <- [slug : Slugs, seo : SeoValues], Public <- {"published"},
  rows <- [p \in existing |->
    [revision |-> posts[p].revision, content |-> posts[p].status,
     metadata |-> [slug |-> posts[p].slug, seo |-> posts[p].seo], dated |-> posts[p].published]],
  forms <- [c \in Clients |-> IF request[c] = Idle THEN [half |-> "none"] ELSE Form(c)]

\* However the reads and writes of saves, renames and removals interleave,
\* each of them takes place in one step or not at all, on the row its sender
\* was shown: it replaces the half its sender owns, and a post that has a
\* publication date keeps one.
SavesAtomic == Atomic!Spec
=============================================================================
