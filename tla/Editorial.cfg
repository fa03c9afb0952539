SPECIFICATION MCSpec
CONSTANTS
  Posts = {p1, p2}
  Slugs = {a, b, c, d}
  NoSlug = NoSlug
  Page = Page
  SeoValues = {plain, tuned}
  DefaultSeo = plain
  Clients = {c1, c2}
  MaxRevision = 4
SYMMETRY Symmetry
\* A system at rest is not stuck: every post is at the bound or nobody saves.
CHECK_DEADLOCK FALSE
INVARIANTS OldLinksResolve
PROPERTIES SavesAtomic
