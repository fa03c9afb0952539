SPECIFICATION Spec
CONSTANTS
  flat = flat
  ad = ad
  slug = slug
  photos = photos
  x = x
  Keys = {flat, ad}
  Listings = {ad}
  Paths = {slug, p1, p2, p3}
  NoPath = NoPath
  Keep = Keep
  NoValue = NoValue
  Slug <- FlatSlug
  Columns = {}
  Entries = {}
  Values = {x}
  Bodies <- Nothing
  Clients = {c1}
  MaxHops = 2
  Sources = {slug, p1}
  MaxRevision = 3
  MaxCreated = 2
SYMMETRY Symmetry
INVARIANTS NoLoops FormerPathsFollow
CHECK_DEADLOCK FALSE
