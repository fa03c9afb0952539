SPECIFICATION Spec
CONSTANTS
  flat = flat
  ad = ad
  slug = slug
  photos = photos
  x = x
  Keys = {flat, ad}
  Listings = {ad}
  Paths = {slug, p1}
  NoPath = NoPath
  Keep = Keep
  NoValue = NoValue
  Slug <- FlatSlug
  Columns = {}
  Entries = {photos}
  Values = {x}
  Bodies <- PhotosOrNot
  Clients = {c1, c2}
  MaxHops = 3
  Sources = {}
  MaxRevision = 3
  MaxCreated = 2
SYMMETRY Symmetry
INVARIANTS HistoryKept PathsUnique
PROPERTIES NothingUnseenReplaced
CHECK_DEADLOCK FALSE
