SPECIFICATION MCSpec
CONSTANTS
  Properties = {"p1", "p2"}
  Projects = {"j1"}
  Listings = {"l1"}
  Paths = {"/flat-1", "/flat-2", "/villas", "/flats-in-peelamedu", "/flats-in-city", "/new", "/green-villas"}
  NoPath = "none"
  Slug <- SomeSlug
  OldSlug <- SomeOldSlug
  Group <- SomeGroup
  Place <- SomePlace
  City = "city"
  AutoPath <- SomeAutoPath
  Sections = {"photos"}
  Rows <- SomeRows
  Rules <- SomeRules
  PageForms <- SomeForms
  Callers = {c1, c2}
  Life = 1
  MaxClock = 2
  MaxChanges = 3
SYMMETRY Callers2
INVARIANTS SitemapIndexable RoutesFresh
CHECK_DEADLOCK FALSE
