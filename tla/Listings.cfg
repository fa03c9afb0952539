SPECIFICATION ListingsSpec
CONSTANTS
  Homes = {1, 2, 3, 6}
  Sites = {4, 5}
  Facts <- SomeFacts
  Guests = {1}
  Requests = {r1, r2}
  Queries <- SomeQueries
  PickLists <- SomePicks
  Paths <- SomePaths
  FallbackLimit = 1
  SameTypePool = 1
  OtherTypePool = 1
  SimilarLimit = 2
  PageSize = 2
  MaxItems = 2
  Mixes <- SomeMixes
  Wished = {3, 4}
  MaxEdits = 1
  MaxRows = 2
  MaxReaders = 1
  MaxUnlive = 1
INVARIANTS OnlyLiveShown SectionKept RailInOrder PagesComplete
PROPERTY TogglesTruly
SYMMETRY RequestSymmetry
CHECK_DEADLOCK FALSE
