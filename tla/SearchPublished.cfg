SPECIFICATION IndexSpec
CONSTANTS
  Ids = {1, 2}
  Contents = {a, b}
  None = None
  Calls = {c1, c2}
  Batch = 1
  PageSize = 1
  Failing = TRUE
  MaxSaves = 3
SYMMETRY Symmetry
INVARIANTS OnlyPublished SettledExact
PROPERTIES ListedArePublic
CHECK_DEADLOCK FALSE
