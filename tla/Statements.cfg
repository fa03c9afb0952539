SPECIFICATION StatementsSpec
CONSTANTS
  Kinds <- TwoKinds
  Span = 10
  OwnedKinds = {"apartment"}
  UnitKinds = {"apartment"}
  OldUsers <- SomeUsers
  OldLogins = {1}
  OldHomes <- SomeHomes
  OldWishes <- SomeWishes
  OldEnquiries <- SomeEnquiries
  OldInterests = {1}
  OldPosts = {1, 2}
  Varying <- SomeVarying
  Releases = {35, 55}
  MaxCrashes = 2
  MaxReverts = 1
  MaxStops = 2
  MaxUndone = 1
  Clients = {c1, c2}
  Phones = {p1}
  Emails = {e1}
  Limit = 1
  Window = 1
  Cooldown = 1
  TTL <- Lifetimes
  MaxAttempts = 1
  Failing = {"provider", "database"}
  MaxTime = 2
  MaxCodes = 3
SYMMETRY Symmetry
INVARIANTS OldPostsKept Imported RecordedIsDone StuckOnlyUnguarded CodesPerWindow LastAnsweredWorks VerifiedHasProof
CHECK_DEADLOCK FALSE
