SPECIFICATION ProcessSpec
CONSTANTS
  Responses = {r1, r2, r3, r4}
  MaxInFlight = 2
  Visitors = {v1, v2}
  Places = {"p1"}
  Forms <- SomeForms
  Days <- SomeDays
  MaxLeads = 2
  MaxRestarts = 1
  Readers = {a, b}
  Raw <- SomeRaw
  MinRating = 4
  MinLength = 60
  MaxShown = 1
  CacheTtl = 3
  FailureRetry = 1
  MaxTime = 6
INVARIANTS WithinLimit CountedOnce ToldAtMostTwice VisitsNear
PROPERTIES SlotReturned Told AskedSeldom
CHECK_DEADLOCK FALSE
