SPECIFICATION MCSpec
CONSTANTS
  Fields = {builderId, builderName, status}
  Required = {}
  StatusField = status
  Source = builderId
  Copy = builderName
  Derived <- MCDerived
  Values = {v1, v2}
  Codes = {u1, u2}
  UnitValues = {w1}
  NoUnit = NoUnit
  Units = Units
  Clients = {c1, c2}
  MaxRevision = 3
SYMMETRY Symmetry
INVARIANTS RefusedForOverlap
PROPERTIES FieldsMerge UnitsMerge
CHECK_DEADLOCK FALSE
