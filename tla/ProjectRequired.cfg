SPECIFICATION Spec
CONSTANTS
  Fields = {name, type, status}
  Required = {type}
  StatusField = status
  Source = none
  Copy = none
  Derived <- MCDerived
  Values = {v1, v2}
  Codes = {u1}
  UnitValues = {w1}
  NoUnit = NoUnit
  Units = Units
  Clients = {c1, c2}
  MaxRevision = 4
PROPERTIES RequiredFieldsMerge
CHECK_DEADLOCK FALSE
