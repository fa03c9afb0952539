SPECIFICATION Spec
CONSTANTS
  Uploads = {u1, u2}
  Properties = {p1}
  Editors = {e1, e2}
  Owner = Owner
  Slots = {"files", "plans", "documents"}
  Failing = {Owner, "bucket"}
  MaxVersion = 3
SYMMETRY Symmetry
INVARIANTS MediaShown OwnerCanRetry
PROPERTIES NothingUnseenRemoved
CHECK_DEADLOCK FALSE
