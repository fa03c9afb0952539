SPECIFICATION PanelsSpec
CONSTANTS
  hero = hero
  offers = offers
  menu = menu
  s1 = s1
  None = None
  Ads = {a1, a2}
  Uploads = {u1, u2, u3}
  Staff = {s1, s2}
  Takes <- AllPlacements
  Failing = {"imgproxy", "ratio", "database"}
  Reuse = {"ads"}
  BlankMobile = TRUE
  Users = {c1, c2}
  Texts = {x, y}
  Localities = {x}
  MaxRows = 2
  MaxRequests = 4
  NULL = NULL
  Contested = Contested
SYMMETRY Symmetry
INVARIANTS ImagesShown FitsPlacement SavesKept
CHECK_DEADLOCK FALSE
