SPECIFICATION HoldersSpec
CONSTANTS
  Obj = {a, b, c}
  Root = root
  NoParent = none
  None = nothing
  Holder = {h1, h2}
  Pointer = {p1, p2}
  EarlyDrop = TRUE
  LateDrop = FALSE
INVARIANT
  LocksProtect
PROPERTY
  ReturnsOrStops
CHECK_DEADLOCK FALSE
