SPECIFICATION Spec
CONSTANTS
  Obj = {o1, o2, o3}
  Root = Root
  NoParent = NoParent
  EarlyDrop = TRUE
  LateDrop = FALSE
INVARIANT
  JustWaiting
CHECK_DEADLOCK FALSE
