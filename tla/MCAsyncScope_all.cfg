SPECIFICATION FairSpec
CONSTANTS
  Obj = {o1, o2, o3, o4}
  Root = Root
  NoParent = NoParent
  EarlyDrop = TRUE
  LateDrop = FALSE
INVARIANTS
  TypeOK
  ChildrenFirst
  LockedIsAlive
  NoLostRequest
  NothingForgotten
PROPERTIES
  DestroyOnce
  ImplementsLifetime
  BlockingScopeReturns
  ImplementsLifetimeLive
CHECK_DEADLOCK FALSE
