SPECIFICATION FairSpec
CONSTANTS
  NPools = 3
  PoolSize <- MCPoolSize
  QueueCapacity = 2
  NoMsg = NoMsg
INVARIANTS
  TypeOK
  OwnedOnce
  NeverExhausted
PROPERTY
  Recycled
CHECK_DEADLOCK FALSE
