SPECIFICATION FairSpec
CONSTANTS
  Clients = 5
  Concurrent = 2
  Wanted = 5
  AcceptFails = FALSE
  MayClose = FALSE
PROPERTY
  EveryoneServed
CHECK_DEADLOCK FALSE
