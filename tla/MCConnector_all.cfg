SPECIFICATION ConnectSpec
CONSTANTS
  Clients = 5
  Concurrent = 3
  Wanted = 4
  AcceptFails = TRUE
  MayClose = TRUE
INVARIANTS
  ConnectTypeOK
  OneInFlight
  InOrder
PROPERTY
  ServedOrStarved
CHECK_DEADLOCK FALSE
