SPECIFICATION FairSpec
CONSTANTS
  Sockets = {s1, s2}
  UserFd = {u1, u2}
  Registers = {TRUE, FALSE}
  MaxCalls = 2
  MaxWaiting = 1
  MaxTable = 2
  Null = Null
INVARIANTS
  TypeOK
  Matched
  OneOwner
  HandledOnce
PROPERTIES
  ClosedIsAnswered
  StopEnds
CHECK_DEADLOCK FALSE
