SPECIFICATION FrontSpec
CONSTANTS
  MaxFunctions = 2
  MaxStatements = 2
INVARIANTS
  FrontTypeOK
  TreeSpellsInput
  RejectsAtFirstError
  ExitTellsOutcome
  OnlyAskedForTouched
CHECK_DEADLOCK FALSE
