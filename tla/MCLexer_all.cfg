SPECIFICATION FairSpec
CONSTANTS
  MaxLength = 4
  MaxFloat = 6
  FloatChar = {"0", "8", "e", "p", "x", ".", "+"}
  Inputs <- MCInputs
INVARIANTS
  TypeOK
  Tiled
  ConstantsWhole
PROPERTY
  ReachesEnd
CHECK_DEADLOCK FALSE
