SPECIFICATION Spec
CONSTANTS
  MaxLength = 0
  MaxFloat = 5
  FloatChar = {"0", "8", "p", "x", "."}
  Inputs <- MCInputs
INVARIANT
  FloatsExact
CHECK_DEADLOCK FALSE
