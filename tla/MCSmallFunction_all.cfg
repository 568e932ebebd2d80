SPECIFICATION Spec
CONSTANTS
  s1 = s1
  s2 = s2
  s3 = s3
  Slot = {s1, s2, s3}
  f = f
  g = g
  Callable = {f, g}
  None = None
INVARIANTS
  TypeOK
  Owned
  CallsWhatItHolds
SYMMETRY Symmetric
CHECK_DEADLOCK FALSE
