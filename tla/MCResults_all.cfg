SPECIFICATION Spec
CONSTANTS
  r1 = r1
  r2 = r2
  r3 = r3
  Slot = {r1, r2, r3}
  o1 = o1
  o2 = o2
  o3 = o3
  o4 = o4
  Obj = {o1, o2, o3, o4}
  Null = Null
INVARIANTS
  TypeOK
  OneOwner
  CheckedAccess
SYMMETRY Symmetric
CHECK_DEADLOCK FALSE
