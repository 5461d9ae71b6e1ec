SPECIFICATION Spec
CONSTANTS
  None = None
  Slot = {s1, s2}
  Stream = {m1, m2}
  Display = {d1, d2}
  Geometry = {g1, g2}
  Pointer = {p1}
  MaxPointers = 1
  MaxEpoch = 2
  MaxChanges = 2
SYMMETRY Symmetry
INVARIANTS
  BoundGeometryIsCurrent
CHECK_DEADLOCK FALSE
