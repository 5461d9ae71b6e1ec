SPECIFICATION Spec
CONSTANTS
  None = None
  Slot = {s1, s2}
  Stream = {m1, m2}
  Display = {d1, d2}
  Geometry = {g1, g2}
  Pointer = {p1, p2, p3}
  MaxPointers = 2
  MaxEpoch = 2
  MaxChanges = 2
SYMMETRY Symmetry
INVARIANTS
  ExclusiveLeases
  PointersAreOwned
  HostKnowsItsBindings
CHECK_DEADLOCK FALSE
