SPECIFICATION Spec
CONSTANTS
  Lease = 5
  Reconnect = 3
  Poll = 2
  displays = displays
  simulation = simulation
  power = power
  InProcess <- MCInProcess
  Remote <- MCRemote
INVARIANTS
  NoOrphanedControl
  NeverSleepsOverdue
PROPERTIES
  ExpiryIsNotEarly
  DestroyReturns
