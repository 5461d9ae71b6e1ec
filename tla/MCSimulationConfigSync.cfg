SPECIFICATION Spec
CONSTANTS
  sensors = sensors
  Client = {sensors}
  MaxGeneration = 3
  MaxEpoch = 2
  MaxCalls = 1
  MaxLives = 2
INVARIANTS
  ConnectedIsRegistered
PROPERTIES
  EveryChangeIsSeen
CHECK_DEADLOCK FALSE
