SPECIFICATION Spec
CONSTANTS
  sensors = sensors
  Client = {sensors}
  MaxGeneration = 3
  MaxEpoch = 1
  MaxCalls = 1
  MaxLives = 1
INVARIANTS
  ExternalSourcesReturn
CHECK_DEADLOCK FALSE
