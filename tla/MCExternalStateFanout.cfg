SPECIFICATION FanoutSpec
CONSTANTS
  sensors = sensors
  gnss = gnss
  Reader = {sensors, gnss}
  MaxReaders = 2
  Capacity = 2
  MaxRecords = 4
  MaxOpens = 4
INVARIANTS
  NoSilentLoss
  ServedThroughCurrentQueue
CHECK_DEADLOCK FALSE
