SPECIFICATION Spec
CONSTANTS
  MaxBuffered = 2
  MaxStreams = 2
  MaxRecords = 2
  HalGenerations = {1, 2}
PROPERTIES
  SinkLossIsFlagged
  GenerationIsOneOutput
  DestructorReturns
CHECK_DEADLOCK FALSE
