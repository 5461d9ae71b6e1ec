SPECIFICATION Spec
CONSTANTS
  None = None
  SizeOf <- MCSizeOf
  MaxPackets = 3
  MaxBytes = 4
  MaxFrames = 6
  MaxConfigs = 2
PROPERTIES
  HostGetsDecodableStream
  RecoveryCompletes
CHECK_DEADLOCK FALSE
