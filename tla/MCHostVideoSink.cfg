SPECIFICATION SinkSpec
CONSTANTS
  small = small
  medium = medium
  large = large
  bad = bad
  None = None
  Packet <- MCPacket
  Malformed = {bad}
  Batches <- MCBatches
  WireSize <- MCWireSize
  MaxPackets = 5
  MaxBytes = 7
INVARIANTS
  PacketAccounting
  ByteAccounting
  NoLostWakeup
PROPERTIES
  StopReturns
  PendingIsTaken
