SPECIFICATION Spec
CONSTANTS
  FrameInterval = 2
  Times <- MCTimes
  Word = 16
  Buffer = {1}
  Config <- MCConfig
  FirstConfig <- MCFirstConfig
  InitialDelay = 1
  RepeatInterval = 2
  ReconnectInterval = 1
  DrainLimit = 2
  LastTimestamp = 6
  Offsets <- MCOffsets
  MaxTime = 3
  MaxGeneration = 2
  MaxOutputs = 2
INVARIANTS
  RateIsKept
  OnlyCrowdedFramesAreDropped
  ConfigIsCurrent
  BuffersAreCurrent
  PendingIsExact
  RepeatedFrameIsRetained
PROPERTIES
  OutputIsTaken
  HostIsAccepted
CHECK_DEADLOCK FALSE
