SPECIFICATION Spec
CONSTANTS
    Buffers = {b1}
    Threads = {t1, t2}
    NoThread = NoThread
    MaxFaults = 1
    Bitrates <- MCBitrates
    MaxFrames = 3
    Capacity = 1
    PoolSize = 3
    InitialBitrate = 1
    Platforms <- MCPlatforms
    Requests <- MCRequests
    Devices <- MCDevices
    MaxSessions = 1
INVARIANTS
    OwnersOutlive
    NothingIsLeft
    CodecIsThere
    UnfencedBuffersAreIdle
PROPERTY KeepsContract
PROPERTY OutputIsGivenOut
CHECK_DEADLOCK FALSE
