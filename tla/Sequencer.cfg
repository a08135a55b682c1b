SPECIFICATION FairSequencerSpec
CONSTANTS
    w1 = w1
    w2 = w2
    Peers = {w1, w2}
    Index <- MCIndex
    MaxPushes <- MCPushes
    Droppers = {w2}
    MaxClock = 3
    Coarse = FALSE
    Elapsed <- MCElapsed
INVARIANTS
    ReleasedByTime
    SenderOrder
PROPERTIES
    EventuallyReleased
CHECK_DEADLOCK FALSE
