SPECIFICATION SequencerSpec
CONSTANTS
    w1 = w1
    w2 = w2
    Peers = {w1, w2}
    Index <- MCIndex
    MaxPushes <- MCPushes
    Droppers = {w2}
    MaxClock = 3
    Coarse = FALSE
    Elapsed <- MCElapsed
INVARIANTS
    SameOrder
CHECK_DEADLOCK FALSE
