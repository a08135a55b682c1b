SPECIFICATION FairSpec
CONSTANTS
    w1 = w1
    w2 = w2
    Workers = {w1, w2}
    MaxTime = 1
    MaxObjects = 3
    Eager = FALSE
    Times <- MCTimes
    TimeLeq <- MCTimeLeq
    Operators <- LoopOps
    Locations <- LoopLocations
    Sources <- LoopSources
    OpOf <- LoopOpOf
    Step <- LoopStep
    Leq <- LoopLeq
    InitialCaps <- StartLoop
INVARIANTS
    FrontierSafe
    CompletionIsFinal
    IndInv
PROPERTIES
    FrontierMonotonic
    Implements
    FrontierAdvances
CHECK_DEADLOCK FALSE
