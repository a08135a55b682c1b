SPECIFICATION Spec
CONSTANTS
    w1 = w1
    w2 = w2
    Workers = {w1, w2}
    MaxTime = 1
    MaxRound = 1
    Starts <- MCStarts
    Eager = FALSE
INVARIANTS NestedSafe RestIsExact
PROPERTY NeverRetreats
CHECK_DEADLOCK FALSE
