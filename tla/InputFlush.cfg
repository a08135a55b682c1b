SPECIFICATION FairSpec
CONSTANTS
    Never = 4
    Rounds = 1
    Benches <- MCBatches
PROPERTY Completes
CHECK_DEADLOCK FALSE
