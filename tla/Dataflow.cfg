SPECIFICATION Spec
CONSTANTS
    Never = 4
    Rounds = 1
    Benches <- MCBenches
INVARIANTS FrontierHonest OutputsRight InTimeOrder BarrierHolds NothingStuck
CHECK_DEADLOCK FALSE
