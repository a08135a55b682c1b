SPECIFICATION SlabSpec
CONSTANTS
    NoLimit = NoLimit
    InitialShift = 1
    Limit = 1
    MaxBuffers = 4
    MaxReserve = 3
    MaxWritten = 7
    MaxHeld = 3
INVARIANTS HeldStable ValidInOrder OnePlace
CHECK_DEADLOCK FALSE
