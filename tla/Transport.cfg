SPECIFICATION FairSpec
CONSTANTS
    s1 = s1
    s2 = s2
    r1 = r1
    r2 = r2
    Senders = {s1, s2}
    Receivers = {r1, r2}
    Lead = s1
    LastChannel = 1
    Size <- MCSize
    InitialShift = 0
    Scenarios <- MCScenarios

INVARIANTS Conserved NoLostWakeup CleanEnd
PROPERTIES Implements Delivered ThreadsEnd FailureCascades
CHECK_DEADLOCK FALSE
