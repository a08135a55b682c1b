SPECIFICATION FairWorkerSpec
CONSTANTS
    w1 = w1
    w2 = w2
    Peers = {w1, w2}
    Channels = {"exchange", "pipeline"}
    Pipelines = {"pipeline"}
    Threads = {"other"}
    Droppers = {w2}
    MaxMessages = 1
    MaxRequests = 1
INVARIANTS
    AsleepMeansIdle
    SchedulingInv
PROPERTIES
    MessagesPulled
    ActivationsHonoured
CHECK_DEADLOCK FALSE
