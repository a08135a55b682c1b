SPECIFICATION FairSpec
CONSTANTS
    None = None
    Layouts <- MCLayouts
INVARIANTS Wired NoEarlySample OneChannel
PROPERTY AllJoined
