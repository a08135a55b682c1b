SPECIFICATION FairSpec
CONSTANTS
    Locations <- MCLocations
    LocationOrd <- MCLocationOrd
    ScopeInputs = {"in"}
    ScopeOutputs = {"out"}
    Times <- MCTimes
    TimeLeq <- MCTimeLeq
    TimeOrd <- MCTimeOrd
    Step <- MCStep
    Leq <- MCLeq
    OuterTimes <- MCOuterTimes
    OuterLeq <- MCOuterLeq
    OuterOrd <- MCOuterLeq
    to_outer <- MCToOuter
    MaxUpdates = 3
INVARIANTS
    FrontierExact
    TrackerInv
    OutputsExact
    StructuresExact
PROPERTIES
    Terminates
CHECK_DEADLOCK FALSE
