CONSTANTS
    none = none
    NoOp <- none
    Graphs <- AllGraphs
SPECIFICATION FairSpec
INVARIANTS TypeOK SumsComplete OpsOnce GrowsAllGradients ThrowsOnlyIfMixed
PROPERTIES Terminates
CHECK_DEADLOCK FALSE
