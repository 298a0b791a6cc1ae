SPECIFICATION Spec
CONSTANTS
    Threads = {t1, t2}
    Ops <- RaceOps
    PropArgs <- PropA
    LabelArgs <- Labels
    ShardCount = 2
    UintMod = 16
    MaxNodes = 2
    MaxEdges = 2
    MaxCalls = 4
    MaxFaults = 1
INVARIANTS InEdgesComplete NodeCountExact AdditionsCommute
PROPERTY NodesStayDeleted
SYMMETRY Symmetry
CHECK_DEADLOCK FALSE
