SPECIFICATION Spec
CONSTANTS
    Threads = {t1}
    Ops <- CheckedOps
    PropArgs <- PropAB
    LabelArgs <- Labels
    ShardCount = 2
    UintMod = 16
    MaxNodes = 2
    MaxEdges = 2
    MaxCalls = 4
    MaxFaults = 0
INVARIANTS ReplayEqual AdjacencyExact LabelsExact NoDangling
CHECK_DEADLOCK FALSE
