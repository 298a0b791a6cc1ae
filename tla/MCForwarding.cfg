SPECIFICATION FSpec
CONSTANTS
    Nodes = {n1, n2}
    NoOne = NoOne
    ObserverCap = 2
    MaxTerms = 2
    MaxLosses = 1
    MaxRestarts = 1
    MaxCloses = 1
    MaxListenFaults = 1
    Kinds = {"op"}
INVARIANTS  LeaderDoesNotReplicate
 
 
CHECK_DEADLOCK FALSE
