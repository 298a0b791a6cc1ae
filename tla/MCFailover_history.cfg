SPECIFICATION FSpec
CONSTANTS
    Nodes = {n1, n2}
    NoOne = NoOne
    ObserverCap = 3
    MaxTerms = 2
    MaxLosses = 2
    MaxRestarts = 0
    MaxCloses = 0
    MaxListenFaults = 0
    MaxWrites = 2
PROPERTY HistoryPreserved
CHECK_DEADLOCK FALSE
