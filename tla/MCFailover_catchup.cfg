SPECIFICATION FSpec
CONSTANTS
    Nodes = {n1, n2, n3}
    NoOne = NoOne
    ObserverCap = 3
    MaxTerms = 2
    MaxLosses = 0
    MaxRestarts = 1
    MaxCloses = 0
    MaxListenFaults = 0
    MaxWrites = 2
 
PROPERTY CatchesUp
CHECK_DEADLOCK FALSE
