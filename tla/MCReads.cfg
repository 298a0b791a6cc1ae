SPECIFICATION Spec
CONSTANTS
    Ids = {n1, n2}
    Pairs = {e1}
    Stored = {n1}
    Hash <- PairHash
    Budget = 2
    Writers = {w1}
    PoolWorkers = {p1}
    QueueFactor = 1
    TaskLists <- Calls
    n1 = n1
    n2 = n2
    e1 = e1
    MaxVersion = 2
    MaxWrites = 2
    MaxCalls = 2
    MaxStops = 1
INVARIANTS CacheSound  ResultsInOrder
PROPERTY PoolEnds
CHECK_DEADLOCK FALSE
