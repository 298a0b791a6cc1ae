SPECIFICATION Spec
CONSTANTS
    InitGraphs <- Graphs1
    Walks <- Walks1
    NewNodes <- Nodes1
    NewEdges <- Edges1
    Queries <- Queries1
    Prepared <- Prepared1
    Params = {1}
    IndexSets <- IndexSets1
    Streams <- Streams1
    Listings <- Listings1
    Capacity = 1
    MaxRows = 3
    MaxWrites = 1
    MaxSessions = 2
INVARIANTS WalkSound WalkExact  WritesExact ScansComplete
CHECK_DEADLOCK FALSE
