SPECIFICATION Spec
CONSTANTS
    SegmentMaxSize = 2
    MaxLSN = 5
    MaxRestarts = 0
    MaxFaults = 1
    PruneLSNs = {2, 3, 4}
    FromLSNs = {1, 2}
INVARIANT ReaderOrdered
PROPERTY PruneKeepsUnacked
