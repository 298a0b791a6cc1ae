SPECIFICATION Spec
CONSTANTS
    SegmentMaxSize = 2
    MaxLSN = 4
    MaxRestarts = 1
    MaxFaults = 1
    PruneLSNs = {}
    FromLSNs = {}
 
INVARIANT SealedDurable
 
CHECK_DEADLOCK FALSE
