SPECIFICATION Spec
CONSTANTS
    Workers = {w1, w2}
    ChBuffer = 1
    Log <- GapLog
    MaxBreaks = 1
    MaxErrors = 1
    MaxResets = 1
    w1 = w1
    w2 = w2
INVARIANT WatermarkSound
INVARIANT NothingLost
PROPERTY RefinesAppliedPrefix
PROPERTY StoreConverges
CHECK_DEADLOCK FALSE
