SPECIFICATION Spec
CONSTANTS
    NumShards = 2
    QueueSize = 1
    Writers = {w1, w2}
    Txs = {t1}
    Compactor = Compactor
    Nobody = Nobody
    MaxWrites = 2
    MaxFaults = 1
    MaxCompacts = 1
INVARIANTS   TxAtomic 
 
CHECK_DEADLOCK FALSE
