SPECIFICATION Spec
CONSTANTS
    BatchMax = 2
    SeqMod = 100
    EpochMod = 100
    Parts = {p1}
    MaxTxn = 2
    MaxFaults = 1
    MaxReqs = 1
    Started = TRUE
INVARIANTS LogSound InSync TxnSound
PROPERTY Atomic
CHECK_DEADLOCK FALSE
