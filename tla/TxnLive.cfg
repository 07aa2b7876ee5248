SPECIFICATION LiveSpec
CONSTANTS
    Parts = {p1}
    MaxTxn = 1
    MaxFaults = 1
    MaxReqs = 1
    Faults <- Benign
    ApiTimeouts = {}
    Started = FALSE
PROPERTY
    CallsReturn
CHECK_DEADLOCK FALSE
