SPECIFICATION Spec
CONSTANTS
    Parts = {p}
    Retries = 1
    Confs <- All
    Started = TRUE
    Faults <- AnyFault
    MaxFaults = 1
    MaxB = 1
    MaxPos = 1
    Subs = {}
    MaxCalls = 0
INVARIANTS
    AssertsHold
    NoRedelivery
    
CHECK_DEADLOCK FALSE
