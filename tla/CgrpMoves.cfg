SPECIFICATION LiveSpec
CONSTANTS
    Parts = {p, q}
    Retries = 1
    Confs <- Plain
    Started = TRUE
    Faults = {}
    MaxFaults = 0
    MaxB = 1
    MaxPos = 1
    Subs = {{p}}
    MaxCalls = 1
INVARIANT Handover
PROPERTY Progress
CHECK_DEADLOCK FALSE
