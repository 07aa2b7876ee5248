SPECIFICATION MCSpec
CONSTANTS
    TimerIds = {ta, tb}
    NoTimer = NoTimer
    Intervals = {1,2}
    Nap = 3
    MaxLate = 1
    MaxInterval = 4
    MaxCalls = 4
    r1 = r1
    r2 = r2
    Reqs = {r1, r2}
    AV = av
    Main = {r1}
    Blocking = {r1}
    High = {r2}
    Retriable = {r1, r2}
    MaxRetries = 1
    MaxInflight = 2
    Configs <- Configurations
INVARIANTS TimersSound RequestsKept StreamSound
PROPERTY Progress
CHECK_DEADLOCK FALSE
