SPECIFICATION FairSpec
CONSTANTS
    MaxMsgs = 2
    BatchMax = 2
    MaxInflight = 2
    MaxRetries = 1
    Gapless = FALSE
    SeqMod = 100
    EpochMod = 100
    Faults <- Stalls
    MaxFaults = 2
INVARIANT HonestReports
PROPERTY Progress
CHECK_DEADLOCK FALSE
