SPECIFICATION Spec
CONSTANTS
    MaxMsgs = 3
    BatchMax = 2
    MaxInflight = 2
    MaxRetries = 2
    Gapless = FALSE
    SeqMod = 100
    EpochMod = 100
    Faults <- LostAndBump
    MaxFaults = 2
INVARIANTS
    ExactlyOnceInOrder
CHECK_DEADLOCK FALSE
