SPECIFICATION LiveSpec
CONSTANTS
    b1 = b1
    b2 = b2
    Brokers = {b1, b2}
    None = None
    Logs <- Transactional
    AutoReset <- Latest
    Starts <- Positions
    Seeks <- Seekable
    Calls = {"seek", "stop", "pause", "resume"}
    Flags = {"app", "lib"}
    QueuedMin = 2
    MaxLookups = 2
    Faults = {"migrate", "disconnect", "error", "lookup", "retention"}
    MaxEvents = 3
INVARIANT Delivered
PROPERTY Consumes
CHECK_DEADLOCK FALSE
