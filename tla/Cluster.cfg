SPECIFICATION Spec
CONSTANTS
    Brokers = {1, 2}
    Wanted <- AnyPartition
    MsgCount = 2
    MaxObjs = 6
    Cases <- TopicCases
    Topics <- TwoTopics
    Local <- OneTopic
    MaxAge = 2
    HintAge = 1
    NegAge = 1
    Retries = 1
    CacheCases <- MetadataCases
INVARIANTS  CacheSound
PROPERTY Progress
CHECK_DEADLOCK FALSE
