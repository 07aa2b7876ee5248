SPECIFICATION Spec
CONSTANTS
    Brokers = {1, 2}
    Keys = {"k"}
    Reqs = {1, 2}
    CacheRoom = 1
    Retries = 1
    CoordCases <- RequestCases
    MaxQueries = 2
    Parts = 2
    AdminCases <- Calls
    MaxQueried = 2
    Members = {1, 2, 3}
    Topics = {1, 2}
    MaxParts = 3
    Groups <- GroupCases
    Changes = {"sub", "grow", "delete"}
INVARIANTS RequestsExact  GroupSound
PROPERTIES Sticky Progress
CHECK_DEADLOCK FALSE
