SPECIFICATION MCSpec
CONSTANTS
    t1 = t1  t2 = t2  p1 = p1  m1 = m1  m2 = m2
    Nobody = Nobody
    Hosts = {"b1", "b2"}
    Parts = {"p", "q"}
    Groups = {"g", "h"}
    MaxRetries = 1
    CallCases <- AllCalls
INVARIANT CallsTrue
PROPERTY Progress
CHECK_DEADLOCK FALSE
