SPECIFICATION MCSpec
CONSTANTS
    t1 = t1  t2 = t2  p1 = p1  p2 = p2  m1 = m1  m2 = m2  m3 = m3
    Nobody = Nobody
    Threads = {t1, t2}
    Pollers = {p1, p2}
    Msgs <- ThreeMsgs
    Size <- UnitSize
    Pinned = {m1}
    WithHdrs <- ThreeMsgs
    TooLarge = {}
    MaxCnt = 2
    MaxSize = 10
    Dissolve = "destroyMessageOpaque_"
    DrErrOnly = FALSE
    Src = Src
    Dst = Dst
    Recv = Recv
    Null = Null
    OpCount = 2
    High = {3}
    MaxCtl = 2
    Menus <- AllMenus
    MaxSets = 2
    MaxNews = 2
    SetCases <- AllSets
INVARIANTS
    Exclusive
    CountExact
    PayloadAnchored
    NoDoubleFree
    HeadersFreed
    NoAnchorLeak
    ReportOnce
    FlushDelivers
    ClosedClean
    QueuesSound
    
    BatchesTrue
CHECK_DEADLOCK FALSE
SYMMETRY Alike
