CONSTANTS
    p1 = p1
    p2 = p2
    r1 = r1
    t1 = t1
    t2 = t2
    t3 = t3
    k1 = k1
    k2 = k2
    k3 = k3
    TaskIds = {t1, t2, t3}
    Collected = t1
    States = {"Working", "Completed"}
    Closed = {"Completed"}
    Contents = {"old", "new"}
    ConfigIds = {k1, k2, k3}
    Generated = Generated
    Nothing = Nothing
    NoSize = NoSize
    Collectors = {p1, p2}
    Callers = {r1}
    Plans <- AllPlans
    DefaultPageSize = 2
    MaxPageSize = 2
    MaxFaults = 1
SPECIFICATION FairSpec
INVARIANTS
    Converges
    LastPostIsFinal
    StalePostsBounded
    PagesMakeTheList
PROPERTIES
    PagingEnds
    CollectorsEnd
CHECK_DEADLOCK FALSE
