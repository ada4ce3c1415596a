CONSTANTS
    Requests = {r1, r2}
    TaskIds = {t1}
    t1 = t1
    t2 = t2
    Workloads <- AnyCollectors
    StoredAtStart = {"NoTask", "Working"}
    AgentEvents <- MixedEvents
    CancelEvents <- CancelReplies
    Capacity = 1
    MaxEvents = 2
    AgentsFinish = TRUE
    ClientsLeave = FALSE
    Nobody = Nobody
SPECIFICATION FairSpec
INVARIANTS
    NobodyWaitsInVain
PROPERTIES
    AnsweredOrDeserted
CHECK_DEADLOCK FALSE
