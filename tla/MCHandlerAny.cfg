CONSTANTS
    Requests = {r1, r2}
    TaskIds = {t1, t2}
    t1 = t1
    t2 = t2
    Workloads <- AnyOperations
    StoredAtStart = {"NoTask"}
    AgentEvents <- MixedEvents
    CancelEvents <- CancelReply
    Capacity = 1
    MaxEvents = 1
    AgentsFinish = FALSE
    ClientsLeave = TRUE
    Nobody = Nobody
SPECIFICATION Spec
SYMMETRY Symmetry
INVARIANTS
    NoOwnEventMissed
    NoLeakedQueue
    OnlyCancelAborts
    StoreHasSource
    HandlerInv
PROPERTIES
    UsesQueueMap
CHECK_DEADLOCK FALSE
