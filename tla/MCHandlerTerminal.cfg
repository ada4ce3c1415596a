CONSTANTS
    Requests = {r1, r2}
    TaskIds = {t1}
    t1 = t1
    t2 = t2
    Workloads <- SendsAndCancels
    StoredAtStart = {"Working"}
    AgentEvents <- MixedEvents
    CancelEvents <- CancelReply
    Capacity = 2
    MaxEvents = 2
    AgentsFinish = TRUE
    ClientsLeave = FALSE
    Nobody = Nobody
SPECIFICATION Spec
PROPERTIES
    TerminalIsFinal
CHECK_DEADLOCK FALSE
