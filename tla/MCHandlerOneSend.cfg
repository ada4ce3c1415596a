CONSTANTS
    Requests = {r1, r2, r3}
    TaskIds = {t1}
    t1 = t1
    t2 = t2
    Workloads <- OneSend
    StoredAtStart = {"Working"}
    AgentEvents <- AgentRepertoire
    CancelEvents <- CancelReply
    Capacity = 2
    MaxEvents = 3
    AgentsFinish = TRUE
    ClientsLeave = FALSE
    Nobody = Nobody
SPECIFICATION FairSpec
INVARIANTS
    ConsumedWhileRunning
PROPERTIES
    TerminalIsFinal
    AnswerIsStored
    FinalStateStored
CHECK_DEADLOCK FALSE
