CONSTANTS
    c1 = c1
    c2 = c2
    Calls = {c1, c2}
    Tenants = {"a"}
    Starts <- AllStarts
    ClientInterceptors = 1
    ServerInterceptors = 2
    HandlerErrors = {"TaskNotFound", "ServerError"}
    InterceptorErrors = {"Unauthenticated"}
    Losses = 1
SPECIFICATION FairSpec
INVARIANTS
    ChosenIsBest
    AnswerExplained
    Nested
    OneTenant
PROPERTIES
    HttpCallsEnd
CHECK_DEADLOCK FALSE
