CONSTANTS
    c1 = c1
    c2 = c2
    Calls = {c1, c2}
    Tenants = {"a"}
    Starts <- JsonGets
    ClientInterceptors = 1
    ServerInterceptors = 1
    HandlerErrors = {"TaskNotFound"}
    InterceptorErrors = {"Unauthenticated"}
    Losses = 0
SPECIFICATION Spec
INVARIANTS
    ErrorCodeKept
CHECK_DEADLOCK FALSE
