CONSTANTS
    Uris = {u1, u2}
    u1 = u1
    u2 = u2
    Requests = {r1, r2}
    Agents = 3
    Origins <- CallerRequests
    Cards <- KnownCards
    Wishes <- SomeWishes
    Transports = {"jsonrpc", "rest", "grpc"}
    NoCard = NoCard
    OutOfScope = OutOfScope
    NoContext = NoContext
SPECIFICATION Spec
SYMMETRY Symmetry
INVARIANTS
    TypeOK
    OnItsOwnBehalf
    OnlySupported
    ReachesTheEnd
    CopiesBounded
    MetadataReachesTheEnd
CHECK_DEADLOCK FALSE
