CONSTANTS
    Clients = {c1, c2}
    TaskIds = {t1, t2}
    Contents = {x, y}
    NoEntry = NoEntry
    Idle = Idle
    FirstVersion = 1
    MaxVersion = 4
SPECIFICATION Spec
INVARIANTS
    VersionInv
PROPERTIES
    NoLostUpdate
    ConditionalSaveAdvances
    ImplementsLinkedStore
CHECK_DEADLOCK FALSE
