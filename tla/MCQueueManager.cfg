CONSTANTS
    Callers = {c1, c2, c3}
    Keys = {k1, k2}
    NoQueue = NoQueue
    MaxQueues = 4
SPECIFICATION Spec
SYMMETRY Symmetry
INVARIANTS
    RegisteredUntilRemoved
PROPERTIES
    ImplementsQueueMap
