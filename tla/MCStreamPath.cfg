CONSTANTS
    Kinds = {"StatusUpdate", "Message"}
    MaxEvents = 3
    Capacity = 1
    Bridge = 1
    Window = 6
    MaxRefused = 1
SPECIFICATION FairSpec
INVARIANTS
    NoMixture
    GapsShow
PROPERTIES
    IsFeed
    LastEventArrives
    ReceiverReleased
CHECK_DEADLOCK FALSE
