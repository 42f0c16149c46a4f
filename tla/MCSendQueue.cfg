SPECIFICATION FairSpec
CONSTANTS
    MaxQ = 2
    MaxCalls = 5
    Transports = {"udp", "tcp"}
INVARIANTS
    TypeOK
    SemaphoreCountsFreePlaces
    CallOrder
    CloseIsLast
PROPERTIES
    BlockedSenderReturns
    QueuedMessageLeaves
    ImplementsOutbox
CHECK_DEADLOCK FALSE
