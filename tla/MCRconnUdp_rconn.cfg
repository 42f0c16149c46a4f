SPECIFICATION FairSpec
CONSTANTS
    MaxConns = 2
    MaxMsgs = 3
    MaxProbes = 2
INVARIANTS
    TypeOK
    LayersAgree
    HelloIsFirst
    SentOnce
    FreedWhenGone
PROPERTY
    LossIsNoticed
CHECK_DEADLOCK FALSE
