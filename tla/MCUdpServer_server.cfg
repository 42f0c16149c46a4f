SPECIFICATION FairSpec
CONSTANTS
    Addrs = {a1, a2}
    MaxRx = 2
    MaxDps = 3
    MaxDatagrams = 3
    MaxCloses = 2
INVARIANTS
    TypeOK
    LiveIsMapped
    ArrivalOrder
PROPERTY
    ServerGoesOn
CHECK_DEADLOCK FALSE
