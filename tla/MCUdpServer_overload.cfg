SPECIFICATION FairSpec
CONSTANTS
    Addrs = {a1, a2}
    MaxRx = 1
    MaxDps = 1
    MaxDatagrams = 3
    MaxCloses = 1
PROPERTY
    OverloadIsDropped
CHECK_DEADLOCK FALSE
