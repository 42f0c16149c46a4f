SPECIFICATION Spec
CONSTANTS
    SEQ_WINDOW_SIZE = 4
    MAX_XID = 3
    StartXids = {1}
    MAX_RETRANSMITS = 1
    MaxUnreplied = 1
    MaxEcho = 0
    MaxRequests = 1
    SwitchXids = {0}
    Parts = 2
INVARIANT
    EveryPartDispatched
CHECK_DEADLOCK FALSE
