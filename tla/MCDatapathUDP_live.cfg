SPECIFICATION FairSpec
CONSTANTS
    SEQ_WINDOW_SIZE = 4
    MAX_XID = 3
    StartXids = {2}
    MAX_RETRANSMITS = 1
    MaxUnreplied = 1
    MaxEcho = 3
    MaxRequests = 0
    SwitchXids = {}
    Parts = 1
PROPERTIES
    SilenceIsDetected
    PendingIsSettled
CHECK_DEADLOCK FALSE
