SPECIFICATION Spec
CONSTANTS
    SEQ_WINDOW_SIZE = 4
    MAX_XID = 3
    StartXids = {1, 2}
    MAX_RETRANSMITS = 2
    MaxUnreplied = 1
    MaxEcho = 1
    MaxRequests = 1
    SwitchXids = {0, 3}
    Parts = 1
INVARIANTS
    TypeOK
    RetransmitBound
    CountMatchesWire
    GoneIsGone
    ReplySettlesPending
    PendingEchoIsUnreplied
    
    DispatchedOnce
CHECK_DEADLOCK FALSE
