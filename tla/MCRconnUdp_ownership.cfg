SPECIFICATION Spec
CONSTANTS
    MaxConns = 2
    MaxMsgs = 1
    MaxProbes = 1
INVARIANT
    CallerRetainsOwnership
CHECK_DEADLOCK FALSE
