SPECIFICATION Spec
CONSTANTS
    SEQ_WINDOW_SIZE = 3
    MAX_XID = 6
    MaxLog = 6
INVARIANTS
    WindowIsBounded
    AscendingIsByAge
