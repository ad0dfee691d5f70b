CONSTANTS
    MAX_LEVELS = 4
    MIN_BLK_SIZE = 2
    Sizes <- MCSizes
    NULL = NULL
    RTX_OK = RTX_OK
    RTX_ERR = RTX_ERR
    JUNK = JUNK
    MaxHeld = 4
SPECIFICATION Spec
INVARIANT NothingShared
