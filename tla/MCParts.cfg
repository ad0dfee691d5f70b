CONSTANTS
    CAPACITY = 7
    MSG_HDR_SIZE = 2
    Byte <- MCByte
    LengthField <- MCLengthField
    Messages <- MCMessages
    Lengths = {1, 2, 5}
    FreshMemory <- MCFresh
    Commands <- MCCommands
    BUF_LEN = 11
    MaxJobs = 6
SPECIFICATION PartsSpec
INVARIANTS RingTypeOK RingShape BytesInOrder DisplayIsSettable
PROPERTIES FifoRefinement OneSecondPerJob
CHECK_DEADLOCK FALSE
