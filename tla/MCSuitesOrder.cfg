CONSTANTS
    MAX_TASKS = 9
    NULL = NULL
    SIZE_MOD = 32
    SystemTids <- MCSystemTids
    BootInfos <- MCBootInfos
    CallPrios = {1}
    MaxBootTasks = 2
    MIN_MSG_SIZE = 6
    Targets = {}
    Lengths = {6, 7, 8}
    Capacities = {}
    BufLengths = {}
    UART_MBX_SIZE = 128
    KeyLength = 7
    Periods = {2, 3, 8}
    MaxLate = 1
    Horizon = 80
    SuiteNames = {"G12_TS2"}
    Second = 3
    MBX_SIZE = 128
    MaxKeys = 1
SPECIFICATION SuiteSpec
INVARIANT ExpectedOrder
CHECK_DEADLOCK FALSE
