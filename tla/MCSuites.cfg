CONSTANTS
    MAX_TASKS = 9
    NULL = NULL
    SIZE_MOD = 32
    SystemTids <- MCSystemTids
    BootInfos <- MCBootInfos
    CallPrios = {1}
    MaxBootTasks = 2
    MIN_MSG_SIZE = 6
    Targets = {}
    Lengths = {6, 7, 8}
    Capacities = {}
    BufLengths = {}
    UART_MBX_SIZE = 128
    KeyLength = 7
    Periods = {2, 3, 8}
    MaxLate = 1
    Horizon = 80
    SuiteNames = {"G99_TS200", "G99_TS300", "G12_TS1", "G12_TS2"}
    Second = 3
    MBX_SIZE = 128
    MaxKeys = 1
SPECIFICATION SuiteSpec
INVARIANTS SuitePasses 
PROPERTY SuiteFinishes
CHECK_DEADLOCK FALSE
