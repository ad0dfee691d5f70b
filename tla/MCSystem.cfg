CONSTANTS
    MAX_TASKS = 3
    NULL = NULL
    SIZE_MOD = 16
    SystemTids <- MCSystemTids
    BootInfos <- MCBootInfos
    CallPrios = {2}
    MaxBootTasks = 0
    MIN_MSG_SIZE = 1
    Targets = {2}
    Lengths = {1}
    Capacities = {1}
    BufLengths = {1}
    UART_MBX_SIZE = 1
    KeyLength = 1
    Periods = {1}
    MaxLate = 1
    Horizon = 2
SPECIFICATION SysSpec
PROPERTY SuspensionWaits
CHECK_DEADLOCK FALSE
