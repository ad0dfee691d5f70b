CONSTANTS
    MAX_TASKS = 4
    NULL = NULL
    SIZE_MOD = 16
    SystemTids <- MCSystemTids
    BootInfos <- MCBootInfos
    CallPrios <- MCCallPrios
    MaxBootTasks = 0
    MIN_MSG_SIZE = 1
    Targets = {3, 242}
    Lengths = {1}
    Capacities = {1}
    BufLengths = {1}
    UART_MBX_SIZE = 1
    KeyLength = 1
SPECIFICATION UartSpec
PROPERTIES OnlyInterruptsInvert LosslessFifo
