CONSTANTS
    MAX_TASKS = 4
    NULL = NULL
    SIZE_MOD = 16
    SystemTids <- MCSystemTids
    BootInfos <- MCBootInfos
    CallPrios <- MCCallPrios
    MaxBootTasks = 0
    MIN_MSG_SIZE = 1
    Targets = {3}
    Lengths = {1, 2}
    Capacities = {2}
    BufLengths = {2}
    UART_MBX_SIZE = 2
    KeyLength = 1
SPECIFICATION MsgSpec
INVARIANTS BufferAccounts NoLostWakeup NoStuckSender WaitingListsExact WokenReceiverHasMessage
PROPERTY LosslessFifo
