CONSTANTS
    Keys = {"%", "enter", "L", "T"}
    MaxKeys = 7
    Scripts = {}
    Handlers = {"clock"}
    Registers <- MCRegisters
    Apps = {}
    KCD_ROOM = 1
    CON_ROOM = 1
    UART_ROOM = 2
    HANDLER_ROOM = 1
    KCD_CMD_BUF_SIZE = 2
    Garbage = {"%"}
SPECIFICATION ConsoleSpec
PROPERTY CommandIsWhatWasTyped
CHECK_DEADLOCK FALSE
