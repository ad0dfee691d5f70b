CONSTANTS
    Keys = {"%", "enter", "L", "T"}
    MaxKeys = 5
    Scripts <- MCScripts
    Handlers <- MCHandlers
    Registers <- MCRegisters
    Apps = {"app"}
    KCD_ROOM = 1
    CON_ROOM = 1
    UART_ROOM = 2
    HANDLER_ROOM = 1
    KCD_CMD_BUF_SIZE = 2
    Garbage = {"T"}
SPECIFICATION ConsoleSpec
INVARIANTS EchoesInOrder AnswersAgree
PROPERTY EveryKeyShown
CHECK_DEADLOCK FALSE
