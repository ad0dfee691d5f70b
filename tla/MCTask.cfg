CONSTANTS
    MAX_TASKS = 5
    NULL = NULL
    SIZE_MOD = 16
    SystemTids <- MCSystemTids
    BootInfos <- MCBootInfos
    CallPrios <- MCCallPrios
    MaxBootTasks = 1
SPECIFICATION FairSpec
INVARIANTS TypeOK NoUndefined ReadyListsExact HighestPriorityRuns ExitedNeverRuns
PROPERTIES FirstComeFirstServed RoundRobin
