CONSTANTS
    MAX_TASKS = 4
    NULL = NULL
    SIZE_MOD = 16
    SystemTids <- MCSystemTids
    BootInfos <- MCBootInfos
    CallPrios <- MCCallPrios
    MaxBootTasks = 0
    Periods = {1, 2}
    MaxLate = 2
    Horizon = 5
SPECIFICATION RtFairSpec
INVARIANTS RtTypeOK EarliestDeadlineFirst SuspendedExact ReadyListsExact
PROPERTIES ReleasedOnTime DeadlinesOnGrid EveryJobRuns
CHECK_DEADLOCK FALSE
