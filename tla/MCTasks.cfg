CONSTANTS
    MaxTasks = 4
    BootTasks = 2
    MaxPid = 5
    ExitCodes = {0, 1}
SPECIFICATION TasksSpec
INVARIANTS
    TasksTypeOK
    PidsConsistent
    OneRunning
    WaitpidWakeable
    NoDanglingParent
    IdleOnlyWhenBlocked
    ReportedOnce
PROPERTIES
    KernelStackKept
    ExitNotLost
    FinishedAreFreed
    ReadyRuns
