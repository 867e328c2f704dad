CONSTANTS
    MaxTasks = 4
    BootTasks = 3
    MaxPid = 4
    ExitCodes = {0}
    Endpoints = {1}
    MsgQueueSize = 2
    BufSize = 1
    Payloads = {1}
SPECIFICATION IpcSpec
INVARIANTS
    IpcTypeOK
    SleepMatchesChannel
    ReceiverRecorded
    OneBufferedMessage
    RunnableCountExact
VIEW KernelView
