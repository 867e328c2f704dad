CONSTANTS
    MaxTasks = 5
    BootTasks = 4
    MaxPid = 4
    ExitCodes = {}
    Endpoints = {1}
    MsgQueueSize = 2
    BufSize = 1
    Payloads = {1, 2}
    RxSize = 1
    CharMod = 3
SPECIFICATION FairServersSpec
PROPERTIES
    CallAnswered
