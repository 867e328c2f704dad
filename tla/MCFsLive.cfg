CONSTANTS
    MaxTasks = 4
    BootTasks = 3
    MaxPid = 3
    ExitCodes = {}
    Endpoints = {2}
    MsgQueueSize = 1
    BufSize = 1
    Payloads = {1, 2}
    RxSize = 1
    CharMod = 3
SPECIFICATION FairServersSpec
PROPERTIES
    CallAnswered
