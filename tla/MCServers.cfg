CONSTANTS
    MaxTasks = 5
    BootTasks = 3
    MaxPid = 4
    ExitCodes = {0}
    Endpoints = {1, 2}
    MsgQueueSize = 2
    BufSize = 1
    Payloads = {1, 2}
    RxSize = 2
    CharMod = 4
SPECIFICATION ServersSpec
INVARIANTS
    RequestIntact
    HasBufferedExact
    IrqArmedWhileAsleep
    CharsInOrder
PROPERTIES
    ImplementsSyncCall
VIEW ServersView
