CONSTANTS
    Size = 3
    Messages = {1, 2, 3}
SPECIFICATION MsgQueueSpec
INVARIANTS
    TailFollows
PROPERTIES
    IsBoundedQueue
