SPECIFICATION IpcSpec
CONSTANTS
    MaxTasks = 2
    BaseSlice = 1
    NoPriority = 1
    U32 = 3
    Priority = {0}
    Nap = {0}
    QueueSize = 2
    Payload = {"a", "b"}
PROPERTIES
    MailboxSpec
    TableSpec
    
    NoResurrection
