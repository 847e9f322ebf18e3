SPECIFICATION ArmSpec
CONSTANTS
    EntryWords = 32
    FifoSize = 1
    Leftover = {33, 34}
    MaxTasks = 2
    BaseSlice = 2
    NoPriority = 2
    U32 = 3
    Priority = {0,2}
    Nap = {2}
    QueueSize = 1
    Payload = {"a"}
INVARIANTS
    AckedIsEnded
    ReportsAreWhole
PROPERTIES
    PortSpec
    
CHECK_DEADLOCK FALSE
