SPECIFICATION IrqFairSpec
CONSTANTS
    MaxTasks = 2
    BaseSlice = 1
    NoPriority = 1
    U32 = 3
    Priority = {0}
    Nap = {0, 2}
    EntryEndsIrq = TRUE
INVARIANT EoiIsOurs
PROPERTY TableFairSpec
PROPERTY NoEarlyWake
