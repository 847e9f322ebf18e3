SPECIFICATION CarefulFairSpec
CONSTANTS
    MaxTasks = 3
    BaseSlice = 2
    NoPriority = 3
    U32 = 4
    Priority = {0, 1, 3}
    Nap = {0, 1}
INVARIANT CountAccurate
PROPERTY SleepersWake
PROPERTY BestReadyRuns
