SPECIFICATION DriversSpec
CONSTANTS
    Slots = {0, 1, 2}
    Requests = {r1, r2}
    MaxPolls = 3
    None = None
    Lbas = {0, 1, 2, 3, 4}
    DISK_LIMIT_LBA = 3
    MAX_WRITE_SECTORS = 2
    SectorWords = 2
    U16 = 4
    Lengths = {2, 3, 4, 6, 10}
    Frames = {f1, f2}
    MaxTxPolls = 2
    MaxPackets = 2
    Counter = 4
    NoFrame = NoFrame
    NBus = 2
    NSlot = 2
    NFunc = 2
    MaxDevices = 2
    MaxFunctions = 3
    Machines <- MCMachines
    RtlIds = {"rtl"}
INVARIANTS
    
    OkIsTransfer
    SentIsMine
    
    CableFresh
    TableIsScan

    
CHECK_DEADLOCK FALSE
