SPECIFICATION Spec
CONSTANTS
    EntryWords = 39
    FifoSize = 1
    Leftover = {33}
INVARIANT
    IrqReachesHandler
CHECK_DEADLOCK FALSE
