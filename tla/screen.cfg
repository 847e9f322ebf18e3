SPECIFICATION ScreenSpec
CONSTANTS
    Size = 3
    Letter = {"d"}
    Symbol = {"1"}
    Silent = {"F1"}
    ReportKey = "d"
    Writer = {"w1", "w2"}
    Text <- MCText
    Color = {"green"}
    White = "white"
    NoColor = "none"
    Cols = 2
    Rows = 2
    U32 = 4
    Sizes <- MCSizes
    Vector = {0, 8, 13, 14}
    FW = 8
    FH = 16
    Uint = 65536
    Coord <- MCCoord
    Radius <- MCRadius
    Screen <- MCScreen
    Exception = {0, 2, 8, 9, 12, 13, 14, 17}
    Irq = {0, 1, 5}
INVARIANTS
    CursorInGrid
    
    ReportOnScreen
    FiguresRight
    FaultIsNamed
PROPERTY FifoSpec
 
PROPERTY CaseAtTyping
PROPERTY EveryKeyRead
CHECK_DEADLOCK FALSE
