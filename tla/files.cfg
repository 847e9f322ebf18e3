SPECIFICATION FilesSpec
CONSTANTS
    Volumes <- MCVolumes
    Names = {"a", "b", "v", "x"}
    Lens = {1, 3, 6}
    SecPerClus = 2
    SectorSize = 2
    MaxFiles = 2
    EOC = 99
    BootDirs <- MCBootDirs
    Paths <- MCPaths
    FlagSets <- MCFlagSets
    MaxFilename = 3
    MaxInodes = 3
    MaxOpenFiles = 5
    SyncBase = 0
    DataBase = 2
    Sectors = 5
    Seeks = {4}
    Buffers = {b1}
    CurrentArch = 2
    Signature = 204
    Code <- MCCode
    IntMax = 31
    LongMax = 127
    Formats <- MCFormats
    Inputs <- MCInputs
    Nums = {0, 1, 3}
INVARIANTS
    ReadIsFile
    DirectoryIsSeen
    PathsStay
    AreasApart
    
    
PROPERTY
    CallReturns
CHECK_DEADLOCK FALSE
