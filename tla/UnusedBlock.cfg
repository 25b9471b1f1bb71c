SPECIFICATION Spec
CONSTANTS
    ByteBits = 3
    BlockSize = 2
    NumInodes = 3
    InodesPerBlock = 3
    NumDataBlocks = 3
    Names = {a, b}
    Modes = {"rw"}
    FileSizes = {0, 1}
    NumDirect = 2
    DirentsPerBlock = 4
    LinkLimit = 8
    PastTable = {{0, 1}, {0, 2}}
    MaxCrashes = 0
    Follow = {"stale"}
PROPERTY ReservesUnusedBlock
