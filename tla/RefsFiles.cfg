SPECIFICATION FairSpec
CONSTANTS
    ByteBits = 3
    BlockSize = 2
    NumInodes = 3
    InodesPerBlock = 3
    NumDataBlocks = 4
    Names = {a, b}
    Modes = {"rw"}
    FileSizes = {0, 4}
    NumDirect = 3
    DirentsPerBlock = 3
    LinkLimit = 5
    PastTable = {{0, 1}, {0, 2, 4}}
    MaxCrashes = 1
    Follow = {"grew", "torn", "stale"}
INVARIANTS TypeOK NoSharedBlocks UsedIsMarked SizeBacked
PROPERTIES WritesStayHome CallReturns
