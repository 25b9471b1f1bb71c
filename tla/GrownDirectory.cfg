SPECIFICATION Spec
CONSTANTS
    ByteBits = 3
    BlockSize = 2
    NumInodes = 3
    InodesPerBlock = 3
    NumDataBlocks = 3
    Names = {a, b}
    Modes = {"rw"}
    FileSizes = {}
    NumDirect = 2
    DirentsPerBlock = 3
    LinkLimit = 8
    PastTable = {{0, 1}, {0, 2}}
    MaxCrashes = 0
    Follow = {}
INVARIANT CreatedIsFound
