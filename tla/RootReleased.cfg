SPECIFICATION Spec
CONSTANTS
    ByteBits = 2
    BlockSize = 2
    NumInodes = 4
    InodesPerBlock = 2
    NumDataBlocks = 3
    Names = {a, b}
    Modes = {"rw"}
    FileSizes = {}
    NumDirect = 2
    DirentsPerBlock = 4
    LinkLimit = 8
    PastTable = {{0, 1}, {0, 2}}
    MaxCrashes = 0
    Follow = {"inum"}
PROPERTY ReleasesItsOwnInode
