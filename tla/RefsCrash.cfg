SPECIFICATION Spec
CONSTANTS
    ByteBits = 2
    BlockSize = 2
    NumInodes = 4
    InodesPerBlock = 2
    NumDataBlocks = 2
    Names = {a, b, c}
    Modes = {"rw"}
    FileSizes = {}
    NumDirect = 1
    DirentsPerBlock = 4
    LinkLimit = 8
    PastTable = {{0, 1}, {0, 2}}
    MaxCrashes = 2
    Follow = {}
INVARIANTS TreeOnDisk LinkDrift WriteThrough IInv CountInv NamesUnique ParentsAreLive
PROPERTY ImplementsNamespace
SYMMETRY NameSymmetry
