SPECIFICATION Spec
CONSTANTS
    ByteBits = 4
    Files = {1, 2}
    BlockSize = 2
    PtrsPerBlock = 2
    NumDirect = 1
    NumIndirect = 1
    PadPointers = 2
    NumDataBlocks = 6
    IntMax = 7
    Sizes = {0, 1, 4, 5, 6, 16, 32, 33}
    Buffers = {1}
INVARIANTS FilesTypeOK BlocksHaveOneUse NothingLeaks BlocksCounted ReadsAreRight
PROPERTIES TornCallsStayLocal ImplementsByteFile
