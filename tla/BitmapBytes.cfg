SPECIFICATION Spec
CONSTANTS
    ByteBits = 3
    NValid = 4
    BlockSize = 3
INVARIANT BytesTypeOK
PROPERTIES ImplementsPool ReserveIsFresh FullIsOutOfBounds
