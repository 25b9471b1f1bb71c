SPECIFICATION FairSpec
CONSTANTS
    DirentsPerBlock = 5
    Names = {a, b, c}
    LongNames = {}
    Inums = {1, 2, 3}
    ByteRange = 4
    Rooms = {1, 2}
    MaxChanges = 4
INVARIANTS DirectoryTypeOK MissesBounded NoneTwice
PROPERTY ListingEnds
