SPECIFICATION Spec
CONSTANTS
    DirentsPerBlock = 5
    Names = {a, b}
    LongNames = {l}
    Inums = {1, 5, 6}
    ByteRange = 4
    Rooms = {1}
    MaxChanges = 1
PROPERTY EntriesKeepInodes
