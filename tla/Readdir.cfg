SPECIFICATION Spec
CONSTANTS
    DirentsPerBlock = 5
    Names = {a, b, c}
    LongNames = {}
    Inums = {1, 2, 3}
    ByteRange = 4
    Rooms = {1, 2}
    MaxChanges = 0
PROPERTY UnreadAreCounted
