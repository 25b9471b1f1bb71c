SPECIFICATION Spec
CONSTANTS
    Callers <- MCCallers
    DirModes <- MCDirModes
    FileModes <- MCFileModes
INVARIANTS ClassesAgree OpenedCanBeUsed
