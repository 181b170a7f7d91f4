SPECIFICATION Spec
CONSTANTS
    Factor = 1
    Garbage = 77
    MaxTotal = 6
    BitmapBytes = {0, 1, 2}
    Heads <- Layouts
INVARIANTS
    TypeOK
    CountsPrecedingBlocks
    ReadsWhereWritten
