SPECIFICATION PSpec
CONSTANTS
    N = 3
    Data = {d1}
    Torn = Torn
    None = None
    MaxSlots = 2
    ShortRet <- BothErrnos
    Counts <- PartcloneCounts
    TransientOpen = TRUE
    Factor = 1
    Garbage = 77
    Bitmap <- Holey
    MaxBlocks = 2
INVARIANTS
    PTypeOK
    WritesShareOneHandle
    FirstBlockIsRight
PROPERTY OnlyWritesTouchFile
