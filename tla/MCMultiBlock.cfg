SPECIFICATION PSpec
CONSTANTS
    N = 3
    Data = {d1}
    Torn = Torn
    None = None
    MaxSlots = 2
    ShortRet <- BothErrnos
    Counts <- PartcloneCounts
    TransientOpen = FALSE
    Factor = 1
    Garbage = 77
    Bitmap <- Full
    MaxBlocks = 2
INVARIANT EveryBlockIsRight
