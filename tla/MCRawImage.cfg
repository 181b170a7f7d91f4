SPECIFICATION RSpec
CONSTANTS
    N = 2
    Data = {d1}
    Torn = Torn
    None = None
    MaxSlots = 2
    ShortRet <- ErrnoSet
    Counts <- RawCounts
    TransientOpen = FALSE
    MaxBlocks = 2
INVARIANTS
    RTypeOK
    EveryBlockIsRight
    WritesShareOneHandle
    RequestsStayInMap
PROPERTY OnlyWritesTouchFile
