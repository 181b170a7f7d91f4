SPECIFICATION NSpec
CONSTANTS
    N = 3
    Data = {d1}
    Torn = Torn
    None = None
    MaxSlots = 1
    ShortRet <- ErrnoSet
    Counts <- NtfsCounts
    TransientOpen = FALSE
    Factor = 1
    ByteBits = 8
    MaxSync = 1
    ShortErrno <- BothErrnos
    NtfsImages <- SmallImages
    MaxBlocks = 2
INVARIANTS
    NcTypeOK
    WritesShareOneHandle
    VerifyAcceptsOwnFile
    RequestsStayInMap
    BlockIsRight
