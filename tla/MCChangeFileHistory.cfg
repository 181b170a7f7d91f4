SPECIFICATION HSpec
CONSTANTS
    N = 2
    Data = {d1, d2}
    Torn = Torn
    None = None
    MaxSlots = 2
    ShortRet <- BothErrnos
    Counts <- ClientCounts
    TransientOpen = FALSE
INVARIANTS
    AckedWritesReadBack
    NoBlockBeforeMap
    TypeOK
    MapsLeadToOwnSlots
    HandleCoversFile
    UsedCountCoversMap
PROPERTIES
    MapEntriesArePermanent
    ImplementsOverlay
