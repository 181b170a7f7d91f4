SPECIFICATION Spec
CONSTANTS
    BlockSize = 2
    BlockCount = 2
    InitBuf = 2
    MaxQueue = 1
    MaxRequests = 2
INVARIANTS
    QTypeOK
    BufferInBounds
    StoresOwnPayload
    StaysInSync
PROPERTIES
    ImplementsDevice
    RequestIsAnswered
CHECK_DEADLOCK FALSE
