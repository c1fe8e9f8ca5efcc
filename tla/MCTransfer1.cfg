SPECIFICATION JoinSpec
CONSTANTS
    NumBlocks = 3
    RequestMax = 2
    RequestTimeout = 0
    AreasMax = 2
    Viewer = {1, 2}
    Source = {3}
    QueryInterval = 0
    SweepInterval = 0
    SendBatch = 1
    Window = 1
    Reads <- MovingReads
    Leaving = {1}
    NetCap = 2
    Garbage = Garbage
INVARIANTS
    TypeOK
    Integrity
PROPERTIES
    ArrivedIsKept
    OneRequestPerBlock
    ImplementsStore
CHECK_DEADLOCK FALSE
