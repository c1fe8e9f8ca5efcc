SPECIFICATION GoneSpec
CONSTANTS
    NumBlocks = 2
    RequestMax = 2
    RequestTimeout = 0
    AreasMax = 2
    Viewer = {1, 2}
    Source = {3}
    QueryInterval = 0
    SweepInterval = 0
    SendBatch = 1
    Window = 2
    Reads <- WholeFile
    Leaving = {}
    NetCap = 12
    Garbage = Garbage
PROPERTIES
    WantedArrives
CHECK_DEADLOCK FALSE
