SPECIFICATION FairSpec
CONSTANTS
    NumBlocks = 1
    RequestMax = 2
    RequestTimeout = 1
    AreasMax = 1
    Channel = {1, 2}
    Closing = {}
    QueryInterval = 0
    SweepInterval = 0
PROPERTIES
    TimedOutIsRetried
