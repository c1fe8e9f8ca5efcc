SPECIFICATION FairSpec
CONSTANTS
    NumBlocks = 1
    RequestMax = 2
    RequestTimeout = 1
    AreasMax = 1
    Channel = {1, 2}
    Closing = {1}
    QueryInterval = 0
    SweepInterval = 0
INVARIANTS
    TypeOK
PROPERTIES
    NoEarlyRetry
    FirstChannelIsServed
