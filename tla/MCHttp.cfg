SPECIFICATION Spec
CONSTANTS
    f1 = f1
    f2 = f2
    Conn = {c1, c2}
    File = {f1, f2}
    NumBlocks = 4
    SendMax = 1
    Ahead = 3
    Start = {0, 2, 4, 5}
    Window = 2
    Environments <- All
    None = None
INVARIANTS TypeOK InOrder LatestHasChannel NoChannelLeftBehind
PROPERTIES KeepsToStore StreamEnds
CHECK_DEADLOCK FALSE
