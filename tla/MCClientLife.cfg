SPECIFICATION Spec
CONSTANT Environments <- AllEnvironments
INVARIANTS TypeOK NobodyLeftBehind CallsFindNetwork SendsOverConnection ConnectedMeansServed StopIsHeard
PROPERTY TriesAgain
CHECK_DEADLOCK FALSE
