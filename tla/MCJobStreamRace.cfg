CONSTANTS
    RWnd = 2
    CirBufSize = 2
    ChunkSize = 2
    MaxBytes = 4
    MaxConns = 2
    MaxCrashes = 0
    Terminals = {"eof"}
    LoopPace = "any"
SPECIFICATION JSSpec
CHECK_DEADLOCK FALSE
INVARIANT
    FileInOrder
