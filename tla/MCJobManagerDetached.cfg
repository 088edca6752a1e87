CONSTANTS
    CirBufSize = 2
    MaxChunk = 1
    MaxBytes = 2
    CwndSize = 1
    StreamIds = {s1}
    RwndSizes = {0, 1}
    NoStream = NoStream
    Conns = {c1}
    NoConn = NoConn
SPECIFICATION FairJmSpec
CHECK_DEADLOCK FALSE
PROPERTY
    RunsWhileDisconnected
