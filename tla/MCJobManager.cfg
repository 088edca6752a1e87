CONSTANTS
    CirBufSize = 2
    MaxChunk = 1
    MaxBytes = 1
    CwndSize = 1
    StreamIds = {s1, s2}
    RwndSizes = {0, 1}
    NoStream = NoStream
    Conns = {c1, c2}
    NoConn = NoConn
SYMMETRY Symmetry
SPECIFICATION JmSpec
CHECK_DEADLOCK FALSE
INVARIANTS
    JmTypeOK
    ClientAgrees
    PendingIsCurrent
    CorkHolds
    CallsGoOn
PROPERTY
    UsesStreamManager
