CONSTANTS
    CirBufSize = 3
    MaxChunk = 2
    MaxBytes = 4
    CwndSize = 2
    StreamIds = {s1, s2}
    RwndSizes = {0, 1, 3}
    NoStream = NoStream
SYMMETRY Symmetry
SPECIFICATION SMSpec
CHECK_DEADLOCK FALSE
INVARIANTS
    SMTypeOK
    ConnectedIsSync
    InFlightIsHeld
    TerminalAfterAllAcked
    ParkedHasNoWork
    ReadLoopWaitsOnlyWhenFull
PROPERTIES
    OnlySentBytesLeave
