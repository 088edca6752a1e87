CONSTANTS
    RWnd = 1
    CirBufSize = 1
    ChunkSize = 1
    MaxBytes = 2
    MaxConns = 3
    MaxCrashes = 1
    Terminals = {"eof", "error"}
    LoopPace = "any"
SPECIFICATION JSSpec
CHECK_DEADLOCK FALSE
INVARIANTS
    JSTypeOK
    FileInOrderUntilLate
    GapAccountsForLoss
    SeqTracksStream
    HeadWasReceived
    EofIsComplete
