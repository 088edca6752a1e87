CONSTANTS
    ReadWindow = 2
    RwndThreshold = 2
    MaxChunk = 2
    MaxBytes = 3
    MaxRepeats = 1
SPECIFICATION FairSCSpec
CHECK_DEADLOCK FALSE
INVARIANTS
    SCTypeOK
    BufferInOrder
    WithinWindow
    WaitersHaveNoWork
PROPERTIES
    ImplementsPipe
    WritesReturn
    StreamEnds
