CONSTANTS
    CirBufSize = 3
    MaxChunk = 2
    MaxBytes = 7
SPECIFICATION Spec
INVARIANTS
    TypeOK
    RingHoldsWindow
    NoLostWakeup
PROPERTY
    ImplementsWindow
