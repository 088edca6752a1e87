CONSTANTS
    s1 = s1
    s2 = s2
    Sessions = {s1, s2}
    NoSession = NoSession
    Items <- MCItems
    BufSize = 3
    Timeout = 2
    MaxInputs <- MCMaxInputs
SPECIFICATION FairJISpec
CHECK_DEADLOCK FALSE
INVARIANTS
    NeverBlocks
    BoundedWait
    InOrderUnlessLate
PROPERTY
    QueuedReachesPty
