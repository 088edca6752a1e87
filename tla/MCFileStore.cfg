CONSTANTS
    f1 = f1
    Names = {f1}
    NoFile = NoFile
    Kinds = {"circular", "ijson"}
    MaxSize = 4
    Metas = {"m"}
    Data <- MCData
    Offsets = {0, 1, 2, 3, 4, 5, 6}
    PartSize = 2
    MaxParts = 4
    EntryIds = {1, 2, 3}
    NoEntry = 0
    Clients = {"c1", "c2"}
    Flushers = {"flusher"}
    MaxOps <- MCOps
    MaxFlushErrors = 1
    MaxFaults = 1
    BeforeWindow = FALSE
SPECIFICATION FairFSSpec
INVARIANT
    PinnedIsCached
PROPERTIES
    ImplementsAtomicFiles
    EventuallyFlushed
