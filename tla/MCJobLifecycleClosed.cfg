CONSTANTS
    j1 = j1
    j2 = j2
    Jobs = {j1, j2}
    NoJob = NoJob
    Deleted = Deleted
    MaxFaults = 0
SPECIFICATION JLSpec
SYMMETRY Symmetry
INVARIANTS
    ClosedIsTerminated
