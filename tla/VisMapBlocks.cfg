SPECIFICATION Spec
CONSTANTS
    Writers = {w1}
    Readers = {r1}
    Overlap = FALSE
    K = 2
    MaxCount = 3
    MaxRow = 5
    MaxXid = 3
INVARIANTS SetsWholeBlocks IndexOnlyReadsVisible
CHECK_DEADLOCK FALSE
