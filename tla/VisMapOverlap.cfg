SPECIFICATION Spec
CONSTANTS
    Writers = {w1, w2}
    Readers = {r1}
    Overlap = TRUE
    K = 2
    MaxCount = 3
    MaxRow = 5
    MaxXid = 3
SYMMETRY WriterSymmetry
INVARIANT IndexOnlyReadsVisible
CHECK_DEADLOCK FALSE
