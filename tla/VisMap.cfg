SPECIFICATION Spec
CONSTANTS
    Writers = {w1, w2}
    Readers = {r1}
    Overlap = FALSE
    K = 2
    MaxCount = 3
    MaxRow = 4
    MaxXid = 3
SYMMETRY WriterSymmetry
INVARIANTS VisMapTypeOK IndexOnlyReadsVisible SetBitsCoverOldInserts
CHECK_DEADLOCK FALSE
