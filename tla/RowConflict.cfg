SPECIFICATION Spec
CONSTANTS
    Txns = {t1, t2}
    Maint = maint
    None = none
    Start <- OneGroup
    StartDeleted = {1}
    NumBuckets = 2
    MaxStmts = 2
    MaxRow = 5
    MaxGroup = 3
SYMMETRY TxnSymmetry
INVARIANTS RowConflictTypeOK EveryWriteCounts
CHECK_DEADLOCK FALSE
