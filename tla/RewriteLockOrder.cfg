SPECIFICATION Spec
CONSTANTS
    Txns = {t1, t2}
    Maint = maint
    None = none
    Start <- TwoGroups
    StartDeleted = {}
    NumBuckets = 2
    MaxStmts = 1
    MaxRow = 4
    MaxGroup = 3
SYMMETRY TxnSymmetry
INVARIANT RewriteDeadlockSafe
CHECK_DEADLOCK FALSE
