SPECIFICATION Spec
CONSTANTS
    MaxRow = 2
    MaxSub = 3
    MaxDepth = 5
    RowLimit = 2
INVARIANTS SubXactTypeOK WrittenOnce NothingKeptAtCommit
PROPERTY ImplementsHeap
