SPECIFICATION Spec
CONSTANTS
    Writers = {w1}
    Readers = {r1}
    Coalesce = {TRUE, FALSE}
    MaxLen = 2
    MaxPage = 3
    MaxXid = 4
    MaxGroup = 3
INVARIANTS TypeOK NoOverlap SnapshotReadsIntact CommittedReadsIntact
PROPERTY TruncateLowersHighwater
CHECK_DEADLOCK FALSE
