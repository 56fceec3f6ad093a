SPECIFICATION WindowSpec
CONSTANTS
    Writers = {w1}
    Readers = {}
    Coalesce = {TRUE}
    MaxLen = 1
    MaxPage = 2
    MaxXid = 6
    MaxGroup = 3
INVARIANT GroupsDisjoint
CHECK_DEADLOCK FALSE
