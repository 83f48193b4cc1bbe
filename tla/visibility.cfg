SPECIFICATION Spec
CONSTANTS
    Uid = {ana}
    MaxGroup = 4
    MaxChan = 3
    MaxRestarts = 1
    MaxMoves = 2
    Ruled = {2, 4}
    Rules <- Hide
    ByUid = TRUE
    Console = TRUE
CONSTRAINT Small
CHECK_DEADLOCK FALSE
INVARIANTS
    TypeOK
    TreeIsWhole
    OrderFree
PROPERTIES
    NewGroupsChangeNoView
    TreeStaleOnlyBy
