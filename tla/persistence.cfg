SPECIFICATION Spec
CONSTANTS
    None = None
    Fact = {early, late, builtin}
    Late = {late, builtin}
    Unread = {builtin}
    Interval = 2
    Window = 3
    Motd = {empty, default, welcome}
    Default = default
    Empty = empty
    Uid = {ana, bia}
    Ip = {ip1}
    MaxBans = 2
    MaxDay = 1
SYMMETRY Symmetry
CONSTRAINT Apart
CHECK_DEADLOCK FALSE
INVARIANTS
    TypeOK
    UnsavedInTime
PROPERTIES
    RowsGoOnRequest
    MotdKept
    FirstBansHold
