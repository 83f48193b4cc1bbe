SPECIFICATION Spec
CONSTANTS
    None = None
    Fact = {}
    Late = {}
    Unread = {}
    Interval = 2
    Window = 3
    Motd = {empty, default}
    Default = default
    Empty = empty
    Uid = {ana}
    Ip = {ip1}
    MaxBans = 2
    MaxDay = 1
CONSTRAINT BansAlone
CHECK_DEADLOCK FALSE
PROPERTY PermanentBansHold
