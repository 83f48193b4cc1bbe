SPECIFICATION FairSpec
CONSTANTS
    None = None
    Conn = {c1, c2}
    Uid = {ana, bia}
    Nick = {n1, n2}
    Ip = {ip1, ip2}
    IpOf <- TwoIps
    MaxClients = 2
    MaxPerIp = 3
    Caps = {1}
    TokenDraw = {TRUE}
    Trailing = FALSE
    DeleteLimit = 2
    MaxSid = 2
    MaxChan = 2
CONSTRAINT OneByOne
CHECK_DEADLOCK FALSE
INVARIANTS
    NoDangling
    NothingLeftBehind
    NoGhosts
    BannedAreGone
    Seated
PROPERTIES
    RoomForOne
    ImplementsRoster
    SessionsAreFreed
    TempRoomsVanish
