SPECIFICATION Spec
CONSTANTS
    None = None
    Conn = {c1, c2, c3}
    Uid = {ana, bia}
    Nick = {n1, n2}
    Ip = {ip1}
    IpOf <- OneIp
    MaxClients = 2
    MaxPerIp = 3
    Caps = {1}
    TokenDraw = {TRUE}
    Trailing = TRUE
    DeleteLimit = 2
    MaxSid = 3
    MaxChan = 1
SYMMETRY Symmetry
CONSTRAINT Alone
CHECK_DEADLOCK FALSE
INVARIANTS
    TypeOK
    OneSessionPerIdentity
    DistinctNicks
PROPERTIES
    NobodyElseEvicted
