SPECIFICATION Spec
CONSTANTS
    None = None
    Conn = {c1, c2, c3}
    Uid = {ana, bia, cid}
    Nick = {n1, n2, n3}
    Ip = {ip1}
    IpOf <- OneIp
    MaxClients = 3
    MaxPerIp = 3
    Caps <- NoLimit
    TokenDraw = {TRUE}
    Trailing = FALSE
    DeleteLimit = 3
    MaxSid = 3
    MaxChan = 2
CONSTRAINT NobodyLeaves
CHECK_DEADLOCK FALSE
SYMMETRY Symmetry
INVARIANT Seated
