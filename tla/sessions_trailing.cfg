SPECIFICATION Spec
CONSTANTS
    None = None
    Conn = {c1, c2}
    Uid = {ana, bia}
    Nick = {n1, n2}
    Ip = {ip1}
    IpOf <- OneIp
    MaxClients = 1
    MaxPerIp = 3
    Caps = {1}
    TokenDraw = {TRUE}
    Trailing = TRUE
    DeleteLimit = 2
    MaxSid = 2
    MaxChan = 2
SYMMETRY Symmetry
CONSTRAINT FewBans
CHECK_DEADLOCK FALSE
INVARIANT NoDangling
