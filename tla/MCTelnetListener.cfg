SPECIFICATION Spec
CONSTANTS
    k1 = k1
    k2 = k2
    ip = ip
    Conns = {k1, k2}
    Ips = {ip}
    IpOf <- MCIpOf
    MaxPerIp = 1
    Messages <- MCMessages
    MaxChunk = 4
    MaxLine = 2
    AcceptAny = FALSE
    AllowList <- MCAllowList
    ValidUsernames <- MCValidUsernames
    PasswordList <- MCPasswordList
INVARIANTS
    SlotsAccounted
    LinesWhole
    ShellAfterLogin
PROPERTY SessionsEnd
CHECK_DEADLOCK FALSE
