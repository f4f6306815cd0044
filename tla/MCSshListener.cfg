\* Two connections from one address, two channels of any kind on the first.
CONSTANTS
    i1 = i1
    k1 = k1
    k2 = k2
    h1 = h1
    h2 = h2
    Ips = {i1}
    Conns = {k1, k2}
    IpOf <- SameAddress
    Speakers = {k1}
    Channels = {h1, h2}
    ConnOf <- FirstConnection
    Kinds = {"exec", "shell"}
    Lines <- ShortLines
    MaxPerIp = 1
    MaxKeys = 1
    MaxCommands = 2
SPECIFICATION FairSpec
INVARIANTS
    TypeOK
    SlotsMatchConnections
    ClosedOnce
    AuthRecorded
    VersionLoggedOnce
PROPERTIES
    NoCommandAfterClosed
    ChannelsEnd
CHECK_DEADLOCK FALSE
