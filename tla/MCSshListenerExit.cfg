\* One connection, one exec request after another, one of which exits.
CONSTANTS
    i1 = i1
    k1 = k1
    k2 = k2
    h1 = h1
    h2 = h2
    Ips = {i1}
    Conns = {k1}
    IpOf <- OneConnection
    Speakers = {k1}
    Channels = {h1, h2}
    ConnOf <- FirstConnection
    Kinds = {"exec"}
    Lines <- SomeLines
    MaxPerIp = 1
    MaxKeys = 1
    MaxCommands = 2
SPECIFICATION Spec
INVARIANT SegmentsRun
CHECK_DEADLOCK FALSE
