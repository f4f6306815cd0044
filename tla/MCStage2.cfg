\* Three tasks of two sessions, tables of one entry and a short cooldown.
CONSTANTS
    t1 = t1
    t2 = t2
    t3 = t3
    s1 = s1
    s2 = s2
    Urls = {"u1", "u2", "u3", "u1 u2", "v1", "v2", "w1", "f1", "m1"}
    Http = {"u1", "u2", "u3", "u1 u2", "v1", "v2", "w1"}
    Malformed = {"m1"}
    WordsOf <- Words
    MaxUrls = 3
    MaxLoopValues = 2
    MaxLoopBody = 5
    Sessions = {s1, s2}
    Tasks = {t1, t2, t3}
    SessionOf <- Owners
    Pools <- AllPools
    HostOf <- Hosts
    Dedupe = 2
    MaxPerSession = 3
    MaxPerHost = 2
    MaxDepth = 1
    MaxTracked = 1
    MaxTime = 2
SYMMETRY TaskSymmetry
SPECIFICATION Spec
INVARIANTS
    BudgetsKept
    TablesBounded
    ScanExact
CHECK_DEADLOCK FALSE
