\* Two fetcher processes store the same payload at the same time.
CONSTANTS
    t1 = t1
    t2 = t2
    t3 = t3
    w1 = w1
    w2 = w2
    small = small
    large = large
    Payloads = {small, large}
    SizeOf <- Sizes
    MaxSize = 2
    Tasks = {t1, t2}
    Procs = {w1, w2}
    ProcOf <- TwoWorkers
    MaxCrashes = 0
SPECIFICATION Spec
INVARIANT NeverRaises
CHECK_DEADLOCK FALSE
