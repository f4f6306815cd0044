\* One process, a crash between two steps of a capture, and a second fetch.
CONSTANTS
    t1 = t1
    t2 = t2
    t3 = t3
    w1 = w1
    w2 = w2
    small = small
    large = large
    Payloads = {small, large}
    SizeOf <- Sizes
    MaxSize = 2
    Tasks = {t1, t2, t3}
    Procs = {w1}
    ProcOf <- OneProcess
    MaxCrashes = 1
SPECIFICATION Spec
INVARIANT SuccessMeansSealed
CHECK_DEADLOCK FALSE
