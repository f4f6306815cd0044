\* Two processes that share the directory, one with two concurrent downloads.
CONSTANTS
    t1 = t1
    t2 = t2
    t3 = t3
    w1 = w1
    w2 = w2
    small = small
    large = large
    Payloads = {small, large}
    SizeOf <- Sizes
    MaxSize = 2
    Tasks = {t1, t2, t3}
    Procs = {w1, w2}
    ProcOf <- WorkerAndHoneypot
    MaxCrashes = 1
SPECIFICATION Spec
INVARIANTS
    NothingOversized
    NoTmpLeft
    RaisesOnlyInRace
    SealedUnlessCrashed
PROPERTIES
    SealsAreFinal
CHECK_DEADLOCK FALSE
