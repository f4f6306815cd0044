SPECIFICATION Spec
CONSTANTS
    s1 = s1
    s2 = s2
    Sessions = {s1, s2}
    Excluded = {s2}
    Keep = 1
    Workloads <- MCWorkloads
    MaxFaults = 1
    MaxRotations = 2
    MaxReports = 2
INVARIANTS
    ReportComplete
    ReportOrdered
    LoggedIsReadable
CHECK_DEADLOCK FALSE
