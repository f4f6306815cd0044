\* Three lines of one session, each any of the instance's lines.
CONSTANTS
    Names = {"root", "bin", "busybox", "sh", "tmp", "x"}
    MaxNodes = 12
    Lines <- AllLines
    MaxSegments = 3
    MaxDownloads = 1
    Applets = {"sh", "rm", "exit"}
    HelpText = {"exit"}
    MaxLines = 3
SPECIFICATION Spec
INVARIANTS
    TypeOK
    NoSharing
    ArmsTaken
    SplitAtSeparators
PROPERTIES
    NothingVanishes
CHECK_DEADLOCK FALSE
