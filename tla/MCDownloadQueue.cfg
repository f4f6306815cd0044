\* Two channels of one session, two fetcher workers, one crash anywhere.
CONSTANTS
    s1 = s1
    c1 = c1
    c2 = c2
    Sessions = {s1}
    Channels = {c1, c2}
    SessionOf <- SharedSession
    Workers = {w1, w2}
    MaxDownloads = 2
    MaxDepth = 1
    MaxUrls = 1
    MaxJobs = 3
    MaxCommands = 3
    MaxCrashes = 1
SYMMETRY WorkerSymmetry
SPECIFICATION Spec
INVARIANTS
    TypeOK
    FetchedAtMostOnce
    JobFilesWhole
    FollowupsAfterResult
    OutcomeLoggedOnce
    OutcomeTruthful
    FanOutBounded
PROPERTIES
    ClaimsArePermanent
    ImplementsJobService
