\* One channel, scripts that list scripts, one worker, two crashes anywhere.
CONSTANTS
    s1 = s1
    c1 = c1
    c2 = c2
    Sessions = {s1}
    Channels = {c1}
    SessionOf <- OneChannel
    Workers = {w1}
    MaxDownloads = 1
    MaxDepth = 2
    MaxUrls = 2
    MaxJobs = 4
    MaxCommands = 2
    MaxCrashes = 2
SPECIFICATION FairSpec
PROPERTIES
    QueuedIsClaimed
    ClaimedIsAnswered
    DownloadAnswered
    FollowupsReported
