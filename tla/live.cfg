SPECIFICATION LiveFairSpec
CONSTANTS
    \* EventStore
    Events = {1, 2}
    LastDay = 2
    Retention = 1
    Batch = 2
    MaxFaults = 1
    MaxLogs = 1
    Rewrites = {"replace"}
    Missing = Missing
    \* StdoutLog
    MaxRow = 2
    OutKinds = {"start", "done"}
    OutIds = {"r1"}
    OutMax = 3
    OutFull = 3
    OutFaults = 1
    SlowPass = FALSE
    \* Jobs
    JobNames = {"cron", "hook"}
    JobHooks = {"hook"}
    Overlaps = {}
    Timed = {"hook"}
    JobRuns = {"r1", "r2"}
    MaxJobOps = 1
    \* EventViews
    EvvNames = {"n"}
    EvvSavers = {w1, w2}
    EvvTicker = tick
    EvvMaxChanges = 3
    EvvNoFile = EvvNoFile
    \* Checkouts
    CoJobs = {11, 12}
    CoNames = {1, 2}
    CoBranches = {"x", "y"}
    CoFaults = 1
    MaxWakes = 1
    MaxCoAsks = 3
    CoAsks <- MCAsks
    RepoFile <- MCRepo
    HookFile <- MCHook
    \* Pubsub
    Channels = {"c1", "c2"}
    Watched = "c1"
    Subscribers = {s1, s2}
    OutBuffer = 1
    MaxClients = 2
    Replays <- MCReplays
    MaxPublish = 2
    MaxCloses = 1
PROPERTIES
    EventsSettle
    StreamKept
    RunsKept
    ViewsSettle
    PreviewsKept
    FeedKept
CHECK_DEADLOCK FALSE
