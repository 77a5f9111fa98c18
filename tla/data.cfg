SPECIFICATION DataSpec
CONSTANTS
    \* EventStore
    Events = {1, 2}
    LastDay = 3
    Retention = 1
    Batch = 1
    MaxFaults = 1
    MaxLogs = 2
    Rewrites = {"replace"}
    Missing = Missing
    \* EventFilter
    FlStores <- MCStores
    FlFilters <- MCFilters
    FlFunnels <- MCFunnels
    FlNow = 5
    \* EventQueries
    EvqDays = 1
    EvqMaxRows = 3
    EvqMaxFiles = 5
    EvqQueries = 2
    \* TailLog
    MaxRow = 2
    TailModes <- MCTailModes
    TailInodes = 2
    TailBatch = 2
    Rotations = {"replace", "truncate", "remove"}
    \* AppConfig
    CfNames = {"f", "g"}
    RootFiles <- MCRootFiles
    AppFiles <- MCAppFiles
    MaxLoads = 2
    \* ConfigPatch
    PatDocuments <- MCDocuments
    PatRecipes <- MCRecipes
    PatForms <- MCForms
    \* Schedule
    HourMinutes = 2
    DayHours = 4
    WeekDays = 2
    MonthDays = 3
    YearMonths = 2
    LimitDays = 8
    Zones <- MCZones
    Crons <- MCCrons
    Moments <- MCMoments
    DailyTimes <- MCDaily
    MaxFires = 4
    Word = 8
    \* SignIn
    Browsers = {b1, b2}
    Calls = {k1, k2}
    Hosts = {"hc", "h1"}
    Emails = {"e1"}
    AuthApps = {"a", "b"}
    LoginApps = {"c"}
    ConsoleHost = "hc"
    MaxChallenges = 1
    StateTTL = 1
    SessionTTL = 1
    MaxStarts = 2
    MaxRescans = 1
    MaxClock = 1
    MaxSignFaults = 1
    NoSession = NoSession
    \* PortRegistry
    Folders = {"f", "g"}
    Keys = {"k", "l"}
    FirstPort = 1
    LastPort = 3
    MaxRegFaults = 1
    MaxRegOpens = 3
    \* ConfigStore
    Absent = Absent
    NoEditor = NoEditor
    Editors = {e1, e2}
    HistoryKeep = 2
    MaxTexts = 4
    MaxOpens = 3
    MaxCfgCrashes = 1
    \* Backups
    Dbs = {1, 2}
    BakTargets = {t1}
    Window = 1
    CatalogKeep = 2
    RunKinds = {"schedule", "one"}
    MaxSecond = 3
    MaxDumps = 2
    MaxBakFaults = 1
    NoBytes = NoBytes
    Torn = Torn
INVARIANTS
    EventsKept
    CompactionSound
    OneMeaning
    SummaryMissesNone
    TailSafe
    ConfigSound
    FormWritesItsRecipe
    SignInSound
    TimersKept
    HandedOnce
    SavesSound
    DumpsKept
CHECK_DEADLOCK FALSE
