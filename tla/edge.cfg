SPECIFICATION EdgeSpec
CONSTANTS
    \* Traffic
    Reqs = {q1, q2}
    Ports = {p1, p2}
    Upstreams = {u1, u2, u3}
    None = None
    \* Gateway
    GwRequests <- MCRequests
    GwApps <- MCApps
    Cloudflare = TRUE
    \* Notices
    NtApps = {"", "a"}
    NtTypes = {"crash"}
    NtEnabled = {"crash", "error-rate", "disk-low"}
    QueueLimit = 1
    MinInterval = 2
    AlertRate = 10
    AlertSlow = 5
    MinRequests = 20
    DiskLimit = 90
    MaxNtClock = 2
    MaxNotices = 3
    MaxTicks = 1
    Windows <- MCWindows
    Disks <- MCDisks
    \* LogStore
    RowIds = {a1, a2, a3, a4}
    QueueSize = 2
    FlushAt = 2
    MaxBuffered = 1
    MaxFailures = 2
    \* Exceptions
    Uids = {"x"}
    Times = {1, 2, 3}
    PerMinute = 2
    Dumps = {"", "d"}
    Users = {"", "u", "v"}
    MaxValues = 1
    MaxOccurred = 3
INVARIANTS
    CountersExact
    Walled
    NoticesKept
    AcceptedOnce
    GroupsExact
PROPERTIES
    OldCopyOnlyDrains
    RollCutsNothing
    IdleSparesOld
SYMMETRY Symmetric
CHECK_DEADLOCK FALSE
