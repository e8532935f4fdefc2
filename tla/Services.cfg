\* One request, two users, three processes and a crash; a queue of two records,
\* three records in all and two capture windows.
SPECIFICATION ServicesSpec
CONSTANTS
    bob = bob
    Requests = {r1}
    Users = {ann, bob}
    Staff = {bob}
    NoUser = nobody
    Callers = {web, api, cron}
    Sweeper = cron
    PendingCap = 1
    LazyLimit = 1
    StaffOverride = TRUE
    SelfApprove = FALSE
    Routings <- MCRoutings
    Leavers = {bob}
    MaxCrashes = 1
    QueueSize = 2
    BatchSize = 2
    Baseline = 30
    Loggers = {"apps", "django", "db", "root"}
    ParentOf <- MCParentOf
    Configured <- MCConfigured
    CaptureLoggers = {"apps", "django"}
    Pinned <- MCPinned
    RecordLevels = {10, 30}
    MaxRecords = 3
    MaxWindows = 2
CHECK_DEADLOCK FALSE
INVARIANTS
    EffectLostOnlyByCrash
    RecordsAddUp
PROPERTIES
    GateRefined
    OverdueIsSettled
    CaptureSettles
