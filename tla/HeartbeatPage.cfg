\* The uptime page while a prune is between its two statements.
SPECIFICATION HeartbeatSpec
CONSTANTS
    DayLength = 2
    LastDay = 2
    Retention = 1
    Pruners = {ping}
    Serialised = TRUE
    Windows = {}
    MaxWindows = 0
    Epochs = {1}
INVARIANT PageIsExact
CHECK_DEADLOCK FALSE
