\* Three days of two minutes pruned after one; a document of four versions that
\* keeps one; two rows of one contact, two requests and one mishap; two consents,
\* two requests and one that dies or is not answered.
SPECIFICATION RecordsSpec
CONSTANTS
    DayLength = 2
    LastDay = 2
    Retention = 1
    Pruners = {ping, command}
    Serialised = TRUE
    Windows <- MCWindows
    MaxWindows = 1
    Epochs = {1}
    Editors = {ann}
    Janitors = {task}
    Keep = 1
    OnExpire = "archive"
    MaxVersions = 4
    Contacts = {1}
    Visits = {v1, v2}
    MaxRows = 2
    MaxMishaps = 1
    Consents = {g1, g2}
    Handlers = {x, y}
    MaxLost = 1
CHECK_DEADLOCK FALSE
INVARIANTS
    NeverOvercounts
    HeadIsNewest
    MarksAreTrue
    OneWorkingKey
PROPERTIES
    PruneIsInvisible
    RecentSurvive
