\* An edit between the sweep's look at a document and its archiving.
SPECIFICATION RunbookSpec
CONSTANTS
    Editors = {ann}
    Janitors = {task}
    Keep = 1
    OnExpire = "archive"
    MaxVersions = 4
PROPERTY ExpiresOnlyIdle
CHECK_DEADLOCK FALSE
