\* One server at a time.
SPECIFICATION SyncSpec
CONSTANTS
    Absent = Absent
    Jobs = {a, b}
    CodeCadences = {c1, c2}
    Servers = {p}
    MaxDeploys = 2
    MaxEdits = 2
INVARIANT HandOffStays
