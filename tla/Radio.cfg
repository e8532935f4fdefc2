\* Three requests to transmit, two failed exchanges with the rig and one failure of
\* the server; two receivers, one survey of one band and one restart.
SPECIFICATION RadioSpec
CONSTANTS
    Requests = {r1, r2, r3}
    MaxLinkFaults = 2
    MaxDeaths = 1
    MaxProcs = 2
    MaxRestarts = 1
    SurveyBands = 1
CHECK_DEADLOCK FALSE
INVARIANTS
    KeyedWhilePlaying
    ReceiversAreKnown
PROPERTIES
    LockComesFree
    StopSilences
    OperationsEnd
