\* An earlier receiver's pump ends late.
SPECIFICATION ReceiverSpec
CONSTANTS
    MaxProcs = 2
    MaxRestarts = 0
    SurveyBands = 1
INVARIANT SilentStartFails
CHECK_DEADLOCK FALSE
