SPECIFICATION FairSpec
CONSTANTS
    MaxTasks = 1
    Expiration = 1
    NoTask = NoTask
PROPERTIES
    SignalStopsServer
CHECK_DEADLOCK FALSE
