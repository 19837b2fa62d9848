SPECIFICATION Spec
CONSTANTS
    MaxTasks = 1
    Expiration = 1
    NoTask = NoTask
INVARIANTS
    ShutdownIsGraceful
CHECK_DEADLOCK FALSE
