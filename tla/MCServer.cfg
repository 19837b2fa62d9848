SPECIFICATION FairSpec
CONSTANTS
    MaxTasks = 2
    Expiration = 1
    NoTask = NoTask
INVARIANTS
    TypeOK
    NoTaskLost
    QueuedArePending
    NoTaskAbandoned
    ResponseFitsState
PROPERTIES
    RefinesTaskBoard
    TaskFinishes
    FinishedTaskReclaimed
    StopReturns
CHECK_DEADLOCK FALSE
