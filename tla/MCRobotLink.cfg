SPECIFICATION FairSpec
CONSTANTS
    MaxRequests = 2
    MaxConnections = 2
    Timeout = 30000
    Shifts = {"answered twice", "reply cut", "request cut"}
    MaxShifts = 1
INVARIANTS
    TypeOK
    ExecutedOnceInOrder
    ReplyBelongsToRequest
    CompletedWasExecuted
    CompletedIsOver
    ConnectedHasSocket
PROPERTIES
    EveryRequestJudged
    DeadLinkNoticed
    StopReturns
CHECK_DEADLOCK FALSE
