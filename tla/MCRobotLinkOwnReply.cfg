SPECIFICATION Spec
CONSTANTS
    MaxRequests = 2
    MaxConnections = 2
    Timeout = 30000
    Shifts = {"answered twice"}
    MaxShifts = 1
INVARIANTS
    ResolvedByOwnReply
CHECK_DEADLOCK FALSE
