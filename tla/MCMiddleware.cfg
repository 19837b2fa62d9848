SPECIFICATION FairSpec
CONSTANTS
    MaxTasks = 2
    Expiration = 1
    NoTask = NoTask
    Users = {u1, u2}
    Tokens = {s1, s2}
    NoUser = NoUser
    NoToken = NoToken
    SessionTimeout = 0
    RelockOutcomes = {"recurse"}
INVARIANTS
    TypeOK
PROPERTIES
    ImplementsSessions
    ResultKeptForHolder
    PollingEnds
CHECK_DEADLOCK FALSE
