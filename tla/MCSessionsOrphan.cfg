SPECIFICATION Spec
CONSTANTS
    Users = {u1, u2}
    Tokens = {t1, t2, t3}
    NoUser = NoUser
    NoToken = NoToken
    SessionTimeout = 1
    MaxTasks = 1
    RelockOutcomes = {"recurse"}
INVARIANTS
    LockHolderHasSession
CHECK_DEADLOCK FALSE
