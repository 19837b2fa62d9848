SPECIFICATION FairSpec
CONSTANTS
    Users = {u1, u2}
    Tokens = {t1, t2, t3}
    NoUser = NoUser
    NoToken = NoToken
    SessionTimeout = 1
    MaxTasks = 1
    RelockOutcomes = {"hang", "recurse"}
INVARIANTS
    TypeOK
    OneSessionPerUser
PROPERTIES
    AcceptedUnderLock
    LockOrphanedOnlyByAcquire
    SilentHolderExpires
CHECK_DEADLOCK FALSE
