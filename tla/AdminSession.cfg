SPECIFICATION FairSpec
CONSTANTS
    Admins = {a1, a2}
    admin_timeout_sec = 2
    MaxDelay = 1
    MaxAsks = 1
    MaxIdle = 6
INVARIANTS
    OpenIsAdmin
    IdleDropped
PROPERTIES
    ActiveKept
    RefusedForOther
    EveryAdminAnswered
CHECK_DEADLOCK FALSE
