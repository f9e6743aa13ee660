\* "last" for every client, though the ids outgrow last_job_by_client.
SPECIFICATION Spec
CONSTANTS
    MAX_JOBS = 2
    MAX_CLIENTS = 1
    LAST_TABLE = 2
    MaxConnected = 2
    MaxClients = 2
    MaxRequests = 2
    MaxCancels = 0
    LeaveEarly = FALSE
INVARIANT LastResolves
CHECK_DEADLOCK FALSE
