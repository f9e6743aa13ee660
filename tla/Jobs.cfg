\* A ring of two slots that early leavers and early answers of downloads
\* overflow, a full client table, an id beyond last_job_by_client, and two
\* cancellations racing with the worker.
SPECIFICATION Spec
CONSTANTS
    MAX_JOBS = 2
    MAX_CLIENTS = 1
    LAST_TABLE = 3
    MaxConnected = 2
    MaxClients = 3
    MaxRequests = 3
    MaxCancels = 2
    LeaveEarly = TRUE
INVARIANTS TypeOK RingHoldsOutstanding AnsweredJobIsFinal LastResolvesInTable
           CancelAtMostOnce StatisticsMatchAnswers
PROPERTIES CancelHonoured EveryRequestAnswered
CHECK_DEADLOCK FALSE
