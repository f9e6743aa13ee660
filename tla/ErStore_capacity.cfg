SPECIFICATION Spec
CONSTANTS
    MAX_TABLES = 2
    MAX_COLUMNS = 3
    MAX_ROWS = 2
    MAX_BATCH_ROWS = 2
    Uploads <- MC_Uploads
    Payloads <- MC_TwoRows
    NULL = NULL
INVARIANT WithinStorage
CHECK_DEADLOCK FALSE
