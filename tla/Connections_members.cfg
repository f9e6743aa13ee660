SPECIFICATION Spec
CONSTANTS
    Descriptors = 3
    MAX_FDS = 3
    MAX_CLIENTS = 2
    MAX_ADDR_TRACK = 2
    MAX_BLOCKED_ADDR = 0
    Addrs <- MC_Addrs
    PeerAddr <- MC_PeerAddr
    MaxConns = 3
    MaxRequests = 1
    MaxDisconnects = 0
    LeaveEarly = FALSE
    AdminLeaves = TRUE
INVARIANT MembersServed
CHECK_DEADLOCK FALSE
