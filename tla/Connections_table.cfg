SPECIFICATION FairSpec
CONSTANTS
    Descriptors = 3
    MAX_FDS = 3
    MAX_CLIENTS = 2
    MAX_ADDR_TRACK = 2
    MAX_BLOCKED_ADDR = 1
    Addrs <- MC_Addrs
    PeerAddr <- MC_PeerAddr
    MaxConns = 3
    MaxRequests = 1
    MaxDisconnects = 1
    LeaveEarly = TRUE
    AdminLeaves = TRUE
INVARIANTS TypeOK ClientTableTrue AdminVectorFits ClientCountExact
    MembersServedUnlessStruck AnswerToSenderUnlessCut
PROPERTY DeadForgotten
CHECK_DEADLOCK FALSE
