SPECIFICATION FairSpec
CONSTANTS
    Writers = {"worker"}
    HeaderUnits = 2
    Sizes = {0, 2, 3}
    SQLCG_MAX_PAYLOAD = 2
    SocketBuffer = 3
    MaxMessages = 4
PROPERTIES
    ImplementsChannel
    SendReturns
CHECK_DEADLOCK FALSE
