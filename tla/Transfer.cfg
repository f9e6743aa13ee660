SPECIFICATION FairSpec
CONSTANTS
    c1 = c1
    c2 = c2
    Clients = {c1, c2}
    Files = {"er", "hr", "bad"}
    Schemas = {"er", "hr"}
    Broken = {"bad"}
    Local <- MCLocal
    Chunks <- MCChunks
    Commands <- MCCommands
    SqlChunks = 1
    MaxCommands <- MCMaxCommands
    MaxFaults <- MCMaxFaults
INVARIANTS
    InSync
    
PROPERTIES
    
    CommandReturns
CHECK_DEADLOCK FALSE
