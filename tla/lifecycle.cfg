SPECIFICATION FairSpec
CONSTANTS
    Worker = {w1}
    NoWorker = NoWorker
    Conn = {c1, c2}
    NoConn = NoConn
    NoBoot = NoBoot
    Item = item
    NoPayload = NoPayload
    MaxConnections = 1
    Persistent = TRUE
    PersistOnMutation = TRUE
    HelloEpochs = {0, 2}
    Faults = {"stop", "death", "save"}
    MaxLife = 1
    MaxSet = 1
    MaxEpoch = 3
INVARIANTS
    TypeOK
    
PROPERTIES
    CallsReturn
CHECK_DEADLOCK FALSE
