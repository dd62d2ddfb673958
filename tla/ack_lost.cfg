SPECIFICATION Spec
CONSTANTS
    Worker = {w1, w2}
    NoWorker = NoWorker
    Conn = {c1, c2}
    NoConn = NoConn
    NoBoot = NoBoot
    Item = item
    NoPayload = NoPayload
    MaxConnections = 2
    Persistent = TRUE
    PersistOnMutation = TRUE
    HelloEpochs = {0}
    Faults = {}
    MaxLife = 1
    MaxSet = 2
    MaxEpoch = 2
INVARIANTS
    AckedSurvives
CHECK_DEADLOCK FALSE
