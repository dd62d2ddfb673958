SPECIFICATION Spec
CONSTANTS
    Worker = {w1}
    NoWorker = NoWorker
    Conn = {c1, c2}
    NoConn = NoConn
    NoBoot = NoBoot
    Item = item
    NoPayload = NoPayload
    MaxConnections = 1
    Persistent = TRUE
    PersistOnMutation = TRUE
    HelloEpochs = {0, 2}
    Faults = {"crash", "death"}
    MaxLife = 2
    MaxSet = 2
    MaxEpoch = 3
INVARIANTS
    AckedSurvives
    EarlierWorkersLockedOut
CHECK_DEADLOCK FALSE
