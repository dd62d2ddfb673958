SPECIFICATION FairSpec
CONSTANTS
    Worker = {w1, w2}
    NoWorker = NoWorker
    Conn = {c1, c2}
    NoConn = NoConn
    NoBoot = NoBoot
    Item = item
    NoPayload = NoPayload
    MaxConnections = 2
    Persistent = FALSE
    PersistOnMutation = FALSE
    HelloEpochs = {0}
    Faults = {"death"}
    MaxLife = 1
    MaxSet = 2
    MaxEpoch = 2
INVARIANTS
    SpeakersAreServed
    ScopesAreServed
PROPERTIES
    LostConnectionIsFenced
CHECK_DEADLOCK FALSE
