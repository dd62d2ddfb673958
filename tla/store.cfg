SPECIFICATION Spec
CONSTANTS
    Saver = {s1}
    Reader = {r1}
    Inode = {1, 2}
    NoInode = NoInode
    Windows = TRUE
    DurableFlush = TRUE
    CreateIfMissing = TRUE
    Faults = {"encode", "open", "write", "replace", "power"}
    MaxVersion = 2
INVARIANTS
    TypeOK
    StoreComplete
PROPERTIES
    ImplementsAtomicStore
