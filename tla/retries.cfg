SPECIFICATION SpecInMemory
CONSTANTS
    Source = {1, 2}
    Boot = {1, 2}
    Publisher = {"p1", "p2"}
    Value = {}
    NoValue = NoValue
    NoGrant = NoGrant
    NoRegistration = NoRegistration
    Entity = {"e1"}
    Capability = {"c1"}
    Scope = {"s1", "s2"}
    Attempt = {"a1", "a2", "a3", "a4"}
    Kind = {"gpu"}
    Namespace = {"ns"}
    EntityGenerations = {1, 2}
    Grants <- OneGrant
    Workers <- OneWorker
    Requests <- RetryRequests
    Descriptor <- MCDescriptor
    EntityKind <- MCEntityKind
    MaxEvidence = 4
    MaxEntities = 1
    MaxCapabilities = 2
    MaxPublishers = 2
    MaxScopes = 2
    MaxFences = 2
    MaxReplay = 1
    MaxHistory = 1
    MaxRegistryGeneration = 4
    MaxCapabilityGeneration = 6
    MaxEpoch = 2
INVARIANTS
    EvidenceKeyUnique
PROPERTIES
    AppliedAtMostOnce
    ReplayIsInert
