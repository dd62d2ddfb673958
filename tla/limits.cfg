SPECIFICATION SpecInMemory
CONSTANTS
    Source = {1, 2}
    Boot = {1, 2}
    Publisher = {"p1", "p2"}
    Value = {}
    NoValue = NoValue
    NoGrant = NoGrant
    NoRegistration = NoRegistration
    Entity = {"e1", "e2"}
    Capability = {"c1", "c2"}
    Scope = {"s1", "s2"}
    Attempt = {"a1", "a2", "a3", "a4"}
    Kind = {"gpu"}
    Namespace = {"ns"}
    EntityGenerations = {1}
    Grants <- MCGrants
    Workers <- MCWorkers
    Requests <- LimitRequests
    Descriptor <- MCDescriptor
    EntityKind <- MCEntityKind
    MaxEvidence = 1
    MaxEntities = 1
    MaxCapabilities = 1
    MaxPublishers = 1
    MaxScopes = 2
    MaxFences = 1
    MaxReplay = 2
    MaxHistory = 1
    MaxRegistryGeneration = 4
    MaxCapabilityGeneration = 6
    MaxEpoch = 2
INVARIANTS
    EvidenceBounded
    IndexExact
