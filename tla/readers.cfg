SPECIFICATION ReaderSpec
CONSTANTS
    Source = {1}
    Boot = {1}
    Publisher = {"p1"}
    Value = {}
    NoValue <- MCNoValue
    NoGrant = NoGrant
    NoRegistration = NoRegistration
    Entity = {"e1"}
    Capability = {"c1", "c2"}
    Scope = {"s1"}
    Attempt = {"a1", "a2", "a3"}
    Kind = {"gpu"}
    Namespace = {"ns"}
    EntityGenerations = {1, 2, 3}
    Grants <- MCGrants
    Workers <- MCWorkers
    Requests <- MCRequests
    Descriptor <- MCDescriptor
    EntityKind <- MCEntityKind
    MaxEvidence = 4
    MaxEntities = 1
    MaxCapabilities = 2
    MaxPublishers = 2
    MaxScopes = 2
    MaxFences = 0
    MaxReplay = 1
    MaxHistory = 2
    MaxRegistryGeneration = 3
    MaxCapabilityGeneration = 6
    MaxEpoch = 1
    SnapshotScopes <- MCScopes
    Requirements <- MCRequirements
    Valid <- MCValidRequirement
    LeavesRead <- MCLeavesRead
    OutcomeOf <- MCOutcome
    MaxRequirementDepth = 3
    MaxRequirementNodes = 8
    NoSnapshot = NoSnapshot
    NoCall = NoCall
    NoSet = NoSet
INVARIANTS
    CurrentSnapshotHidesOnlyRevival
    BoundAnswerIsNotOlder
    QuietEvaluationIsAtomic
    RetiredHasTheLastWord
