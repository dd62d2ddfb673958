SPECIFICATION Spec
CONSTANTS
    MaxToken = 3
    MaxUnit = 1
    MaxProtocol = 2
    MaxQuantity = 2
    MaxInteger = 1
    MaxComponent = 2
    MaxComponents = 2
    MaxCardinality = 2
    MaxProtocols = 2
    MaxArity = 2
    MaxTuples = 2
    MaxFields = 2
    MaxBits = 3
    WordBits = 2
    MaxRequirementDepth = 3
    MaxRequirementNodes = 6
    MaxItems = 2
    MaxFrame = 2
    MaxRecords = 2
    EnumCodes <- MCEnumCodes
    Inputs <- MCInputs
    Claims <- MCClaims
    Comparisons <- MCComparisons
    Evaluations <- MCEvaluations
    Messages <- MCMessages
    Deliveries <- MCDeliveries
    Payloads <- MCPayloads
INVARIANTS
    DecodedRoundTrips
    AcceptedIsStorable
    SameClaimSameEncoding
    MembersWithinBounds
    DecidedStaysDecided
    
    
    PayloadLoads
CHECK_DEADLOCK FALSE
