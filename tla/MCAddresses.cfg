CONSTANTS
    Backend = "b"
    Kinds <- TwoKinds
    Configs <- TwoConfigs
    TempLists <- OneTemp
    Modes <- ThreeModes
    Endpoints <- SomeEndpoints
    Retries <- OneRetry
    MaxTroubles = 2
SPECIFICATION Spec
INVARIANTS
    TypeOK
PROPERTIES
    ConfigKeepsEndpoint
    GetsThrough
CHECK_DEADLOCK FALSE
