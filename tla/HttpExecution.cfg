SPECIFICATION FairSpec
CONSTANTS
    MaxAttempts = 2
    RedirectLimit = 2
    Policies <- MCPolicies
INVARIANTS
    TypeOK
    RepeatedOnlyIfAuthorized
    OriginRespected
    BodiesAccountedFor
    ContextsMatchUse
    FinalOutcomesAreFinal
PROPERTIES
    LateResultsRejected
    BoundedExecutionEnds
