SPECIFICATION FairSpec
CONSTANTS
    Calls = {k1, k2}
    NumClients = 2
    MaxConcurrent = 1
    Directs = {}
    Readers = {}
    MaxTime = 1
INVARIANTS
    TypeOK
    TokensConserved
    SerializedThroughPublication
    CompleteSummaryIsComplete
PROPERTIES
    AdmissionSpec
    EveryCheckAllReturns
    CanceledCallReturns
