SPECIFICATION FairSpec
CONSTANTS
    MaxName = 3
    Clients = {full, plain, nil}
    NilClient = nil
    Checkers = {full}
    Closers = {full, nil}
    Reports <- MCReports
    Callers = {c1, c2}
    Readers = {r1}
    MaxBatch = 2
    Sanitizer = "custom"
    Nobody = nobody
    NoEntry = noEntry
INVARIANTS
    TypeOK
    ProjectionsAgree
    EveryCloserAsked
    BlockingClientsChecked
PROPERTIES
    MembershipSpec
    RegistrationReturns
