SPECIFICATION Spec
CONSTANTS
    Calls = {k1, k2}
    NumClients = 1
    MaxConcurrent = 2
    Directs = {d1}
    Readers = {r1}
    MaxTime = 3
SYMMETRY Interchangeable
INVARIANTS
    NewestFailureStands
    RejectedResultHidden
    SnapshotOmitsRejected
