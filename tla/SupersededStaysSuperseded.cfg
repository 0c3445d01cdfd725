SPECIFICATION Spec
CONSTANTS
    Calls = {k1, k2}
    NumClients = 1
    MaxConcurrent = 2
    Directs = {d1, d2}
    Readers = {}
    MaxTime = 3
PROPERTY SupersededStaysSuperseded
