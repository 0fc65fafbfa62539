CONSTANTS
    j1 = j1
    w1 = w1
    w2 = w2
    w3 = w3
    k1 = k1
    k2 = k2
    JobKey = JobKey
    NoOne = NoOne
    NoJob = NoJob
    Jobs = {j1}
    Owners = {w1}
    Keys = {k1}
    Lease = 2
    MaxLag = 1
    MaxPasses = 1
    MaxFaults = 1
    MaxLate = 1
SPECIFICATION Spec
INVARIANTS
    KnownFailuresAreKept
