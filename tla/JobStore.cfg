CONSTANTS
    j1 = j1
    j2 = j2
    j3 = j3
    o1 = o1
    o2 = o2
    k1 = k1
    k2 = k2
    JobKey = k1
    NoOne = NoOne
    NoJob = NoJob
    Jobs = {j1, j2}
    Owners = {o1, o2}
    Keys = {k1}
    Lease = 2
    MaxLag = 1
SPECIFICATION Spec
SYMMETRY Symmetry
INVARIANTS
    TypeOK
    PayloadOutlivesWork
    SupersededNeverSent
    SupersedeAcyclic
PROPERTIES
    ReceiptsAreFinal
    ReceiptsAreFenced
    ClaimsAreFenced
    LeaseHandover
    FinishedStaysFinished
    WholeJobReceiptRetires
