CONSTANTS
    d1 = d1
    old = old
    new = new
    None = None
    Downloads = {d1}
    Transforms = {d1}
    Processes = {old, new}
    Home <- MCHome
    Disk = 3
    MaxBytes = 1
    Ttl = 2
    Deadline = 2
    RenewEvery = 1
    MaxAge = 2
    MaxCrashes = 1
SPECIFICATION Spec
INVARIANTS
    FilesStay
    BudgetHolds
