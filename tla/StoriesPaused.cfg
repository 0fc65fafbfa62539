CONSTANTS
    Calls = {1, 2}
    PoolSize = 2
    Tokens = 2
    Reels = {"r"}
    MaxStarts = 3
SPECIFICATION Spec
INVARIANTS
    PausedMeansEmpty
CHECK_DEADLOCK FALSE
