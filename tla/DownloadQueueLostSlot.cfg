CONSTANTS
    t1 = t1
    t2 = t2
    t3 = t3
    t4 = t4
    Free = Free
    Tasks = {t1, t2, t3}
    Slots = 1
    MaxQueue = 1
SPECIFICATION Spec
INVARIANTS
    NoSlotLost
CHECK_DEADLOCK FALSE
