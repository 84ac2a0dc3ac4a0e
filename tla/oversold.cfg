SPECIFICATION Spec
CONSTANTS
    o1 = o1
    o2 = o2
    d1 = d1
    d2 = d2
    Orders = {o1, o2}
    Drops = {d1}
    Total <- Batch1
    Qty <- OneEach
    Expiring = {o1, o2}
    MaxCancels <- NoCancels
    MaxTimers = 1
    MayFail = FALSE
INVARIANTS NeverOversold
CHECK_DEADLOCK FALSE
