SPECIFICATION Spec
CONSTANTS
    o1 = o1
    o2 = o2
    d1 = d1
    d2 = d2
    Orders = {o1}
    Drops = {d1}
    Total <- Batch2
    Qty <- OneEach
    Expiring = {}
    MaxCancels <- OneCancel
    MaxTimers = 1
    MayFail = FALSE
INVARIANTS CancelVoidsHold
CHECK_DEADLOCK FALSE
