SPECIFICATION FairSpec
CONSTANTS
    o1 = o1
    o2 = o2
    d1 = d1
    d2 = d2
    Orders = {o1, o2}
    Drops = {d1, d2}
    Total <- Batch21
    Qty <- OneEach
    Expiring = {}
    MaxCancels <- CancelSecond
    MaxTimers = 1
    MayFail = FALSE
INVARIANTS InventoryExact RejectedHoldsNothing
PROPERTIES FollowsLifecycle
CHECK_DEADLOCK FALSE
