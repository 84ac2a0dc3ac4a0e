SPECIFICATION Spec
CONSTANTS
    o1 = o1
    o2 = o2
    Orders = {o1}
    Calls <- AnyCalls
    MaxTimers = 2
    MayFail = TRUE
INVARIANTS ParticipantsTypeOK HoldsAreApproved DeliveredWasAssigned DeliveryAnnounced
PROPERTIES HoldTakenOnce
CHECK_DEADLOCK FALSE
