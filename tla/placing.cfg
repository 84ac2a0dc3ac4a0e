SPECIFICATION FairSpec
CONSTANTS
    o1 = o1
    o2 = o2
    d1 = d1
    d2 = d2
    unknown = unknown
    c1 = c1
    c2 = c2
    u1 = u1
    u2 = u2
    Orders = {o1, o2}
    Drops = {d1, d2}
    Total <- Batch21
    Lines <- OppositeLines
    MaxHandlers = 2
    MaxFaults = 2
    Dishes <- Menu
    Bodies <- SomeBodies
    CancelCalls = {c1, c2}
    Calls <- SomeCalls
    MaxCents <- Cents3
    MaxCancels <- TwoCancels
    MaxTrouble = 2
INVARIANTS PlacingTypeOK OrdersAreAsked AnswersAreTrue ShelfIsExact
PROPERTIES AtomicKitchen PlacedIsDecided
CHECK_DEADLOCK FALSE
