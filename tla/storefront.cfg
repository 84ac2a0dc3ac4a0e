SPECIFICATION Spec
CONSTANTS
    o1 = o1
    t1 = t1
    c1 = c1
    r1 = r1
    r2 = r2
    r3 = r3
    Orders = {o1}
    Watched = {"COMPLETED"}
    Business = {"OrderCompleted"}
    Tickets = {t1}
    Clients = {c1}
    LeftBehind = {"CANCELLED", "DELIVERED"}
    Requests = {r1, r2, r3}
    RatedOrder <- AllRateFirst
    Entitled = {r1, r2}
    MaxFaults = 1
INVARIANTS StorefrontInv RatedIsCompleted OneWinner
PROPERTIES TrackerMayRate EveryoneNotified TrackersAreTold
CHECK_DEADLOCK FALSE
