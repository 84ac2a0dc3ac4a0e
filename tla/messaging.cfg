SPECIFICATION FairSpec
CONSTANTS
    m1 = m1
    m2 = m2
    h1 = h1
    h2 = h2
    Msgs = {m1, m2}
    Handlers = {h1, h2}
    BatchSize = 2
    MaxFaults = 2
INVARIANTS MessagingInv NotLost
PROPERTIES HandledOnce HandledOrWaiting
CHECK_DEADLOCK FALSE
