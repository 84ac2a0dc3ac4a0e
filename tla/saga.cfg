SPECIFICATION Spec
CONSTANTS
    o1 = o1
    o2 = o2
    d1 = d1
    d2 = d2
    Orders = {o1}
    Drops = {d1}
    Total <- Batch2
    Qty <- OneEach
    Expiring = {o1}
    MaxCancels <- OneCancel
    MaxTimers = 2
    MayFail = TRUE
INVARIANTS IInv TypeOK AnsweredOnce StepsInOrder DeclinedMeansNoHold ChargedOnlyAfterDelivery SettledAccounts OneEnding Compensated
CHECK_DEADLOCK FALSE
