SPECIFICATION FairSpec
CONSTANTS
    r1 = r1
    r2 = r2
    r3 = r3
    t1 = t1
    t2 = t2
    Records <- MCRecords
    Threads <- MCThreads
    NumHandlers = 2
    Wanted <- MCWanted
    Faulty <- FaultyPair
    Unformattable = {r3}
    Capacity = 2
    Sentinel = Sentinel
    None = None
INVARIANTS
    EveryTakenRecordDelivered
    UnfinishedCounts
    DeliveredInOrder
PROPERTIES
    StopDrains
    StopReturns
CHECK_DEADLOCK FALSE
