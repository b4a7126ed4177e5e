SPECIFICATION FairSpec
CONSTANTS
    r1 = r1
    r2 = r2
    r3 = r3
    t1 = t1
    t2 = t2
    Records <- MCRecords
    Threads <- MCThreads
    NumHandlers = 2
    Wanted <- MCWanted
    Faulty <- FaultyPair
    Unformattable = {}
    Capacity = 0
    Sentinel = Sentinel
    None = None
PROPERTY StopAlwaysDrains
CHECK_DEADLOCK FALSE
