SPECIFICATION FairSpec
CONSTANTS
    t1 = t1
    t2 = t2
    t3 = t3
    shared = shared
    plain = plain
    own = own
    Nobody = Nobody
    Threads = {t1, t2, t3}
    Handlers = {shared, plain, own}
    Yielding = {own}
    Flushable = {shared, own}
    Wirings <- OnlyTogether
PROPERTY
    CallsReturn
CHECK_DEADLOCK FALSE
