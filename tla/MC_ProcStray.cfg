CONSTANTS
    t1 = t1
    t2 = t2
    Caller = {t1, t2}
    NoOne = NoOne
    SigchldIgnored = {FALSE}
    Slots = 2
    PoolSize = 1
    Calls = {}
    MaxHandle = 3
    CallBudget = 2
    InterruptBudget = 0
SPECIFICATION MCSpec
CHECK_DEADLOCK FALSE
INVARIANT ReportsWanted
