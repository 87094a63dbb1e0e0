CONSTANTS
    t1 = t1
    t2 = t2
    Caller = {t1, t2}
    NoOne = NoOne
    SigchldIgnored = {FALSE, TRUE}
    Slots = 2
    PoolSize = 1
    Calls = {"nohang", "kill", "failure"}
    MaxHandle = 3
    CallBudget = 2
    InterruptBudget = 1
SPECIFICATION MCSpec
CHECK_DEADLOCK FALSE
INVARIANTS OnePlace WaitersExact HandlesOwned ReportedOnce EventMatches
PROPERTIES ExitNoticed WaitReturns
