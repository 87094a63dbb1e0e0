SPECIFICATION FairSpec
CONSTANTS
    Thread = {a, b, c}
    Main = a
    Type = "recursive"
    MaxDepth = 1
    TidReused = TRUE
    Forks = TRUE
    Vforks = "lock"
    CallBudget = 5
INVARIANTS TypeOK MutualExclusion FieldsTellHolder NoSelfDeadlock
PROPERTIES InheritedStaysLocked WaiterAcquires
