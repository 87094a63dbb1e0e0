SPECIFICATION FairSpec
CONSTANTS
    Thread = {a, b}
    Main = a
    Type = "recursive"
    MaxDepth = 1
    TidReused = FALSE
    Forks = FALSE
    Vforks = "unlock"
    CallBudget = 4
PROPERTY VforkUnlockDoesNothing
