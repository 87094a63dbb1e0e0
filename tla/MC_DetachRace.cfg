SPECIFICATION Spec
CONSTANTS
    Main = main
    Thread = {main, c1, c2, c3}
    NoThread = none
    ReclaimRoot = TRUE
    SignalBudget = 0
    ForkBudget = 0
SYMMETRY ChildSymmetry
INVARIANT NoUseAfterFree
