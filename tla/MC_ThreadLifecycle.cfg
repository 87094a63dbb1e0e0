SPECIFICATION FairSpec
CONSTANTS
    Main = main
    Thread = {main, c1, c2}
    NoThread = none
    ReclaimRoot = FALSE
    SignalBudget = 1
    ForkBudget = 1
INVARIANTS NoUseAfterFree FreeAssertion LastSurvivor NoLostDetach NoLeak Invariants
 
