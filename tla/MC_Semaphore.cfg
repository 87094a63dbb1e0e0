SPECIFICATION FairSpec
CONSTANTS
    Thread = {a, b, c}
    Initial = {0, 1}
    IntMax = 5
    Polling = {FALSE, TRUE}
    Spins = 1
    Cancelable = {a}
    CallBudget = 3
INVARIANTS TokenConservation WaitersExact NoLostWakeup OnlyInvalidRefused
PROPERTIES Implements TokenTaken
