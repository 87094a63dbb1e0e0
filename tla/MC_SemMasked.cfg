SPECIFICATION Spec
CONSTANTS
    Thread = {a, b}
    Initial = {0}
    IntMax = 5
    Polling = {TRUE}
    Spins = 1
    Cancelable = {a}
    CallBudget = 2
INVARIANT MaskedCancelHandled
