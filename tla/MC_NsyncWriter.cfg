SPECIFICATION Spec
CONSTANTS
    t1 = t1
    t2 = t2
    t3 = t3
    Thread = {t1, t2, t3}
    Spare = {}
    LONG_WAIT_THRESHOLD = 1
    SemMax = 1
    Modes = {"reader", "writer"}
    CondModes = {"reader"}
    TimedModes = {}
    CallBudget = 5
INVARIANT WriterNotStranded
SYMMETRY ThreadSymmetry
CHECK_DEADLOCK FALSE
