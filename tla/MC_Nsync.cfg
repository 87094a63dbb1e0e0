SPECIFICATION MCSpec
CONSTANTS
    t1 = t1
    t2 = t2
    t3 = t3
    s1 = s1
    s2 = s2
    Thread = {t1, t2, t3}
    Spare = {s1, s2}
    LONG_WAIT_THRESHOLD = 1
    SemMax = 1
    Modes = {"reader", "writer"}
    CondModes = {"reader", "writer"}
    TimedModes = {"reader", "writer"}
    CallBudget = 5
INVARIANTS WokenHasToken WordTellsHolders CvOneList ConditionMarked WakerExists AllFalseTrue SignalNotLost CvStrandsNobody CondStrandsNoWriter
SYMMETRY ThreadSymmetry
CHECK_DEADLOCK FALSE
VIEW MCView
