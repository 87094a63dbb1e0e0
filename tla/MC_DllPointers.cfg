SPECIFICATION Spec
CONSTANTS
    Node = {n1, n2, n3, n4}
    List = {l1, l2}
    Null = Null
INVARIANTS BackwardIsReverse AloneIsUnlisted
PROPERTY EachOperation
