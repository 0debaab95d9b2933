CONSTANTS
    t1 = t1
    t2 = t2
    t3 = t3
    a = a
    b = b
    None = None
    Thread <- MCThread
    Message <- MCMessage
    Count = 2
SPECIFICATION Spec
INVARIANTS TypeOK NoStranded
PROPERTY DeliversInOrder
CHECK_DEADLOCK FALSE
