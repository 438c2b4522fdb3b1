CONSTANTS
    Timer = {t1, t2, t3, t4}
    NULL = NULL
    Delays <- MCDelays
    MAX_TIME = 5
SPECIFICATION Spec
INVARIANTS ListInv
PROPERTIES ImplementsQueue
