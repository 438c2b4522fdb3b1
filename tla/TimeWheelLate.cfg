CONSTANTS
    Timer = {t1, t2}
    SLOTS_NUM = 3
    SI = 2
    Timeouts <- MCTimeouts
SPECIFICATION Spec
INVARIANTS NoTimerLate
