CONSTANTS
    Timer = {t1, t2, t3}
    SLOTS_NUM = 3
    SI = 2
    Timeouts <- MCTimeouts
SPECIFICATION FairSpec
INVARIANTS TypeOK WheelOK NeverEarly LoneTimersOnTime
PROPERTIES TickTerminates EventuallyFires
