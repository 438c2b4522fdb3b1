CONSTANTS
    Client = {c1, c2}
    SLOTS_NUM = 2
    SI = 15000
    CLIENT_TIMEOUT = 15000
SPECIFICATION Spec
INVARIANTS ServerInv
PROPERTIES InterruptStops IdleClosed
