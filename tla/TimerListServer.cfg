CONSTANTS
    Client = {c1, c2}
    TIMESLOT = 1
    MAX_UNREAD = 2
SPECIFICATION Spec
INVARIANTS ServerInv OneAlarm
PROPERTIES IdleClosed TerminateStops QueueMoves
