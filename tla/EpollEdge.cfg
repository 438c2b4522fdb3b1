CONSTANTS
    LISTEN_FD = 3
    Fd = {4, 5}
    MAX_UNREAD = 2
    MAX_WAITING = 2
SPECIFICATION Spec
INVARIANTS EventsInv NoLostEdge
PROPERTIES Drained QueueServed
