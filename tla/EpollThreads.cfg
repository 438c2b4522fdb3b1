CONSTANTS
    ThreadCounts = {0, 2}
    LISTEN_FD = 3
    Fd = {4, 5, 6}
    UINT_MOD = 8
    MAX_WAITING = 2
SPECIFICATION Spec
INVARIANTS TypeOK CountExact Owned
PROPERTIES QueueMoves HungUpClosed
