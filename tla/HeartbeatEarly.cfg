CONSTANTS
    LISTEN_FD = 3
    Fd = {4, 5}
    OFFLINE = 2
    BEATS = 1
    MAX_CONNS = 1
SPECIFICATION Spec
INVARIANTS OfflineMeansSilent
