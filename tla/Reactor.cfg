CONSTANTS
    LISTEN_FD = 4
    Fd = {5, 6}
    MAX_EPOLL_EVENTS = 2
    BUFFER_LENGTH = 4096
    Sizes = {2048, 4096}
    MAX_UNREAD = 6144
    MAX_WAITING = 1
SPECIFICATION Spec
INVARIANTS RecordsInv BatchCurrent EchoExact
PROPERTIES Answered
