CONSTANTS
    Client = {1, 2, 3}
    LFD = 3
    SockFd = {4, 5}
    MAX_QUEUE = 1
SPECIFICATION EchoSpec
INVARIANTS ServerInv 
PROPERTIES SelectServes Answered EndNoticed
CHECK_DEADLOCK FALSE
