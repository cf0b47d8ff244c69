CONSTANTS
    c1 = c1
    c2 = c2
    Conns = {c1, c2}
    IoThreads = 1
    MaxFds = 1
    MaxRequests <- OneEach
SPECIFICATION FairSpec
PROPERTIES
    EveryConnectionAccepted
CHECK_DEADLOCK FALSE
