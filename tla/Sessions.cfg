CONSTANTS
    c1 = c1
    c2 = c2
    Conns = {c1, c2}
    IoThreads = 1
    MaxFds = 2
    MaxRequests <- OnePipelines
SPECIFICATION FairSpec
INVARIANTS
    TypeOK
    RepliesInOrder
    SocketOpenWhileUsed
PROPERTIES
    ReadIsAnswered
    ImplementsSession
    EveryConnectionAccepted
CHECK_DEADLOCK FALSE
