CONSTANTS
    main = main
    w2 = w2
    Main = main
    Waiters = {main, w2}
    Notifiers = {n1, n2}
    Free = Free
    Handles = {"auth", "userId", "exit"}
    WaitsFor <- TwoThreads
    MaxWaits <- ThreeAndOne
    MaxNotifies = 1
    MaxSpurious = 1
SPECIFICATION FairExample
INVARIANTS
    TypeOK
    SleeperHasEntry
    OneReturnPerNotify
    WaitedForIsThere
PROPERTIES
    WokenReturns
    SleeperIsHeard
CHECK_DEADLOCK FALSE
