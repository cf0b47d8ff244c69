CONSTANTS
    main = main
    w2 = w2
    Main = main
    Waiters = {main}
    Notifiers = {n1}
    Free = Free
    Handles = {"auth", "userId", "exit"}
    WaitsFor <- OneThread
    MaxWaits <- ThreeAndOne
    MaxNotifies = 1
    MaxSpurious = 0
SPECIFICATION FairExample
PROPERTIES
    NotifiedWaitReturns
CHECK_DEADLOCK FALSE
