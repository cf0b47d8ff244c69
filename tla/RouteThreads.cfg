CONSTANTS
    IoThreads = {t1, t2}
    Requests = {r1, r2}
    NoRequest = NoRequest
    Paths = {"/a"}
    Priorities = {1}
    MaxAdds = 2
    LateRoutes = TRUE
SPECIFICATION FairSpec
INVARIANTS
    EmptyOkOnlyInWindow
    CrossTalkConfined
    CombinerHasResponse
PROPERTIES
    Answered
CHECK_DEADLOCK FALSE
