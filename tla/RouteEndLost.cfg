CONSTANTS
    IoThreads = {t1, t2}
    Requests = {r1, r2}
    NoRequest = NoRequest
    Paths = {"/a"}
    Priorities = {1, 2}
    MaxAdds = 1
    LateRoutes = FALSE

SPECIFICATION Spec
INVARIANTS
    EndedBodySent

CHECK_DEADLOCK FALSE
