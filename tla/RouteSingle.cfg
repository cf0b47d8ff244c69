CONSTANTS
    IoThreads = {t1}
    Requests = {r1, r2}
    NoRequest = NoRequest
    Paths = {"/a"}
    Priorities = {1, 2}
    MaxAdds = 2
    LateRoutes = FALSE

SPECIFICATION Spec
INVARIANTS
    TypeOK
    AnswersAreOwn
    LookupPrecedence
    EndedBodySent
PROPERTIES
    EndIsFinal
    ImplementsPromise

CHECK_DEADLOCK FALSE
