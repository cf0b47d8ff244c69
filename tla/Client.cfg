SPECIFICATION Spec
CONSTANTS
    QueryMaps <- MCQueryMaps
    Texts <- MCTexts
    MaxEnds = 2
    MaxSets = 2
CHECK_DEADLOCK FALSE
INVARIANTS TypeOK HandlersHearQuery TargetIsPrintable MapDecodesText ViewIsAlive
