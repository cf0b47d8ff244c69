SPECIFICATION Spec
CONSTANTS
    Names <- NamesDef
    Inputs <- InputsDef
    MaxAges <- MaxAgesDef
    Summer <- SummerDef
    Hour = 2
    IntSize = 8
    MaxNow = 8
    MaxSteps = 4
CHECK_DEADLOCK FALSE
INVARIANTS WrittenIsRead ExpiryMovesByTimeKept
