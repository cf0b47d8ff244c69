SPECIFICATION SpecFiles
CONSTANTS
    MaxCerts = 3
    MaxSigns = 2
CONSTRAINT FewOfBoth
CHECK_DEADLOCK FALSE
INVARIANTS PointersAreValid KeysFreedUnlessReferred ServerIsSigned LoadedPairFits
PROPERTIES FailureChangesNothing
