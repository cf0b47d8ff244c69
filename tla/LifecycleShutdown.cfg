SPECIFICATION FairSpec
CONSTANTS
    Documents <- FewDocuments
    Stray <- MCStray
    Certificates <- MCCertificates
    NoCert <- MCNoCert
    HardwareThreads = 2
    Conns = {c1}
    MaxDeploys = 1
    MaxRuns = 1
    MaxUses = 1
CHECK_DEADLOCK FALSE
PROPERTIES DestructorReturns
