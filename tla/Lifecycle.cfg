SPECIFICATION FairSpec
CONSTANTS
    Documents <- MCDocuments
    Stray <- MCStray
    Certificates <- MCCertificates
    NoCert <- MCNoCert
    HardwareThreads = 2
    Conns = {c1, c2}
    MaxDeploys = 2
    MaxRuns = 2
    MaxUses = 2
CHECK_DEADLOCK FALSE
INVARIANTS TypeOK ListensAsConfigured EstablishedHasPair ReadyMeansInstalled DestroyedNeverListened
PROPERTIES FailedServerIsDestroyed
