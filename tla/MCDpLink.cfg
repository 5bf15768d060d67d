SPECIFICATION FairSpec
CONSTANTS
    Mode <- MCMode
    Monitor <- MCMonitor
    Source <- MCSource
    MaxEvents = 1
    MaxCommits = 2
INVARIANTS
    ScanoutCovered
    LiveAdmitted
PROPERTIES
    SetterStopsAtHotplug
    TransactionEnds
CHECK_DEADLOCK FALSE
